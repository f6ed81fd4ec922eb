--------------------------- MODULE BusErrSbProofs ---------------------------
(***************************************************************************)
(* The balance of data-side errs and NMIs, the freshness of the count of   *)
(* late retirements and what the err queue holds, for every address space, *)
(* every set of retirements and every number of transfers.                 *)
(***************************************************************************)
EXTENDS BusErrSb, NaturalsInduction, WellFoundedInduction, TLAPS

(* The counters that the argument is about are natural numbers. *)
CountType ==
    /\ cnt_obid_firsterr \in Nat /\ cnt_rvfi_nmihandl \in Nat
    /\ late_retires \in Nat /\ owed_retires \in Nat
    /\ pending_nmi \in BOOLEAN

(***************************************************************************)
(* IInv: the late count of an NMI that has been taken is zero, which is    *)
(* why the next first err starts from a fresh count.                       *)
(***************************************************************************)
IInv ==
    /\ CountType
    /\ NmisBalance
    /\ ~pending_nmi => late_retires = 0
    /\ LateNmiReported

(* Nothing has been counted at the start. *)
LEMMA InitIInv == Init => IInv
<1> SUFFICES ASSUME Init PROVE IInv
    OBVIOUS
<1>1. CountType
    BY DEF Init, CountType
<1>2. NmisBalance
    <2>1. cnt_obid_firsterr = 0 /\ cnt_rvfi_nmihandl = 0 /\ ~pending_nmi /\ errors = {}
        BY DEF Init
    <2> QED
        BY <2>1 DEF NmisBalance
<1>3. late_retires = 0 /\ ~pending_nmi
    BY DEF Init
<1> QED
    BY <1>1, <1>2, <1>3 DEF IInv, LateNmiReported

(* A data-side transfer: only a first err counts, and it starts afresh. *)
LEMMA ObidStep ==
    ASSUME IInv, NEW err \in BOOLEAN, write_obid(err)
    PROVE  IInv'
<1>1. CountType'
    BY DEF IInv, CountType, write_obid, rvfiVars
<1>2. NmisBalance'
    BY DEF IInv, CountType, NmisBalance, write_obid, rvfiVars
<1>3. (~pending_nmi => late_retires = 0)'
    BY DEF IInv, write_obid, rvfiVars
<1>4. LateNmiReported'
    BY SbAssumption DEF IInv, CountType, LateNmiReported, write_obid, rvfiVars
<1> QED
    BY <1>1, <1>2, <1>3, <1>4 DEF IInv

(* A fetch touches none of the counts. *)
LEMMA ObiiStep ==
    ASSUME IInv, NEW a \in Address, NEW err \in BOOLEAN, write_obii(a, err)
    PROVE  IInv'
BY DEF IInv, CountType, NmisBalance, LateNmiReported, write_obii, obidVars, rvfiVars

(* A retirement: it enters the NMI handler, or it is counted, or neither.  *)
LEMMA RvfiStep ==
    ASSUME IInv, NEW r \in RetirementType, write_rvfi(r)
    PROVE  IInv'
<1> DEFINE pending == pending_nmi /\ ~r.nmi
<1>0. /\ r.nmi \in BOOLEAN /\ r.dbg_mode \in BOOLEAN /\ r.step \in BOOLEAN
    BY DEF RetirementType
<1>1. /\ pending_nmi' = pending
      /\ late_retires' = LateAfter(r, pending)
      /\ owed_retires' = owed_retires + (IF r.dbg_mode \/ r.step THEN 0 ELSE 1)
      /\ cnt_rvfi_nmihandl' = cnt_rvfi_nmihandl + (IF r.nmi THEN 1 ELSE 0)
      /\ cnt_obid_firsterr' = cnt_obid_firsterr
    BY DEF write_rvfi, obidVars
<1>2. /\ errors \subseteq errors'
      /\ r.nmi /\ ~pending_nmi => "nmi_without_err" \in errors'
      /\ "nmi_count" \in errors' =>
            "nmi_count" \in errors \/ (r.nmi /\ cnt_obid_firsterr # cnt_rvfi_nmihandl')
      /\ "nmi_balance" \in errors' => "nmi_balance" \in errors
      /\ pending /\ late_retires' > late_retires /\ late_retires' > LATE_LIMIT + 1
            => "late_nmi" \in errors'
    BY DEF write_rvfi
<1>3. CountType'
    BY <1>0, <1>1 DEF IInv, CountType, LateAfter
<1>4. NmisBalance'
    <2> SUFFICES ASSUME "nmi_without_err" \notin errors'
                 PROVE  /\ (cnt_obid_firsterr = cnt_rvfi_nmihandl
                                 + (IF pending_nmi THEN 1 ELSE 0))'
                        /\ "nmi_count" \notin errors' /\ "nmi_balance" \notin errors'
        BY DEF NmisBalance
    <2>1. /\ "nmi_without_err" \notin errors
          /\ r.nmi => pending_nmi
        BY <1>2
    <2>2. /\ cnt_obid_firsterr = cnt_rvfi_nmihandl + (IF pending_nmi THEN 1 ELSE 0)
          /\ "nmi_count" \notin errors /\ "nmi_balance" \notin errors
        BY <2>1 DEF IInv, NmisBalance
    <2>3. CASE r.nmi
        <3>1. pending_nmi /\ ~pending_nmi'
            BY <1>1, <2>1, <2>3
        <3>2. cnt_obid_firsterr = cnt_rvfi_nmihandl + 1
            BY <2>2, <3>1
        <3>3. cnt_rvfi_nmihandl' = cnt_rvfi_nmihandl + 1
            BY <1>1, <2>3
        <3> QED
            BY <1>1, <1>2, <2>2, <3>1, <3>2, <3>3 DEF IInv, CountType
    <2>4. CASE ~r.nmi
        <3>1. pending_nmi' = pending_nmi
            BY <1>1, <2>4 DEF IInv, CountType
        <3>2. cnt_rvfi_nmihandl' = cnt_rvfi_nmihandl
            BY <1>1, <2>4 DEF IInv, CountType
        <3> QED
            BY <1>1, <1>2, <2>2, <2>4, <3>1, <3>2
    <2> QED
        BY <2>3, <2>4
<1>5. (~pending_nmi => late_retires = 0)'
    BY <1>0, <1>1 DEF LateAfter
<1>6. LateNmiReported'
    <2> SUFFICES ASSUME pending_nmi'
                 PROVE  /\ late_retires' = owed_retires'
                        /\ owed_retires' > LATE_LIMIT + 1 => "late_nmi" \in errors'
        BY DEF LateNmiReported
    <2>1. pending /\ pending_nmi
        BY <1>1
    <2>2. /\ late_retires = owed_retires
          /\ owed_retires > LATE_LIMIT + 1 => "late_nmi" \in errors
        BY <2>1 DEF IInv, LateNmiReported
    <2>3. CASE r.dbg_mode \/ r.step
        <3>1. late_retires' = late_retires /\ owed_retires' = owed_retires + 0
            BY <1>0, <1>1, <2>1, <2>3 DEF LateAfter
        <3> QED
            BY <1>2, <2>2, <3>1 DEF IInv, CountType
    <2>4. CASE ~(r.dbg_mode \/ r.step)
        <3>1. late_retires' = late_retires + 1 /\ owed_retires' = owed_retires + 1
            BY <1>0, <1>1, <2>1, <2>4 DEF LateAfter
        <3>2. late_retires' > late_retires
            BY <3>1 DEF IInv, CountType
        <3> QED
            BY <1>2, <2>1, <2>2, <3>1, <3>2
    <2> QED
        BY <2>3, <2>4
<1> QED
    BY <1>3, <1>4, <1>5, <1>6 DEF IInv

(* check_phase only reports, and the balance it checks holds already. *)
LEMMA CheckStep ==
    ASSUME IInv, check_phase
    PROVE  IInv'
<1>1. UNCHANGED <<cnt_obid_firsterr, cnt_rvfi_nmihandl, late_retires, owed_retires,
                  pending_nmi>>
    BY DEF check_phase, obidVars, rvfiVars
<1>2. /\ errors \subseteq errors'
      /\ "nmi_without_err" \in errors' => "nmi_without_err" \in errors
      /\ "nmi_count" \in errors' => "nmi_count" \in errors
      /\ "nmi_balance" \in errors' =>
            \/ "nmi_balance" \in errors
            \/ cnt_obid_firsterr \notin {cnt_rvfi_nmihandl, cnt_rvfi_nmihandl + 1}
    BY DEF check_phase
<1> QED
    BY <1>1, <1>2 DEF IInv, CountType, NmisBalance, LateNmiReported

(* IInv is an invariant of the scoreboard. *)
THEOREM Invariance == Spec => []IInv
<1>1. ASSUME IInv, [Next]_vars PROVE IInv'
    <2>1. CASE DataTransfer
        BY <1>1, <2>1, ObidStep DEF DataTransfer
    <2>2. CASE Fetch
        BY <1>1, <2>2, ObiiStep DEF Fetch
    <2>3. CASE Retire
        BY <1>1, <2>3, RvfiStep, SbAssumption DEF Retire
    <2>4. CASE check_phase
        BY <1>1, <2>4, CheckStep
    <2>5. CASE UNCHANGED vars
        BY <1>1, <2>5 DEF vars, obidVars, rvfiVars, IInv, CountType, NmisBalance,
                          LateNmiReported
    <2> QED
        BY <1>1, <2>1, <2>2, <2>3, <2>4, <2>5 DEF Next
<1> QED
    BY <1>1, InitIInv, PTL DEF Spec

(* NMI handler entries and first errs balance unless an unexpected NMI has *)
(* been reported: the two count checks are redundant.                      *)
THEOREM NmisAlwaysBalance == Spec => []NmisBalance
<1>1. IInv => NmisBalance
    BY DEF IInv
<1> QED
    BY <1>1, Invariance, PTL

(* The late count never carries over from one NMI to the next, and a late  *)
(* NMI is always reported.                                                 *)
THEOREM LateNmisReported == Spec => []LateNmiReported
<1>1. IInv => LateNmiReported
    BY DEF IInv
<1> QED
    BY <1>1, Invariance, PTL

-----------------------------------------------------------------------------
(* The queues. *)

(* A set of numbers that is not empty has a least one. *)
LEMMA LeastExists ==
    ASSUME NEW T, T \subseteq Nat, T # {}
    PROVE  \E x \in T : \A y \in T : x <= y
<1> DEFINE R == {ss \in Nat \X Nat : ss[1] < ss[2]}
<1>1. IsWellFoundedOn(R, Nat)
    BY NatLessThanWellFounded DEF OpToRel
<1> HIDE DEF R
<1>2. PICK x \in T : \A y \in T : ~(<<y, x>> \in R)
    BY <1>1, WFMin
<1>3. \A y \in T : ~(y < x)
    BY <1>2 DEF R
<1> QED
    BY <1>2, <1>3

(* Deleting the i-th entry of a queue moves the later ones up. *)
LEMMA DeleteAt ==
    ASSUME NEW S, NEW q \in Seq(S), NEW i \in 1 .. Len(q)
    PROVE  /\ RemoveAt(q, i) \in Seq(S)
           /\ Len(RemoveAt(q, i)) = Len(q) - 1
           /\ \A j \in 1 .. Len(q) - 1 :
                 RemoveAt(q, i)[j] = IF j < i THEN q[j] ELSE q[j + 1]
<1> DEFINE f == SubSeq(q, 1, i - 1)
           g == SubSeq(q, i + 1, Len(q))
<1>1. Len(q) \in Nat
    OBVIOUS
<1>2. f \in Seq(S) /\ Len(f) = i - 1 /\ \A j \in 1 .. i - 1 : f[j] = q[j]
    BY <1>1
<1>3. g \in Seq(S) /\ Len(g) = Len(q) - i /\ \A j \in 1 .. Len(q) - i : g[j] = q[i + j]
    BY <1>1
<1>4. RemoveAt(q, i) = f \o g
    BY DEF RemoveAt
<1> HIDE DEF f, g
<1>5. f \o g \in Seq(S) /\ Len(f \o g) = Len(q) - 1
    <2>1. \A u, v \in Seq(S) : u \o v \in Seq(S) /\ Len(u \o v) = Len(u) + Len(v)
        OBVIOUS
    <2>2. f \o g \in Seq(S) /\ Len(f \o g) = Len(f) + Len(g)
        BY <1>2, <1>3, <2>1, Zenon
    <2> QED
        BY <1>1, <1>2, <1>3, <2>2
<1>6. ASSUME NEW j \in 1 .. Len(q) - 1
      PROVE  (f \o g)[j] = IF j < i THEN q[j] ELSE q[j + 1]
    <2>1. CASE j < i
        <3>1. (f \o g)[j] = f[j]
            BY <1>1, <1>2, <1>3, <2>1
        <3> QED
            BY <1>2, <2>1, <3>1
    <2>2. CASE ~(j < i)
        <3>1. (f \o g)[j] = g[j - (i - 1)]
            BY <1>1, <1>2, <1>3, <2>2
        <3>2. j - (i - 1) \in 1 .. Len(q) - i /\ i + (j - (i - 1)) = j + 1
            BY <1>1, <2>2
        <3> QED
            BY <1>3, <2>2, <3>1, <3>2
    <2> QED
        BY <2>1, <2>2
<1> QED
    BY <1>4, <1>5, <1>6

(* remove_from_err_queue deletes the entry it finds first, or none. *)
LEMMA DeleteFirst ==
    ASSUME NEW S, NEW q \in Seq(S), NEW a
    PROVE  \/ /\ remove_from_err_queue(q, a) = q
              /\ \A j \in 1 .. Len(q) : q[j] # a
           \/ \E i \in 1 .. Len(q) :
                 q[i] = a /\ remove_from_err_queue(q, a) = RemoveAt(q, i)
<1>1. CASE \A j \in 1 .. Len(q) : q[j] # a
    BY <1>1 DEF remove_from_err_queue, RemoveFirst
<1>2. CASE \E j \in 1 .. Len(q) : q[j] = a
    <2> DEFINE T == {j \in 1 .. Len(q) : q[j] = a}
    <2>1. remove_from_err_queue(q, a) = RemoveAt(q, Min(T))
        BY <1>2 DEF remove_from_err_queue, RemoveFirst, SelectInSeq
    <2>2. T \subseteq Nat /\ T # {}
        BY <1>2
    <2>3. \E x \in T : \A y \in T : x <= y
        <3> HIDE DEF T
        <3> QED
            BY <2>2, LeastExists
    <2>4. Min(T) \in T
        <3> HIDE DEF T
        <3> QED
            BY <2>3 DEF Min
    <2> QED
        BY <2>1, <2>4
<1> QED
    BY <1>1, <1>2

(* From a queue without repetitions remove_from_err_queue takes exactly    *)
(* the address it is given,                                                *)
LEMMA DeleteWord ==
    ASSUME NEW S, NEW q \in Seq(S), IsInjective(q), NEW a
    PROVE  /\ remove_from_err_queue(q, a) \in Seq(S)
           /\ IsInjective(remove_from_err_queue(q, a))
           /\ ToSet(remove_from_err_queue(q, a)) = ToSet(q) \ {a}
<1>1. DOMAIN q = 1 .. Len(q) /\ Len(q) \in Nat
    OBVIOUS
<1>2. CASE remove_from_err_queue(q, a) = q /\ \A j \in 1 .. Len(q) : q[j] # a
    BY <1>1, <1>2 DEF ToSet
<1>3. ASSUME NEW i \in 1 .. Len(q), q[i] = a, remove_from_err_queue(q, a) = RemoveAt(q, i)
      PROVE  /\ remove_from_err_queue(q, a) \in Seq(S)
             /\ IsInjective(remove_from_err_queue(q, a))
             /\ ToSet(remove_from_err_queue(q, a)) = ToSet(q) \ {a}
    <2> DEFINE r == RemoveAt(q, i)
    <2>1. /\ r \in Seq(S) /\ Len(r) = Len(q) - 1
          /\ \A j \in 1 .. Len(q) - 1 : r[j] = IF j < i THEN q[j] ELSE q[j + 1]
        BY DeleteAt
    <2> HIDE DEF r
    <2>2. DOMAIN r = 1 .. Len(q) - 1
        BY <2>1
    <2>3. IsInjective(r)
        <3> SUFFICES ASSUME NEW j \in 1 .. Len(q) - 1, NEW k \in 1 .. Len(q) - 1, r[j] = r[k]
                     PROVE  j = k
            BY <2>2 DEF IsInjective
        <3> DEFINE up(x) == IF x < i THEN x ELSE x + 1
        <3>1. up(j) \in 1 .. Len(q) /\ up(k) \in 1 .. Len(q)
            BY <1>1
        <3>2. r[j] = q[up(j)] /\ r[k] = q[up(k)]
            BY <2>1
        <3>3. up(j) = up(k)
            BY <1>1, <3>1, <3>2 DEF IsInjective
        <3> QED
            BY <1>1, <3>3
    <2>4. ASSUME NEW x \in ToSet(r) PROVE x \in ToSet(q) \ {a}
        <3>1. PICK j \in 1 .. Len(q) - 1 : x = r[j]
            BY <2>2, <2>4 DEF ToSet
        <3>2. PICK k \in 1 .. Len(q) : k # i /\ x = q[k]
            BY <1>1, <2>1, <3>1
        <3>3. x # a
            BY <1>1, <1>3, <3>2 DEF IsInjective
        <3> QED
            BY <1>1, <3>2, <3>3 DEF ToSet
    <2>5. ASSUME NEW x \in ToSet(q) \ {a} PROVE x \in ToSet(r)
        <3>1. PICK k \in 1 .. Len(q) : x = q[k]
            BY <1>1, <2>5 DEF ToSet
        <3>2. k # i
            BY <1>3, <2>5, <3>1
        <3>3. PICK j \in 1 .. Len(q) - 1 : k = IF j < i THEN j ELSE j + 1
            <4>1. CASE k < i
                BY <1>1, <4>1
            <4>2. CASE k > i
                <5>1. k - 1 \in 1 .. Len(q) - 1 /\ ~(k - 1 < i) /\ k = (k - 1) + 1
                    BY <1>1, <4>2
                <5> QED
                    BY <5>1
            <4> QED
                BY <3>2, <4>1, <4>2
        <3>4. x = r[j]
            BY <2>1, <3>1, <3>3
        <3> QED
            BY <2>2, <3>4 DEF ToSet
    <2>6. ToSet(r) = ToSet(q) \ {a}
        BY <2>4, <2>5
    <2>7. remove_from_err_queue(q, a) = r
        BY <1>3 DEF r
    <2> QED
        BY <2>1, <2>3, <2>6, <2>7
<1> QED
    BY <1>2, <1>3, DeleteFirst

(* and an address that is not in it can be pushed. *)
LEMMA PushWord ==
    ASSUME NEW S, NEW q \in Seq(S), IsInjective(q), NEW a \in S, a \notin ToSet(q)
    PROVE  /\ Append(q, a) \in Seq(S)
           /\ IsInjective(Append(q, a))
           /\ ToSet(Append(q, a)) = ToSet(q) \cup {a}
<1> DEFINE r == Append(q, a)
<1>1. DOMAIN q = 1 .. Len(q) /\ Len(q) \in Nat
    OBVIOUS
<1>2. /\ r \in Seq(S) /\ DOMAIN r = 1 .. Len(q) + 1
      /\ r[Len(q) + 1] = a /\ \A j \in 1 .. Len(q) : r[j] = q[j]
    BY <1>1
<1> HIDE DEF r
<1>3. \A j \in 1 .. Len(q) : r[j] # a
    BY <1>1, <1>2 DEF ToSet
<1>4. IsInjective(r)
    <2> SUFFICES ASSUME NEW j \in 1 .. Len(q) + 1, NEW k \in 1 .. Len(q) + 1, r[j] = r[k]
                 PROVE  j = k
        BY <1>2 DEF IsInjective
    <2>1. CASE j = Len(q) + 1 \/ k = Len(q) + 1
        BY <1>1, <1>2, <1>3, <2>1
    <2>2. CASE j # Len(q) + 1 /\ k # Len(q) + 1
        <3>1. j \in 1 .. Len(q) /\ k \in 1 .. Len(q)
            BY <1>1, <2>2
        <3> QED
            BY <1>1, <1>2, <3>1 DEF IsInjective
    <2> QED
        BY <2>1, <2>2
<1>5. ToSet(r) \subseteq ToSet(q) \cup {a}
    <2> SUFFICES ASSUME NEW j \in 1 .. Len(q) + 1 PROVE r[j] \in ToSet(q) \cup {a}
        BY <1>2 DEF ToSet
    <2>1. CASE j = Len(q) + 1
        BY <1>2, <2>1
    <2>2. CASE j # Len(q) + 1
        <3>1. j \in 1 .. Len(q)
            BY <1>1, <2>2
        <3> QED
            BY <1>1, <1>2, <3>1 DEF ToSet
    <2> QED
        BY <2>1, <2>2
<1>6. ToSet(q) \cup {a} \subseteq ToSet(r)
    <2>1. \A j \in 1 .. Len(q) : j \in DOMAIN r
        BY <1>1, <1>2
    <2>2. Len(q) + 1 \in DOMAIN r
        BY <1>1, <1>2
    <2> QED
        BY <1>1, <1>2, <2>1, <2>2 DEF ToSet
<1>7. ToSet(r) = ToSet(q) \cup {a}
    BY <1>5, <1>6
<1> QED
    BY <1>2, <1>4, <1>7 DEF r

(* The window of ok fetches takes a word in front and keeps its length, *)
LEMMA PushOkType ==
    ASSUME NEW q \in Seq(Address), Len(q) <= OK_WINDOW, NEW a \in Address
    PROVE  PushOk(q, a) \in Seq(Address) /\ Len(PushOk(q, a)) <= OK_WINDOW
<1>1. OK_WINDOW \in Nat \ {0} /\ Len(q) \in Nat
    BY SbAssumption
<1> DEFINE rest == IF Len(q) = OK_WINDOW THEN Front(q) ELSE q
<1>2. rest \in Seq(Address) /\ Len(rest) <= OK_WINDOW - 1
    <2>1. CASE Len(q) = OK_WINDOW
        BY <1>1, <2>1 DEF Front
    <2>2. CASE Len(q) # OK_WINDOW
        BY <1>1, <2>2
    <2> QED
        BY <2>1, <2>2
<1>3. PushOk(q, a) = <<a>> \o rest
    BY DEF PushOk
<1> HIDE DEF rest
<1>4. <<a>> \o rest \in Seq(Address) /\ Len(<<a>> \o rest) = 1 + Len(rest)
    BY <1>2
<1> QED
    BY <1>1, <1>2, <1>3, <1>4

(* and loses at most one word to a retirement. *)
LEMMA ConsumeOkType ==
    ASSUME obii_ok_addrs \in Seq(Address), Len(obii_ok_addrs) <= OK_WINDOW, NEW r
    PROVE  ConsumeOk(r) \in Seq(Address) /\ Len(ConsumeOk(r)) <= OK_WINDOW
<1> DEFINE hit == {i \in DOMAIN obii_ok_addrs : 2 * obii_ok_addrs[i] = r.pc}
           first == CHOOSE i \in hit : \A j \in hit : i <= j
<1>1. CASE hit = {}
    BY <1>1 DEF ConsumeOk
<1>2. CASE hit # {}
    <2>1. hit \subseteq Nat /\ hit \subseteq 1 .. Len(obii_ok_addrs)
        OBVIOUS
    <2>2. ConsumeOk(r) = RemoveAt(obii_ok_addrs, first)
        BY <1>2 DEF ConsumeOk
    <2> HIDE DEF hit
    <2>3. \E i \in hit : \A j \in hit : i <= j
        BY <1>2, <2>1, LeastExists
    <2>4. first \in hit
        BY <2>3
    <2>5. first \in 1 .. Len(obii_ok_addrs)
        BY <2>1, <2>4
    <2> HIDE DEF first
    <2>6. RemoveAt(obii_ok_addrs, first) \in Seq(Address)
          /\ Len(RemoveAt(obii_ok_addrs, first)) = Len(obii_ok_addrs) - 1
        BY <2>5, DeleteAt
    <2> QED
        BY <2>2, <2>6, SbAssumption
<1> QED
    BY <1>1, <1>2

-----------------------------------------------------------------------------
(* TypeOK in parts: the counts, and the rest. *)
Numbers ==
    /\ cnt_obid_trn \in Nat /\ cnt_obid_err \in Nat /\ cnt_obid_firsterr \in Nat
    /\ cnt_obii_trn \in Nat /\ cnt_obii_err \in Nat
    /\ cnt_rvfi_trn \in Nat /\ cnt_rvfi_nmihandl \in Nat
    /\ cnt_rvfi_ifaulthandl \in Nat /\ cnt_rvfi_errmatch \in Nat
    /\ late_retires \in Nat /\ owed_retires \in Nat

OkWindow == obii_ok_addrs \in Seq(Address) /\ Len(obii_ok_addrs) <= OK_WINDOW

Others ==
    /\ pending_nmi \in BOOLEAN
    /\ obii_err_queue \in Seq(Address)
    /\ phase \in {"run", "checked"}
    /\ last_fetch \in [Address -> {"none", "ok", "err"}]

QueueInv == Numbers /\ OkWindow /\ Others /\ ErrQueueIsLatest

(* At the start nothing has been fetched, *)
LEMMA InitQueues == Init => QueueInv
<1> SUFFICES ASSUME Init PROVE QueueInv
    OBVIOUS
<1>1. << >> \in Seq(Address) /\ Len(<< >>) = 0 /\ DOMAIN << >> = {}
    OBVIOUS
<1>2. Numbers
    BY DEF Init, Numbers
<1>3. OkWindow
    BY <1>1, SbAssumption DEF Init, OkWindow
<1>4. Others
    BY <1>1 DEF Init, Others
<1>5. ErrQueueIsLatest
    BY <1>1 DEF Init, ErrQueueIsLatest, IsInjective, ToSet
<1> QED
    BY <1>2, <1>3, <1>4, <1>5 DEF QueueInv

(* a fetch moves its word to the end of the queue or out of it, *)
LEMMA FetchQueues ==
    ASSUME QueueInv, NEW a \in Address, NEW err \in BOOLEAN, write_obii(a, err)
    PROVE  QueueInv'
<1> DEFINE r == remove_from_err_queue(obii_err_queue, a)
           L == {b \in Address : last_fetch[b] = "err"}
<1>1. r \in Seq(Address) /\ IsInjective(r) /\ ToSet(r) = L \ {a}
    BY DeleteWord DEF QueueInv, Others, ErrQueueIsLatest
<1>2. last_fetch' = [last_fetch EXCEPT ![a] = IF err THEN "err" ELSE "ok"]
    BY DEF write_obii
<1>3. last_fetch' \in [Address -> {"none", "ok", "err"}]
    BY <1>2 DEF QueueInv, Others
<1>4. \A b \in Address : last_fetch'[b] = IF b = a THEN IF err THEN "err" ELSE "ok" ELSE last_fetch[b]
    BY <1>2 DEF QueueInv, Others
<1>5. Numbers' /\ UNCHANGED <<pending_nmi, phase>>
    BY DEF QueueInv, Numbers, write_obii, obidVars, rvfiVars
<1>6. CASE err
    <2>1. obii_err_queue' = Append(r, a) /\ obii_ok_addrs' = obii_ok_addrs
        BY <1>6 DEF write_obii, add_to_err_queue
    <2> HIDE DEF r
    <2>2. /\ Append(r, a) \in Seq(Address) /\ IsInjective(Append(r, a))
          /\ ToSet(Append(r, a)) = ToSet(r) \cup {a}
        BY <1>1, PushWord
    <2>3. (L \ {a}) \cup {a} = {b \in Address : last_fetch'[b] = "err"}
        BY <1>4, <1>6
    <2>4. ErrQueueIsLatest'
        BY <1>1, <2>1, <2>2, <2>3 DEF ErrQueueIsLatest
    <2>5. OkWindow' /\ Others'
        BY <1>3, <1>5, <2>1, <2>2 DEF QueueInv, OkWindow, Others
    <2> QED
        BY <1>5, <2>4, <2>5 DEF QueueInv
<1>7. CASE ~err
    <2>1. obii_err_queue' = r /\ obii_ok_addrs' = PushOk(obii_ok_addrs, a)
        BY <1>7 DEF write_obii
    <2> HIDE DEF r
    <2>2. PushOk(obii_ok_addrs, a) \in Seq(Address) /\ Len(PushOk(obii_ok_addrs, a)) <= OK_WINDOW
        BY PushOkType DEF QueueInv, OkWindow
    <2>3. L \ {a} = {b \in Address : last_fetch'[b] = "err"}
        BY <1>4, <1>7
    <2>4. ErrQueueIsLatest'
        BY <1>1, <2>1, <2>3 DEF ErrQueueIsLatest
    <2>5. OkWindow' /\ Others'
        BY <1>1, <1>3, <1>5, <2>1, <2>2 DEF QueueInv, OkWindow, Others
    <2> QED
        BY <1>5, <2>4, <2>5 DEF QueueInv
<1> QED
    BY <1>6, <1>7

(* a retirement only shortens the window, *)
LEMMA RetireQueues ==
    ASSUME QueueInv, NEW r \in RetirementType, write_rvfi(r)
    PROVE  QueueInv'
<1>1. UNCHANGED <<cnt_obid_trn, cnt_obid_err, cnt_obid_firsterr, cnt_obii_trn, cnt_obii_err,
                  obii_err_queue, last_fetch, phase>>
    BY DEF write_rvfi, obidVars, obiiVars
<1>2. ErrQueueIsLatest'
    BY <1>1 DEF QueueInv, ErrQueueIsLatest
<1>3. OkWindow'
    <2>1. obii_ok_addrs' \in {obii_ok_addrs, ConsumeOk(r)}
        BY DEF write_rvfi
    <2> QED
        BY <2>1, ConsumeOkType DEF QueueInv, OkWindow
<1>4. Numbers'
    <2> DEFINE m == IF should_instr_err(r) THEN 1 ELSE 0
    <2>1. /\ cnt_rvfi_trn' = cnt_rvfi_trn + 1 /\ cnt_rvfi_errmatch' = cnt_rvfi_errmatch + m
          /\ cnt_rvfi_nmihandl' = cnt_rvfi_nmihandl + (IF r.nmi THEN 1 ELSE 0)
          /\ cnt_rvfi_ifaulthandl' = cnt_rvfi_ifaulthandl + (IF r.ifault THEN 1 ELSE 0)
          /\ owed_retires' = owed_retires + (IF r.dbg_mode \/ r.step THEN 0 ELSE 1)
          /\ late_retires' = LateAfter(r, pending_nmi /\ ~r.nmi)
        BY DEF write_rvfi
    <2>2. m \in {0, 1}
        OBVIOUS
    <2> HIDE DEF m
    <2>3. late_retires' \in {0, late_retires, late_retires + 1}
        BY <2>1 DEF LateAfter
    <2> QED
        BY <1>1, <2>1, <2>2, <2>3 DEF QueueInv, Numbers
<1>5. pending_nmi' \in BOOLEAN
    BY DEF write_rvfi, QueueInv, Others, RetirementType
<1>6. Others'
    BY <1>1, <1>5 DEF QueueInv, Others
<1> QED
    BY <1>2, <1>3, <1>4, <1>6 DEF QueueInv

(* and nothing else touches the queues. *)
LEMMA StepQueues == QueueInv /\ [Next]_vars => QueueInv'
<1> SUFFICES ASSUME QueueInv, [Next]_vars PROVE QueueInv'
    OBVIOUS
<1>1. ASSUME NEW err \in BOOLEAN, write_obid(err) PROVE QueueInv'
    <2>1. UNCHANGED <<obii_err_queue, last_fetch, obii_ok_addrs, phase>>
        BY <1>1 DEF write_obid, obiiVars
    <2>2. Numbers'
        BY <1>1 DEF write_obid, QueueInv, Numbers, obiiVars, rvfiVars
    <2>3. pending_nmi' \in BOOLEAN
        BY <1>1 DEF write_obid, QueueInv, Others
    <2> QED
        BY <2>1, <2>2, <2>3 DEF QueueInv, OkWindow, Others, ErrQueueIsLatest
<1>2. CASE check_phase
    <2>1. Numbers'
        BY <1>2 DEF check_phase, obidVars, obiiVars, rvfiVars, QueueInv, Numbers
    <2>2. UNCHANGED <<obii_err_queue, last_fetch, obii_ok_addrs, pending_nmi>>
          /\ phase' = "checked"
        BY <1>2 DEF check_phase, obiiVars
    <2> QED
        BY <2>1, <2>2 DEF QueueInv, OkWindow, Others, ErrQueueIsLatest
<1>3. CASE UNCHANGED vars
    <2>1. Numbers'
        BY <1>3 DEF vars, obidVars, obiiVars, rvfiVars, QueueInv, Numbers
    <2>2. UNCHANGED <<obii_err_queue, last_fetch, obii_ok_addrs, pending_nmi, phase>>
        BY <1>3 DEF vars, obiiVars
    <2> QED
        BY <2>1, <2>2 DEF QueueInv, OkWindow, Others, ErrQueueIsLatest
<1>4. Retirement \subseteq RetirementType
    BY SbAssumption
<1> QED
    BY <1>1, <1>2, <1>3, <1>4, FetchQueues, RetireQueues DEF Next, DataTransfer, Fetch, Retire

(* For every window and address space the counts are numbers, and the list *)
(* of ok fetches stays within its window.                                  *)
THEOREM TypeCorrect == Spec => []TypeOK
<1>1. QueueInv => TypeOK
    BY DEF QueueInv, Numbers, OkWindow, Others, TypeOK
<1> QED
    BY <1>1, InitQueues, StepQueues, PTL DEF Spec

(* Whatever the order of fetches, obii_err_queue holds exactly the words   *)
(* whose latest fetch had an err, each once.                               *)
THEOREM ErrQueueAlwaysLatest == Spec => []ErrQueueIsLatest
<1>1. QueueInv => ErrQueueIsLatest
    BY DEF QueueInv
<1> QED
    BY <1>1, InitQueues, StepQueues, PTL DEF Spec
=============================================================================
