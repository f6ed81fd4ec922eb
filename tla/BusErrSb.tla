------------------------------- MODULE BusErrSb -----------------------------
(***************************************************************************)
(* The bus-error scoreboard uvme_cv32e40x_buserr_sb: it hears every OBI    *)
(* transfer of the data and the instruction side and every retirement, in  *)
(* whatever order the monitors deliver them, and checks that a data-side   *)
(* "err" is followed by an NMI within two retirements and an               *)
(* instruction-side "err" by a trap of the instruction it hit.             *)
(*                                                                         *)
(* Fetch addresses are words; program counters are half-words, so a word a *)
(* is the half-words 2a and 2a+1.  Both wrap, as 32-bit addresses do.      *)
(***************************************************************************)
EXTENDS Integers, Sequences, SequencesExt, FiniteSets

CONSTANTS
    WORDS,          \* the number of words of the address space (2^30)
    Retirement,     \* the retirements the monitor delivers, see RetirementType
    OK_WINDOW,      \* non-err fetches remembered (3)
    LATE_LIMIT,     \* retirements allowed before the NMI (2)
    MAX_OBID, MAX_OBII, MAX_RVFI    \* bounds on the transfers of each kind

(* What a retirement tells the scoreboard.  compressed: the low bits of    *)
(* insn are not 11; nmi: intr with cause 1024 or 1025; ifault: exception   *)
(* with cause 24; step: dcsr.step without dcsr.stepie.                     *)
RetirementType ==
    [pc : 0 .. 2 * WORDS - 1, compressed : BOOLEAN, trap : BOOLEAN,
     nmi : BOOLEAN, ifault : BOOLEAN, dbg_mode : BOOLEAN, step : BOOLEAN]

ASSUME SbAssumption ==
    /\ WORDS \in Nat \ {0} /\ OK_WINDOW \in Nat \ {0} /\ LATE_LIMIT \in Nat
    /\ MAX_OBID \in Nat /\ MAX_OBII \in Nat /\ MAX_RVFI \in Nat
    /\ Retirement \subseteq RetirementType

Address == 0 .. WORDS - 1

VARIABLES
    cnt_obid_trn, cnt_obid_err, cnt_obid_firsterr,
    cnt_obii_trn, cnt_obii_err,
    cnt_rvfi_trn, cnt_rvfi_nmihandl, cnt_rvfi_ifaulthandl, cnt_rvfi_errmatch,
    pending_nmi,        \* an NMI is owed
    late_retires,       \* retirements since it is
    obii_err_queue,     \* addresses last fetched with "err"
    obii_ok_addrs,      \* latest addresses fetched without, newest first
    errors,             \* the errors reported
    phase,              \* "run" or, after check_phase, "checked"
    last_fetch,         \* history: the outcome of the last fetch of a word
    owed_retires        \* history: retirements out of debug and stepping
                        \* since the latest first err

obidVars == <<cnt_obid_trn, cnt_obid_err, cnt_obid_firsterr>>
obiiVars == <<cnt_obii_trn, cnt_obii_err, obii_err_queue, last_fetch>>
rvfiVars == <<cnt_rvfi_trn, cnt_rvfi_nmihandl, cnt_rvfi_ifaulthandl,
              cnt_rvfi_errmatch, late_retires>>
vars == <<obidVars, obiiVars, rvfiVars, pending_nmi, owed_retires, obii_ok_addrs, errors, phase>>

-----------------------------------------------------------------------------
(* The queue of err addresses. *)

(* Bug: the entry found is not deleted when it is the last one. *)
remove_from_err_queueMutant(q, a) ==
    IF q # << >> /\ Last(q) # a THEN RemoveFirst(q, a) ELSE q

remove_from_err_queue(q, a) == RemoveFirst(q, a)

add_to_err_queue(q, a) == Append(remove_from_err_queue(q, a), a)

-----------------------------------------------------------------------------
(* Transfers on the data side and on the instruction side. *)

(* Bug: every err is taken for a first one. *)
write_obidMutant(err) ==
    /\ cnt_obid_trn' = cnt_obid_trn + 1
    /\ cnt_obid_err' = cnt_obid_err + (IF err THEN 1 ELSE 0)
    /\ cnt_obid_firsterr' = cnt_obid_firsterr + (IF err THEN 1 ELSE 0)
    /\ pending_nmi' = (pending_nmi \/ err)
    /\ owed_retires' = IF err /\ ~pending_nmi THEN 0 ELSE owed_retires
    /\ UNCHANGED <<obiiVars, rvfiVars, obii_ok_addrs, errors, phase>>

write_obid(err) ==
    /\ cnt_obid_trn' = cnt_obid_trn + 1
    /\ cnt_obid_err' = cnt_obid_err + (IF err THEN 1 ELSE 0)
    /\ cnt_obid_firsterr' = cnt_obid_firsterr + (IF err /\ ~pending_nmi THEN 1 ELSE 0)
    /\ pending_nmi' = (pending_nmi \/ err)
    /\ owed_retires' = IF err /\ ~pending_nmi THEN 0 ELSE owed_retires
    /\ UNCHANGED <<obiiVars, rvfiVars, obii_ok_addrs, errors, phase>>

(* The new list of ok addresses: the newest in front, the oldest dropped.  *)
(* Bug: the oldest is only dropped once there is one too many.             *)
PushOkMutant(q, a) == <<a>> \o (IF Len(q) > OK_WINDOW THEN Front(q) ELSE q)

PushOk(q, a) == <<a>> \o (IF Len(q) = OK_WINDOW THEN Front(q) ELSE q)

write_obii(a, err) ==
    /\ cnt_obii_trn' = cnt_obii_trn + 1
    /\ cnt_obii_err' = cnt_obii_err + (IF err THEN 1 ELSE 0)
    /\ IF err
       THEN /\ obii_err_queue' = add_to_err_queue(obii_err_queue, a)
            /\ UNCHANGED obii_ok_addrs
       ELSE /\ obii_err_queue' = remove_from_err_queue(obii_err_queue, a)
            /\ obii_ok_addrs' = PushOk(obii_ok_addrs, a)
    /\ last_fetch' = [last_fetch EXCEPT ![a] = IF err THEN "err" ELSE "ok"]
    /\ UNCHANGED <<obidVars, rvfiVars, pending_nmi, owed_retires, errors, phase>>

-----------------------------------------------------------------------------
(* Retirements. *)

(* Whether the i-th err address is left out as possibly fetched in time.   *)
Acquitted(i) == Contains(obii_ok_addrs, obii_err_queue[i])

(***************************************************************************)
(* The addresses a retirement is compared with.  They are written to a     *)
(* queue under the index they have in obii_err_queue; a write beyond the   *)
(* end of the queue is dropped, so whatever follows an acquitted address   *)
(* is lost.                                                                *)
(***************************************************************************)
err_addrs ==
    {obii_err_queue[i] : i \in {j \in DOMAIN obii_err_queue :
                                   \A k \in 1 .. j : ~Acquitted(k)}}

(* The retirement's half-words overlap an err address, which a compressed  *)
(* instruction can only do in its own word.  The window below address 0    *)
(* wraps to the top and is empty, and so is the one above the last word.   *)
should_instr_err(r) ==
    LET compressed == r.compressed /\ (r.pc \div 2) \notin err_addrs
    IN  \E a \in err_addrs :
          /\ (2 * a - (IF compressed THEN 1 ELSE 2)) % (2 * WORDS) < r.pc
          /\ r.pc < (2 * a + 2) % (2 * WORDS)

(* The newest ok fetch of the word at pc is used up. *)
ConsumeOk(r) ==
    LET hit == {i \in DOMAIN obii_ok_addrs : 2 * obii_ok_addrs[i] = r.pc}
    IN  IF hit = {} THEN obii_ok_addrs
        ELSE RemoveAt(obii_ok_addrs, CHOOSE i \in hit : \A j \in hit : i <= j)

(* Bug: the count is not reset once the NMI has been taken. *)
LateAfterMutant(r, pending) ==
    IF pending /\ ~r.dbg_mode /\ ~r.step THEN late_retires + 1 ELSE late_retires

LateAfter(r, pending) ==
    IF ~pending THEN 0
    ELSE IF ~r.dbg_mode /\ ~r.step THEN late_retires + 1
    ELSE late_retires

write_rvfi(r) ==
    LET match   == should_instr_err(r)
        pending == pending_nmi /\ ~r.nmi
    IN  /\ cnt_rvfi_trn' = cnt_rvfi_trn + 1
        /\ cnt_rvfi_errmatch' = cnt_rvfi_errmatch + (IF match THEN 1 ELSE 0)
        /\ obii_ok_addrs' = IF match THEN obii_ok_addrs ELSE ConsumeOk(r)
        /\ cnt_rvfi_nmihandl' = cnt_rvfi_nmihandl + (IF r.nmi THEN 1 ELSE 0)
        /\ cnt_rvfi_ifaulthandl' = cnt_rvfi_ifaulthandl + (IF r.ifault THEN 1 ELSE 0)
        /\ pending_nmi' = pending
        /\ late_retires' = LateAfter(r, pending)
        /\ errors' = errors
             \cup {e \in {"no_trap"} : match /\ ~r.trap}
             \cup {e \in {"unhandled_ifaults"} :
                      match /\ cnt_rvfi_errmatch' - cnt_rvfi_ifaulthandl > 1}
             \cup {e \in {"nmi_without_err"} : r.nmi /\ ~pending_nmi}
             \cup {e \in {"nmi_count"} : r.nmi /\ cnt_obid_firsterr # cnt_rvfi_nmihandl'}
             \cup {e \in {"late_nmi"} : pending /\ late_retires' > late_retires
                                          /\ late_retires' > LATE_LIMIT + 1}
        /\ owed_retires' = owed_retires + (IF r.dbg_mode \/ r.step THEN 0 ELSE 1)
        /\ UNCHANGED <<obidVars, obiiVars, phase>>

-----------------------------------------------------------------------------

(* The end of the test; warnings are left out. *)
check_phase ==
    /\ phase = "run"
    /\ phase' = "checked"
    /\ errors' = errors
         \cup {e \in {"obid_counts"} : cnt_obid_trn < cnt_obid_err}
         \cup {e \in {"first_counts"} : cnt_obid_err < cnt_obid_firsterr}
         \cup {e \in {"first_missing"} : cnt_obid_err # 0 /\ cnt_obid_firsterr = 0}
         \cup {e \in {"nmi_counts"} : cnt_rvfi_trn < cnt_rvfi_nmihandl}
         \cup {e \in {"only_nmis"} : cnt_rvfi_trn = cnt_rvfi_nmihandl}
         \cup {e \in {"nmi_balance"} : cnt_obid_firsterr \notin
                                          {cnt_rvfi_nmihandl, cnt_rvfi_nmihandl + 1}}
         \cup {e \in {"obii_counts"} : cnt_obii_trn < cnt_obii_err}
         \cup {e \in {"ifault_balance"} : cnt_obii_err < cnt_rvfi_ifaulthandl}
    /\ UNCHANGED <<obidVars, obiiVars, rvfiVars, pending_nmi, owed_retires, obii_ok_addrs>>

Init ==
    /\ cnt_obid_trn = 0 /\ cnt_obid_err = 0 /\ cnt_obid_firsterr = 0
    /\ cnt_obii_trn = 0 /\ cnt_obii_err = 0
    /\ cnt_rvfi_trn = 0 /\ cnt_rvfi_nmihandl = 0
    /\ cnt_rvfi_ifaulthandl = 0 /\ cnt_rvfi_errmatch = 0
    /\ pending_nmi = FALSE /\ late_retires = 0 /\ owed_retires = 0
    /\ obii_err_queue = << >> /\ obii_ok_addrs = << >>
    /\ errors = {} /\ phase = "run"
    /\ last_fetch = [a \in Address |-> "none"]

DataTransfer  == \E err \in BOOLEAN : write_obid(err)
Fetch         == \E a \in Address, err \in BOOLEAN : write_obii(a, err)
Retire        == \E r \in Retirement : write_rvfi(r)

Next ==
    \/ phase = "run" /\ cnt_obid_trn < MAX_OBID /\ DataTransfer
    \/ phase = "run" /\ cnt_obii_trn < MAX_OBII /\ Fetch
    \/ phase = "run" /\ cnt_rvfi_trn < MAX_RVFI /\ Retire
    \/ check_phase

Spec == Init /\ [][Next]_vars

-----------------------------------------------------------------------------

(* TypeOK: counts are natural numbers and obii_ok_addrs never holds more   *)
(* than the window that write_obii keeps.                                  *)
TypeOK ==
    /\ {cnt_obid_trn, cnt_obid_err, cnt_obid_firsterr, cnt_obii_trn, cnt_obii_err,
        cnt_rvfi_trn, cnt_rvfi_nmihandl, cnt_rvfi_ifaulthandl, cnt_rvfi_errmatch,
        late_retires, owed_retires} \subseteq Nat
    /\ pending_nmi \in BOOLEAN
    /\ obii_err_queue \in Seq(Address)
    /\ obii_ok_addrs \in Seq(Address) /\ Len(obii_ok_addrs) <= OK_WINDOW
    /\ phase \in {"run", "checked"}
    /\ last_fetch \in [Address -> {"none", "ok", "err"}]

(***************************************************************************)
(* ErrQueueIsLatest: however fetches of the same word with and without     *)
(* "err" follow each other, obii_err_queue holds exactly the addresses     *)
(* whose latest fetch had one, each once.                                  *)
(***************************************************************************)
ErrQueueIsLatest ==
    /\ IsInjective(obii_err_queue)
    /\ ToSet(obii_err_queue) = {a \in Address : last_fetch[a] = "err"}

(***************************************************************************)
(* NmisBalance: unless an NMI was entered that the scoreboard was not      *)
(* waiting for, the first errs and the NMI handler entries differ by the   *)
(* one that is pending, so neither count comparison of write_rvfi and      *)
(* check_phase ever reports anything else.                                 *)
(***************************************************************************)
NmisBalance ==
    "nmi_without_err" \notin errors =>
        /\ cnt_obid_firsterr = cnt_rvfi_nmihandl + (IF pending_nmi THEN 1 ELSE 0)
        /\ errors \cap {"nmi_count", "nmi_balance"} = {}

(***************************************************************************)
(* LateNmiReported: while an NMI is owed, late_retires counts exactly the  *)
(* retirements outside debug mode and stepping since the err that it is    *)
(* owed for, none of them left over from an earlier NMI, and the count is  *)
(* reported once it exceeds the limit.                                     *)
(***************************************************************************)
LateNmiReported ==
    pending_nmi =>
        /\ late_retires = owed_retires
        /\ owed_retires > LATE_LIMIT + 1 => "late_nmi" \in errors

(***************************************************************************)
(* AllErrsCompared: should_instr_err compares with the address of every    *)
(* err in the queue that is not among the latest ok fetches.               *)
(***************************************************************************)
AllErrsCompared ==
    err_addrs = ToSet(obii_err_queue) \ ToSet(obii_ok_addrs)

=============================================================================
