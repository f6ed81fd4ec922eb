--------------------------- MODULE ResponseQueue ----------------------------
(***************************************************************************)
(* What an OBI response channel promises: every accepted transfer is owed  *)
(* one response, whose contents are fixed once they are known and which is *)
(* presented, once, in the order of acceptance and not before the cycle    *)
(* after the acceptance.                                                   *)
(***************************************************************************)
EXTENDS Naturals, Sequences

CONSTANT Response       \* the contents a response may have

VARIABLES
    owed,       \* responses owed, oldest first
    rvalid,     \* whether a response is presented in this cycle
    resp        \* its contents (meaningful while rvalid)

vars == <<owed, rvalid, resp>>

Init ==
    /\ owed = << >>
    /\ rvalid = FALSE

(* The transfers accepted at this edge: none or one. *)
Accepted == {<< >>} \cup {<<r>> : r \in Response}

(* A presented response has been taken when the cycle ends. *)
Unanswered == IF rvalid THEN Tail(owed) ELSE owed

Clock ==
    /\ \E acc \in Accepted : owed' = Unanswered \o acc
    /\ rvalid' \in BOOLEAN
    /\ rvalid' => owed' # << >> /\ resp' = Head(owed')

Next == Clock

Spec == Init /\ [][Next]_vars

(* No owed response waits forever. *)
FairSpec == Spec /\ []<>(rvalid \/ owed = << >>)
=============================================================================
