------------------------------- MODULE AmoAlu -------------------------------
(***************************************************************************)
(* The arithmetic of the read-modify-write AMO operations of mm_ram.       *)
(***************************************************************************)
EXTENDS Words

Bit(w, i) == (w \div Pow2[i]) % 2

(* The word with the given bits, which are numbered from 0. *)
WordOf(bits) ==
    LET low[n \in 0 .. XLEN] ==
            IF n = 0 THEN 0 ELSE low[n - 1] + (IF bits[n - 1] = 1 THEN Pow2[n - 1] ELSE 0)
    IN  low[XLEN]

signed(w) == IF w < Pow2[XLEN - 1] THEN w ELSE w - Pow2[XLEN]

AMO_OPS == {"ADD", "SWAP", "XOR", "AND", "OR", "MIN", "MAX", "MINU", "MAXU"}

amo_alu_result(op, mem_val, rs2_val) ==
    LET pick(first)   == IF first THEN mem_val ELSE rs2_val
        \* ones: how many of the operands' bits may be set where the result's is
        bitwise(ones) == WordOf([i \in 0 .. XLEN - 1 |->
                           IF Bit(mem_val, i) + Bit(rs2_val, i) \in ones THEN 1 ELSE 0])
    IN  CASE op = "ADD"  -> (mem_val + rs2_val) % Pow2[XLEN]
          [] op = "XOR"  -> bitwise({1})
          [] op = "AND"  -> bitwise({2})
          [] op = "OR"   -> bitwise({1, 2})
          [] op = "MIN"  -> pick(signed(mem_val) < signed(rs2_val))
          [] op = "MAX"  -> pick(signed(mem_val) > signed(rs2_val))
          [] op = "MINU" -> pick(mem_val < rs2_val)
          [] op = "MAXU" -> pick(mem_val > rs2_val)
          [] OTHER       -> rs2_val
=============================================================================
