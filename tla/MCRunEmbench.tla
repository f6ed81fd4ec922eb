---------------------------- MODULE MCRunEmbench ----------------------------
(* Command lines for TLC: both benchmark types with and without            *)
(* --build-only, and one that is rejected.                                 *)
EXTENDS RunEmbench

CommandLine(type, build_only) ==
    [python |-> TRUE, core |-> "set", ccomp |-> "set", type |-> type,
     parallel |-> "NO", build_only |-> build_only, target |-> 2]

CommandLines ==
    {CommandLine(t, b) : t \in {"speed", "size"}, b \in {"YES", "NO"}}
        \cup {CommandLine("other", "NO")}
=============================================================================
