---------------------------- MODULE MCEdgeEffect ----------------------------
EXTENDS EdgeEffect

CONSTANTS b1, b2, u, d

(* Two baselines with different rules, an upsert and a delete of one slot. *)
MCOp     == {b1, b2, u, d}
MCKind   == [op \in MCOp |-> CASE op = u -> "upsert" [] op = d -> "delete"
                               [] OTHER -> "baseline"]
MCSlotOf == [op \in MCOp |-> "s"]
MCBodyOf == [op \in MCOp |-> IF op = b2 THEN "y" ELSE "x"]
=============================================================================
