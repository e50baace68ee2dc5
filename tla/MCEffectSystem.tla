--------------------------- MODULE MCEffectSystem ---------------------------
EXTENDS EffectSystem

CONSTANTS b1, b2, w1, w2

(* Two baselines with different rules; definitions of their own, so that   *)
(* TLC evaluates them once.                                                *)
TwoBaselines == {b1, b2}
KindTable == [op \in TwoBaselines |-> "baseline"]
SlotTable == [op \in TwoBaselines |-> "s"]
BodyTable == [op \in TwoBaselines |-> IF op = b2 THEN "y" ELSE "x"]

MCBaselines == TwoBaselines
MCKind   == KindTable
MCSlotOf == SlotTable
MCBodyOf == BodyTable

(* Two tasks race over one baseline, with three attempts and two tries of  *)
(* its acknowledgement; once the second baseline is there one task is      *)
(* left, the first baseline has two attempts, or one and a try of its      *)
(* acknowledgement, the second one attempt.  They differ in name only, so  *)
(* that b1 is the first.                                                   *)
MCBound ==
    intent[b2] # "absent" =>
        /\ intent[b1] # "absent" /\ job[w2] = None
        /\ \A op \in Op : owner[op] # w2
        /\ attempts[b1] + acks[b1].tries <= 2
        /\ attempts[b2] <= 1 /\ acks[b2].tries = 0
=============================================================================
