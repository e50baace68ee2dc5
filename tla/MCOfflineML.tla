----------------------------- MODULE MCOfflineML -----------------------------
EXTENDS OfflineML, TLC

MCQuota == [train |-> 2, early_stop |-> 1, calibration |-> 1, blind_test |-> 1]

M(ap, fpr) == [ap |-> ap, fpr |-> fpr, rest |-> TRUE, feasible |-> TRUE, exports |-> TRUE,
               attributes |-> TRUE, additive |-> TRUE]
Reject     == [M(980, 4) EXCEPT !.rest = FALSE]

(* A world from the two seeds' metrics of each recipe. *)
World(frac, a1, a2, b1, b2, c1, c2) ==
    [frac |-> frac, contracts |-> TRUE,
     metric |-> <<1, 17>> :> a1 @@ <<1, 29>> :> a2 @@ <<2, 17>> :> b1 @@ <<2, 29>> :> b2
                 @@ <<3, 17>> :> c1 @@ <<3, 29>> :> c2]

(* Families on the borders of the intervals, with more of train than its   *)
(* quota; then one that never fills calibration.                           *)
Full  == <<59, 60, 0, 74, 20, 75, 90, 99>>
Short == <<59, 60, 0, 74, 90>>

(* A definition of its own, so that TLC evaluates it once. *)
WorldTable == <<
    World(Full, M(960, 1), M(995, 1), M(990, 6), M(989, 9), M(985, 4), M(984, 6)),
    World(Full, Reject, M(999, 0), M(952, 10), M(955, 9), M(961, 9), M(965, 9)),
    World(Full, M(949, 0), M(990, 0), M(990, 11), M(990, 0), Reject, Reject),
    World(Full, M(990, 1), M(990, 1), M(990, 1), M(990, 1), M(990, 1), [M(990, 1) EXCEPT !.feasible = FALSE]),
    World(Full, M(990, 1), M(990, 1), M(990, 1), [M(990, 1) EXCEPT !.exports = FALSE], M(990, 1), M(990, 1)),
    World(Full, M(990, 1), M(990, 1), [M(990, 1) EXCEPT !.additive = FALSE], M(990, 1), M(990, 1), M(990, 1)),
    World(Short, M(990, 1), M(990, 1), M(990, 1), M(990, 1), M(990, 1), M(990, 1)),
    [World(Full, Reject, Reject, Reject, Reject, Reject, Reject) EXCEPT !.contracts = FALSE]>>

MCWorlds == WorldTable

(* A file alone, a file with its record, a member with one and with both   *)
(* of its records, and what is bound to nothing.                           *)
MCChanges ==
    { {"dataset"}, {"candidates"}, {"archive"}, {"result.verdict"}, {"unread"}, {"candidates", "candidates.manifest"},
      {"archive", "result.archive"}, {"repository", "closure"}, {"repository", "closure", "result.closure"} }

MCSymmetry == Permutations(Run) \cup Permutations(Pids)
=============================================================================
