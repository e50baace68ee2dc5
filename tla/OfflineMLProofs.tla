--------------------------- MODULE OfflineMLProofs ---------------------------
(***************************************************************************)
(* Proofs about module OfflineML: staging directories are reclaimed when,  *)
(* and only when, their owner is gone, what is published is whole and is   *)
(* never replaced, and the winner is within the bands of every eligible    *)
(* recipe, for any number of invocations, process ids, seeds and metrics.  *)
(***************************************************************************)
EXTENDS OfflineML, WellFoundedInduction, TLAPS

(* A non-empty set of naturals up to n has a least and a greatest element, *)
(* so that Min and Max of the metrics are what their names say.            *)
LEMMA MinIs ==
    ASSUME NEW n \in Nat, NEW T, T \subseteq 0..n, T # {}
    PROVE  Min(T) \in T /\ \A y \in T : Min(T) <= y
<1> DEFINE Less == {p \in Nat \X Nat : p[1] < p[2]}
<1>1. IsWellFoundedOn(Less, Nat)
  BY NatLessThanWellFounded DEF OpToRel
<1>2. PICK x \in T : \A y \in T : ~(<<y, x>> \in Less)
  <2> HIDE DEF Less
  <2>1. T \subseteq Nat
    OBVIOUS
  <2> QED BY <1>1, <2>1, WFMin
<1>3. T \subseteq Nat
  OBVIOUS
<1>4. \A y \in T : ~(y < x) /\ y \in Nat /\ x \in Nat
  BY <1>2, <1>3
<1>5. \A y \in T : x <= y
  BY <1>4
<1> HIDE DEF Less
<1> QED BY <1>5 DEF Min

(* The maximum of a nonempty set of naturals below n is in it and bounds   *)
(* it.                                                                     *)
LEMMA MaxIs ==
    ASSUME NEW n \in Nat, NEW T, T \subseteq 0..n, T # {}
    PROVE  Max(T) \in T /\ \A y \in T : y <= Max(T)
<1> DEFINE D == {k \in 0..n : n - k \in T}
<1>1. D \subseteq 0..n /\ D # {}
  <2>1. PICK x \in T : TRUE
    OBVIOUS
  <2>2. n - x \in 0..n /\ n - (n - x) = x
    BY <2>1
  <2>3. n - x \in D
    BY <2>1, <2>2
  <2> QED BY <2>3
<1>2. PICK d \in D : \A y \in D : d <= y
  <2> HIDE DEF D
  <2> QED BY <1>1, MinIs
<1>3. n - d \in T /\ d \in 0..n
  BY <1>2
<1>4. ASSUME NEW y \in T PROVE n - d >= y
  <2>1. n - y \in 0..n /\ n - (n - y) = y
    OBVIOUS
  <2>2. n - y \in D
    BY <2>1
  <2> QED BY <2>2, <1>2, <1>3
<1>5. \E x \in T : \A y \in T : x >= y
  BY <1>3, <1>4
<1>6. Max(T) \in T /\ \A y \in T : Max(T) >= y
  <2> HIDE DEF D
  <2> QED BY <1>5 DEF Max
<1>7. \A y \in T : y \in Int
  OBVIOUS
<1> QED BY <1>6, <1>7

(* Fractions are integers, and sets of them have a least and a greatest    *)
(* element.                                                                *)
LEMMA Fractions ==
    /\ \A x \in Fraction : x \in Int
    /\ \A T : T \subseteq Fraction /\ T # {} =>
          /\ Min(T) \in T /\ \A y \in T : Min(T) <= y
          /\ Max(T) \in T /\ \A y \in T : y <= Max(T)
<1> DEFINE n == 1000
<1>1. n \in Nat
  OBVIOUS
<1>2. Fraction = 0..n
  BY Zenon DEF Fraction
<1> HIDE DEF n
<1> QED BY <1>1, <1>2, MinIs, MaxIs

(* The worst seed of a recipe bounds every seed (robust AP, worst FPR). *)
LEMMA RobustIs ==
    ASSUME world \in DOMAIN Worlds, NEW k \in Recipes
    PROVE  RobustAP(k) \in Fraction /\ WorstFPR(k) \in Fraction
<1>1. \A s \in Seeds : Metric[<<k, s>>].ap \in Fraction /\ Metric[<<k, s>>].fpr \in Fraction
  <2>1. Metric \in [Candidate -> Measured]
    BY WorldAssumption DEF Metric
  <2>2. \A s \in Seeds : <<k, s>> \in Candidate
    BY DEF Candidate
  <2>3. \A m \in Measured : m.ap \in Fraction /\ m.fpr \in Fraction
    BY DEF Measured
  <2> QED BY <2>1, <2>2, <2>3
<1> DEFINE A == {Metric[<<k, s>>].ap : s \in Seeds}
           F == {Metric[<<k, s>>].fpr : s \in Seeds}
<1>2. A \subseteq Fraction /\ A # {} /\ F \subseteq Fraction /\ F # {}
  <2>1. Seeds # {}
    BY WorldAssumption
  <2> QED BY <1>1, <2>1
<1>3. RobustAP(k) = Min(A) /\ WorstFPR(k) = Max(F)
  BY DEF RobustAP, WorstFPR
<1> HIDE DEF A, F
<1>4. Min(A) \in A /\ Max(F) \in F
  BY <1>2, Fractions
<1> QED BY <1>2, <1>3, <1>4

(* select_winner: as soon as some recipe is eligible, the winner is one,   *)
(* within ten thousandths of every eligible recipe's AP and, among those   *)
(* as good, within two of every FPR, and the simplest of what is left.     *)
LEMMA WinnerIs ==
    ASSUME world \in DOMAIN Worlds, Qualified # {}
    PROVE  /\ Winner \in Qualified
           /\ \A k \in Recipes : Eligible(k) =>
                /\ RobustAP(k) - RobustAP(Winner) <= 10
                /\ RobustAP(k) >= RobustAP(Winner) => WorstFPR(Winner) - WorstFPR(k) <= 2
                /\ RobustAP(k) >= RobustAP(Winner) /\ WorstFPR(k) <= WorstFPR(Winner) => Winner <= k
<1> DEFINE A == {RobustAP(k) : k \in Qualified}
           F == {WorstFPR(k) : k \in NearAP}
           W == {k \in NearAP : WorstFPR(k) - BestFPR <= 2}
<1>1. Qualified \subseteq Recipes /\ NearAP \subseteq Qualified /\ Recipes \subseteq 0..3
  BY DEF Qualified, NearAP, Recipes
<1>2. \A k \in Recipes : RobustAP(k) \in Fraction /\ WorstFPR(k) \in Fraction
  BY RobustIs
<1>3. A \subseteq Fraction /\ A # {} /\ F \subseteq Fraction
  BY <1>1, <1>2
<1>4. BestAP \in A /\ \A x \in A : x <= BestAP
  <2> HIDE DEF A
  <2>1. Max(A) \in A /\ \A x \in A : x <= Max(A)
    BY <1>3, Fractions
  <2> QED BY <2>1 DEF BestAP, A
<1>5. BestAP \in Fraction /\ \A k \in Qualified : RobustAP(k) <= BestAP
  BY <1>3, <1>4
<1>6. PICK a \in Qualified : RobustAP(a) = BestAP
  BY <1>4
<1>7. a \in NearAP
  BY <1>5, <1>6, Fractions DEF NearAP
<1>8. F # {}
  BY <1>7
<1>9. BestFPR \in F /\ \A x \in F : BestFPR <= x
  <2> HIDE DEF F
  <2>1. Min(F) \in F /\ \A x \in F : Min(F) <= x
    BY <1>3, <1>8, Fractions
  <2> QED BY <2>1 DEF BestFPR, F
<1>10. BestFPR \in Fraction /\ \A k \in NearAP : BestFPR <= WorstFPR(k)
  BY <1>3, <1>9
<1>11. PICK f \in NearAP : WorstFPR(f) = BestFPR
  BY <1>9
<1>12. W # {} /\ W \subseteq 0..3
  <2>1. WorstFPR(f) - BestFPR <= 2
    BY <1>10, <1>11, Fractions
  <2>2. W \subseteq NearAP /\ f \in W
    BY <2>1, <1>11
  <2> HIDE DEF W
  <2> QED BY <1>1, <2>2
<1>13. Winner \in W /\ \A k \in W : Winner <= k
  <2> HIDE DEF W
  <2>1. Min(W) \in W /\ \A k \in W : Min(W) <= k
    BY <1>12, MinIs
  <2> QED BY <2>1 DEF Winner, W
<1> HIDE DEF A, F
<1>14. /\ Winner \in NearAP /\ Winner \in Qualified /\ Winner \in Recipes
       /\ WorstFPR(Winner) - BestFPR <= 2 /\ BestAP - RobustAP(Winner) <= 10
  BY <1>1, <1>13 DEF NearAP
<1> SUFFICES ASSUME NEW k \in Recipes, Eligible(k)
             PROVE  /\ RobustAP(k) - RobustAP(Winner) <= 10
                    /\ RobustAP(k) >= RobustAP(Winner) => WorstFPR(Winner) - WorstFPR(k) <= 2
                    /\ RobustAP(k) >= RobustAP(Winner) /\ WorstFPR(k) <= WorstFPR(Winner) => Winner <= k
  BY <1>14
<1> DEFINE rk == RobustAP(k)
           rw == RobustAP(Winner)
           fk == WorstFPR(k)
           fw == WorstFPR(Winner)
<1>15. k \in Qualified
  BY DEF Qualified
<1>16. /\ rk \in Fraction /\ rw \in Fraction /\ fk \in Fraction /\ fw \in Fraction
       /\ rk <= BestAP /\ BestAP - rw <= 10 /\ fw - BestFPR <= 2
  BY <1>2, <1>5, <1>14, <1>15
<1>17. rk >= rw => k \in NearAP
  <2>1. rk >= rw => BestAP - rk <= 10
    <3> HIDE DEF rk, rw, fk, fw
    <3> QED BY <1>5, <1>16, Fractions
  <2> QED BY <2>1, <1>15 DEF NearAP
<1>18. rk >= rw => BestFPR <= fk
  BY <1>10, <1>17
<1>19. rk >= rw /\ fk <= fw => k \in W
  <2>1. fk <= fw => fk - BestFPR <= 2
    <3> HIDE DEF rk, rw, fk, fw
    <3> QED BY <1>10, <1>16, Fractions
  <2> QED BY <2>1, <1>17
<1> HIDE DEF rk, rw, fk, fw, W
<1>20. /\ rk - rw <= 10 /\ (rk >= rw => fw - fk <= 2)
       /\ (rk >= rw /\ fk <= fw => Winner <= k)
  BY <1>5, <1>10, <1>13, <1>16, <1>18, <1>19, Fractions
<1> QED BY <1>20 DEF rk, rw, fk, fw

(* The selected families of a split are the families of its samples, so    *)
(* that filled quotas are seen in the selection.                           *)
LEMMA FamiliesAre ==
    ASSUME NEW s PROVE FamiliesOf(s) = {i \in Selected : SplitName(Frac[i]) = s}
<1>1. ASSUME NEW i, i \in FamiliesOf(s) PROVE i \in Selected /\ SplitName(Frac[i]) = s
  <2>1. PICK x \in Samples : x.split = s /\ x.family = i
    BY <1>1 DEF FamiliesOf
  <2>2. x.family \in Selected /\ x.split = SplitName(Frac[x.family])
    BY <2>1 DEF Samples
  <2> QED BY <2>1, <2>2
<1>2. ASSUME NEW i \in Selected, SplitName(Frac[i]) = s PROVE i \in FamiliesOf(s)
  <2> DEFINE x == [family |-> i, split |-> SplitName(Frac[i]), label |-> 0]
  <2>1. x \in Samples
    BY DEF Samples
  <2>2. x.split = s /\ x.family = i
    BY <1>2
  <2> HIDE DEF x
  <2> QED BY <2>1, <2>2 DEF FamiliesOf
<1> QED BY <1>1, <1>2
-----------------------------------------------------------------------------
(* What an invocation has been through: the dataset, the explanations, the *)
(* selection.                                                              *)
AfterExplain == {"explained", "written", "sealed", "archived", "unmarked", "published"}
AfterLoad    == {"loaded", "fitted", "boosted", "trained"} \cup AfterExplain
AfterBundle  == {"sealed", "archived", "unmarked", "published"}

Filled    == \A s \in Splits : Cardinality(FamiliesOf(s)) = Quota[s]
Explained == \A c \in Recipes \X Seeds : validate_explanation(c)

EarnedInv ==
    \A r \in Run : /\ pc[r] \in AfterLoad => Filled
                   /\ pc[r] \in AfterExplain => Explained
                   /\ pc[r] \in AfterBundle => Qualified # {}

(* The world does not change, and neither does what follows from it. *)
LEMMA SameWorld ==
    ASSUME world' = world
    PROVE  (Filled => Filled') /\ (Explained => Explained') /\ (Qualified' = Qualified)
<1>1. Frac' = Frac /\ Metric' = Metric
  BY DEF Frac, Metric
<1>2. Selected' = Selected
  BY <1>1 DEF Selected
<1>3. Samples' = Samples
  BY <1>1, <1>2 DEF Samples
<1>4. Filled => Filled'
  BY <1>3 DEF Filled, FamiliesOf
<1>5. Explained => Explained'
  BY <1>1 DEF Explained, validate_explanation
<1>6. Qualified' = Qualified
  BY <1>1 DEF Qualified, Eligible, Passes
<1> QED BY <1>4, <1>5, <1>6
-----------------------------------------------------------------------------
(* An invocation that has not started has neither a process nor a staging; *)
(* one that had ended stays so; what it left marked is in the todo of a    *)
(* cleanup, or being removed, until the cleanup is over.                   *)
IdleInv == \A r \in Run : pc[r] = "idle" => pid[r] = None /\ dir[r] = "none"
PastInv == \A r \in Run : \A q \in past[r] : pc[q] \in Ended
ReclaimInv ==
    \A r \in Run : \A q \in past[r] : dir[q] \in {"marked", "sealed"} =>
        /\ pc[r] \notin Trying \cup {"made", "done"}
        /\ pc[r] = "cleaning" => q \in todo[r]
        /\ pc[r] = "removing" => q \in todo[r] \/ q = victim[r]

(* The invocation that published has no staging, and the handler of an     *)
(* interruption behind the rename will say so.                             *)
(* The changes that a passed verification leaves possible. *)
Covered(D) ==
    /\ "result.verdict" \notin D
    /\ "dataset"    \in D => "dataset.manifest" \in D
    /\ "candidates" \in D => "candidates.manifest" \in D
    /\ "repository" \in D => {"closure", "result.closure"} \subseteq D
    /\ "archive"    \in D => "result.archive" \in D
OutInv ==
    /\ \A r \in Run : pc[r] \in {"published", "done"} => out = r
    /\ out # None => /\ pc[out] \in {"published", "undo", "done", "held", "dead"}
                     /\ dir[out] = "none"
                     /\ pc[out] = "undo" => why[out] = "held"
VerdictInv == verdict = "pass" => Covered(damaged)

RunInv == TypeOK /\ IdleInv /\ PastInv /\ ReclaimInv /\ OutInv /\ VerdictInv

(* The stages that only move on. *)
Advance(r, to) ==
    \E from \in {"marked", "loaded", "fitted", "boosted", "trained", "explained", "sealed", "published"} :
       /\ Stage(r, from, to)
       /\ IF from = "published" THEN to = "done"
          ELSE to \in {"loaded", "fitted", "boosted", "trained", "explained", "written", "archived"}
(* The steps that end in the handler, and those that end at once. *)
Raises(r) == Fails(r) \/ (pc[r] \in Trying \cup {"made"} /\ Raise(r, "held"))
Leaves(r) == Live(r) /\ \E l \in {"held", "dead"} : Leave(r, l)

(* The invariant of a run holds initially.                                 *)
LEMMA InitRun == Init => RunInv
BY RunAssumption DEF Init, RunInv, TypeOK, IdleInv, PastInv, ReclaimInv, OutInv, VerdictInv, Outside, Trying,
   Ended, Staging

(* A start takes a process id that no live process has. *)
LEMMA StartRun == ASSUME RunInv, NEW r \in Run, Start(r) PROVE RunInv'
<1>1. TypeOK'
  <2>1. PICK p \in Pids \ {pid[q] : q \in {t \in Run : Live(t)}} : pid' = [pid EXCEPT ![r] = p]
    BY DEF Start
  <2>2. p \in Pids /\ p # None /\ \A q \in Run : Live(q) => pid[q] # p
    BY <2>1, RunAssumption
  <2>3. PICK l \in {"fresh", "failed"} : pc' = [pc EXCEPT ![r] = l]
    BY DEF Start, Goto
  <2>4. TypeOK /\ pc[r] = "idle" /\ past' = [past EXCEPT ![r] = {q \in Run : pc[q] \in Ended}]
        /\ UNCHANGED <<world, dir, todo, victim, why, out, damaged, verdict>>
    BY DEF RunInv, Start
  <2>5. \A q, t \in Run : q # t /\ pid'[q] = pid'[t] /\ pid'[q] # None => {pc'[q], pc'[t]} \cap Ended # {}
    <3>1. \A q \in Run : pid[q] = p => pc[q] \in Ended
      BY <2>2 DEF RunInv, IdleInv, Live
    <3>2. \A q \in Run : q # r => pid'[q] = pid[q] /\ pc'[q] = pc[q]
      BY <2>1, <2>3, <2>4 DEF TypeOK
    <3>3. pid'[r] = p
      BY <2>1, <2>4 DEF TypeOK
    <3> QED BY <2>4, <3>1, <3>2, <3>3 DEF TypeOK
  <2>6. pc' \in [Run -> {"idle", "made", "undo"} \cup Outside \cup Trying \cup Ended]
    BY <2>3, <2>4 DEF TypeOK, Outside, Ended
  <2>7. pid' \in [Run -> Pids \cup {None}] /\ past' \in [Run -> SUBSET Run]
    BY <2>1, <2>4 DEF TypeOK
  <2>8. \A q \in Run : victim'[q] # None <=> pc'[q] = "removing"
    BY <2>3, <2>4 DEF TypeOK
  <2> QED BY <2>4, <2>5, <2>6, <2>7, <2>8 DEF TypeOK
<1>2. IdleInv'
  BY RunAssumption DEF RunInv, TypeOK, IdleInv, Start, Goto,
     Outside, Trying, Ended, Staging
<1>3. PastInv'
  BY RunAssumption DEF RunInv, TypeOK, PastInv, Start, Goto, IdleInv,
     Outside, Trying, Ended, Staging
<1>4. ReclaimInv'
  BY RunAssumption DEF RunInv, TypeOK, ReclaimInv, Start, Goto,
     Outside, Trying, Ended, Staging
<1>5. OutInv'
  BY RunAssumption DEF RunInv, TypeOK, OutInv, Start, Goto,
     Outside, Trying, Ended, Staging
<1>6. VerdictInv'
  BY RunAssumption DEF RunInv, TypeOK, VerdictInv, Start, Goto,
     Outside, Trying, Ended, Staging
<1> QED BY <1>1, <1>2, <1>3, <1>4, <1>5, <1>6 DEF RunInv

(* The glob finds every staging directory that is there. *)
LEMMA GlobRun == ASSUME RunInv, NEW r \in Run, Glob(r) PROVE RunInv'
<1>1. TypeOK'
  BY RunAssumption DEF RunInv, TypeOK, Glob, Goto, Rest,
     Outside, Trying, Ended, Staging
<1>2. IdleInv'
  BY RunAssumption DEF RunInv, TypeOK, IdleInv, Glob, Goto, Rest,
     Outside, Trying, Ended, Staging
<1>3. PastInv'
  BY RunAssumption DEF RunInv, TypeOK, PastInv, Glob, Goto, Rest,
     Outside, Trying, Ended, Staging
<1>4. ReclaimInv'
  BY RunAssumption DEF RunInv, TypeOK, ReclaimInv, Glob, Goto, Rest,
     Outside, Trying, Ended, Staging
<1>5. OutInv'
  BY RunAssumption DEF RunInv, TypeOK, OutInv, Glob, Goto, Rest,
     Outside, Trying, Ended, Staging
<1>6. VerdictInv'
  BY RunAssumption DEF RunInv, TypeOK, VerdictInv, Glob, Goto, Rest,
     Outside, Trying, Ended, Staging
<1> QED BY <1>1, <1>2, <1>3, <1>4, <1>5, <1>6 DEF RunInv

(* The marker of an invocation that had ended is always found stale. *)
LEMMA JudgeRun == ASSUME RunInv, NEW r \in Run, Judge(r) PROVE RunInv'
<1>1. TypeOK'
  BY RunAssumption DEF RunInv, TypeOK, Judge, Goto, Rest,
     Outside, Trying, Ended, Staging
<1>2. IdleInv'
  BY RunAssumption DEF RunInv, TypeOK, IdleInv, Judge, Goto, Rest,
     Outside, Trying, Ended, Staging
<1>3. PastInv'
  BY RunAssumption DEF RunInv, TypeOK, PastInv, Judge, Goto, Rest,
     Outside, Trying, Ended, Staging
<1>4. ReclaimInv'
  BY RunAssumption DEF RunInv, TypeOK, ReclaimInv, Judge, Goto, Rest, PastInv, Stale, OwnerLives, Observed, Live,
     Outside, Trying, Ended, Staging
<1>5. OutInv'
  BY RunAssumption DEF RunInv, TypeOK, OutInv, Judge, Goto, Rest,
     Outside, Trying, Ended, Staging
<1>6. VerdictInv'
  BY RunAssumption DEF RunInv, TypeOK, VerdictInv, Judge, Goto, Rest,
     Outside, Trying, Ended, Staging
<1> QED BY <1>1, <1>2, <1>3, <1>4, <1>5, <1>6 DEF RunInv

(* A removal takes one staging directory, or finds it gone. *)
LEMMA RemoveRun == ASSUME RunInv, NEW r \in Run, Remove(r) PROVE RunInv'
<1>1. TypeOK'
  BY RunAssumption DEF RunInv, TypeOK, Remove, Removed, Goto, Rest,
     Outside, Trying, Ended, Staging
<1>2. IdleInv'
  BY RunAssumption DEF RunInv, TypeOK, IdleInv, Remove, Removed, Goto, Rest,
     Outside, Trying, Ended, Staging
<1>3. PastInv'
  BY RunAssumption DEF RunInv, TypeOK, PastInv, Remove, Removed, Goto, Rest,
     Outside, Trying, Ended, Staging
<1>4. ReclaimInv'
  BY RunAssumption DEF RunInv, TypeOK, ReclaimInv, Remove, Removed, Goto, Rest,
     Outside, Trying, Ended, Staging
<1>5. OutInv'
  BY RunAssumption DEF RunInv, TypeOK, OutInv, Remove, Removed, Goto, Rest,
     Outside, Trying, Ended, Staging
<1>6. VerdictInv'
  BY RunAssumption DEF RunInv, TypeOK, VerdictInv, Remove, Removed, Goto, Rest,
     Outside, Trying, Ended, Staging
<1> QED BY <1>1, <1>2, <1>3, <1>4, <1>5, <1>6 DEF RunInv

(* A staging is made and marked behind the cleanup. *)
LEMMA MakeRun == ASSUME RunInv, NEW r \in Run, MakeStaging(r) \/ Mark(r) PROVE RunInv'
<1>1. TypeOK'
  BY RunAssumption DEF RunInv, TypeOK, MakeStaging, Mark, Goto, Rest,
     Outside, Trying, Ended, Staging
<1>2. IdleInv'
  BY RunAssumption DEF RunInv, TypeOK, IdleInv, MakeStaging, Mark, Goto, Rest,
     Outside, Trying, Ended, Staging
<1>3. PastInv'
  BY RunAssumption DEF RunInv, TypeOK, PastInv, MakeStaging, Mark, Goto, Rest,
     Outside, Trying, Ended, Staging
<1>4. ReclaimInv'
  BY RunAssumption DEF RunInv, TypeOK, ReclaimInv, MakeStaging, Mark, Goto, Rest, PastInv,
     Outside, Trying, Ended, Staging
<1>5. OutInv'
  BY RunAssumption DEF RunInv, TypeOK, OutInv, MakeStaging, Mark, Goto, Rest,
     Outside, Trying, Ended, Staging
<1>6. VerdictInv'
  BY RunAssumption DEF RunInv, TypeOK, VerdictInv, MakeStaging, Mark, Goto, Rest,
     Outside, Trying, Ended, Staging
<1> QED BY <1>1, <1>2, <1>3, <1>4, <1>5, <1>6 DEF RunInv

(* The stages between the marker and the return touch no staging. *)
LEMMA StageRun == ASSUME RunInv, NEW r \in Run, \E to : Advance(r, to) PROVE RunInv'
<1>1. TypeOK'
  BY RunAssumption DEF RunInv, TypeOK, Advance, Stage, Goto, Rest,
     Outside, Trying, Ended, Staging
<1>2. IdleInv'
  BY RunAssumption DEF RunInv, TypeOK, IdleInv, Advance, Stage, Goto, Rest,
     Outside, Trying, Ended, Staging
<1>3. PastInv'
  BY RunAssumption DEF RunInv, TypeOK, PastInv, Advance, Stage, Goto, Rest,
     Outside, Trying, Ended, Staging
<1>4. ReclaimInv'
  BY RunAssumption DEF RunInv, TypeOK, ReclaimInv, Advance, Stage, Goto, Rest,
     Outside, Trying, Ended, Staging
<1>5. OutInv'
  BY RunAssumption DEF RunInv, TypeOK, OutInv, Advance, Stage, Goto, Rest,
     Outside, Trying, Ended, Staging
<1>6. VerdictInv'
  BY RunAssumption DEF RunInv, TypeOK, VerdictInv, Advance, Stage, Goto, Rest,
     Outside, Trying, Ended, Staging
<1> QED BY <1>1, <1>2, <1>3, <1>4, <1>5, <1>6 DEF RunInv

(* The bundle is sealed, and the marker goes, in the own staging. *)
LEMMA BundleRun == ASSUME RunInv, NEW r \in Run, Bundle(r) \/ Unmark(r) PROVE RunInv'
<1>1. TypeOK'
  BY RunAssumption DEF RunInv, TypeOK, Bundle, Unmark, Goto, Rest,
     Outside, Trying, Ended, Staging
<1>2. IdleInv'
  BY RunAssumption DEF RunInv, TypeOK, IdleInv, Bundle, Unmark, Goto, Rest,
     Outside, Trying, Ended, Staging
<1>3. PastInv'
  BY RunAssumption DEF RunInv, TypeOK, PastInv, Bundle, Unmark, Goto, Rest,
     Outside, Trying, Ended, Staging
<1>4. ReclaimInv'
  BY RunAssumption DEF RunInv, TypeOK, ReclaimInv, Bundle, Unmark, Goto, Rest, PastInv,
     Outside, Trying, Ended, Staging
<1>5. OutInv'
  BY RunAssumption DEF RunInv, TypeOK, OutInv, Bundle, Unmark, Goto, Rest,
     Outside, Trying, Ended, Staging
<1>6. VerdictInv'
  BY RunAssumption DEF RunInv, TypeOK, VerdictInv, Bundle, Unmark, Goto, Rest,
     Outside, Trying, Ended, Staging
<1> QED BY <1>1, <1>2, <1>3, <1>4, <1>5, <1>6 DEF RunInv

(* The rename publishes the own staging where no output is. *)
LEMMA PublishRun == ASSUME RunInv, NEW r \in Run, Publish(r) PROVE RunInv'
<1>1. TypeOK'
  BY RunAssumption DEF RunInv, TypeOK, Publish, Replaces, Goto, Rest,
     Outside, Trying, Ended, Staging
<1>2. IdleInv'
  BY RunAssumption DEF RunInv, TypeOK, IdleInv, Publish, Replaces, Goto, Rest,
     Outside, Trying, Ended, Staging
<1>3. PastInv'
  BY RunAssumption DEF RunInv, TypeOK, PastInv, Publish, Replaces, Goto, Rest,
     Outside, Trying, Ended, Staging
<1>4. ReclaimInv'
  BY RunAssumption DEF RunInv, TypeOK, ReclaimInv, Publish, Replaces, Goto, Rest,
     Outside, Trying, Ended, Staging
<1>5. OutInv'
  BY RunAssumption DEF RunInv, TypeOK, OutInv, Publish, Replaces, Goto, Rest,
     Outside, Trying, Ended, Staging
<1>6. VerdictInv'
  BY RunAssumption DEF RunInv, TypeOK, VerdictInv, Publish, Replaces, Goto, Rest,
     Outside, Trying, Ended, Staging
<1> QED BY <1>1, <1>2, <1>3, <1>4, <1>5, <1>6 DEF RunInv

(* An exception is handled; behind the rename only an interruption. *)
LEMMA RaiseRun == ASSUME RunInv, NEW r \in Run, Raises(r) PROVE RunInv'
<1>1. TypeOK'
  BY RunAssumption DEF RunInv, TypeOK, Raises, Fails, Raise, Goto, Rest,
     Outside, Trying, Ended, Staging
<1>2. IdleInv'
  BY RunAssumption DEF RunInv, TypeOK, IdleInv, Raises, Fails, Raise, Goto, Rest,
     Outside, Trying, Ended, Staging
<1>3. PastInv'
  BY RunAssumption DEF RunInv, TypeOK, PastInv, Raises, Fails, Raise, Goto, Rest,
     Outside, Trying, Ended, Staging
<1>4. ReclaimInv'
  BY RunAssumption DEF RunInv, TypeOK, ReclaimInv, Raises, Fails, Raise, Goto, Rest,
     Outside, Trying, Ended, Staging
<1>5. OutInv'
  BY RunAssumption DEF RunInv, TypeOK, OutInv, Raises, Fails, Raise, Goto, Rest,
     Outside, Trying, Ended, Staging
<1>6. VerdictInv'
  BY RunAssumption DEF RunInv, TypeOK, VerdictInv, Raises, Fails, Raise, Goto, Rest,
     Outside, Trying, Ended, Staging
<1> QED BY <1>1, <1>2, <1>3, <1>4, <1>5, <1>6 DEF RunInv

(* The handler removes the own staging; a published one is gone. *)
LEMMA UndoRun == ASSUME RunInv, NEW r \in Run, Undo(r) PROVE RunInv'
<1>1. TypeOK'
  BY RunAssumption DEF RunInv, TypeOK, Undo, Removable, Goto, Rest,
     Outside, Trying, Ended, Staging
<1>2. IdleInv'
  BY RunAssumption DEF RunInv, TypeOK, IdleInv, Undo, Removable, Goto, Rest,
     Outside, Trying, Ended, Staging
<1>3. PastInv'
  BY RunAssumption DEF RunInv, TypeOK, PastInv, Undo, Removable, Goto, Rest,
     Outside, Trying, Ended, Staging
<1>4. ReclaimInv'
  BY RunAssumption DEF RunInv, TypeOK, ReclaimInv, Undo, Removable, Goto, Rest,
     Outside, Trying, Ended, Staging
<1>5. OutInv'
  BY RunAssumption DEF RunInv, TypeOK, OutInv, Undo, Removable, Goto, Rest,
     Outside, Trying, Ended, Staging
<1>6. VerdictInv'
  BY RunAssumption DEF RunInv, TypeOK, VerdictInv, Undo, Removable, Goto, Rest,
     Outside, Trying, Ended, Staging
<1> QED BY <1>1, <1>2, <1>3, <1>4, <1>5, <1>6 DEF RunInv

(* A death leaves what a removal has not taken yet. *)
LEMMA LeaveRun == ASSUME RunInv, NEW r \in Run, Leaves(r) PROVE RunInv'
<1>1. TypeOK'
  BY RunAssumption DEF RunInv, TypeOK, Leaves, Leave, Live, HalfRemoved, Goto, Rest,
     Outside, Trying, Ended, Staging
<1>2. IdleInv'
  BY RunAssumption DEF RunInv, TypeOK, IdleInv, Leaves, Leave, Live, HalfRemoved, Goto, Rest,
     Outside, Trying, Ended, Staging
<1>3. PastInv'
  BY RunAssumption DEF RunInv, TypeOK, PastInv, Leaves, Leave, Live, HalfRemoved, Goto, Rest,
     Outside, Trying, Ended, Staging
<1>4. ReclaimInv'
  BY RunAssumption DEF RunInv, TypeOK, ReclaimInv, Leaves, Leave, Live, HalfRemoved, Goto, Rest,
     Outside, Trying, Ended, Staging
<1>5. OutInv'
  BY RunAssumption DEF RunInv, TypeOK, OutInv, Leaves, Leave, Live, HalfRemoved, Goto, Rest,
     Outside, Trying, Ended, Staging
<1>6. VerdictInv'
  BY RunAssumption DEF RunInv, TypeOK, VerdictInv, Leaves, Leave, Live, HalfRemoved, Goto, Rest,
     Outside, Trying, Ended, Staging
<1> QED BY <1>1, <1>2, <1>3, <1>4, <1>5, <1>6 DEF RunInv

(* A verification and a change of the output touch no invocation; a passed *)
(* verification has seen every part.                                       *)
LEMMA CheckRun == ASSUME RunInv, Verify \/ Damage PROVE RunInv' /\ VerifiedIsIntact
<1>1. TypeOK /\ verdict = "none" /\ UNCHANGED <<world, pc, pid, dir, past, todo, victim, why, out>>
  BY DEF RunInv, Verify, Damage
<1>2. CASE Verify
  <2>1. damaged' = damaged /\ verdict' \in {"pass", "fail"}
    BY <1>2 DEF Verify
  <2>2. PICK a \in BOOLEAN : verdict' = "pass" =>
            ResultHolds /\ DatasetLoads(a) /\ CandidatesVerify(a) /\ RepositoryVerifies(a) /\ ArchiveVerifies(a)
    BY <1>2 DEF Verify
  <2>3. verdict' = "pass" => Covered(damaged')
    BY <2>1, <2>2 DEF ResultHolds, DatasetLoads, CandidatesVerify, RepositoryVerifies, ArchiveVerifies, Agree, Covered
  <2> QED BY <1>1, <2>1, <2>3 DEF RunInv, TypeOK, IdleInv, PastInv, ReclaimInv, OutInv, VerdictInv, VerifiedIsIntact, Covered
<1>3. CASE Damage
  <2>1. damaged' \subseteq Parts /\ verdict' = "none"
    BY <1>1, <1>3, ChangesAssumption DEF Damage
  <2> QED BY <1>1, <2>1 DEF RunInv, TypeOK, IdleInv, PastInv, ReclaimInv, OutInv, VerdictInv, VerifiedIsIntact, Covered
<1> QED BY <1>2, <1>3

(* The steps of an invocation, by what they do to its staging. *)
LEMMA Kinds ==
    ASSUME NEW r \in Run, Start(r) \/ Step(r) \/ Interrupt(r) \/ Kill(r)
    PROVE  \/ Start(r) \/ Glob(r) \/ Judge(r) \/ Remove(r) \/ MakeStaging(r) \/ Mark(r)
           \/ (\E to : Advance(r, to)) \/ Bundle(r) \/ Unmark(r) \/ Publish(r)
           \/ Raises(r) \/ Undo(r) \/ Leaves(r)
<1>1. ASSUME Dataset(r) \/ TrainLogistic(r) \/ TrainXGBoost(r) \/ TrainAutoencoder(r) \/ Explain(r)
             \/ WriteCandidates(r) \/ Archive(r) \/ Returns(r)
      PROVE  \E to : Advance(r, to)
  BY <1>1 DEF Dataset, TrainLogistic, TrainXGBoost, TrainAutoencoder, Explain, WriteCandidates, Archive,
              Returns, Advance
<1>2. ASSUME Interrupt(r) \/ Kill(r) \/ Fails(r) PROVE Raises(r) \/ Leaves(r)
  BY <1>2 DEF Interrupt, Kill, Raises, Leaves, Live, Outside, Ended
<1> QED BY <1>1, <1>2 DEF Step

(* Every step preserves the invariant of a run.                            *)
LEMMA NextRun == ASSUME RunInv, [Next]_vars PROVE RunInv'
<1>1. CASE UNCHANGED vars
  BY <1>1 DEF vars, RunInv, TypeOK, IdleInv, PastInv, ReclaimInv, OutInv, VerdictInv
<1>2. ASSUME NEW r \in Run, Start(r) \/ Step(r) \/ Interrupt(r) \/ Kill(r) PROVE RunInv'
  BY <1>2, Kinds, StartRun, GlobRun, JudgeRun, RemoveRun, MakeRun, StageRun, BundleRun, PublishRun, RaiseRun,
     UndoRun, LeaveRun
<1> QED BY <1>1, <1>2, CheckRun DEF Next

(* The variables keep their types, no two processes share an id, an        *)
(* invocation that reports failure has published nothing, and one that     *)
(* builds has reclaimed what the ended ones before it left marked          *)
(* (run_pipeline, _cleanup_stale_staging).                                 *)
THEOREM StagingReclaimed == Spec => [](RunInv /\ StaleReclaimed /\ FailedIsSilent)
<1>1. Init => RunInv
  BY InitRun
<1>2. RunInv /\ [Next]_vars => RunInv'
  BY NextRun
<1>3. RunInv => StaleReclaimed /\ FailedIsSilent
  BY RunAssumption DEF RunInv, ReclaimInv, OutInv, StaleReclaimed, FailedIsSilent
<1> QED BY <1>1, <1>2, <1>3, PTL DEF Spec

(* An output is never replaced, also when two invocations raced for it,    *)
(* and a file changed in it passes a verification only when every record   *)
(* that the verification compares it with was changed too (run_pipeline,   *)
(* verify_pipeline_output).                                                *)
THEOREM OutputStaysHolds == Spec => OutputStays
<1>1. ASSUME RunInv, NEW r \in Run, Start(r) \/ Step(r) \/ Interrupt(r) \/ Kill(r)
      PROVE  PublishedIsFinal /\ VerifiedIsIntact
  <2>1. UNCHANGED <<damaged, verdict>>
    BY <1>1, Kinds DEF Start, Glob, Judge, Remove, MakeStaging, Mark, Advance, Stage, Bundle, Unmark, Publish,
       Raises, Fails, Raise, Undo, Leaves, Leave, Rest
  <2>2. UNCHANGED out \/ out = None
    BY <1>1, Kinds DEF Start, Glob, Judge, Remove, MakeStaging, Mark, Advance, Stage, Bundle, Unmark, Publish,
       Replaces, Raises, Fails, Raise, Undo, Leaves, Leave
  <2> QED BY <1>1, <2>1, <2>2 DEF PublishedIsFinal, VerifiedIsIntact, RunInv, VerdictInv, Covered
<1>2. ASSUME RunInv, Verify \/ Damage PROVE PublishedIsFinal /\ VerifiedIsIntact
  <2>1. UNCHANGED out
    BY <1>2 DEF Verify, Damage
  <2> QED BY <1>2, <2>1, CheckRun DEF PublishedIsFinal
<1>3. RunInv /\ [Next]_vars => [PublishedIsFinal /\ VerifiedIsIntact]_vars
  BY <1>1, <1>2 DEF Next
<1>4. Spec => []RunInv
  BY StagingReclaimed, PTL
<1> QED BY <1>3, <1>4, PTL DEF Spec, OutputStays
-----------------------------------------------------------------------------
(* With /proc a marker names a live process exactly while its invocation   *)
(* lives: only the staging of an ended one is removed by another.          *)
OwnInv ==
    /\ \A r \in Run : pc[r] \in Trying \ {"published"} => dir[r] # "none"
    /\ \A q \in Run : victim[q] # None => pc[victim[q]] \in Ended

(* Every step preserves the ownership of staging directories.              *)
LEMMA NextOwn == ASSUME ProcFS, RunInv, OwnInv, [Next]_vars PROVE OwnInv'
<1>1. CASE UNCHANGED vars \/ Verify \/ Damage
  BY <1>1 DEF vars, Verify, Damage, OwnInv
<1>2. ASSUME NEW r \in Run, Start(r) \/ Step(r) \/ Interrupt(r) \/ Kill(r) PROVE OwnInv'
  <2> USE DEF RunInv, TypeOK, OwnInv, Goto, Outside, Trying, Ended, Staging
  <2>1. CASE Start(r) \/ Glob(r)
    BY <2>1, RunAssumption DEF Start, Glob
  <2>2. CASE Judge(r)
    BY <2>2, RunAssumption DEF Judge, Stale, OwnerLives, Observed, Live, IdleInv
  <2>3. CASE Remove(r)
    BY <2>3, RunAssumption DEF Remove, Removed
  <2>4. CASE MakeStaging(r) \/ Mark(r)
    BY <2>4, RunAssumption DEF MakeStaging, Mark
  <2>5. CASE \E to : Advance(r, to)
    BY <2>5, RunAssumption DEF Advance, Stage
  <2>6. CASE Bundle(r) \/ Unmark(r) \/ Publish(r)
    BY <2>6, RunAssumption DEF Bundle, Unmark, Publish
  <2>7. CASE Raises(r) \/ Undo(r)
    BY <2>7, RunAssumption DEF Raises, Fails, Raise, Undo
  <2>8. CASE Leaves(r)
    BY <2>8, RunAssumption DEF Leaves, Leave, Live, HalfRemoved
  <2> QED BY <1>2, Kinds, <2>1, <2>2, <2>3, <2>4, <2>5, <2>6, <2>7, <2>8
<1> QED BY <1>1, <1>2 DEF Next

(* Where /proc is mounted, staging directories are reclaimed when, and     *)
(* only when, their owner is gone, although process ids are used again:    *)
(* no cleanup takes the staging of an invocation that still builds, and    *)
(* every marked staging that had been abandoned is gone before an          *)
(* invocation makes its own (_cleanup_stale_staging).                      *)
THEOREM StagingIsSafe == ASSUME ProcFS PROVE Spec => []StagingInv
<1>1. Init => OwnInv
  BY DEF Init, OwnInv, Trying
<1>2. RunInv /\ OwnInv /\ [Next]_vars => OwnInv'
  BY NextOwn
<1>3. RunInv /\ OwnInv => LiveStagingKept
  BY RunAssumption DEF RunInv, TypeOK, OwnInv, LiveStagingKept, Live
<1>4. RunInv => TypeOK
  BY DEF RunInv
<1> QED BY <1>1, <1>2, <1>3, <1>4, StagingReclaimed, PTL DEF Spec, StagingInv
-----------------------------------------------------------------------------
(* Every step preserves that an output was earned.                         *)
LEMMA NextEarned == ASSUME RunInv, EarnedInv, [Next]_vars PROVE EarnedInv'
<1>1. world' = world
  <2>1. CASE UNCHANGED vars \/ Verify \/ Damage
    BY <2>1 DEF vars, Verify, Damage
  <2>2. ASSUME NEW r \in Run, Start(r) \/ Step(r) \/ Interrupt(r) \/ Kill(r) PROVE world' = world
    BY <2>2, Kinds DEF Start, Glob, Judge, Remove, MakeStaging, Mark, Advance, Stage, Bundle, Unmark, Publish,
       Raises, Fails, Raise, Undo, Leaves, Leave, Rest
  <2> QED BY <2>1, <2>2 DEF Next
<1>2. (Filled => Filled') /\ (Explained => Explained') /\ Qualified' = Qualified
  BY <1>1, SameWorld
<1>3. CASE UNCHANGED pc
  BY <1>2, <1>3 DEF EarnedInv
<1>4. ASSUME NEW r \in Run, NEW l, pc' = [pc EXCEPT ![r] = l],
             /\ l \in AfterLoad => Filled
             /\ l \in AfterExplain => Explained
             /\ l \in AfterBundle => Qualified # {}
      PROVE  EarnedInv'
  BY <1>2, <1>4 DEF EarnedInv, RunInv, TypeOK
<1>5. ASSUME NEW r \in Run, Start(r) \/ Step(r) \/ Interrupt(r) \/ Kill(r) PROVE EarnedInv'
  <2> USE DEF Goto, AfterLoad, AfterExplain, AfterBundle
  <2>1. CASE Start(r) \/ Glob(r) \/ Judge(r) \/ Remove(r)
    BY <2>1, <1>3, <1>4 DEF Start, Glob, Judge, Remove
  <2>2. CASE MakeStaging(r) \/ Mark(r) \/ Raises(r) \/ Leaves(r)
    BY <2>2, <1>4 DEF MakeStaging, Mark, Raises, Fails, Raise, Leaves, Leave
  <2>3. CASE Undo(r)
    BY <2>3, <1>4 DEF Undo, RunInv, TypeOK
  <2>4. CASE Dataset(r)
    BY <2>4, <1>4 DEF Dataset, Stage, Generates, Filled
  <2>5. CASE TrainLogistic(r) \/ TrainXGBoost(r) \/ TrainAutoencoder(r) \/ WriteCandidates(r)
             \/ Archive(r) \/ Returns(r)
    BY <2>5, <1>4 DEF TrainLogistic, TrainXGBoost, TrainAutoencoder, WriteCandidates, Archive, Returns, Stage,
       EarnedInv
  <2>6. CASE Explain(r)
    BY <2>6, <1>4 DEF Explain, Stage, Explained, EarnedInv
  <2>7. CASE Bundle(r) \/ Unmark(r) \/ Publish(r)
    BY <2>7, <1>4 DEF Bundle, Unmark, Publish, EarnedInv
  <2>8. Interrupt(r) \/ Kill(r) \/ Fails(r) => Raises(r) \/ Leaves(r)
    BY DEF Interrupt, Kill, Raises, Leaves, Live, Outside, Ended
  <2> QED BY <1>5, <2>1, <2>2, <2>3, <2>4, <2>5, <2>6, <2>7, <2>8 DEF Step
<1> QED BY <1>3, <1>5 DEF Next, vars, Verify, Damage

(* What is at the output path is the whole work of an invocation that did  *)
(* not report failure: its quotas are filled, every explanation adds up,   *)
(* and the winner passes on every seed and is within the AP and FPR bands  *)
(* of every eligible recipe, whatever the metrics are (run_pipeline,       *)
(* select_winner).                                                         *)
THEOREM OutputIsEarnedHolds == Spec => []OutputIsEarned
<1>1. Init => EarnedInv
  BY DEF Init, EarnedInv, AfterLoad, AfterExplain, AfterBundle
<1>2. RunInv /\ EarnedInv /\ [Next]_vars => EarnedInv'
  BY NextEarned
<1>3. ASSUME RunInv, EarnedInv PROVE PublishedIsWhole
  <2> SUFFICES ASSUME out # None
               PROVE  /\ pc[out] \in {"published", "undo", "done", "held", "dead"} /\ dir[out] = "none"
                      /\ pc[out] = "published" =>
                            /\ \A s \in Splits : Cardinality({i \in Selected : SplitName(Frac[i]) = s}) = Quota[s]
                            /\ \A c \in Recipes \X Seeds : validate_explanation(c)
                            /\ LET w == Winner IN
                               /\ \A s \in Seeds : Passes(<<w, s>>)
                               /\ \A k \in Recipes : Eligible(k) =>
                                     /\ RobustAP(k) - RobustAP(w) <= 10
                                     /\ RobustAP(k) >= RobustAP(w) => WorstFPR(w) - WorstFPR(k) <= 2
                                     /\ RobustAP(k) >= RobustAP(w) /\ WorstFPR(k) <= WorstFPR(w) => w <= k
    BY DEF PublishedIsWhole
  <2>1. /\ out \in Run /\ pc[out] \in {"published", "undo", "done", "held", "dead"} /\ dir[out] = "none"
        /\ world \in DOMAIN Worlds
    BY <1>3 DEF RunInv, OutInv, TypeOK
  <2>2. pc[out] = "published" => Filled /\ Explained /\ Qualified # {}
    BY <1>3, <2>1 DEF EarnedInv, AfterLoad, AfterExplain, AfterBundle
  <2>3. Filled => \A s \in Splits : Cardinality({i \in Selected : SplitName(Frac[i]) = s}) = Quota[s]
    BY FamiliesAre DEF Filled
  <2>4. Qualified # {} => Winner \in Recipes /\ \A s \in Seeds : Passes(<<Winner, s>>)
    BY <2>1, WinnerIs DEF Qualified, Eligible
  <2>5. Qualified # {} =>
          \A k \in Recipes : Eligible(k) =>
                /\ RobustAP(k) - RobustAP(Winner) <= 10
                /\ RobustAP(k) >= RobustAP(Winner) => WorstFPR(Winner) - WorstFPR(k) <= 2
                /\ RobustAP(k) >= RobustAP(Winner) /\ WorstFPR(k) <= WorstFPR(Winner) => Winner <= k
    BY <2>1, WinnerIs
  <2> QED BY <2>1, <2>2, <2>3, <2>4, <2>5 DEF Explained
<1>4. RunInv /\ EarnedInv => PublishedIsWhole
  BY <1>3
<1> QED BY <1>1, <1>2, <1>4, StagingReclaimed, PTL DEF Spec, OutputIsEarned
=============================================================================
