------------------------------ MODULE OfflineML ------------------------------
(***************************************************************************)
(* The offline ML pipeline (ml-py, pipeline.py and what it calls): several *)
(* invocations of `masi-offline-ml run` on one output path, each building  *)
(* in a private staging directory and publishing it with one rename; their *)
(* interruption (SIGTERM raises KeyboardInterrupt), their sudden death     *)
(* (SIGKILL), the recovery of abandoned staging, the selection of a winner *)
(* and the verification of what was published.                             *)
(*                                                                         *)
(* Everything an invocation computes is a function of the repository: the  *)
(* split of the capture families and the metrics of the candidates are     *)
(* part of the world, the same for every invocation.                       *)
(***************************************************************************)
EXTENDS Integers, Sequences, FiniteSets, FiniteSetsExt

CONSTANTS Run,       \* invocations of the pipeline
          Pids,      \* process ids, which the system uses again
          Seeds,     \* SEEDS
          Quota,     \* FAMILY_QUOTAS
          Worlds,    \* what the repository lets an invocation compute, by name
          Changes,   \* what may be changed together in a published output
          ProcFS,    \* /proc is mounted
          Root,      \* the process may write to directories of mode 0550
          None

ASSUME PlatformAssumption == ProcFS \in BOOLEAN /\ Root \in BOOLEAN
ASSUME RunAssumption == None \notin Run \cup Pids

VARIABLES
    world,   \* which of the Worlds the repository is
    pc,      \* where each invocation is
    pid,     \* its process id
    dir,     \* its staging directory
    past,    \* history: the invocations that had ended when it started
    todo,    \* staging directories that its cleanup has still to look at
    victim,  \* the one it is removing
    why,     \* how it will end, while it undoes its own staging
    out,     \* the invocation whose staging became the output, or None
    damaged, \* parts of the output that were changed after publication
    verdict  \* of the last `masi-offline-ml verify`

vars == <<world, pc, pid, dir, past, todo, victim, why, out, damaged, verdict>>

Splits    == {"train", "early_stop", "calibration", "blind_test"}
Recipes   == 1..3                  \* TRAINERS: logistic, xgboost, autoencoder, simplest first
Candidate == Recipes \X Seeds

(* The parts of an output that verify_pipeline_output tells apart: files,  *)
(* the records of their digests in other files, and what it never reads    *)
(* (the other fields of the result document and of the manifests, the      *)
(* documents of the bundle beside its repository).                         *)
Parts == {"dataset", "dataset.manifest", "candidates", "candidates.manifest", "repository", "closure",
          "archive", "result.closure", "result.archive", "result.verdict", "unread"}

(* AP and FPR are fractions, in thousandths here. *)
Fraction == 0..1000
Measured == [ap : Fraction, fpr : Fraction, rest : BOOLEAN, feasible : BOOLEAN, exports : BOOLEAN,
             attributes : BOOLEAN, additive : BOOLEAN]
ASSUME WorldAssumption ==
    Seeds # {} /\ \A w \in DOMAIN Worlds : Worlds[w].metric \in [Candidate -> Measured]

ASSUME ChangesAssumption == Changes \subseteq SUBSET Parts

Ended   == {"done", "failed", "held", "dead"}
Trying  == {"marked", "loaded", "fitted", "boosted", "trained", "explained", "written",
            "sealed", "archived", "unmarked", "published"}
Outside == {"fresh", "cleaning", "removing"}          \* before run_pipeline's try
(* A staging directory: without the owner marker, with it, with it and the *)
(* repository made read-only, or complete and without the marker again.    *)
Staging == {"none", "bare", "marked", "sealed", "ready"}

TypeOK ==
    /\ world \in DOMAIN Worlds
    /\ pc \in [Run -> {"idle", "made", "undo"} \cup Outside \cup Trying \cup Ended]
    /\ pid \in [Run -> Pids \cup {None}]
    /\ dir \in [Run -> Staging]
    /\ past \in [Run -> SUBSET Run] /\ todo \in [Run -> SUBSET Run]
    /\ victim \in [Run -> Run \cup {None}]
    /\ \A r \in Run : victim[r] # None <=> pc[r] = "removing"
    /\ why \in [Run -> {"failed", "held"}]
    /\ out \in Run \cup {None}
    /\ damaged \subseteq Parts /\ verdict \in {"none", "pass", "fail"}
    (* no two processes have one id *)
    /\ \A r, q \in Run : r # q /\ pid[r] = pid[q] /\ pid[r] # None
          => {pc[r], pc[q]} \cap Ended # {}

(* The families' hash fractions and the candidates' metrics. *)
Frac   == Worlds[world].frac
Metric == Worlds[world].metric

Live(r) == pc[r] \notin Ended \cup {"idle"}
-----------------------------------------------------------------------------
(* The dataset.  Fractions are in hundredths. *)
SplitName(f) ==
    CASE f < 60 -> "train" [] f < 75 -> "early_stop" [] f < 90 -> "calibration" [] OTHER -> "blind_test"

(* _select_families takes families in order until every quota is filled.   *)
Selected ==
    {i \in DOMAIN Frac :
        LET s == SplitName(Frac[i])
        IN  Cardinality({j \in 1..i - 1 : SplitName(Frac[j]) = s}) < Quota[s]}

(* The samples: every family has windows of both labels. *)
Samples == {[family |-> i, split |-> SplitName(Frac[i]), label |-> l] : i \in Selected, l \in {0, 1}}

FamiliesOf(s) == {x.family : x \in {y \in Samples : y.split = s}}

(* The quotas are filled before the generator gives up, and the counts of  *)
(* the manifest add up.                                                    *)
ManifestValid == MapThenSumSet(LAMBDA s : Cardinality({x \in Samples : x.split = s}), Splits) = Cardinality(Samples)
Generates == (\A s \in Splits : Cardinality(FamiliesOf(s)) = Quota[s]) /\ ManifestValid

(* validate_dataset_sample and load_dataset: the split is the one the hash *)
(* assigns and a family is in one split.                                   *)
SampleValid(x) == x.split = SplitName(Frac[x.family])
Loads == /\ \A x \in Samples : SampleValid(x)
         /\ Cardinality({<<x.family, x.split>> : x \in Samples}) = Cardinality({x.family : x \in Samples})
-----------------------------------------------------------------------------
(* The candidates; `rest' stands for the other quality bounds. *)
Passes(c) == LET m == Metric[c] IN m.ap >= 950 /\ m.fpr <= 10 /\ m.rest

(* A Platt fit with a positive slope, and a pair of thresholds that the    *)
(* calibration split admits.                                               *)
Feasible(c) == Metric[c].feasible
(* The exported graph has the allowed operators, and ONNX Runtime agrees   *)
(* with the trained model, before and after its metadata is rewritten.     *)
Exports(c) == Metric[c].exports
Finalizes(c) == Metric[c].exports
(* The attributions of a candidate have the expected shape, and add up to  *)
(* its raw output on every selected sample within the method's tolerance.  *)
Material(c) == Metric[c].attributes
validate_explanation(c) == Metric[c].additive

Eligible(k)  == \A s \in Seeds : Passes(<<k, s>>)
RobustAP(k)  == Min({Metric[<<k, s>>].ap : s \in Seeds})
WorstFPR(k)  == Max({Metric[<<k, s>>].fpr : s \in Seeds})
Qualified    == {k \in Recipes : Eligible(k)}

(* select_winner, when some recipe is eligible.  Mutant: the best AP of a  *)
(* recipe counts, not its worst seed.                                      *)
BestAP == Max({RobustAP(k) : k \in Qualified})
NearAPAnySeed == {k \in Qualified : \E s \in Seeds : BestAP - Metric[<<k, s>>].ap <= 10}
NearAP == {k \in Qualified : BestAP - RobustAP(k) <= 10}
BestFPR == Min({WorstFPR(k) : k \in NearAP})
Winner == Min({k \in NearAP : WorstFPR(k) - BestFPR <= 2})
-----------------------------------------------------------------------------
Init ==
    /\ world \in DOMAIN Worlds
    /\ pc = [r \in Run |-> "idle"] /\ pid = [r \in Run |-> None]
    /\ dir = [r \in Run |-> "none"]
    /\ past = [r \in Run |-> {}] /\ todo = [r \in Run |-> {}]
    /\ victim = [r \in Run |-> None] /\ why = [r \in Run |-> "failed"]
    /\ out = None /\ damaged = {} /\ verdict = "none"

Goto(r, l) == pc' = [pc EXCEPT ![r] = l]
Rest       == UNCHANGED <<world, pid, past, damaged, verdict>>

(* validate_public_contracts: schemas, golden vectors, digests. *)
ContractsValid == Worlds[world].contracts

Start(r) ==
    /\ pc[r] = "idle"
    /\ \E p \in Pids \ {pid[q] : q \in {s \in Run : Live(s)}} : pid' = [pid EXCEPT ![r] = p]
    /\ past' = [past EXCEPT ![r] = {q \in Run : pc[q] \in Ended}]
    /\ Goto(r, IF out = None /\ ContractsValid THEN "fresh" ELSE "failed")
    /\ UNCHANGED <<world, dir, todo, victim, why, out, damaged, verdict>>

(* The glob of _cleanup_stale_staging. *)
Glob(r) ==
    /\ pc[r] = "fresh" /\ Goto(r, "cleaning")
    /\ todo' = [todo EXCEPT ![r] = {q \in Run : dir[q] # "none"}]
    /\ Rest /\ UNCHANGED <<dir, victim, why, out>>

(* The process that _process_start_ticks finds under a process id: a later *)
(* process with the same id has other ticks.  Without /proc the marker     *)
(* says "unavailable", and /proc/<pid> is no directory for anyone.         *)
Observed(p) == {q \in Run : ProcFS /\ Live(q) /\ pid[q] = p}
OwnerLives(q) == q \in Observed(pid[q])

(* Mutant: a marker is not asked for. *)
StaleUnmarked(q) == dir[q] # "none" /\ (dir[q] \in {"marked", "sealed"} => ~OwnerLives(q))
Stale(q) == dir[q] \in {"marked", "sealed"} /\ ~OwnerLives(q)

Judge(r) ==
    /\ pc[r] = "cleaning"
    /\ \E q \in todo[r] :
        /\ todo' = [todo EXCEPT ![r] = @ \ {q}]
        /\ IF Stale(q) THEN Goto(r, "removing") /\ victim' = [victim EXCEPT ![r] = q]
                       ELSE UNCHANGED <<pc, victim>>
    /\ Rest /\ UNCHANGED <<dir, why, out>>

(* _safe_remove_staging walks bottom-up: a file is unlinked while its      *)
(* directory still has the mode the bundle gave it.                        *)
Removable(q) == Root \/ dir[q] \notin {"sealed", "ready"}

(* Two cleanups can remove one directory at the same time: the second      *)
(* finds it gone at once, or fails on an entry that has vanished.          *)
Removed(r) == [dir EXCEPT ![victim[r]] = "none"]

Remove(r) ==
    /\ pc[r] = "removing"
    /\ LET q == victim[r] IN
       \/ dir[q] = "none" /\ pc' \in {[pc EXCEPT ![r] = l] : l \in {"cleaning", "failed"}} /\ UNCHANGED dir
       \/ dir[q] # "none" /\ Removable(q) /\ dir' = Removed(r) /\ Goto(r, "cleaning")
       \/ dir[q] # "none" /\ ~Removable(q) /\ Goto(r, "failed") /\ UNCHANGED dir
    /\ victim' = [victim EXCEPT ![r] = None]
    /\ Rest /\ UNCHANGED <<todo, why, out>>

MakeStaging(r) ==
    /\ pc[r] = "cleaning" /\ todo[r] = {}
    /\ Goto(r, "made") /\ dir' = [dir EXCEPT ![r] = "bare"]
    /\ Rest /\ UNCHANGED <<todo, victim, why, out>>

(* The owner marker, with the process id and its start ticks. *)
Mark(r) ==
    /\ pc[r] = "made" /\ Goto(r, "marked") /\ dir' = [dir EXCEPT ![r] = "marked"]
    /\ Rest /\ UNCHANGED <<todo, victim, why, out>>

Stage(r, from, to) == pc[r] = from /\ Goto(r, to) /\ Rest /\ UNCHANGED <<dir, todo, victim, why, out>>

Dataset(r) == Stage(r, "marked", "loaded") /\ Generates /\ Loads

(* train_mandatory_candidates: the three recipes in order, every seed of   *)
(* each.  The blind split is opened at the end of each candidate's         *)
(* training, before the next one is trained.                               *)
Trains(k) == \A s \in Seeds : Feasible(<<k, s>>) /\ Exports(<<k, s>>) /\ Finalizes(<<k, s>>)
TrainLogistic(r)    == Stage(r, "loaded", "fitted") /\ Trains(1)
TrainXGBoost(r)     == Stage(r, "fitted", "boosted") /\ Trains(2)
TrainAutoencoder(r) == Stage(r, "boosted", "trained") /\ Trains(3)

(* build_explanations: all materials first, then a document for each. *)
Explain(r) == /\ Stage(r, "trained", "explained")
              /\ \A c \in Recipes \X Seeds : Material(c)
              /\ \A c \in Recipes \X Seeds : validate_explanation(c)
WriteCandidates(r) == Stage(r, "explained", "written")

(* select_winner and build_winner_bundle, which leaves the repository      *)
(* read-only.                                                              *)
Bundle(r) ==
    /\ pc[r] = "written" /\ Qualified # {}
    /\ Goto(r, "sealed") /\ dir' = [dir EXCEPT ![r] = "sealed"]
    /\ Rest /\ UNCHANGED <<todo, victim, why, out>>

Archive(r) == Stage(r, "sealed", "archived")

(* The result document is on disk before the marker goes. *)
Unmark(r) ==
    /\ pc[r] = "archived" /\ Goto(r, "unmarked") /\ dir' = [dir EXCEPT ![r] = "ready"]
    /\ Rest /\ UNCHANGED <<todo, victim, why, out>>

(* os.replace of a directory fails when the target is a directory with     *)
(* entries.  Mutant: an existing output is moved away.                     *)
ReplacesAlways == TRUE
Replaces == out = None

Publish(r) ==
    /\ pc[r] = "unmarked" /\ Replaces
    /\ Goto(r, "published") /\ dir' = [dir EXCEPT ![r] = "none"] /\ out' = r
    /\ Rest /\ UNCHANGED <<todo, victim, why>>

Returns(r) == Stage(r, "published", "done")

(* An exception in the try block: a check that fails, a full disk, or an   *)
(* output that exists by now.  The handler then undoes the staging.        *)
Raise(r, how) ==
    /\ Goto(r, "undo") /\ why' = [why EXCEPT ![r] = how]
    /\ Rest /\ UNCHANGED <<dir, todo, victim, out>>

Fails(r) == pc[r] \in (Trying \ {"published"}) \cup {"made"} /\ Raise(r, "failed")

(* The handler's own _safe_remove_staging; when it raises, that error is   *)
(* the one that leaves.                                                    *)
Undo(r) ==
    /\ pc[r] = "undo" /\ why' = [why EXCEPT ![r] = "failed"]
    /\ IF Removable(r) THEN dir' = [dir EXCEPT ![r] = "none"] /\ Goto(r, why[r])
                       ELSE Goto(r, "failed") /\ UNCHANGED dir
    /\ Rest /\ UNCHANGED <<todo, victim, out>>

(* What a removal that stops half way leaves: the marker is in the top     *)
(* directory, whose files go last.                                         *)
HalfRemoved(q) == {dir} \cup (IF dir[q] # "none" /\ Removable(q) THEN {[dir EXCEPT ![q] = "bare"]} ELSE {})

Leave(r, l) ==
    /\ Goto(r, l)
    /\ dir' \in CASE pc[r] = "removing" -> HalfRemoved(victim[r])
                  [] pc[r] = "undo"     -> HalfRemoved(r)
                  [] OTHER              -> {dir}
    /\ todo' = [todo EXCEPT ![r] = {}] /\ victim' = [victim EXCEPT ![r] = None]
    /\ why' = [why EXCEPT ![r] = "failed"] /\ Rest /\ UNCHANGED out

(* SIGTERM.  Between mkdtemp and the try block nothing catches it. *)
Interrupt(r) ==
    \/ pc[r] \in Trying \cup {"made"} /\ Raise(r, "held")
    \/ pc[r] \in Outside \cup {"made", "undo"} /\ Leave(r, "held")

Kill(r) == Live(r) /\ Leave(r, "dead")

(* verify_pipeline_output.  A file and the record of its digest agree when *)
(* neither was changed; when both were, they may.                          *)
Agree(file, record, alike) ==
    IF {file, record} \subseteq damaged THEN alike ELSE {file, record} \cap damaged = {}

ResultHolds == "result.verdict" \notin damaged
DatasetLoads(a) == Agree("dataset", "dataset.manifest", a) /\ Loads
CandidatesVerify(a) == Agree("candidates", "candidates.manifest", a) /\ \A c \in Candidate : Passes(c)
(* The members against the closure, the closure against the result.        *)
RepositoryVerifies(a) == Agree("repository", "closure", a) /\ Agree("closure", "result.closure", a)
ArchiveVerifies(a) == Agree("archive", "result.archive", a)

Verify ==
    /\ out # None /\ verdict = "none"
    /\ \E a \in BOOLEAN :
         verdict' = IF /\ ResultHolds /\ DatasetLoads(a) /\ CandidatesVerify(a)
                       /\ RepositoryVerifies(a) /\ ArchiveVerifies(a)
                    THEN "pass" ELSE "fail"
    /\ UNCHANGED <<world, pc, pid, dir, past, todo, victim, why, out, damaged>>

(* Someone changes files of the output after it was published. *)
Damage ==
    /\ out # None /\ damaged = {} /\ verdict = "none"
    /\ damaged' \in Changes \ {{}}
    /\ UNCHANGED <<world, pc, pid, dir, past, todo, victim, why, out, verdict>>

Step(r) ==
    \/ Glob(r) \/ Judge(r) \/ Remove(r) \/ MakeStaging(r) \/ Mark(r)
    \/ Dataset(r) \/ TrainLogistic(r) \/ TrainXGBoost(r) \/ TrainAutoencoder(r)
    \/ Explain(r) \/ WriteCandidates(r) \/ Bundle(r) \/ Archive(r) \/ Unmark(r)
    \/ Publish(r) \/ Returns(r) \/ Fails(r) \/ Undo(r)

Next == Verify \/ Damage \/ \E r \in Run : Start(r) \/ Step(r) \/ Interrupt(r) \/ Kill(r)

Spec == Init /\ [][Next]_vars
-----------------------------------------------------------------------------
(* While an invocation builds, its staging is its own: no cleanup of       *)
(* another one takes it, whatever process ids were used before.            *)
LiveStagingKept ==
    \A r \in Run : /\ pc[r] \in Trying \ {"published"} => dir[r] # "none"
                   /\ \A q \in Run : victim[q] = r => ~Live(r)

(* An invocation that gets as far as its own staging has reclaimed every   *)
(* marked staging of the invocations that had ended before it started.     *)
StaleReclaimed ==
    \A r \in Run : pc[r] \in Trying \cup {"made", "done"} =>
        \A q \in past[r] : dir[q] \notin {"marked", "sealed"}

(* What is published is whole: nothing of the staging is left behind, its  *)
(* quotas are filled, every explanation adds up, and the winner passes on  *)
(* every seed and is within the AP and FPR bands of every eligible recipe. *)
(* (The world does not change, so that it is looked at when the rename has *)
(* just happened.)                                                         *)
PublishedIsWhole ==
    out # None =>
        /\ pc[out] \in {"published", "undo", "done", "held", "dead"} /\ dir[out] = "none"
        /\ pc[out] = "published" =>
              /\ \A s \in Splits : Cardinality({i \in Selected : SplitName(Frac[i]) = s}) = Quota[s]
              /\ \A c \in Recipes \X Seeds : validate_explanation(c)
              /\ LET w == Winner IN
                 /\ \A s \in Seeds : Passes(<<w, s>>)
                 /\ \A k \in Recipes : Eligible(k) =>
                       /\ RobustAP(k) - RobustAP(w) <= 10
                       /\ RobustAP(k) >= RobustAP(w) => WorstFPR(w) - WorstFPR(k) <= 2
                       /\ RobustAP(k) >= RobustAP(w) /\ WorstFPR(k) <= WorstFPR(w) => w <= k

(* An output is never replaced, also when two invocations raced for it,    *)
(* and only the one that says so, or was cut off, may have written it.     *)
PublishedIsFinal == out # None => out' = out

(* An invocation that reports failure has published nothing. *)
FailedIsSilent == \A r \in Run : (pc[r] = "failed" => out # r) /\ (pc[r] = "done" => out = r)

(* A verification that passes saw the dataset, the candidates, the members *)
(* of the repository and the archive as they were published, unless the    *)
(* records of their digests were changed with them; for a member these are *)
(* the closure manifest and the result document as well.  Of what no       *)
(* record covers it says nothing (verify_pipeline_output).                 *)
VerifiedIsIntact ==
    verdict' = "pass" =>
        /\ "result.verdict" \notin damaged'
        /\ "dataset"    \in damaged' => "dataset.manifest" \in damaged'
        /\ "candidates" \in damaged' => "candidates.manifest" \in damaged'
        /\ "repository" \in damaged' => {"closure", "result.closure"} \subseteq damaged'
        /\ "archive"    \in damaged' => "result.archive" \in damaged'

(* The stronger reading of "Verify a published output without trusting its *)
(* result document": what passes is the output as it was published.        *)
VerifiedIsUntouched == [][verdict' = "pass" => damaged' = {}]_vars

(* README of ml-py: SIGTERM removes the staging, and after SIGKILL the     *)
(* next invocation reclaims it.  No invocation fails in its cleanup.       *)
CleanupSucceeds == \A r \in Run : pc[r] = "removing" => Removable(victim[r])

(* What run publishes with PASS, verify accepts. *)
PublishedVerifies == verdict = "fail" => damaged # {}

(* The staging directories are reclaimed when, and only when, their owner  *)
(* is gone, although process ids are used again (_cleanup_stale_staging).  *)
StagingInv == TypeOK /\ LiveStagingKept /\ StaleReclaimed

(* What is at the output path is the whole work of an invocation that did  *)
(* not report failure (run_pipeline).                                      *)
OutputIsEarned == PublishedIsWhole /\ FailedIsSilent

(* What was published is never replaced, also when two invocations race    *)
(* for the rename, and a file changed in it passes verification only with  *)
(* the records that name it (run_pipeline, verify_pipeline_output).        *)
OutputStays == [][PublishedIsFinal /\ VerifiedIsIntact]_vars
=============================================================================
