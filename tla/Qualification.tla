---------------------------- MODULE Qualification ----------------------------
(***************************************************************************)
(* One run of testkit/p4_switch/run-module-e2e.sh: its stages in their     *)
(* order, the phase file that the script of each stage writes or leaves    *)
(* out, the statuses that the shell keeps, the aggregate of the files and  *)
(* the exit.  The Mininet stage is modelled step by step with its          *)
(* clean-up; the benchmark and the soak are the module SwitchWorkload with *)
(* a resource sampler beside them.                                         *)
(*                                                                         *)
(* A run id may be used again: then the phase files of the earlier run are *)
(* still there.                                                            *)
(***************************************************************************)
EXTENDS SwitchWorkload

CONSTANTS NCycles,  \* lifecycle cycles, 20 in the code
          Attempts  \* attempts of the controller's setup, 5 in the code

ASSUME QualificationAssumption == NCycles \in Nat \ {0} /\ Attempts \in Nat \ {0}

VARIABLES
    at,    \* the stage of the shell
    reused,\* the run id was used before
    file,  \* the phase files: missing, "old" (PASS, of an earlier run), or a result
    bad,   \* a kept status that makes the shell exit with 1
    mn,    \* the Mininet stage
    life,  \* lifecycle cycles: done, one that is not PASS on disk
    smp,   \* the sampler: it runs, and the turn of its last sample
    sup,   \* the supply chain: checks that failed, findings without exception
    agg,   \* the aggregate: failed, and what it wrote
    exit   \* the exit status of the shell

vars == <<job, todo, sw, view, rep, traffic, turn, goal, torn, stream, verdict, faults,
          at, reused, formal, file, bad, mn, life, smp, sup, agg, exit>>

Phases == {"environment", "unit", "p4testgen", "mininet", "compiler", "functional", "performance",
           "crash", "recovery", "lifecycle", "soak", "supply"}
Stages == <<"preflight", "environment", "unit", "p4testgen", "mininet", "compiler", "functional",
            "performance", "measured", "crash", "recovery", "lifecycle", "soak", "soaked", "supply", "aggregate", "exit">>
After(s) == Stages[CHOOSE i \in 2..Len(Stages) : Stages[i - 1] = s]

MininetSteps == <<"build", "run", "check", "move", "setup", "forward", "insert", "drop", "counter",
                  "delete", "forward", "down", "drop", "up", "forward">>
NoMininet == [step |-> 0, net |-> FALSE, box |-> FALSE, id |-> FALSE, ready |-> FALSE, overlay |-> FALSE, link |-> FALSE,
              tries |-> 0, errors |-> FALSE, end |-> ""]

Supply0 == [failed |-> {}, unfixed |-> FALSE, step |-> 0]

QInit ==
    /\ WorkloadInit
    /\ at = "preflight" /\ reused \in BOOLEAN /\ formal \in BOOLEAN
    /\ (~formal => ~reused)   \* bound: an id is used again in formal mode
    /\ file = [p \in Phases |-> IF reused THEN "old" ELSE "none"]
    /\ bad = FALSE /\ mn = NoMininet /\ life = [n |-> 0, bad |-> FALSE]
    /\ smp = [on |-> FALSE, until |-> 0] /\ sup = Supply0
    /\ agg = [failed |-> FALSE, step |-> 0, wrote |-> "none"] /\ exit = -1

(* What a stage leaves alone, beside the workload.                         *)
idle  == <<job, todo, sw, view, rep, traffic, turn, goal, torn, stream, verdict>>
rest  == <<mn, life, smp, sup, agg, exit, reused, formal>>

(* A stage ends: its script wrote `result` or nothing, and its status is   *)
(* zero only with PASS (or with HOLD where the shell lets 2 pass).         *)
Wrote(p, result) == file' = IF result = "none" THEN file ELSE [file EXCEPT ![p] = result]
(* A phase file is loaded if it is there, from whichever run it is.        *)
load_phase(p) == CASE file[p] = "none" -> "FAIL" [] file[p] = "old" -> "PASS" [] OTHER -> file[p]
Leave(s, status1) == at = s /\ at' = After(s) /\ bad' = (bad \/ status1)

(* set -e: a command that fails outside of the kept statuses ends the run. *)
(* The trap takes the containers of the project down, a workload too.      *)
Abort == /\ at \notin {"exit", "end"} /\ Fault
         /\ at' = "end" /\ exit' = 1
         /\ sw' = Blank /\ job' = "idle" /\ todo' = <<>> /\ Forget
         /\ UNCHANGED <<reused, formal, file, bad, mn, life, smp, sup, agg>>

Preflight == Leave("preflight", FALSE) /\ UNCHANGED <<idle, rest, file, faults>>

(* probe-runner-environment.py: versions that differ, or an error while    *)
(* they are read, are FAIL; the container may fail before it writes.       *)
ProbeEnvironment ==
    /\ \/ Leave("environment", FALSE) /\ Wrote("environment", "PASS") /\ NoFault
       \/ Leave("environment", TRUE) /\ Fault /\ \E r \in {"FAIL", "none"} : Wrote("environment", r)
    /\ UNCHANGED <<idle, rest>>

(* record-command.py keeps what a command returned.                        *)
RecordCommand(p) ==
    /\ \/ Leave(p, FALSE) /\ Wrote(p, "PASS") /\ NoFault
       \/ Leave(p, TRUE) /\ Fault /\ Wrote(p, "FAIL")
    /\ UNCHANGED <<idle, rest>>
Unit == at = "unit" /\ RecordCommand("unit")
(* record-p4testgen.py refuses any number of tests but eight, and the      *)
(* shell then records the failure.                                         *)
RecordP4Testgen == at = "p4testgen" /\ RecordCommand("p4testgen")
Compiler == at = "compiler" /\ RecordCommand("compiler")

(* The PTF suites write their file at the end; one that dies leaves none.  *)
(* Their last test leaves a pipeline loaded.                               *)
Suite(s) ==
    /\ \/ Leave(s, FALSE) /\ Wrote(s, "PASS") /\ NoFault
       \/ Leave(s, TRUE) /\ Fault /\ \E r \in {"FAIL", "none"} : Wrote(s, r)
    /\ sw' = [Blank EXCEPT !.loaded = TRUE]
    /\ UNCHANGED <<job, todo, view, rep, traffic, turn, goal, torn, stream, verdict, rest>>

-----------------------------------------------------------------------------
(* run_mininet_e2e.py.                                                     *)
MStep(k)  == at = "mininet" /\ mn.step \in 1..Len(MininetSteps) /\ MininetSteps[mn.step] = k
MKeep     == UNCHANGED <<idle, life, smp, sup, agg, exit, reused, formal, file, bad, at>>
MTo(new)  == mn' = [new EXCEPT !.step = @ + 1] /\ MKeep
(* An exception of main goes to the clean-up, with FAIL.                   *)
MCleanup  == Len(MininetSteps) + 1
MRaise(new) == Fault /\ mn' = [new EXCEPT !.step = MCleanup, !.end = "FAIL"] /\ MKeep

(* compile.sh for the Mininet artifacts: without them nothing is run.      *)
MininetCompile ==
    /\ at = "mininet" /\ mn.step = 0
    /\ \/ MTo(mn) /\ NoFault
       \/ Leave("mininet", TRUE) /\ Fault /\ UNCHANGED <<idle, mn, life, smp, sup, agg, exit, reused, formal, file>>
MininetBuild == MStep("build") /\ \/ MTo([mn EXCEPT !.net = TRUE]) /\ NoFault
                                  \/ \E n \in BOOLEAN : MRaise([mn EXCEPT !.net = n])
(* A timeout of docker run leaves a container whose id is not known.       *)
MininetRun == MStep("run") /\ \/ MTo([mn EXCEPT !.box = TRUE, !.id = TRUE]) /\ NoFault
                              \/ \E b \in BOOLEAN : MRaise([mn EXCEPT !.box = b])
MininetCheck == MStep("check") /\ ((MTo(mn) /\ NoFault) \/ MRaise(mn))
MininetMove  == MStep("move") /\ ((MTo([mn EXCEPT !.link = TRUE]) /\ NoFault) \/ MRaise(mn))
(* mininet_controller.py; only the setup is tried again.                   *)
Controller(k, done) == MStep(k) /\ ((MTo(done) /\ NoFault) \/ MRaise(mn) \/ MRaise(done))
InvokeSetup ==
    \/ Controller("setup", [mn EXCEPT !.ready = TRUE])
    \/ MStep("setup") /\ Fault /\ MTo(mn)    \* acknowledged, not done
    \/ MStep("setup") /\ Fault /\ mn.tries < Attempts - 1 /\ mn' = [mn EXCEPT !.tries = @ + 1] /\ MKeep
(* The overlay is read back after its insert and after its delete.         *)
InvokeInsert == Controller("insert", [mn EXCEPT !.overlay = TRUE])
InvokeDelete == Controller("delete", [mn EXCEPT !.overlay = FALSE])
(* The overlay is there: its counter has counted, or the read fails.       *)
InvokeCounter == Controller("counter", mn)
Passes == mn.ready /\ mn.link /\ ~mn.overlay
(* send_and_observe raises when the packet's fate is not the expected one. *)
SendAndObserve(k) ==
    /\ MStep(k)
    /\ \/ Passes = (k = "forward") /\ MTo(mn) /\ NoFault
       \/ Passes # (k = "forward") /\ mn' = [mn EXCEPT !.step = MCleanup, !.end = "FAIL"] /\ MKeep /\ NoFault
       \/ MRaise(mn)
(* link_state reads the flag back.                                         *)
LinkState(k) == MStep(k) /\ \/ MTo([mn EXCEPT !.link = (k = "up")]) /\ NoFault
                            \/ \E l \in BOOLEAN : MRaise([mn EXCEPT !.link = l])
MininetStep == \/ MininetCompile \/ MininetBuild \/ MininetRun \/ MininetCheck \/ MininetMove
               \/ InvokeSetup \/ InvokeInsert \/ InvokeDelete \/ InvokeCounter
               \/ SendAndObserve("forward") \/ SendAndObserve("drop") \/ LinkState("down") \/ LinkState("up")

(* finally: logs and rm have timeouts that nothing catches, so that the    *)
(* rest of the clean-up and the file are left out.                         *)
MLeft(new) == mn' = [NoMininet EXCEPT !.box = new.box, !.net = new.net]
MGone(new) == MLeft(new) /\ Leave("mininet", TRUE) /\ UNCHANGED <<idle, life, smp, sup, agg, exit, reused, formal, file>>
MininetLogs ==
    /\ at = "mininet" /\ mn.step = MCleanup
    /\ \/ MTo([mn EXCEPT !.end = IF @ = "" THEN "PASS" ELSE @]) /\ NoFault
       \/ mn.id /\ Fault /\ MGone(mn)
MininetRemove ==
    /\ at = "mininet" /\ mn.step = MCleanup + 1
    /\ \/ MTo([mn EXCEPT !.box = @ /\ ~mn.id]) /\ NoFault
       \/ mn.id /\ Fault /\ MTo([mn EXCEPT !.errors = TRUE])
       \/ mn.id /\ Fault /\ \E b \in BOOLEAN : MGone([mn EXCEPT !.box = b])
MininetStop ==
    /\ at = "mininet" /\ mn.step = MCleanup + 2
    /\ \/ MTo([mn EXCEPT !.net = FALSE]) /\ NoFault
       \/ mn.net /\ Fault /\ \E e \in BOOLEAN : MTo([mn EXCEPT !.errors = @ \/ e])
(* Mutant: the errors that the clean-up met are all that is looked at.     *)
ResidueMet == mn.errors
(* What is left is looked for, and makes the phase FAIL.                   *)
Residue == mn.box \/ mn.net \/ mn.errors
MininetWrite ==
    \/ /\ at = "mininet" /\ mn.step = MCleanup + 3
       /\ LET result == IF Residue THEN "FAIL" ELSE mn.end
          IN  Leave("mininet", result # "PASS") /\ Wrote("mininet", result)
       /\ MLeft(mn) /\ UNCHANGED <<idle, life, smp, sup, agg, exit, reused, formal, faults>>
    \/ mn.step = MCleanup + 3 /\ Fault /\ MGone(mn)   \* the look times out
MininetFinally == MininetLogs \/ MininetRemove \/ MininetStop \/ MininetWrite

-----------------------------------------------------------------------------
(* The client connects and waits for the answer to its arbitration: a      *)
(* stream that breaks or stays silent raises before there is a file.       *)
ArbitrateFails == Fault /\ Forget /\ UNCHANGED <<job, todo>>
(* The workload's container and the sampler are started together.          *)
StartWorkload(s, kind) ==
    /\ at = s /\ at' = After(s) /\ smp' = [on |-> TRUE, until |-> 0]
    /\ ((Start(kind) /\ NoFault) \/ ArbitrateFails)
    /\ UNCHANGED <<sw, mn, life, sup, agg, exit, reused, formal, file, bad>>
(* sample-container-resources.py: a sample of a container that cannot be   *)
(* read says that it is not running, and ends the sampling.                *)
Sampling == smp.on /\ job # "idle" /\ at \in {"measured", "soaked"}
SamplerStops ==
    /\ Sampling /\ Fault /\ smp' = [on |-> FALSE, until |-> turn]
    /\ UNCHANGED <<idle, mn, life, sup, agg, exit, reused, formal, file, bad, at>>

(* finalize-performance.py: the checks that do not hang on what was        *)
(* measured: no sample has an error, the compiler phase passed.            *)
ResourceChecks == smp.on /\ load_phase("compiler") = "PASS"
(* FAIL for a failed workload, for any of these checks and for a value     *)
(* over its threshold.                                                     *)
FinalizePerformance ==
    /\ at = "measured" /\ job = "idle" /\ smp' = [on |-> FALSE, until |-> 0]
    /\ \/ verdict = "none" /\ Leave("measured", TRUE) /\ NoFault
          /\ (UNCHANGED file \/ (reused /\ Wrote("performance", "PASS")))  \* the old workload file
       \/ /\ verdict # "none"
          /\ \E over \in BOOLEAN :
               /\ IF over THEN Fault ELSE NoFault
               /\ LET result == IF verdict = "FAIL" \/ over \/ ~ResourceChecks THEN "FAIL" ELSE verdict
                  IN  Wrote("performance", result) /\ Leave("measured", result = "FAIL")
    /\ Forget /\ UNCHANGED <<job, todo, sw, mn, life, sup, agg, exit, reused, formal>>

(* SIGKILL of the switch, a new container, record-crash.py.                *)
Crash ==
    /\ sw' = Blank
    /\ \/ Leave("crash", FALSE) /\ Wrote("crash", "PASS") /\ NoFault
       \/ Leave("crash", TRUE) /\ Fault /\ Wrote("crash", "FAIL")
    /\ UNCHANGED <<job, todo, view, rep, traffic, turn, goal, torn, stream, verdict, rest>>

(* probe-public-boundary.py: arbitration, version, pipeline identity and a *)
(* short traffic; what fails is FAIL in its file, and a probe that is not  *)
(* started leaves the file of an earlier run.                              *)
ProbeFailures == {"FAIL", "none"}
(* One lifecycle cycle: probe, signal, SIGKILL when it does not stop in    *)
(* time, new container, probe, record-lifecycle-cycle.py.  A record that   *)
(* raises leaves the cycle's file as it was.                               *)
LifecycleCycle ==
    /\ at = "lifecycle" /\ life.n < NCycles /\ sw' = Blank
    /\ \/ life' = [life EXCEPT !.n = @ + 1] /\ NoFault /\ UNCHANGED bad
       \/ /\ Fault /\ bad' = TRUE
          /\ \E probe \in ProbeFailures :
               life' = [n |-> life.n + 1, bad |-> life.bad \/ ~(probe = "none" /\ reused)]
    /\ UNCHANGED <<job, todo, view, rep, traffic, turn, goal, torn, stream, verdict, at, file, mn, smp, sup, agg, exit, reused, formal>>
FinalizeLifecycle ==
    /\ at = "lifecycle" /\ life.n = NCycles
    /\ Leave("lifecycle", life.bad) /\ Wrote("lifecycle", IF life.bad THEN "FAIL" ELSE "PASS")
    /\ life' = [n |-> 0, bad |-> FALSE] /\ UNCHANGED <<idle, mn, smp, sup, agg, exit, reused, formal, faults>>

(* finalize-soak.py: a sample of the workload more than 15 s from any      *)
(* resource sample is a gap; samples are 10 s apart.                       *)
nearest_resource(k) == IF smp.on \/ k < smp.until THEN k ELSE smp.until
ResourceGap == \E k \in 1..NSamples : k - nearest_resource(k) > 1
(* A gap, a violation or a clean-up that was not seen make HOLD of a       *)
(* workload that passed.                                                   *)
Judged(violation) ==
    IF verdict = "PASS" /\ ~ResourceGap /\ ~violation /\ stream.len = 0 THEN "PASS"
    ELSE IF verdict = "FAIL" THEN "FAIL" ELSE "HOLD"
(* The schema refuses the evidence: there is no phase file.                *)
EvidenceRefused == Fault /\ Leave("soaked", TRUE) /\ UNCHANGED file
FinalizeSoak ==
    /\ at = "soaked" /\ job = "idle" /\ smp' = [on |-> FALSE, until |-> 0] /\ sw' = Blank
    /\ \/ verdict = "none" /\ Leave("soaked", TRUE) /\ NoFault
          /\ (UNCHANGED file \/ (reused /\ Wrote("soak", "HOLD")))
       \/ EvidenceRefused
       \/ /\ verdict # "none"
          /\ \E violation \in BOOLEAN :
               /\ IF violation THEN Fault ELSE NoFault
               /\ Wrote("soak", Judged(violation)) /\ Leave("soaked", verdict = "FAIL")
    /\ Forget /\ UNCHANGED <<job, todo, mn, life, sup, agg, exit, reused, formal>>

-----------------------------------------------------------------------------
(* run-supply-chain.sh: the record of the offline rebuild, the manifest,   *)
(* then the groups of checks of verify-supply-chain.py, judged together.   *)
Groups == <<"signature", "sbom", "scan", "provenance", "inventory">>
SupplyKeep == UNCHANGED <<idle, mn, life, smp, agg, exit, reused, formal>>
SupplyStep(new) == sup' = [new EXCEPT !.step = @ + 1] /\ UNCHANGED <<at, bad, file>>
SupplyGate ==
    /\ at = "supply" /\ sup.step = 0
    /\ \/ formal /\ SupplyStep(sup) /\ NoFault
       \/ formal /\ Fault /\ Leave("supply", TRUE) /\ Wrote("supply", "FAIL") /\ UNCHANGED sup   \* free bytes
       \/ ~formal /\ Leave("supply", FALSE) /\ Wrote("supply", "HOLD") /\ UNCHANGED sup /\ NoFault
    /\ SupplyKeep
(* A tool of the script that fails ends it with the tool's status: the     *)
(* shell takes a 2 for a HOLD.                                             *)
SupplyTool ==
    /\ at = "supply" /\ sup.step \in 1..Len(Groups) + 2 /\ Fault
    /\ \E two \in {sup.step <= 2, FALSE} : Leave("supply", ~two)
    /\ sup' = Supply0 /\ UNCHANGED file /\ SupplyKeep
(* record-offline-rebuild.py: its status is not looked at once there is a  *)
(* file; of its checks the verifier looks again at all but the one on the  *)
(* dependencies of the runner.                                             *)
RecordOffline ==
    /\ at = "supply" /\ sup.step = 1
    /\ \/ SupplyStep(sup) /\ NoFault
       \/ Fault /\ \E again \in BOOLEAN : SupplyStep([sup EXCEPT !.failed = IF again THEN {"offline"} ELSE {}])
    /\ SupplyKeep
CreateManifest == at = "supply" /\ sup.step = 2 /\ SupplyStep(sup) /\ NoFault /\ SupplyKeep
SupplyCheck(group, outcomes) ==
    /\ at = "supply" /\ sup.step - 2 \in 1..Len(Groups) /\ Groups[sup.step - 2] = group
    /\ \/ SupplyStep(sup) /\ NoFault
       \/ "failed" \in outcomes /\ Fault /\ SupplyStep([sup EXCEPT !.failed = @ \cup {group}])
       \/ "unfixed" \in outcomes /\ Fault /\ SupplyStep([sup EXCEPT !.unfixed = TRUE])
    /\ SupplyKeep
(* A high finding that no release fixes needs an exception; any other      *)
(* high or critical one, a secret or a misconfiguration fails the scan.    *)
trivy_findings   == {"failed", "unfixed"}
SignatureChecks  == SupplyCheck("signature", {"failed"})
(* The packages of the runner have the versions and the distribution of    *)
(* its profile, in the SBOM that was made of the image.                    *)
runner_package_checks == {"failed"}
SbomChecks       == SupplyCheck("sbom", runner_package_checks)
ScanChecks       == SupplyCheck("scan", trivy_findings)
ProvenanceChecks == SupplyCheck("provenance", {"failed"})
InventoryChecks  == SupplyCheck("inventory", {"failed"})
SupplyChecks == SignatureChecks \/ SbomChecks \/ ScanChecks \/ ProvenanceChecks \/ InventoryChecks
SupplyResult ==
    /\ sup.step = Len(Groups) + 3
    /\ LET result == IF sup.failed # {} THEN "FAIL" ELSE IF sup.unfixed THEN "HOLD" ELSE "PASS"
       IN  Wrote("supply", result) /\ Leave("supply", result = "FAIL")
    /\ sup' = Supply0 /\ NoFault /\ SupplyKeep

-----------------------------------------------------------------------------
(* aggregate-evidence.py: each of its checks may fail.                     *)
AggregateCheck(k) ==
    /\ at = "aggregate" /\ agg.step = k /\ UNCHANGED <<at, bad, file>>
    /\ \/ agg' = [agg EXCEPT !.step = @ + 1] /\ NoFault
       \/ agg' = [agg EXCEPT !.step = @ + 1, !.failed = TRUE] /\ Fault
(* It ends without a document.                                             *)
AggregateEnds(k) == agg.step = k /\ Fault /\ Leave("aggregate", TRUE) /\ UNCHANGED <<agg, file>>
AggregateKeep == UNCHANGED <<idle, mn, life, smp, sup, exit, reused, formal>>
HostFilter == AggregateCheck(0) /\ AggregateKeep
Bindings   == AggregateCheck(1) /\ AggregateKeep
(* A registry of findings that cannot be read ends the aggregate.          *)
Findings   == (AggregateCheck(2) \/ AggregateEnds(2)) /\ AggregateKeep
(* A mandatory test that is missing or there twice.                        *)
derive_operational_completion == AggregateCheck(3) /\ AggregateKeep
AggregateChecks == HostFilter \/ Bindings \/ Findings \/ derive_operational_completion
Overall == IF agg.failed \/ \E p \in Phases : load_phase(p) = "FAIL" THEN "FAIL"
           ELSE IF \E p \in Phases : load_phase(p) = "HOLD" THEN "HOLD" ELSE "PASS"
(* The schema may refuse the document.                                     *)
AggregateWrite ==
    /\ \/ /\ at = "aggregate" /\ agg.step = 4 /\ agg' = [agg EXCEPT !.wrote = Overall]
          /\ Leave("aggregate", Overall = "FAIL") /\ UNCHANGED file /\ NoFault
       \/ AggregateEnds(4)
    /\ AggregateKeep

(* Mutant: the exit status is the one of the aggregate alone.              *)
ExitOnAggregate ==
    /\ at = "exit" /\ at' = "end" /\ sw' = Blank
    /\ exit' = CASE agg.wrote = "PASS" -> 0 [] agg.wrote = "HOLD" -> 2 [] OTHER -> 1
    /\ UNCHANGED <<job, todo, view, rep, traffic, turn, goal, torn, stream, verdict,
                   reused, formal, file, bad, mn, life, smp, sup, agg, faults>>
(* The statuses of the stages, then the status of the aggregate; the trap  *)
(* takes the containers of the project down.                               *)
Exit ==
    /\ at = "exit" /\ at' = "end" /\ sw' = Blank
    /\ exit' = IF bad THEN 1 ELSE IF agg.wrote = "HOLD" THEN 2 ELSE 0
    /\ UNCHANGED <<job, todo, view, rep, traffic, turn, goal, torn, stream, verdict,
                   reused, formal, file, bad, mn, life, smp, sup, agg, faults>>

Stage ==
    \/ Preflight \/ ProbeEnvironment \/ Unit \/ RecordP4Testgen \/ MininetStep \/ MininetFinally \/ Compiler
    \/ Suite("functional") \/ StartWorkload("performance", "performance") \/ FinalizePerformance
    \/ Crash \/ Suite("recovery") \/ LifecycleCycle \/ FinalizeLifecycle
    \/ StartWorkload("soak", "soak") \/ FinalizeSoak
    \/ SupplyGate \/ SupplyTool \/ RecordOffline \/ CreateManifest \/ SupplyChecks \/ SupplyResult \/ AggregateChecks \/ AggregateWrite \/ Exit

shell == <<at, reused, formal, file, bad, mn, life, smp, sup, agg, exit>>
(* Bound: once a stage has failed, the switch and its stream do not.       *)
Workload == WorkloadStep /\ UNCHANGED shell /\ (bad => NoFault)
Stream   == ConsumeStream /\ UNCHANGED shell /\ (bad => NoFault)
Next == Stage \/ Abort \/ SamplerStops \/ Workload \/ Stream \/ (at = "end" /\ UNCHANGED vars)

(* The shell and the workload go on; the switch need not send anything.    *)
Spec == QInit /\ [][Next]_vars /\ WF_vars(Stage \/ Workload)

-----------------------------------------------------------------------------
QTypeOK ==
    /\ job \in {"idle", "performance", "soak"} /\ traffic \in {"no", "warmup", "measured"}
    /\ verdict \in {"none", "PASS", "FAIL", "HOLD"} /\ torn \in BOOLEAN /\ bad \in BOOLEAN /\ faults \in 0..NFaults
    /\ sw.sel \in Bank \cup {None} /\ view.active \in Bank /\ turn \in 0..NTurns \cup 0..NSamples
    /\ stream.len \in 0..QueueMax /\ stream.got \in 0..DrainMax
    /\ file \in [Phases -> {"none", "old", "PASS", "FAIL", "HOLD"}]
    /\ at \in ToSet(Stages) \cup {"end"} /\ exit \in {-1, 0, 1, 2}
    /\ mn.step \in 0..MCleanup + 3 /\ mn.tries < Attempts /\ life.n \in 0..NCycles
    /\ sup.failed \subseteq ToSet(Groups) \cup {"offline"} /\ agg.wrote \in {"none", "PASS", "FAIL", "HOLD"}

(* The workload ended, was not judged FAIL, and is not finalized yet.      *)
Accepted == job = "idle" /\ at \in {"measured", "soaked"} /\ verdict \in {"PASS", "HOLD"}

(* A workload that is not FAIL measured traffic only against the bank that *)
(* it had selected, with every rule of that bank in place, and left the    *)
(* tables empty: whatever call failed half way, and whatever the switch    *)
(* acknowledged and did not do, a check of run-soak.py or                  *)
(* run-performance.py saw it, although the soak flips the selector before  *)
(* it looks at its readback.                                               *)
AcceptedWhole == Accepted => ~torn /\ Empty

(* A workload that is not FAIL answered every digest that it took off the  *)
(* queue of its client over a stream that was up, although the switch      *)
(* sends while the queue is drained and the queue, the drain and the       *)
(* stream each have their limit.                                           *)
HintsAnswered == Accepted => ~stream.lost

(* A Mininet phase that is PASS left neither its container nor its hosts   *)
(* behind, whichever of its steps or of the steps of its clean-up failed,  *)
(* timed out or did half of its work.                                      *)
MininetClean == file["mininet"] = "PASS" => ~mn.box /\ ~mn.net

(* An exit status of zero says that every phase wrote PASS in this run.    *)
(* With a run id that was used before this rests on the kept statuses, for *)
(* the aggregate loads whatever file it finds; the one exception is a tool *)
(* of the supply chain that exits with 2.                                  *)
ExitZeroIsFresh == exit = 0 => \A p \in Phases : file[p] = "PASS" \/ (p = "supply" /\ reused)

(* Every run ends: no drain, retry or clean-up goes on for ever, though    *)
(* the switch may send digests as fast as they are taken.                  *)
RunEnds == <>(at = "end")

(* A phase that is not FAIL left nothing unanswered on the stream of its   *)
(* client and nothing of Mininet on the host.                              *)
QualInv == QTypeOK /\ HintsAnswered /\ MininetClean
=============================================================================
