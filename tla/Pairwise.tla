------------------------------ MODULE Pairwise ------------------------------
(***************************************************************************)
(* The runners of testkit/system, which start real deployables, let them   *)
(* talk to each other, write evidence of what they saw and take everything *)
(* down again: run-edge-central-pairwise.py with its five options, and     *)
(* run-edge-bmv2-pairwise.py, run-go-analysis-pairwise.py and              *)
(* run-go-plugin-host-pairwise.py, which are shorter lists of the same     *)
(* steps; and the four runners of analysis-py/scripts, which do the same   *)
(* with the analysis service alone (ModuleRunner).                         *)
(*                                                                         *)
(* A runner is a list of steps, each of which may raise, and a list of     *)
(* clean-up steps (its finally clause).  Around it live the processes that *)
(* it started, two exporters with children of their own, a thread that     *)
(* watches the database, an operator with a stop token, and signals.       *)
(***************************************************************************)
EXTENDS RunnerScripts

CONSTANTS MaxFaults, \* bound: signals, processes that end by themselves, holds that expire
          MaxRounds  \* rounds of the keep-alive loop until its deadline

ASSUME PairwiseAssumption == {MaxFaults, MaxRounds} \subseteq Nat

VARIABLES
    graph,    \* what this runner starts
    pc,       \* the next step of the runner
    proc,     \* the processes
    code,     \* their exit codes
    held,     \* what the runner's locals know of: handles, started flags, runtimes
    have,     \* files, containers and rows
    signaled, \* exporters whose consumer_signaled is set
    obs,      \* the observer thread
    obsStop,  \* observer_stop
    facts,    \* history: what crossed a real boundary
    evidence, \* the evidence file
    completed, \* run_completed
    live,     \* state of the live manifest
    rounds,   \* rounds of the keep-alive loop
    faults,   \* faults so far
    why,      \* history: why a clean-up did not take full effect
    hung      \* the runner waits for a command that does not return

vars == <<graph, pc, proc, code, held, have, signaled, obs, obsStop, facts, evidence, completed, live, rounds,
          faults, why, hung>>
world  == <<proc, code, signaled, facts>>
thread == <<obs, obsStop>>
papers == <<evidence, completed, live, rounds>>

Started == {"start", "kids", "ready", "stop"}
Alive(p) == proc[p] \in Started
Gone(p)  == proc[p] = "gone"
-----------------------------------------------------------------------------
Following(n) == Steps[graph][Place[graph][n] + 1]
FirstCleanup == Steps[graph][Place[graph]["complete"] + 1]
-----------------------------------------------------------------------------
Init ==
    /\ graph \in Graphs
    /\ pc = Steps[graph][1]
    /\ proc = [p \in Proc |-> "off"] /\ code = [p \in Proc |-> "none"]
    /\ held = {} /\ signaled = {} /\ facts = {} /\ why = {}
    (* --external-dsn names a database that somebody else runs *)
    /\ have = IF graph = {"external"} THEN {"pg"} ELSE {}
    /\ obs = "off" /\ obsStop = FALSE
    /\ evidence = "none" /\ completed = FALSE /\ live = "none" /\ rounds = 0
    /\ faults = 0 /\ hung = FALSE

Go == pc' = Following(pc)
Fault == faults < MaxFaults /\ faults' = faults + 1

(* An exception leaves the try clause.  subprocess.run kills the command   *)
(* that it waits for: cargo, when the Edge test runs that way, but not the *)
(* test that cargo started.                                                *)
RunsEdge == pc = "edge.wait" /\ graph \cap Switch = {} /\ Alive("edge")
Raise ==
    /\ pc' = FirstCleanup
    /\ IF RunsEdge
       THEN /\ proc' = [proc EXCEPT !.edge = "gone"] /\ code' = [code EXCEPT !.edge = "kill"]
            /\ have' = have \cup {"orphan"}
       ELSE UNCHANGED <<proc, code, have>>
Fail == Raise /\ UNCHANGED <<graph, held, signaled, thread, facts, papers, faults, why>>

(* run_checked: a command that needs what is there and leaves something,   *)
(* fails, or is given up after its timeout.                                *)
run_checked(n, needs, gives) ==
    /\ pc = n
    /\ \/ /\ needs \subseteq have /\ have' = have \cup gives /\ Go
          /\ UNCHANGED <<graph, world, held, thread, papers, faults, why>>
       \/ Fail

(* A command whose product is used by later steps only: it is there when   *)
(* they run.                                                               *)
Command(n) == run_checked(n, {}, {})

(* A bug: the flag is set when the command has succeeded. *)
ComposeUpLate(n) ==
    /\ pc = n
    /\ \/ held' = held \cup {n} /\ have' = have \cup {n} /\ Go
       \/ held' = held /\ have' \in {have, have \cup {n}} /\ pc' = FirstCleanup
    /\ UNCHANGED <<graph, world, thread, papers, faults, why>>
(* Containers: the flag that makes the clean-up remove them is set before  *)
(* the command, which may fail with some of them started.                  *)
ComposeUp(n) ==
    /\ pc = n
    /\ held' = held \cup {n}
    /\ \/ have' = have \cup {n} /\ Go
       \/ have' \in {have, have \cup {n}} /\ pc' = FirstCleanup
    /\ UNCHANGED <<graph, world, thread, papers, faults, why>>

(* subprocess.Popen for one process after another. *)
Opened(ps, k) ==
    /\ proc' = [p \in Proc |-> IF \E i \in 1..k : ps[i] = p THEN "start" ELSE proc[p]]
    /\ held' = held \cup {ps[i] : i \in 1..k}
Popen(n, ps) ==
    /\ pc = n
    /\ \/ Opened(ps, Len(ps)) /\ Go
       \/ \E k \in 0..Len(ps) - 1 : Opened(ps, k) /\ pc' = FirstCleanup
    /\ UNCHANGED <<graph, code, have, signaled, thread, facts, papers, faults, why>>

(* A bug: a loop without a deadline. *)
WaitForever(n, there, learns) ==
    /\ pc = n
    /\ \/ /\ there /\ Go /\ held' = held \cup learns
          /\ UNCHANGED <<graph, world, have, thread, papers, faults, why>>
       \/ n # "edge.ready" /\ Fail
(* A polling loop: what it waits for is there, or the process that should  *)
(* bring it is gone, or the time is up, or the document drifted.           *)
WaitFor(n, there, learns) ==
    /\ pc = n
    /\ \/ /\ there /\ Go /\ held' = held \cup learns
          /\ UNCHANGED <<graph, world, have, thread, papers, faults, why>>
       \/ Fail
-----------------------------------------------------------------------------
(* Up to the Edge. *)

HostBuild == Command("host.build")
HostStart == Popen("host.start", <<"host">>)
HostWait  == WaitFor("host.wait", proc["host"] = "ready", {})
ProcsStart == Popen("procs.start", <<"fixture", "service">>)
ProcsWait  == WaitFor("procs.wait", proc["service"] = "ready" /\ Alive("fixture"), {})

CentralStart == Popen("central.start", <<"central">>)
CentralWait  == WaitFor("central.wait", "central.runtime" \in have, {})
triton_inference_count == run_checked("before", {"oci"}, {})

Postgres == ComposeUp("pg")
Migrate  == run_checked("migrate", {"pg"}, {})
PluginStart == Popen("plugin.start", <<"plugin">>)
Build == Command("build")
PluginWait == WaitFor("plugin.wait", "plugin.runtime" \in have, {"plugin.runtime"})
generate_control_pki == Command("pki")
AnalysisStart == Popen("analysis.start", <<"analysis">>)
AnalysisWait  == WaitFor("analysis.wait", "analysis.runtime" \in have, {"analysis.runtime"})
write_connected_role_mapping == Command("roles")
Config == Command("config")
seed_control == run_checked("seed", {"pg"}, {})
ControlStart == Popen("control.start", <<"control">>)
wait_http_ready == WaitFor("control.wait", proc["control"] = "ready", {})

(* The thread starts; nothing can fail here. *)
Observe ==
    /\ pc = "observe" /\ obs' = "poll" /\ Go
    /\ UNCHANGED <<graph, world, held, have, obsStop, papers, faults, why>>

Certs == Command("certs")
SwitchUp == ComposeUp("p4")
wait_compose_container == run_checked("p4.wait", {"p4"}, {})
(* load-bmv2-pipeline.py is the switch's primary while it runs: it sets    *)
(* the program, writes selectors and forwarding, reads back, and reports   *)
(* when its stream is closed.  It may stop anywhere.                       *)
Loaded  == {"program", "infra", "pipeline"}
Partial == {{}, {"program"}, {"program", "infra"}}
LoadPipeline ==
    /\ pc = "load"
    /\ \/ "p4" \in have /\ have' = have \cup Loaded /\ Go
       \/ (\E part \in Partial : have' = have \cup part) /\ pc' = FirstCleanup
    /\ UNCHANGED <<graph, world, held, thread, papers, faults, why>>
-----------------------------------------------------------------------------
(* The Edge test, its traffic and what the runner makes of it. *)

(* cargo is a child of subprocess.run when there is no switch: the runner  *)
(* has no handle of it.                                                    *)
EdgeStart ==
    /\ pc = "edge.start"
    /\ \/ /\ proc' = [proc EXCEPT !.edge = "start"] /\ Go
          /\ held' = IF graph \cap Switch # {} THEN held \cup {"edge"} ELSE held
          /\ UNCHANGED <<graph, code, have, signaled, thread, facts, papers, faults, why>>
       \/ Fail
EdgeReady == WaitFor("edge.ready", "edge.ready" \in have, {})
(* send-bmv2-traffic.py counts what its peer received, and does not judge  *)
(* it; the runner's file is there before its contents are.                 *)
Sent == {{"traffic.torn"}, {"traffic.torn", "lossy"}}
SendTraffic ==
    /\ pc = "traffic"
    /\ \/ /\ "p4" \in have /\ Go /\ \E s \in Sent : have' = have \cup s
          /\ UNCHANGED <<graph, world, held, thread, papers, faults, why>>
       \/ Fail
WriteReceipt == run_checked("traffic.done", {}, {"traffic.done"})
(* Keep-alive: the file is enough, and Edge runs on. *)
EdgeEvidence == WaitFor("edge.evidence", have \cap {"edge.torn", "edge.evidence"} # {}, {})
EdgeWait ==
    /\ pc = "edge.wait"
    /\ \/ /\ Gone("edge") /\ Go /\ held' = held \ {"edge"}
          /\ UNCHANGED <<graph, world, have, thread, papers, faults, why>>
       \/ Fail
(* The exit status and the evidence of the Edge test; with Central, what   *)
(* Triton counted since.  Keep-alive takes the status for 0.               *)
EdgeAssumed == "edge.evidence" \in have
EdgePassed  == (code["edge"] = "0" \/ "live" \in graph) /\ "edge.evidence" \in have
Verdict == WaitFor("verdict", EdgePassed, {})
SwitchLogs == run_checked("p4.logs", {"p4"}, {"p4.log"})
After == WaitFor("after", "oci" \in have /\ EdgePassed /\ "infer" \in facts, {})

(* observer_stop is set, and the thread joined for five seconds. *)
StopObserver ==
    /\ pc = "event" /\ obsStop' = TRUE /\ Go
    /\ UNCHANGED <<graph, world, held, have, obs, papers, faults, why>>
ReadEvent == WaitFor("event.read", obs # "error" /\ "event.json" \in have, {"event"})

(* The Go tests of the side planes. With the connected graph they go       *)
(* through the running Control.                                            *)
GoTest(n, kids, row, fact) ==
    /\ pc = n
    /\ \/ /\ \A k \in kids : proc[k] = "ready"
          /\ "side" \in graph => proc["control"] = "ready"
          /\ "pg" \in have
          /\ have' = have \cup {row} /\ facts' = facts \cup {fact} /\ Go
          /\ UNCHANGED <<graph, proc, code, signaled, held, thread, papers, faults, why>>
       \/ Fail
PluginTest   == GoTest("test.plugin", {"host"}, "stats", "wasm")
AnalysisTest == GoTest("test.analysis", {"fixture", "service"}, "task", "a2a")

WebBuild ==
    /\ pc = "web.build"
    /\ \/ /\ "incident" \in have /\ Go
          /\ UNCHANGED <<graph, world, held, have, thread, papers, faults, why>>
       \/ Fail
WebUp == ComposeUp("web")
WebReady == WaitFor("web.ready", "web" \in have /\ proc["control"] = "ready", {})
Browser ==
    /\ pc \in {"chromium", "firefox", "webkit"}
    /\ \/ /\ {"web", "pg", "event"} \subseteq have /\ proc["control"] = "ready"
          /\ "side" \in graph => {"stats", "task"} \subseteq have
          /\ facts' = facts \cup {pc} /\ Go
          /\ UNCHANGED <<graph, proc, code, signaled, held, have, thread, papers, faults, why>>
       \/ Fail
-----------------------------------------------------------------------------
(* The runners of the analysis module. *)

generate_pki == Command("keys")
write_runtime == Command("runtime")
(* Only the black-box runner waits until the neighbours answer; the others *)
(* look once, after 0.2 s, whether they are still there.                   *)
FixtureStart == Popen("fixture.start", <<"fixture">>)
FixtureWait ==
    WaitFor("fixture.wait", IF graph = {"blackbox"} THEN proc["fixture"] = "ready" ELSE Alive("fixture"), {})

(* start_analysis of the soak returns the process when it is ready: until  *)
(* then the runner has no handle of it.                                    *)
start_analysis ==
    /\ pc \in {"service.start", "restart"}
    /\ \/ /\ proc' = [proc EXCEPT !.service = "start"] /\ code' = [code EXCEPT !.service = "none"] /\ Go
          /\ held' = IF graph = {"soak"} THEN held ELSE held \cup {"service"}
          /\ UNCHANGED <<graph, have, signaled, thread, facts, papers, faults, why>>
       \/ Fail
ServiceReady == proc["service"] = "ready"
wait_ready == \E n \in {"service.wait", "restart.wait"} : WaitFor(n, ServiceReady, {"service"})
HttpReady  == \E n \in {"http.wait", "http.rewait"} : WaitFor(n, ServiceReady, {})

(* Requests that must be answered as expected. *)
Exchange(n, there, gives) ==
    /\ pc = n
    /\ \/ /\ there /\ facts' = facts \cup gives /\ Go
          /\ UNCHANGED <<graph, proc, code, signaled, held, have, thread, papers, faults, why>>
       \/ Fail
FixtureReady == proc["fixture"] = "ready"
Scenarios == Exchange("scenarios", ServiceReady /\ FixtureReady, {"a2a", "provider"})

(* A task whose provider is slow; the binding is revoked under it, the     *)
(* service told to reload, and the task must end as rejected.              *)
LateSubmit ==
    /\ pc = "late.submit"
    /\ \/ /\ ServiceReady /\ have' = have \cup {"late"} /\ Go
          /\ UNCHANGED <<graph, world, held, thread, papers, faults, why>>
       \/ Fail
LateRevoke == run_checked("late.revoke", {}, {"revoked"})
LatePoll == Exchange("late.poll", ServiceReady /\ "late.rejected" \in have, {"fence"})
Tables == Command("tables")

(* account_state of the soak: an answer with an end, or, while the service *)
(* is killed, any.  The performance runner wants every normal task to be   *)
(* completed; what saturation brings it only counts.                       *)
account_state(state, crash_expected) ==
    IF state \in {"COMPLETED", "REJECTED", "FAILED"} \/ (crash_expected /\ state \in {"http_error", "submitted"})
    THEN {} ELSE {"errors"}
Counted(state) ==
    CASE graph = {"soak"} -> account_state(state, FALSE)
      [] graph = {"perf"} /\ pc # "saturate" /\ state # "COMPLETED" -> {"errors"}
      [] OTHER -> {}
(* Tasks are completed with a limited artifact when nobody answers for the *)
(* provider.                                                               *)
Shown(state) ==
    CASE state = "COMPLETED" -> {"a2a"} \cup (IF FixtureReady THEN {"provider"} ELSE {})
      [] state = "REJECTED"  -> {"rejected"}
      [] OTHER -> {}
Answers == CASE ServiceReady -> {"COMPLETED", "REJECTED", "FAILED", "WORKING", "http_error"}
             [] ~ServiceReady /\ graph = {"soak"} -> {"http_error"}
             [] OTHER -> {}
(* Phases at a rate, at saturation and after it.  The soak goes on without *)
(* its service until a sample of its resources raises.                     *)
run_rate_phase ==
    /\ pc \in {"measure", "saturate", "measure.again"}
    /\ \/ /\ \E seen \in SUBSET Answers \ {{}} :
               /\ have'  = have \cup UNION {Counted(s) : s \in seen}
               /\ facts' = facts \cup UNION {Shown(s) : s \in seen}
          /\ Go /\ UNCHANGED <<graph, proc, code, signaled, held, thread, papers, faults, why>>
       \/ Fail
(* A task is submitted and the service killed 0.1 s later, unless the      *)
(* phase ends before that.  The old handle is of no use to the clean-up.   *)
Crash ==
    /\ pc = "crash"
    /\ \/ /\ have' \in {have, IF ServiceReady THEN have \cup {"inflight"} ELSE have}
          /\ proc' = [proc EXCEPT !.service = "gone"]
          /\ code' = [code EXCEPT !.service = IF Alive("service") THEN "kill" ELSE @]
          /\ held' = held \ {"service"} /\ Go
          /\ UNCHANGED <<graph, signaled, thread, facts, papers, faults, why>>
       \/ pc' = "drain" /\ UNCHANGED <<graph, world, held, have, thread, papers, faults, why>>
       \/ Fail
(* The interrupted task must be FAILED, and a new one completed: errors    *)
(* are counted here, and judged at the end.                                *)
Readback ==
    /\ pc = "readback" /\ Go
    /\ \E s \in Answers, lost \in {{}, {"errors"}} :
         LET fenced == ServiceReady /\ "inflight" \in have
         IN /\ (lost # {}) => ~fenced
            /\ have'  = have \cup account_state(s, FALSE) \cup lost
            /\ facts' = facts \cup Shown(s) \cup (IF fenced /\ s = "COMPLETED" THEN {"recovered"} ELSE {})
    /\ UNCHANGED <<graph, proc, code, signaled, held, thread, papers, faults, why>>
Drain == Exchange("drain", ServiceReady, {"idle"})
Needed == IF graph = {"soak"} THEN {"rejected", "recovered", "idle"} ELSE {"a2a", "rejected"}
Thresholds == WaitFor("thresholds", "errors" \notin have /\ Needed \subseteq facts, {})

(* SIGTERM, and an exit with 0 within the time; docker stop kills what is  *)
(* late.                                                                   *)
StopService ==
    /\ pc \in {"service.stop", "box.stop"}
    /\ \/ /\ Alive("service") /\ proc' = [proc EXCEPT !.service = "gone"]
          /\ \/ code' = [code EXCEPT !.service = "0"] /\ Go
             \/ pc = "box.stop" /\ code' = [code EXCEPT !.service = "kill"] /\ pc' = FirstCleanup
          /\ UNCHANGED <<graph, signaled, held, have, thread, facts, papers, faults, why>>
       \/ Fail

(* docker run: the identity is known when the command has succeeded, and   *)
(* a container that cannot be started stays all the same.                  *)
Image == Command("image")
BoxConfig == Command("box.config")
Preflight == Command("preflight")
BoxUp ==
    /\ pc = "box"
    /\ \/ /\ have' = have \cup {"box"} /\ held' = held \cup {"box"} /\ Go
          /\ proc' = [proc EXCEPT !.service = "start"]
       \/ have' \in {have, have \cup {"box"}} /\ pc' = FirstCleanup /\ UNCHANGED <<held, proc>>
    /\ UNCHANGED <<graph, code, signaled, thread, facts, papers, faults, why>>
BoxWait  == WaitFor("box.wait", ServiceReady, {})
BoxCheck == Command("box.check")
BoxTask  == Exchange("box.task", ServiceReady /\ FixtureReady, {"a2a", "provider"})
-----------------------------------------------------------------------------
(* Keep-alive: the live manifest and the loop that holds the graph. *)

Processes == {"edge", "control", "central", "plugin", "analysis"}
still == <<graph, world, held, thread, evidence, completed, faults, why>>

(* The document is there before its schema is read, it is checked and the  *)
(* file written: from then on the finally clause has something to publish. *)
publish_live_runtime ==
    \/ /\ pc = "publish" /\ Processes \subseteq held /\ held' = held \cup {"document"}
       /\ \/ live' = "READY" /\ Go
          \/ pc' = FirstCleanup /\ UNCHANGED live
       /\ UNCHANGED <<graph, world, have, thread, evidence, completed, rounds, faults, why>>
    \/ pc = "stopping" /\ live' = "STOPPING" /\ Go /\ UNCHANGED <<still, have, rounds>>
    \/ pc \in {"publish", "stopping"} /\ Fail
(* The token is a regular file: leave the loop. *)
HoldToken ==
    /\ pc = "hold.token"
    /\ pc' = IF "token" \in have THEN "stopping" ELSE "hold.kind"
    /\ UNCHANGED <<still, have, live, rounds>>
(* Something else of that name, or a token that came since the last look.  *)
HoldKind ==
    /\ pc = "hold.kind"
    /\ IF have \cap {"token", "badtoken"} # {} THEN Fail ELSE Go /\ UNCHANGED <<still, have, live, rounds>>
HoldDead ==
    /\ pc = "hold.dead"
    /\ IF \E p \in Processes : Gone(p) THEN Fail ELSE Go /\ UNCHANGED <<still, have, live, rounds>>
(* At the deadline the runner makes the token itself, which must be new. *)
HoldDeadline ==
    /\ pc = "hold.deadline"
    /\ \/ rounds < MaxRounds /\ Go /\ UNCHANGED <<still, have, live, rounds>>
       \/ /\ rounds = MaxRounds /\ have \cap {"token", "badtoken"} = {}
          /\ have' = have \cup {"token"} /\ pc' = "stopping" /\ UNCHANGED <<still, live, rounds>>
       \/ rounds = MaxRounds /\ have \cap {"token", "badtoken"} # {} /\ Fail
HoldHealth ==
    /\ pc = "hold.health"
    /\ \/ /\ {"p4", "oci", "web", "pg"} \subseteq have /\ proc["control"] = "ready"
          /\ pc' = "hold.token" /\ rounds' = rounds + 1 /\ UNCHANGED <<still, have, live>>
       \/ Fail

(* The operator, who has read the manifest. *)
Operator ==
    /\ live = "READY" /\ have \cap {"token", "badtoken"} = {} /\ pc \notin Finally
    /\ \E t \in {"token", "badtoken"} : have' = have \cup {t}
    /\ UNCHANGED <<graph, pc, world, held, thread, papers, faults, why>>
-----------------------------------------------------------------------------
(* Everybody leaves, and the evidence is written. *)

(* A process has left within the time it has, with a status that is        *)
(* accepted: the handle is dropped before the status is looked at.         *)
Leaves(n, p, accepted) ==
    /\ pc = n
    /\ \/ /\ Gone(p) /\ held' = held \ {p}
          /\ IF accepted THEN Go ELSE pc' = FirstCleanup
          /\ UNCHANGED <<graph, world, have, thread, papers, faults, why>>
       \/ Fail
EdgeLeave == Leaves("edge.leave", "edge", code["edge"] = "0")
(* consumer.done must be new. *)
PluginDone  == run_checked("plugin.done", {}, {"plugin.done"})
PluginLeft  == Leaves("plugin.left", "plugin", code["plugin"] = "0" /\ "plugin.clean" \in have)
AnalysisDone == run_checked("analysis.done", {}, {"analysis.done"})
AnalysisLeft == Leaves("analysis.left", "analysis", code["analysis"] = "0" /\ "analysis.clean" \in have)
CentralDone == run_checked("central.done", {}, {"central.done"})
CentralLeft == Leaves("central.left", "central", code["central"] \in {"0", "2"})

(* terminate, then wait for a bounded time: the small runners stop their   *)
(* processes before they report, and forget them all at once.              *)
KidsStop ==
    /\ pc \in {"host.stop", "procs.stop"}
    /\ \/ /\ proc' = [p \in Proc |-> IF p \in held \cap Child THEN "gone" ELSE proc[p]]
          /\ held' = held \ Child /\ Go
          /\ UNCHANGED <<graph, code, have, signaled, thread, facts, papers, faults, why>>
       \/ Fail

(* What the evidence of the full graph is held against. *)
validate_semantics ==
    /\ {"plugin.clean", "analysis.clean"} \subseteq have
    /\ {"chromium", "firefox", "webkit"} \subseteq facts
Result == WaitFor("result", Parts(graph) \subseteq have /\ ("side" \in graph => validate_semantics), {})
(* The file is opened, then written, then the run counts as completed. *)
Write ==
    /\ pc \in {"write", "written"}
    /\ \/ /\ evidence' = (IF pc = "write" THEN "torn" ELSE "PASS") /\ Go
          /\ UNCHANGED <<graph, world, held, have, thread, completed, live, rounds, faults, why>>
       \/ Fail
Complete ==
    /\ pc = "complete" /\ completed' = TRUE /\ Go
    /\ UNCHANGED <<graph, world, held, have, thread, evidence, live, rounds, faults, why>>
-----------------------------------------------------------------------------
(* The finally clause. An exception in it, or a signal, leaves out the     *)
(* rest.                                                                   *)

Cut == pc' = "over" /\ why' = why \cup {"cut"}
Keep == UNCHANGED <<graph, held, signaled, facts, papers>>

(* Edge runs in a session of its own when a switch is connected, and the   *)
(* whole group is ended; the smaller runner ends cargo only.               *)
EndEdge ==
    /\ pc = "f.edge" /\ Go
    /\ IF "edge" \in held /\ Alive("edge")
       THEN /\ proc' = [proc EXCEPT !.edge = "gone"] /\ code' = [code EXCEPT !.edge = "term"]
            /\ have' = IF graph = {"bmv2"} THEN have \cup {"orphan"} ELSE have
       ELSE UNCHANGED <<proc, code, have>>
    /\ Keep /\ UNCHANGED <<thread, why, faults>>

(* docker rm, docker compose down: no exit status is looked at, and only a *)
(* timeout raises, where there is one.                                     *)
Owns(c) == c \in held \/ (graph = {"bmv2"} /\ c = "p4") \/ (graph = {"analysis"} /\ c = "pg")
Rows == {"event", "incident", "stats", "task"}
Contents(c) == {c} \cup CASE c = "pg" -> Rows [] c = "p4" -> {"program", "infra"} [] OTHER -> {}
Down(n, c) ==
    /\ pc = n
    /\ \/ ~Owns(c) /\ Go /\ UNCHANGED <<have, faults, why>>
       \/ Owns(c) /\ Go /\ have' = have \ Contents(c) /\ UNCHANGED <<faults, why>>
       \/ Owns(c) /\ Fault /\ Go /\ why' = why \cup {"ignored"} /\ UNCHANGED have
       \/ Owns(c) /\ n \notin Unbounded(graph) /\ Fault /\ Cut /\ UNCHANGED have
    /\ Keep /\ UNCHANGED <<proc, code, thread>>
EndWeb == Down("f.web", "web")
EndPg  == Down("f.pg", "pg")
EndP4  == Down("f.p4", "p4")

(* An exporter: its consumer.done, fifteen seconds, SIGTERM, SIGKILL.  An  *)
(* exporter that runs stops its children faster than that, so that running *)
(* into a timeout is a fault.                                              *)
Knows(x) == x \in held /\ (x \o ".runtime") \in held
EndExporterDone(x) ==
    /\ pc = "f." \o x \o ".done" /\ Go
    /\ have' = IF Knows(x) THEN have \cup {x \o ".done"} ELSE have
    /\ Keep /\ UNCHANGED <<proc, code, thread, why, faults>>
EndExporterAwait(x) ==
    /\ pc = "f." \o x \o ".await" /\ Go
    /\ IF Knows(x) /\ Alive(x) THEN Fault ELSE UNCHANGED faults
    /\ Keep /\ UNCHANGED <<proc, code, have, thread, why>>
Left(x) == \E i \in 1..Len(Kids[x]) : Alive(Kids[x][i])
(* SIGTERM raises SystemExit in the exporter, which then stops its         *)
(* children; when it is stopping them already, it leaves them.             *)
EndExporterTerm(x) ==
    /\ pc = "f." \o x \o ".term" /\ Go
    /\ CASE x \in held /\ proc[x] = "stop" ->
                /\ proc' = [proc EXCEPT ![x] = "gone"] /\ code' = [code EXCEPT ![x] = "bad"]
                /\ why' = IF Left(x) THEN why \cup {"forced"} ELSE why
         [] x \in held /\ Alive(x) /\ proc[x] # "stop" ->
                proc' = [proc EXCEPT ![x] = "stop"] /\ UNCHANGED <<code, why>>
         [] OTHER -> UNCHANGED <<proc, code, why>>
    /\ Keep /\ UNCHANGED <<have, thread, faults>>
EndExporterKill(x) ==
    /\ pc = "f." \o x \o ".kill" /\ Go
    /\ IF x \in held /\ Alive(x)
       THEN /\ proc' = [proc EXCEPT ![x] = "gone"] /\ code' = [code EXCEPT ![x] = "kill"]
            /\ Fault /\ why' = IF Left(x) THEN why \cup {"forced"} ELSE why
       ELSE UNCHANGED <<proc, code, faults, why>>
    /\ Keep /\ UNCHANGED <<have, thread>>

EndKids ==
    /\ pc = "f.kids" /\ Go
    /\ proc' = [p \in Proc |-> IF p \in held \cap Child /\ Alive(p) THEN "gone" ELSE proc[p]]
    /\ Keep /\ UNCHANGED <<code, have, thread, why, faults>>
(* terminate, then kill, the service first; docker rm --force when the     *)
(* identity is known, and its status is not looked at.                     *)
EndOne(n, p) ==
    /\ pc = n /\ Go
    /\ IF p \in held /\ Alive(p)
       THEN /\ proc' = [proc EXCEPT ![p] = "gone"]
            /\ \E c \in {"term", "kill"} : code' = [code EXCEPT ![p] = c]
       ELSE UNCHANGED <<proc, code>>
    /\ Keep /\ UNCHANGED <<have, thread, why, faults>>
EndService == EndOne("f.service", "service")
EndFixture == EndOne("f.fixture", "fixture")
EndBox ==
    /\ pc = "f.box" /\ Go
    /\ \/ "box" \notin held /\ UNCHANGED <<proc, code, have, faults, why>>
       \/ /\ "box" \in held /\ have' = have \ {"box"}
          /\ proc' = [proc EXCEPT !.service = "gone"]
          /\ code' = [code EXCEPT !.service = IF Alive("service") THEN "kill" ELSE @]
          /\ UNCHANGED <<faults, why>>
       \/ "box" \in held /\ Fault /\ why' = why \cup {"ignored"} /\ UNCHANGED <<proc, code, have>>
    /\ Keep /\ UNCHANGED thread
EndObserver ==
    /\ pc = "f.observer" /\ Go /\ obsStop' = TRUE
    /\ Keep /\ UNCHANGED <<proc, code, have, obs, why, faults>>
EndControlKept ==
    /\ pc = "f.control" /\ Go
    /\ Keep /\ UNCHANGED <<proc, code, have, thread, why, faults>>
EndControl ==
    /\ pc = "f.control" /\ Go
    /\ IF "control" \in held /\ Alive("control")
       THEN proc' = [proc EXCEPT !.control = "gone"] /\ code' = [code EXCEPT !.control = "term"]
       ELSE UNCHANGED <<proc, code>>
    /\ Keep /\ UNCHANGED <<have, thread, why, faults>>
(* Terminated, the script's exit trap removes its containers; killed, it   *)
(* leaves them.                                                            *)
EndCentral ==
    /\ pc = "f.central" /\ Go
    /\ IF "central" \in held /\ Alive("central")
       THEN /\ proc' = [proc EXCEPT !.central = "gone"]
            /\ \/ /\ code' = [code EXCEPT !.central = "term"] /\ UNCHANGED <<faults, why>>
                  /\ have' = (have \ {"oci"}) \cup {"central.done"}
               \/ /\ code' = [code EXCEPT !.central = "kill"] /\ have' = have \cup {"central.done"}
                  /\ Fault /\ why' = IF "oci" \in have THEN why \cup {"forced"} ELSE why
       ELSE have' = have \cup {"central.done"} /\ UNCHANGED <<proc, code, faults, why>>
    /\ Keep /\ UNCHANGED thread

(* Logs are fetched and copied, which may raise. *)
SaveLogs ==
    /\ pc \in {"f.p4logs", "f.copy"}
    /\ \/ Go /\ UNCHANGED <<faults, why>>
       \/ (pc = "f.p4logs" => "p4.log" \notin have) /\ Fault /\ Cut
    /\ Keep /\ UNCHANGED <<proc, code, have, thread>>

(* The manifest's last state; a failing disk is ignored. *)
Final == IF completed THEN "STOPPED" ELSE "FAILED"
Settle ==
    /\ pc = "f.live" /\ Go
    /\ \/ "document" \notin held /\ UNCHANGED <<live, why>>
       \/ "document" \in held /\ live' = Final /\ UNCHANGED why
       \/ "document" \in held /\ why' = why \cup {"ignored"} /\ UNCHANGED live
    /\ UNCHANGED <<graph, world, held, have, thread, evidence, completed, rounds, faults>>
-----------------------------------------------------------------------------
(* Around the runner. *)

env == <<graph, pc, held, obsStop, papers, why>>

(* SIGTERM or SIGINT.  Only the connected runner has a handler for the     *)
(* first: the others die of it without their finally clause.  A signal     *)
(* between fork and assignment leaves a process nobody has a handle of.    *)
Opens == [n \in {"host.start", "central.start", "plugin.start", "analysis.start", "control.start",
                 "fixture.start", "service.start", "restart", "box"} |->
            CASE n = "host.start" -> "host" [] n = "central.start" -> "central"
              [] n = "plugin.start" -> "plugin" [] n = "analysis.start" -> "analysis"
              [] n = "control.start" -> "control" [] n = "fixture.start" -> "fixture"
              [] n \in {"service.start", "restart", "box"} -> "service"]
Signal ==
    /\ pc # "over" /\ Fault
    /\ \/ pc \notin Finally /\ Raise /\ UNCHANGED why
       \/ pc \in Finally /\ Cut /\ UNCHANGED <<proc, code, have>>
       \/ "rec" \notin graph /\ Cut /\ UNCHANGED <<proc, code, have>>
       \/ /\ pc \in DOMAIN Opens /\ pc' = FirstCleanup
          /\ proc' = [proc EXCEPT ![Opens[pc]] = "start"] /\ why' = why \cup {"leaked"}
          /\ code' = [code EXCEPT ![Opens[pc]] = "none"]
          /\ have' = IF pc = "box" THEN have \cup {"box"} ELSE have
    /\ hung' = FALSE
    /\ UNCHANGED <<graph, held, signaled, thread, facts, papers>>

(* A command without a timeout does not return: the runner waits for it    *)
(* until somebody signals it.                                              *)
Hangs ==
    /\ pc \in Unbounded(graph) /\ ~hung /\ Fault
    /\ pc = "f.pg" => Owns("pg")
    /\ pc = "f.box" => "box" \in held
    /\ hung' = TRUE
    /\ UNCHANGED <<graph, pc, world, held, have, thread, papers, why>>

(* Central: its script exports, holds until the consumer is done or the    *)
(* time is up (which it does not tell apart), and removes its containers.  *)
CentralUp ==
    /\ proc["central"] = "start"
    /\ proc' = [proc EXCEPT !.central = "ready"] /\ have' = have \cup {"oci", "central.runtime"}
    /\ UNCHANGED <<env, code, signaled, facts, obs, faults>>
CentralEnds ==
    /\ Alive("central")
    /\ \E c \in {"0", "2", "bad"} :
         /\ code' = [code EXCEPT !.central = c]
         /\ c # "bad" => proc["central"] = "ready"
         /\ IF c # "bad" /\ "central.done" \in have THEN UNCHANGED faults ELSE Fault
         /\ have' = (have \ {"oci"}) \cup (IF c = "bad" THEN {} ELSE {"central.summary"})
    /\ proc' = [proc EXCEPT !.central = "gone"]
    /\ UNCHANGED <<env, signaled, facts, obs>>

ProcessUp(p) ==
    /\ p \in Child \cup {"control"} /\ proc[p] = "start"
    /\ p = "control" => "pg" \in have
    /\ proc' = [proc EXCEPT ![p] = "ready"]
    /\ UNCHANGED <<env, code, have, signaled, facts, obs, faults>>
Dies(p) ==
    /\ p \in Child \cup {"control", "edge"} /\ Alive(p) /\ Fault
    /\ proc' = [proc EXCEPT ![p] = "gone"] /\ code' = [code EXCEPT ![p] = "bad"]
    /\ UNCHANGED <<env, have, signaled, facts, obs>>

(* The service reloads when it is told to; a task that is still running    *)
(* then ends as rejected.                                                  *)
Reloads ==
    /\ ServiceReady /\ "revoked" \in have /\ "reloaded" \notin have
    /\ have' = have \cup {"reloaded"}
    /\ UNCHANGED <<env, world, obs, faults>>
LateEnds ==
    /\ ServiceReady /\ "late" \in have /\ have \cap {"late.rejected", "late.completed"} = {}
    /\ have' = have \cup {IF "reloaded" \in have THEN "late.rejected" ELSE "late.completed"}
    /\ UNCHANGED <<env, world, obs, faults>>

(* The exporters. *)
KidSet(x) == {Kids[x][i] : i \in 1..Len(Kids[x])}
StartKids(x) ==
    /\ proc[x] = "start"
    /\ proc' = [p \in Proc |-> CASE p = x -> "kids" [] p \in KidSet(x) -> "start" [] OTHER -> proc[p]]
    /\ UNCHANGED <<env, code, have, signaled, facts, obs, faults>>
(* The document that the consumer waits for. *)
RuntimeOf(x) == x \o ".runtime"
Export(x) ==
    /\ proc[x] = "kids" /\ \A k \in KidSet(x) : proc[k] = "ready"
    /\ proc' = [proc EXCEPT ![x] = "ready"] /\ have' = have \cup {RuntimeOf(x)}
    /\ UNCHANGED <<env, code, signaled, facts, obs, faults>>
(* The hold ends: the consumer is done, a child is gone, or an exception   *)
(* (a build fails, the readiness or the hold times out).                   *)
HoldEnds(x) ==
    /\ proc[x] \in {"start", "kids", "ready"}
    /\ \/ proc[x] = "ready" /\ x \o ".done" \in have /\ signaled' = signaled \cup {x} /\ UNCHANGED faults
       \/ proc[x] # "start" /\ (\E k \in KidSet(x) : Gone(k)) /\ UNCHANGED <<signaled, faults>>
       \/ Fault /\ UNCHANGED signaled
    /\ proc' = [proc EXCEPT ![x] = "stop"]
    /\ UNCHANGED <<env, code, have, facts, obs>>
(* stop_process, the last child first. *)
stop_process(x) ==
    /\ proc[x] = "stop"
    /\ \E i \in 1..Len(Kids[x]) :
         /\ Alive(Kids[x][i]) /\ \A j \in i + 1..Len(Kids[x]) : ~Alive(Kids[x][j])
         /\ proc' = [proc EXCEPT ![Kids[x][i]] = "gone"]
         /\ \/ code' = [code EXCEPT ![Kids[x][i]] = "term"] /\ UNCHANGED faults
            \/ code' = [code EXCEPT ![Kids[x][i]] = "kill"] /\ Fault
    /\ UNCHANGED <<env, have, signaled, facts, obs>>
Shutdown(x) ==
    /\ proc[x] = "stop" /\ ~Left(x)
    /\ proc' = [proc EXCEPT ![x] = "gone"]
    /\ code' = [code EXCEPT ![x] = IF x \in signaled THEN "0" ELSE "bad"]
    /\ have' = IF x \in signaled /\ \A k \in KidSet(x) : code[k] = "term"
               THEN have \cup {x \o ".clean"} ELSE have
    /\ UNCHANGED <<env, signaled, facts, obs, faults>>

(* observe_control_event: one round of the thread. *)
observe_control_event ==
    /\ obs = "poll"
    /\ \/ (obsStop \/ "event.json" \in have) /\ obs' = "done" /\ UNCHANGED <<have, faults>>
       \/ ~obsStop /\ {"pg", "event"} \subseteq have /\ obs' = "done"
          /\ have' = have \cup {"event.json"} /\ UNCHANGED faults
       \/ ~obsStop /\ "pg" \notin have /\ obs' = "error" /\ UNCHANGED <<have, faults>>
       \/ ~obsStop /\ Fault /\ obs' = "error" /\ UNCHANGED have
    /\ UNCHANGED <<env, world>>

(* The Edge test: it becomes primary on the pipeline that is loaded, waits *)
(* for the traffic, infers, commits, waits until the observer has seen the *)
(* event, and writes its evidence.                                         *)
edge == <<env, signaled, obs, faults>>
EdgePrimary ==
    /\ proc["edge"] = "start"
    /\ graph \cap Switch # {} => {"p4", "program", "infra"} \subseteq have
    /\ "rec" \in graph => "oci" \in have
    /\ "control" \in graph => proc["control"] = "ready"
    /\ proc' = [proc EXCEPT !.edge = "ready"] /\ facts' = facts \cup {"primary"}
    /\ have' = IF graph \cap Switch # {} THEN have \cup {"edge.ready"} ELSE have
    /\ UNCHANGED <<edge, code>>
EdgeInfers ==
    /\ proc["edge"] = "ready" /\ facts \cap {"infer", "telemetry"} = {}
    /\ graph \cap Switch # {} => {"p4", "traffic.done"} \subseteq have /\ "lossy" \notin have
    /\ "rec" \in graph => "oci" \in have
    /\ facts' = facts \cup (IF graph \cap Switch # {} THEN {"traffic"} ELSE {})
                      \cup (IF "rec" \in graph THEN {"infer"} ELSE {"telemetry"})
    /\ UNCHANGED <<edge, proc, code, have>>
(* The receipt is read as soon as the file is there, and must count every  *)
(* packet.                                                                 *)
EdgeMisreads ==
    /\ proc["edge"] = "ready" /\ "traffic" \notin facts /\ "traffic.torn" \in have
    /\ "traffic.done" \notin have \/ "lossy" \in have
    /\ proc' = [proc EXCEPT !.edge = "gone"] /\ code' = [code EXCEPT !.edge = "bad"]
    /\ UNCHANGED <<edge, facts, have>>
EdgeCommits ==
    /\ proc["edge"] = "ready" /\ facts \cap {"infer", "telemetry"} # {} /\ "commit" \notin facts
    /\ "control" \in graph => proc["control"] = "ready" /\ "pg" \in have
    /\ facts' = facts \cup {"commit"}
    /\ have' \in (IF "control" \in graph THEN {have \cup {"event"}, have \cup {"event", "incident"}} ELSE {have})
    /\ UNCHANGED <<edge, proc, code>>
EdgeAcked ==
    /\ proc["edge"] = "ready" /\ "commit" \in facts /\ "ack" \notin facts
    /\ "control" \in graph => "event.json" \in have
    /\ facts' = facts \cup {"ack"}
    /\ UNCHANGED <<edge, proc, code, have>>
EdgeWrites ==
    /\ proc["edge"] = "ready" /\ "ack" \in facts /\ "edge.evidence" \notin have
    /\ have' = IF "edge.torn" \in have THEN (have \ {"edge.torn"}) \cup {"edge.evidence"}
               ELSE have \cup {"edge.torn"}
    /\ UNCHANGED <<edge, world>>
EdgeExits ==
    /\ proc["edge"] = "ready" /\ "edge.evidence" \in have /\ ("live" \in graph => "token" \in have)
    /\ proc' = [proc EXCEPT !.edge = "gone"] /\ code' = [code EXCEPT !.edge = "0"]
    /\ UNCHANGED <<edge, facts, have>>
-----------------------------------------------------------------------------
Try ==
    \/ HostBuild \/ HostStart \/ HostWait \/ ProcsStart \/ ProcsWait
    \/ CentralStart \/ CentralWait \/ triton_inference_count \/ Postgres \/ Migrate
    \/ PluginStart \/ Build \/ PluginWait \/ generate_control_pki \/ AnalysisStart \/ AnalysisWait
    \/ write_connected_role_mapping \/ Config \/ seed_control \/ ControlStart \/ wait_http_ready \/ Observe
    \/ Certs \/ SwitchUp \/ wait_compose_container \/ LoadPipeline
    \/ EdgeStart \/ EdgeReady \/ SendTraffic \/ WriteReceipt \/ EdgeEvidence \/ EdgeWait \/ Verdict \/ SwitchLogs \/ After
    \/ StopObserver \/ ReadEvent \/ PluginTest \/ AnalysisTest \/ WebBuild \/ WebUp \/ WebReady \/ Browser
    \/ publish_live_runtime \/ HoldToken \/ HoldKind \/ HoldDead \/ HoldDeadline \/ HoldHealth
    \/ EdgeLeave \/ PluginDone \/ PluginLeft \/ AnalysisDone \/ AnalysisLeft \/ KidsStop
    \/ CentralDone \/ CentralLeft \/ Result \/ Write \/ Complete
    \/ generate_pki \/ write_runtime \/ FixtureStart \/ FixtureWait \/ start_analysis \/ wait_ready \/ HttpReady
    \/ Scenarios \/ LateSubmit \/ LateRevoke \/ LatePoll \/ Tables
    \/ run_rate_phase \/ Crash \/ Readback \/ Drain \/ Thresholds \/ StopService
    \/ Image \/ BoxConfig \/ Preflight \/ BoxUp \/ BoxWait \/ BoxCheck \/ BoxTask
End ==
    \/ EndEdge \/ EndWeb \/ EndKids \/ EndObserver \/ EndControl \/ EndCentral \/ SaveLogs
    \/ EndPg \/ EndP4 \/ Settle \/ EndService \/ EndFixture \/ EndBox
    \/ \E x \in Exporter : \/ EndExporterDone(x) \/ EndExporterAwait(x)
                           \/ EndExporterTerm(x) \/ EndExporterKill(x)
Runner == ~hung /\ (Try \/ End) /\ UNCHANGED hung
Others ==
    /\ UNCHANGED hung
    /\ \/ Operator \/ CentralUp \/ CentralEnds \/ observe_control_event
       \/ EdgePrimary \/ EdgeInfers \/ EdgeMisreads \/ EdgeCommits \/ EdgeAcked \/ EdgeWrites \/ EdgeExits
       \/ Reloads \/ LateEnds
       \/ \E p \in Proc : ProcessUp(p) \/ Dies(p)
       \/ \E x \in Exporter : StartKids(x) \/ Export(x) \/ HoldEnds(x) \/ stop_process(x) \/ Shutdown(x)
Around == pc # "over" /\ (Signal \/ Hangs \/ Others)
Next == Runner \/ Around

(* A step of the runner ends: its wait has a timeout, its command is given *)
(* up, or it is one of Unbounded and may hang, which takes it out of the   *)
(* fairness.  Within the finally clause an exporter that was told to stop  *)
(* is faster, because it is scheduled too.                                 *)
ExporterRuns(x) == pc # "over" /\ UNCHANGED hung /\ (HoldEnds(x) \/ stop_process(x) \/ Shutdown(x))
Spec == Init /\ [][Next]_vars /\ WF_vars(Runner) /\ \A x \in Exporter : WF_vars(ExporterRuns(x))
-----------------------------------------------------------------------------
Codes == {"none", "0", "2", "bad", "term", "kill"}
(* The runner holds a handle only of what it started; what it holds as     *)
(* ended has an exit code.                                                 *)
TypeOK ==
    /\ graph \in Graphs /\ pc \in DOMAIN Place[graph]
    /\ proc \in [Proc -> Started \cup {"off", "gone"}] /\ code \in [Proc -> Codes]
    /\ \A p \in held \cap Proc : proc[p] # "off"
    /\ \A p \in Proc : proc[p] \in Started \cup {"off"} => code[p] = "none"
    /\ signaled \subseteq Exporter /\ why \subseteq {"cut", "forced", "leaked", "ignored"}
    /\ obs \in {"off", "poll", "done", "error"} /\ obsStop \in BOOLEAN
    /\ evidence \in {"none", "torn", "PASS"} /\ completed \in BOOLEAN /\ rounds \in 0..MaxRounds
    /\ live \in {"none", "READY", "STOPPING", "STOPPED", "FAILED"}
    /\ hung \in BOOLEAN /\ (hung => pc \in Unbounded(graph))

(* Evidence that says PASS claims only what happened: every boundary of    *)
(* its graph was crossed, the Edge test and Central ended well, and both   *)
(* side planes were told to stop and did.                                  *)
PassIsEarned ==
    evidence = "PASS" =>
        /\ Claims(graph) \subseteq facts
        /\ "rec" \in graph => code["edge"] = "0" /\ code["central"] \in {"0", "2"}
        /\ "side" \in graph => \A x \in Exporter : code[x] = "0" /\ (\A k \in KidSet(x) : code[k] = "term")
        /\ graph \cap ModuleRunner # {} => code["service"] = "0"

(* A finally clause that ran to its end, with nothing it had to force or   *)
(* to ignore, leaves no process and no container; of an Edge that had to   *)
(* be stopped, only the runners without a session of its own leave the     *)
(* test; a service that is not ready yet (soak) and a container that did   *)
(* not start (smoke) stay, because the runner has no handle of them; and a *)
(* database that the runner was given stays.                               *)
Container == {"pg", "p4", "web", "oci", "box"}
Unheld == CASE graph = {"soak"} -> {"service"} \ held [] graph = {"smoke"} -> {"box"} \ held [] OTHER -> {}
NothingLeft ==
    /\ pc = "over" /\ why = {} /\ graph # {"external"} =>
          have \cap Container \subseteq Unheld /\ \A p \in Proc : Alive(p) => p \in Unheld
    /\ "orphan" \in have => "p4" \notin graph
    /\ graph = {"external"} => "pg" \in have

(* The live manifest never claims an end that did not happen: STOPPED has  *)
(* its evidence, and after an undisturbed finally clause nothing says that *)
(* the graph is up.                                                        *)
ManifestTrue ==
    /\ live = "STOPPED" => evidence = "PASS" /\ \A p \in Processes : ~Alive(p)
    /\ pc = "over" /\ why = {} => live \notin {"READY", "STOPPING"}
    /\ live = "READY" /\ pc \notin Finally => {"event.json", "web"} \subseteq have /\ Processes \subseteq held

(* When the runner stops the observer, the observer has written the event  *)
(* and met no error: the Edge test cannot have passed before.              *)
EventSeen == pc = "event.read" => "event.json" \in have /\ obs # "error"

(* What claim_scope of run-performance.py and run-soak.py says of the      *)
(* provider. Refuted: nobody looks at the neighbours after their start.    *)
FixtureLived == evidence = "PASS" /\ graph \in {{"perf"}, {"soak"}} => "provider" \in facts

(* A database or a switch is taken down only after everybody who uses it:  *)
(* Control, cargo, and the Edge test that cargo started.  Where Edge runs  *)
(* in a session of its own (p4) the test cannot be left over; the runners  *)
(* that end cargo only may remove the database (connected, no switch) or   *)
(* the switch (bmv2) under the test.  A process that a signal took between *)
(* fork and assignment is nobody's either.                                 *)
Users == [pg |-> {"control", "edge"}, p4 |-> {"edge"}]
Removed(c) == c \in have /\ c \notin have'
OwnSession == "p4" \in graph
TakenDownLast ==
    [][\A c \in DOMAIN Users : Removed(c) /\ "leaked" \notin why =>
          /\ \A p \in Users[c] : ~Alive(p)
          /\ OwnSession => "orphan" \notin have]_vars
(* The same without the exception of the runners that end cargo only.      *)
(* Refuted: run-edge-bmv2-pairwise.py terminates cargo and removes the     *)
(* switch while the test still talks to it.                                *)
TakenDownStrictly ==
    [][\A c \in DOMAIN Users : Removed(c) /\ "leaked" \notin why =>
          "orphan" \notin have /\ \A p \in Users[c] : ~Alive(p)]_vars

(* The run ends, whatever dies or is signalled, or it waits, until the     *)
(* next signal, for a command that it gave no timeout.                     *)
RunEnds == <>[](pc = "over" \/ hung)
(* Refuted by a command of Unbounded that hangs.                           *)
RunAlwaysEnds == <>(pc = "over")

(* PASS is written only behind the boundaries it names, and the event it   *)
(* rests on was written before it was read.                                *)
EarnedPass == TypeOK /\ EventSeen /\ PassIsEarned

(* The clean-up leaves nothing behind, and the live manifest says so only  *)
(* when it is true.                                                        *)
CleanedUp == NothingLeft /\ ManifestTrue
=============================================================================
