--------------------------- MODULE RunnerScripts ---------------------------
(***************************************************************************)
(* What the runners that Pairwise models have to do: the graphs they can   *)
(* start, the processes of each, their steps and the steps of their        *)
(* finally clauses in order, and what their evidence claims.               *)
(***************************************************************************)
EXTENDS Integers, Sequences, FiniteSets

(* The options of the connected runner and the ones that each requires.    *)
Flag == {"control", "p4", "web", "side", "live"}
Requires == [control |-> {}, p4 |-> {"control"}, web |-> {"p4"}, side |-> {"web"}, live |-> {"side"}]
Coherent(f) == \A x \in f : Requires[x] \subseteq f
ModuleRunner == {"blackbox", "perf", "soak", "smoke"}
Graphs == {f \cup {"rec"} : f \in {f \in SUBSET Flag : Coherent(f)}}
          \cup {{"bmv2"}, {"analysis"}, {"plugin"}, {"external"}}
          \cup {{r} : r \in ModuleRunner}

(* The processes; an exporter has children and serves until its consumer   *)
(* is done.                                                                *)
PluginKids == <<"host">>
AnalysisKids == <<"fixture", "service">>
Kids == [plugin |-> PluginKids, analysis |-> AnalysisKids]
Exporter == DOMAIN Kids
Child == {"host", "fixture", "service"}
Proc == {"central", "control", "edge"} \cup Exporter \cup Child
-----------------------------------------------------------------------------
(* The lists of steps.  A step of the connected runner is taken when the   *)
(* options ask for it.                                                     *)

Switch == {"p4", "bmv2"}
Step(name, of) == [name |-> name, of |-> of, but |-> {}]
Report == <<"result", "write", "written", "complete">>
Script == <<
    Step("central.start", {"rec"}), Step("central.wait", {"rec"}), Step("before", {"rec"}),
    Step("pg", {"control"}), Step("migrate", {"control"}), Step("plugin.start", {"side"}),
    Step("build", {"control"}), Step("plugin.wait", {"side"}), Step("pki", {"control"}),
    Step("analysis.start", {"side"}), Step("analysis.wait", {"side"}), Step("roles", {"side"}),
    Step("config", {"control"}), Step("seed", {"control"}), Step("control.start", {"control"}),
    Step("control.wait", {"control"}), Step("observe", {"control"}),
    Step("certs", {"p4"}), Step("p4", {"p4"}), Step("p4.wait", {"p4"}), Step("load", {"p4"}),
    Step("edge.start", {"rec"}), Step("edge.ready", {"p4"}), Step("traffic", {"p4"}), Step("traffic.done", {"p4"}),
    Step("edge.evidence", {"live"}), [name |-> "edge.wait", of |-> {"rec"}, but |-> {"live"}],
    Step("p4.logs", {"p4"}), Step("after", {"rec"}), Step("event", {"control"}), Step("event.read", {"control"}),
    Step("test.plugin", {"side"}), Step("test.analysis", {"side"}),
    Step("web.build", {"web"}), Step("web", {"web"}), Step("web.ready", {"web"}),
    Step("chromium", {"web"}), Step("firefox", {"web"}), Step("webkit", {"web"}),
    Step("publish", {"live"}), Step("hold.token", {"live"}), Step("hold.kind", {"live"}),
    Step("hold.dead", {"live"}), Step("hold.deadline", {"live"}), Step("hold.health", {"live"}),
    Step("stopping", {"live"}), Step("edge.leave", {"live"}),
    Step("plugin.done", {"side"}), Step("plugin.left", {"side"}),
    Step("analysis.done", {"side"}), Step("analysis.left", {"side"}),
    Step("central.done", {"rec"}), Step("central.left", {"rec"})>>
Cleanup == <<
    Step("f.edge", {"rec"}), Step("f.web", {"web"}),
    Step("f.analysis.done", {"side"}), Step("f.analysis.await", {"side"}),
    Step("f.analysis.term", {"side"}), Step("f.analysis.kill", {"side"}),
    Step("f.plugin.done", {"side"}), Step("f.plugin.await", {"side"}),
    Step("f.plugin.term", {"side"}), Step("f.plugin.kill", {"side"}),
    Step("f.observer", {"control"}), Step("f.control", {"control"}), Step("f.central", {"rec"}),
    Step("f.p4logs", {"p4"}), Step("f.copy", {"rec"}), Step("f.pg", {"control"}), Step("f.p4", {"p4"}),
    Step("f.live", {"live"})>>
Connected(g, list) ==
    LET taken(s) == s.of \cap g # {} /\ s.but \cap g = {}
        chosen   == SelectSeq(list, taken)
    IN [i \in 1..Len(chosen) |-> chosen[i].name]

(* The smaller runners: one pair of deployables each. *)
Bmv2Script ==
    <<"certs", "p4", "p4.wait", "load", "edge.start", "edge.ready", "traffic", "traffic.done",
      "edge.wait", "verdict", "p4.logs">>
Bmv2Cleanup == <<"f.edge", "f.p4logs", "f.copy", "f.p4">>
AnalysisScript == <<"procs.start", "procs.wait", "pg", "migrate", "build", "config", "test.analysis", "procs.stop">>
AnalysisCleanup == <<"f.kids", "f.copy", "f.pg">>
PluginScript(database) ==
    <<"host.build", "host.start", "host.wait">> \o database \o <<"test.plugin", "host.stop">>
PluginCleanup == <<"f.kids", "f.copy", "f.pg">>

(* The analysis service, with neighbours that answer for the provider, MCP *)
(* and a peer, or in a container.                                          *)
Neighbours == <<"keys", "runtime", "fixture.start", "fixture.wait">>
BlackboxScript == Neighbours \o
    <<"service.start", "service.wait", "scenarios", "late.submit", "late.revoke", "late.poll", "tables", "service.stop">>
PerfScript == Neighbours \o
    <<"service.start", "service.wait", "measure", "saturate", "measure.again", "thresholds", "service.stop">>
SoakScript == Neighbours \o
    <<"service.start", "service.wait", "http.wait", "measure", "saturate",
      "crash", "restart", "restart.wait", "http.rewait", "readback", "measure.again",
      "drain", "thresholds", "service.stop">>
SmokeScript ==
    <<"image", "keys", "box.config", "preflight", "fixture.start", "fixture.wait",
      "box", "box.wait", "box.check", "box.task", "box.stop">>
ModuleScript == [blackbox |-> BlackboxScript, perf |-> PerfScript, soak |-> SoakScript, smoke |-> SmokeScript]
ModuleCleanup == [r \in ModuleRunner |-> <<IF r = "smoke" THEN "f.box" ELSE "f.service", "f.fixture">>]
RunnerOf(g) == CHOOSE r \in ModuleRunner : r \in g

Main(g) == CASE g = {"bmv2"}     -> Bmv2Script
             [] g = {"analysis"} -> AnalysisScript
             [] g = {"plugin"}   -> PluginScript(<<"pg", "migrate">>)
             [] g = {"external"} -> PluginScript(<<>>)
             [] g \cap ModuleRunner # {} -> ModuleScript[RunnerOf(g)]
             [] OTHER            -> Connected(g, Script)
Last(g) == CASE g = {"bmv2"}     -> Bmv2Cleanup
             [] g = {"analysis"} -> AnalysisCleanup
             [] g \in {{"plugin"}, {"external"}} -> PluginCleanup
             [] g \cap ModuleRunner # {} -> ModuleCleanup[RunnerOf(g)]
             [] OTHER            -> Connected(g, Cleanup)
Steps == [g \in Graphs |-> Main(g) \o Report \o Last(g) \o <<"over">>]
Finally == UNION {{Last(g)[i] : i \in 1..Len(Last(g))} : g \in Graphs} \cup {"over"}
Place == [g \in Graphs |-> [n \in {Steps[g][i] : i \in 1..Len(Steps[g])} |->
                              CHOOSE i \in 1..Len(Steps[g]) : Steps[g][i] = n]]

(* The steps that run a command without a timeout: docker and openssl in   *)
(* the module runners, the readiness probe of the service, the clean-up of *)
(* the database by the two Go runners, docker image inspect before the     *)
(* switch.                                                                 *)
Unbounded(g) ==
    CASE g = {"smoke"} -> {"image", "keys", "box.config", "preflight", "box", "box.wait", "box.check", "box.stop", "f.box"}
      [] g = {"blackbox"} -> {"keys", "service.wait", "late.poll"}
      [] g \in {{"perf"}, {"soak"}} -> {"keys", "service.wait", "restart.wait"}
      [] g \in {{"analysis"}, {"plugin"}} -> {"f.pg"}
      [] "p4" \in g -> {"certs"}
      [] OTHER -> {}
-----------------------------------------------------------------------------
(* What the document claims, per graph: real_boundaries, the traffic and   *)
(* the readback of three browsers.                                         *)
ConnectedClaims == {
    <<"rec", "infer">>, <<"rec", "ack">>, <<"control", "commit">>, <<"p4", "primary">>, <<"p4", "traffic">>,
    <<"web", "chromium">>, <<"web", "firefox">>, <<"web", "webkit">>, <<"side", "wasm">>, <<"side", "a2a">>}
Bmv2Claims == {<<"bmv2", "primary">>, <<"bmv2", "telemetry">>, <<"bmv2", "traffic">>}
AnalysisClaims == {<<"analysis", "a2a">>}
PluginClaims == {<<"plugin", "wasm">>, <<"external", "wasm">>}
BlackboxClaims == {<<"blackbox", "a2a">>, <<"blackbox", "provider">>, <<"blackbox", "fence">>}
PerfClaims  == {<<"perf", "a2a">>, <<"perf", "rejected">>}
SoakClaims  == {<<"soak", "a2a">>, <<"soak", "rejected">>, <<"soak", "recovered">>}
SmokeClaims == {<<"smoke", "a2a">>, <<"smoke", "provider">>}
AllClaims == ConnectedClaims \cup Bmv2Claims \cup AnalysisClaims \cup PluginClaims
             \cup BlackboxClaims \cup PerfClaims \cup SoakClaims \cup SmokeClaims
Claims(g) == {c[2] : c \in {c \in AllClaims : c[1] \in g}}

(* The documents that the result is made of; the schema and, for the full  *)
(* graph, validate_semantics may still refuse it.                          *)
Parts(g) == (IF "rec" \in g THEN {"central.summary", "edge.evidence"} ELSE {})
            \cup (IF "control" \in g THEN {"event.json"} ELSE {})
            \cup (IF g \cap Switch # {} THEN {"pipeline", "traffic.done", "p4.log", "p4"} ELSE {})
=============================================================================
