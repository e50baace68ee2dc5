---------------------------- MODULE AnalysisGraph ----------------------------
(***************************************************************************)
(* One run of the analysis graph (analysis-py graph.py) with the clients   *)
(* it calls: the provider adapter (provider.py), the MCP session and its   *)
(* parallel tool calls (mcp.py), the delegations to A2A peers and their    *)
(* polling (peer.py), all over the bounded transport (transport.py).       *)
(*                                                                         *)
(* The nodes run one after the other; inside bounded_evidence the tools    *)
(* and the peers run concurrently.  Three clocks may cut a step short: the *)
(* timeout of each outbound request, the result budget, and the hard       *)
(* deadline of the graph.  asyncio.gather without return_exceptions raises *)
(* at its first failure and leaves the other calls running.                *)
(***************************************************************************)
EXTENDS Integers, Sequences, FiniteSets

CONSTANTS Budgets,   \* AnalysisBudgets a task may carry
          Responses, \* what the provider may answer
          Allowed,   \* a2a_peer_allowlist of the binding
          Path,      \* delegation_path of the input
          MaxTools,  \* model bound: tool requests in one answer
          MaxPeers,  \* model bound: delegations in one answer
          NoValue

Tools == 1..MaxTools
Peers == 1..MaxPeers

(* A statement of the provider: an observed claim on frozen evidence, one  *)
(* on references outside it, an unsafe text, an explanation of the model's *)
(* result, an explanation that asserts a cause; and a recommendation or    *)
(* generated content, safe or not.                                         *)
Statement == {"observed", "outside", "unsafe", "explanation", "causal", "advice", "unsafe_advice"}
Hint      == {"succeeded", "limited", "insufficient_evidence"}

(* The answers have passed the response schema. *)
ASSUME GraphAssumption ==
    /\ {MaxTools, MaxPeers} \subseteq Nat
    /\ \A b \in Budgets :
         /\ {b.llm, b.rounds, b.tools, b.depth, b.peers, b.polls} \subseteq Nat
         /\ b.parallel \in Nat \ {0} /\ b.llm <= 2
    /\ \A r \in Responses :
         /\ r.tools \in 0..MaxTools /\ r.peers \in Seq(STRING) /\ Len(r.peers) <= MaxPeers
         /\ r.claims \subseteq Statement /\ r.hint \in Hint

(* FrozenInput as far as the graph looks at it; longId: a run_id that does *)
(* not leave room for the prefixes the graph puts before it.               *)
Input == [quality : {"valid", "low"}, evidence : BOOLEAN, longId : BOOLEAN]

VARIABLES
    budget, input, \* of the task, fixed at the start
    node,          \* the node that runs, or "done" / "failed"
    asking,        \* the node awaits the provider
    resp,          \* provider_response
    errors,        \* external_errors is not empty
    time,          \* "fresh", "spent" (result budget), "over" (hard deadline)
    bound,         \* matches_input still holds
    mcp,           \* MCPClient.execute: where it is
    session,       \* what became of the MCP session
    tool,          \* the tool calls
    deleg,         \* PeerClient.delegate: where it is
    peer,          \* the delegations: [at, polls]
    keep,          \* the results of tools / of peers reached the graph state
    cut,           \* which clock cancelled the gathering, or "no"
    artifact,      \* the artifact
    llm            \* provider calls made

runVars == <<budget, input, node, asking, resp, errors, time, bound, mcp, session,
             tool, deleg, peer, keep, cut, artifact, llm>>

(* "explained" is a result with qualified explanation metadata, "plain"    *)
(* one without; "error" and "errorExplained" are the same two of a tool    *)
(* that said isError: status failed, quality invalid, yet a ToolResult.    *)
(* "failed" is a call that raised, "dropped" one that was cancelled.       *)
IsError   == {"error", "errorExplained"}
Explained == {"explained", "errorExplained"}
Returned  == {"plain", "explained"} \cup IsError
ToolState == {"none", "wait", "flight", "failed", "dropped"} \cup Returned
PeerState == {"none", "flight", "result", "failed", "dropped"}

(* A session is open until its DELETE is answered.  "refused": the DELETE  *)
(* failed or timed out, which execute swallows; "cut": a cancellation      *)
(* ended the DELETE; "orphan": the server has made a session of which the  *)
(* client never learnt the name.                                           *)
Sessions  == {"none", "open", "deleted", "refused", "cut", "orphan"}
RunOver   == {"done", "failed"}

RunTypeOK ==
    /\ budget \in Budgets /\ input \in Input
    /\ node \in {"context", "hypothesis", "evidence", "synthesis", "grounding", "artifact"} \cup RunOver
    /\ asking \in BOOLEAN /\ (asking => node \in {"hypothesis", "synthesis"})
    /\ resp \in Responses \cup {NoValue} /\ errors \in BOOLEAN
    /\ time \in {"fresh", "spent", "over"} /\ bound \in BOOLEAN
    /\ mcp \in {"off", "init", "notify", "calls", "delete", "undo", "ok", "error"}
    /\ session \in Sessions
    /\ tool \in [Tools -> ToolState]
    /\ deleg \in {"off", "run", "ok", "error"}
    /\ peer \in [Peers -> [at : PeerState, polls : Nat]]
    /\ keep \in [tools : BOOLEAN, peers : BOOLEAN]
    /\ cut \in {"no", "budget", "deadline"}
    /\ artifact \in [outcome : Hint, kept : SUBSET Statement] \cup {NoValue}
    /\ llm \in 0..2

In(s)     == {t \in Tools : tool[t] \in s}
NoTools   == [t \in Tools |-> "none"]
NoPeers   == [p \in Peers |-> [at |-> "none", polls |-> 0]]
Least(a, b) == IF a < b THEN a ELSE b
-----------------------------------------------------------------------------
RunInit ==
    /\ budget \in Budgets /\ input \in Input
    /\ node = "context" /\ asking = FALSE /\ resp = NoValue /\ errors = FALSE
    /\ time = "fresh" /\ bound = TRUE
    /\ mcp = "off" /\ session = "none" /\ tool = NoTools
    /\ deleg = "off" /\ peer = NoPeers
    /\ keep = [tools |-> FALSE, peers |-> FALSE] /\ cut = "no"
    /\ artifact = NoValue /\ llm = 0

Calls  == <<mcp, session, tool, deleg, peer, keep, cut>>
Fixed  == <<budget, input>>
Around == <<time, bound>>

Context ==
    /\ node = "context" /\ node' = "hypothesis"
    /\ UNCHANGED <<Fixed, asking, resp, errors, Around, Calls, artifact, llm>>

(* ProviderAdapter.analyze is awaited. *)
Ask ==
    /\ asking' = TRUE /\ llm' = llm + 1
    /\ UNCHANGED <<Fixed, node, resp, errors, Around, Calls, artifact>>

(* A node ends with an entry in external_errors. *)
Limited(n) ==
    /\ node' = n /\ errors' = TRUE /\ asking' = FALSE
    /\ UNCHANGED <<Fixed, resp, Around, Calls, artifact, llm>>

(* An exception that no node catches. *)
Raise ==
    /\ node' = "failed" /\ asking' = FALSE
    /\ UNCHANGED <<Fixed, resp, errors, Around, Calls, artifact, llm>>

Hypothesis ==
    /\ node = "hypothesis" /\ ~asking
    /\ CASE budget.llm = 0 \/ time # "fresh" -> Limited("grounding")
         [] budget.llm > 0 /\ time = "fresh" /\ input.longId -> Raise
         [] OTHER -> Ask

(* _evidence_route *)
Route(r) == IF r.tools > 0 \/ r.peers # <<>> THEN "evidence" ELSE "grounding"

(* The answer passed status, type, schema, identity and digest checks.  A  *)
(* second round of requests is dropped with an error.                      *)
ProviderAnswers(r) ==
    /\ asking /\ asking' = FALSE
    /\ IF node = "hypothesis"
       THEN resp' = r /\ node' = Route(r) /\ UNCHANGED errors
       ELSE /\ resp' = r /\ node' = "grounding"
            /\ errors' = (errors \/ Route(r) = "evidence")
    /\ UNCHANGED <<Fixed, Around, Calls, artifact, llm>>

(* A timeout, a transport error or an answer that one of the checks refuses. *)
ProviderFails == asking /\ Limited("grounding")
-----------------------------------------------------------------------------
(* bounded_evidence *)

Asked == Least(resp.tools, budget.tools)

(* delegate: the peers that are asked, and whether it raises before it asks. *)
Delegated == SubSeq(resp.peers, 1, Least(budget.peers, Len(resp.peers)))
Refuses ==
    \/ budget.depth >= 1
    \/ \E i \in DOMAIN Delegated :
         \/ Delegated[i] \notin Allowed \/ Delegated[i] \in Path
         \/ \E j \in 1..(i - 1) : Delegated[j] = Delegated[i]

GatherStarts ==
    /\ mcp' = CASE resp.tools = 0 -> "ok"
                [] resp.tools > 0 /\ budget.rounds < 1 -> "error"
                [] OTHER -> "init"
    /\ deleg' = CASE resp.peers = <<>> -> "ok"
                  [] resp.peers # <<>> /\ Refuses -> "error"
                  [] resp.peers # <<>> /\ ~Refuses /\ Delegated = <<>> -> "ok"
                  [] OTHER -> "run"
    /\ peer' = IF deleg' = "run"
               THEN [p \in Peers |-> IF p <= Len(Delegated) THEN [at |-> "flight", polls |-> 0]
                                     ELSE peer[p]]
               ELSE peer
    /\ UNCHANGED <<Fixed, node, asking, resp, errors, Around, session, tool, keep, cut, artifact, llm>>

Evidence ==
    /\ node = "evidence" /\ mcp = "off"
    /\ CASE ~bound -> Raise
         [] bound /\ time # "fresh" -> Limited("synthesis")
         [] OTHER -> GatherStarts

(* A step of the gathering that leaves the graph state alone. *)
Gathering == UNCHANGED <<Fixed, node, asking, resp, errors, Around, keep, cut, artifact, llm>>

(* The finally clause of execute: the DELETE of a known session is sent,   *)
(* behind the results ("delete") or behind an exception ("undo").          *)
Delete(how) ==
    /\ mcp' = how /\ session' = "open"
    /\ Gathering /\ UNCHANGED <<tool, deleg, peer>>

Initialized ==
    /\ mcp = "init" /\ mcp' = "notify" /\ session' = "open"
    /\ Gathering /\ UNCHANGED <<tool, deleg, peer>>

(* No answer that could be used, whether or not the server made a session, *)
(* or a session of another protocol version.                               *)
InitializeFails ==
    /\ mcp = "init"
    /\ \/ /\ mcp' = "error" /\ session' \in {"none", "orphan"}
          /\ Gathering /\ UNCHANGED <<tool, deleg, peer>>
       \/ Delete("undo")

Notified ==
    /\ mcp = "notify" /\ mcp' = "calls"
    /\ tool' = [t \in Tools |-> IF t <= Asked THEN "wait" ELSE "none"]
    /\ Gathering /\ UNCHANGED <<session, deleg, peer>>

NotifyFails == mcp = "notify" /\ Delete("undo")

(* Mutant: a call that raises does not release its slot. *)
FreeSlotLeaks == Cardinality(In({"flight", "failed"})) < budget.parallel

(* The semaphore of tool_parallelism. *)
FreeSlot == Cardinality(In({"flight"})) < budget.parallel

(* _execute_one: a request outside the allowlists or the frozen references *)
(* raises at once, any other is sent.                                      *)
ToolStarts(t) ==
    /\ tool[t] = "wait" /\ FreeSlot
    /\ \E s \in {"flight", "failed"} : tool' = [tool EXCEPT ![t] = s]
    /\ Gathering /\ UNCHANGED <<mcp, session, deleg, peer>>

ToolReturns(t, s) ==
    /\ tool[t] = "flight" /\ tool' = [tool EXCEPT ![t] = s]
    /\ Gathering /\ UNCHANGED <<mcp, session, deleg, peer>>

(* The gather of the tool calls ends: at the first failure, or with all    *)
(* results, whose total size is then checked.                              *)
ToolsGathered ==
    /\ mcp = "calls"
    /\ \/ In({"failed"}) # {} /\ Delete("undo")
       \/ In({"wait", "flight", "failed"}) = {} /\ \E how \in {"delete", "undo"} : Delete(how)

(* The DELETE is answered, refused or times out; execute returns or raises. *)
SessionDeleted ==
    /\ mcp \in {"delete", "undo"}
    /\ mcp' = IF mcp = "delete" THEN "ok" ELSE "error"
    /\ session' \in {"deleted", "refused"}
    /\ Gathering /\ UNCHANGED <<tool, deleg, peer>>
-----------------------------------------------------------------------------
(* _delegate_one: submit, then poll while the remote task is unfinished.   *)

PeerPending(p) ==
    /\ peer[p].at = "flight" /\ peer[p].polls < budget.polls
    /\ peer' = [peer EXCEPT ![p].polls = @ + 1]
    /\ Gathering /\ UNCHANGED <<mcp, session, tool, deleg>>

(* "failed": a request failed, another identity or digest came back, the   *)
(* task ended otherwise or is unfinished after the last poll.              *)
PeerEnds(p, s) ==
    /\ peer[p].at = "flight" /\ peer' = [peer EXCEPT ![p].at = s]
    /\ Gathering /\ UNCHANGED <<mcp, session, tool, deleg>>

PeersGathered ==
    /\ deleg = "run"
    /\ \/ deleg' = "error" /\ \E p \in Peers : peer[p].at = "failed"
       \/ deleg' = "ok" /\ \A p \in Peers : peer[p].at \in {"none", "result"}
    /\ Gathering /\ UNCHANGED <<mcp, session, tool, peer>>

(* Mutant: the errors that the gathering returned are not recorded. *)
GatheredSilently ==
    /\ node = "evidence" /\ cut = "no"
    /\ mcp \in {"ok", "error"} /\ deleg \in {"ok", "error"}
    /\ node' = "synthesis"
    /\ keep' = [tools |-> mcp = "ok", peers |-> deleg = "ok"]
    /\ UNCHANGED <<Fixed, asking, resp, errors, Around, mcp, session, tool, deleg, peer, cut, artifact, llm>>

(* gather(..., return_exceptions=True): one of the two may fail. *)
Gathered ==
    /\ node = "evidence" /\ cut = "no"
    /\ mcp \in {"ok", "error"} /\ deleg \in {"ok", "error"}
    /\ node' = "synthesis"
    /\ keep' = [tools |-> mcp = "ok", peers |-> deleg = "ok"]
    /\ errors' = (errors \/ mcp = "error" \/ deleg = "error")
    /\ UNCHANGED <<Fixed, asking, resp, Around, mcp, session, tool, deleg, peer, cut, artifact, llm>>
-----------------------------------------------------------------------------
(* The clocks. *)

TimePasses ==
    /\ node \notin RunOver
    /\ \/ time = "fresh" /\ time' = "spent"
       \/ time # "over" /\ time' = "over"
    /\ UNCHANGED <<Fixed, node, asking, resp, errors, bound, Calls, artifact, llm>>

Fence ==
    /\ bound /\ node \notin RunOver /\ bound' = FALSE
    /\ UNCHANGED <<Fixed, node, asking, resp, errors, time, Calls, artifact, llm>>

(* Cancellation reaches what the gathering awaits: the calls of a gather   *)
(* that is still open, the delegations likewise, and execute, which then   *)
(* sends the DELETE of its session, unless it is the DELETE that is cut.   *)
(* Calls that a failed gather left behind are not reached.                 *)
Cancelled(s) == IF s \in {"wait", "flight"} THEN "dropped" ELSE s
(* Mutant: a cancelled execute does not reach its finally clause. *)
CancelCallsAtOnce ==
    /\ tool' = IF mcp = "calls" THEN [t \in Tools |-> Cancelled(tool[t])] ELSE tool
    /\ peer' = IF deleg = "run" THEN [p \in Peers |-> [peer[p] EXCEPT !.at = Cancelled(@)]] ELSE peer
    /\ deleg' = IF deleg = "run" THEN "error" ELSE deleg
    /\ mcp' = IF mcp \in {"init", "notify", "calls", "delete", "undo"} THEN "error" ELSE mcp
    /\ session' = session

CancelCalls ==
    /\ tool' = IF mcp = "calls" THEN [t \in Tools |-> Cancelled(tool[t])] ELSE tool
    /\ peer' = IF deleg = "run" THEN [p \in Peers |-> [peer[p] EXCEPT !.at = Cancelled(@)]] ELSE peer
    /\ deleg' = IF deleg = "run" THEN "error" ELSE deleg
    /\ mcp' = CASE mcp \in {"notify", "calls"} -> "undo"
                [] mcp \in {"init", "delete", "undo"} -> "error"
                [] OTHER -> mcp
    /\ CASE mcp \in {"delete", "undo"} -> session' = "cut"
         [] mcp = "init" -> session' \in {"none", "orphan"}
         [] OTHER -> session' = session

InFlight  == {"init", "notify", "calls", "delete", "undo"}
Open      == node = "evidence" /\ mcp # "off" /\ (mcp \in InFlight \/ deleg = "run")
CutRest   == UNCHANGED <<Fixed, asking, resp, Around, keep, artifact, llm>>

(* The result budget ends while the gathering is open: both results are    *)
(* given up.                                                               *)
BudgetCuts ==
    /\ Open /\ cut = "no" /\ time # "fresh"
    /\ CancelCalls /\ cut' = "budget"
    /\ CutRest /\ UNCHANGED <<node, errors>>

BudgetCutEnds ==
    /\ node = "evidence" /\ cut = "budget" /\ ~Open
    /\ node' = "synthesis" /\ errors' = TRUE
    /\ CutRest /\ UNCHANGED <<mcp, session, tool, deleg, peer, cut>>

(* The hard deadline of AnalysisGraph.run cancels the node that runs, and  *)
(* a DELETE that a first cancellation had started as well.                 *)
DeadlineCuts ==
    /\ Open /\ cut # "deadline" /\ time = "over"
    /\ CancelCalls /\ cut' = "deadline"
    /\ CutRest /\ UNCHANGED <<node, errors>>

Deadline ==
    /\ node \notin RunOver /\ time = "over" /\ ~Open
    /\ Raise
-----------------------------------------------------------------------------
HasResults ==
    \/ keep.tools /\ In(Returned) # {}
    \/ keep.peers /\ \E p \in Peers : peer[p].at = "result"

(* A tool result with an unsafe text raises while the request is built. *)
Synthesis ==
    /\ node = "synthesis" /\ ~asking
    /\ CASE budget.llm < 2 \/ ~HasResults ->
              /\ node' = "grounding"
              /\ UNCHANGED <<Fixed, asking, resp, errors, Around, Calls, artifact, llm>>
         [] budget.llm >= 2 /\ HasResults /\ time # "fresh" -> Limited("grounding")
         [] OTHER -> Ask \/ (keep.tools /\ In(Returned) # {} /\ Limited("grounding"))

(* _explanation_metadata *)
Metadata == keep.tools /\ In(Explained) # {}

(* _grounding: what is kept of the provider's statements.  Of its advice   *)
(* _artifact keeps what is safe and drops the rest without counting it.    *)
Grounds(s) ==
    \/ s = "advice"
    \/ input.evidence /\ (s = "observed" \/ (s = "explanation" /\ Metadata))
Claims     == IF resp = NoValue THEN {} ELSE resp.claims
KeptClaims == {s \in Claims : Grounds(s)} \cup (IF input.evidence THEN {"observed"} ELSE {})
Rejected   == \E s \in Claims \ {"unsafe_advice"} : ~Grounds(s)

Grounding ==
    /\ node = "grounding" /\ node' = "artifact"
    /\ UNCHANGED <<Fixed, asking, resp, errors, Around, Calls, artifact, llm>>

Outcome ==
    CASE ~input.evidence -> "insufficient_evidence"
      [] input.evidence /\ (input.quality = "low" \/ errors \/ Rejected) -> "limited"
      [] input.evidence /\ input.quality # "low" /\ ~errors /\ ~Rejected /\ resp = NoValue -> "insufficient_evidence"
      [] OTHER -> resp.hint

(* The artifact is assembled, or is larger than its bound. *)
Artifact ==
    /\ node = "artifact"
    /\ \/ /\ node' = "done" /\ artifact' = [outcome |-> Outcome, kept |-> KeptClaims]
          /\ UNCHANGED <<Fixed, asking, resp, errors, Around, Calls, llm>>
       \/ Raise
-----------------------------------------------------------------------------
NodeStep ==
    \/ Context \/ Hypothesis \/ Evidence \/ Gathered \/ Synthesis \/ Grounding \/ Artifact
    \/ ProviderFails \/ \E r \in Responses : ProviderAnswers(r)
    \/ BudgetCuts \/ BudgetCutEnds \/ DeadlineCuts \/ Deadline
McpStep ==
    Initialized \/ InitializeFails \/ Notified \/ NotifyFails \/ ToolsGathered \/ SessionDeleted
ToolStep(t) == ToolStarts(t) \/ \E s \in Returned \cup {"failed"} : ToolReturns(t, s)
PeerStep(p) == PeerPending(p) \/ \E s \in {"result", "failed"} : PeerEnds(p, s)

RunNext ==
    \/ NodeStep \/ McpStep \/ PeersGathered \/ TimePasses \/ Fence
    \/ \E t \in Tools : ToolStep(t)
    \/ \E p \in Peers : PeerStep(p)

RunSpec == RunInit /\ [][RunNext]_runVars

(* Every outbound request has a timeout and the loop runs what is ready;   *)
(* neither the result budget nor the deadline is assumed to help.          *)
FairRunSpec ==
    /\ RunSpec /\ WF_runVars(NodeStep) /\ WF_runVars(McpStep) /\ WF_runVars(PeersGathered)
    /\ \A t \in Tools : WF_runVars(ToolStep(t))
    /\ \A p \in Peers : WF_runVars(PeerStep(p))
-----------------------------------------------------------------------------
(* tool_parallelism bounds the requests in flight, those included that a   *)
(* failed gather left behind (MCPClient.execute).                          *)
ParallelismHolds == Cardinality(In({"flight"})) <= budget.parallel

(* Whatever the provider asks for, the calls of one run stay within the    *)
(* budget of its task: provider calls, tools, rounds, delegations, polls.  *)
WithinBudget ==
    /\ llm <= budget.llm
    /\ Cardinality({t \in Tools : tool[t] # "none"}) <= budget.tools
    /\ budget.rounds = 0 => session = "none"
    /\ Cardinality({p \in Peers : peer[p].at # "none"}) <= budget.peers
    /\ \A p \in Peers : peer[p].polls <= budget.polls

(* "succeeded" is earned: of the calls the run made, which are those its   *)
(* budget left of the requests, none raised, was given up or is still      *)
(* under way, and every statement was kept but advice that was unsafe      *)
(* (AnalysisGraph._artifact).  A tool that answered isError counts as a    *)
(* call that returned.                                                     *)
SucceededIsEarned ==
    artifact # NoValue /\ artifact.outcome = "succeeded" =>
      /\ input.evidence /\ input.quality = "valid" /\ resp # NoValue
      /\ \A t \in Tools : tool[t] \in {"none"} \cup Returned
      /\ \A p \in Peers : peer[p].at \in {"none", "result"}
      /\ resp.claims \ {"unsafe_advice"} \subseteq artifact.kept

(* "succeeded" without these exceptions: no tool answered isError and      *)
(* nothing the provider said was dropped.                                  *)
SucceededIsWhole ==
    artifact # NoValue /\ artifact.outcome = "succeeded" =>
      In(IsError) = {} /\ resp.claims \subseteq artifact.kept

(* An explanation is in an artifact only if a tool of this very run        *)
(* returned its metadata and the results were not given up                 *)
(* (AnalysisGraph._grounding).                                             *)
ExplanationsQualified ==
    artifact # NoValue /\ "explanation" \in artifact.kept =>
      input.evidence /\ cut = "no" /\ In(Explained) # {}

(* A run that has ended, in whatever way, has sent the DELETE of the       *)
(* session whose name it learnt and waited for its end (the finally clause *)
(* of MCPClient.execute).  A session is left to the server only when the   *)
(* DELETE was refused or timed out, when the result budget or the deadline *)
(* cut the DELETE itself, or when initialize brought no name.              *)
SessionReleased ==
    /\ node \in RunOver => session # "open"
    /\ session = "cut" => cut # "no"

(* The same without exceptions: every session is deleted. *)
SessionDeletedAlways == node \in RunOver => session \in {"none", "deleted"}

(* Every run ends, and in the end nothing it started is under way. *)
RunEnds  == <>(node \in RunOver)
CallsEnd == <>[](In({"wait", "flight"}) = {} /\ \A p \in Peers : peer[p].at # "flight")

(* When a run has ended none of its calls is under way. *)
NothingOutlives ==
    node \in RunOver => In({"wait", "flight"}) = {} /\ \A p \in Peers : peer[p].at # "flight"

(* One run keeps to the budget of its task, in number and in parallel, and *)
(* does not end before the DELETE of its session has, also when a gather   *)
(* fails with calls still under way (AnalysisGraph, MCPClient.execute).    *)
GraphInv == RunTypeOK /\ ParallelismHolds /\ WithinBudget /\ SessionReleased

(* What an artifact says of its own quality rests on what this run was     *)
(* told: 'succeeded' on calls that returned and statements that were kept, *)
(* unsafe advice apart, an explanation on metadata (_artifact, _grounding).*)
ArtifactIsEarned == SucceededIsEarned /\ ExplanationsQualified

(* The run ends and so does every call it started, whatever hangs or fails *)
(* (AnalysisGraph.run, MCPClient.execute).                                 *)
EverythingEnds == RunEnds /\ CallsEnd
=============================================================================
