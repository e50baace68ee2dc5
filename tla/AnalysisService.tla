--------------------------- MODULE AnalysisService ---------------------------
(***************************************************************************)
(* The task life of the Analysis plugin (analysis-py service.py, store.py, *)
(* config.py, server.py): A2A submissions into a SQLite store, a bounded   *)
(* queue, workers that run the analysis graph (module AnalysisGraph),      *)
(* reloads of the Manager's binding, retention, drain, crash and restart.  *)
(*                                                                         *)
(* The service is one asyncio loop: a step lasts from one await to the     *)
(* next, and a crash may fall between any two of them.  The contents of    *)
(* the config and binding files are whatever a reload or a start finds.    *)
(***************************************************************************)
EXTENDS Integers, Sequences, FiniteSets

CONSTANTS Requests,   \* A2A messages: [id, key, body, gen, who]
          Workers,    \* limits.concurrency
          QueueDepth, \* limits.queue_depth
          MaxTasks,   \* limits.max_tasks
          MaxTrace,   \* limits.max_trace_events_per_task
          Gens,       \* binding generations
          GraphCodes, \* numbers of trace codes a finished graph returns
          MaxCrash,   \* model bound: crashes and stops of the process
          None

ASSUME LimitAssumption ==
    /\ {QueueDepth, MaxTasks, MaxTrace} \subseteq Nat \ {0} /\ MaxTrace >= 2
    /\ Gens \subseteq Nat /\ GraphCodes \subseteq Nat /\ MaxCrash \in Nat

VARIABLES
    rows,     \* analysis_tasks with artifact and trace count, by task id
    proc,     \* "down", "up", "stop" (site.stop awaited), "drain" (drain_and_close)
    queue,    \* asyncio.Queue of WorkItem
    worker,   \* the item whose graph a worker awaits, or None
    binding,  \* BindingState: the observed binding
    lapsed,   \* generations whose expires_at has passed
    draining, \* AnalysisService.draining
    stops     \* crashes and stops so far

vars == <<rows, proc, queue, worker, binding, lapsed, draining, stops>>

Ids      == {r.id : r \in Requests}
Terminal == {"COMPLETED", "FAILED", "REJECTED"}
State    == Terminal \cup {"SUBMITTED", "WORKING"}
Row      == [req : Requests, state : State, traces : 0..MaxTrace, old : BOOLEAN]
(* "unqualified" is an active binding whose qualification is on hold,      *)
(* "ended" one that is draining, disabled, revoked or expired.             *)
Binding  == [gen : Gens, state : {"active", "unqualified", "ended"}]

ASSUME NoneAssumption == None \notin Requests \cup Row \cup Binding

TypeOK ==
    /\ rows \in [Ids -> Row \cup {None}]
    /\ proc \in {"down", "up", "stop", "drain"}
    /\ queue \in Seq(Requests) /\ Len(queue) <= QueueDepth
    /\ worker \in [Workers -> Requests \cup {None}]
    /\ binding \in Binding \cup {None} /\ (proc # "down" => binding # None)
    /\ lapsed \subseteq Gens /\ draining \in BOOLEAN /\ stops \in 0..MaxCrash

Stored    == {i \in Ids : rows[i] # None}
Ended(i)  == rows[i].state \in Terminal
Idle      == [w \in Workers |-> None]

(* BindingState.snapshot and matches_input. *)
Active(b)  == b.state = "active" /\ b.gen \notin lapsed
Matches(r) == Active(binding) /\ r.gen = binding.gen
-----------------------------------------------------------------------------
Init ==
    /\ rows = [i \in Ids |-> None] /\ proc = "down"
    /\ queue = <<>> /\ worker = Idle /\ binding = None
    /\ lapsed = {} /\ draining = FALSE /\ stops = 0

(* Mutant: the tasks of the previous process are left as they are. *)
KeepIncomplete == rows

(* TaskStore._recover_incomplete. *)
RecoverIncomplete ==
    [i \in Ids |-> IF i \in Stored /\ ~Ended(i)
                   THEN [rows[i] EXCEPT !.state = "FAILED", !.old = FALSE]
                   ELSE rows[i]]

(* The store recovers before the binding is looked at, so that a process   *)
(* that may not start has settled its tasks as well.                       *)
Start(b) ==
    /\ proc = "down"
    /\ rows' = RecoverIncomplete
    /\ IF Active(b) THEN proc' = "up" /\ binding' = b /\ draining' = FALSE
                    ELSE UNCHANGED <<proc, binding, draining>>
    /\ UNCHANGED <<queue, worker, lapsed, stops>>
-----------------------------------------------------------------------------
(* Admission: purge what is past its retention, look for the task id and   *)
(* the idempotency key, insert.  A conflict rolls the purge back.          *)

Purged(i) == rows[i] = None \/ (Ended(i) /\ rows[i].old)
Kept      == [i \in Ids |-> IF Purged(i) THEN None ELSE rows[i]]
Hits(r)   == {i \in Ids : ~Purged(i) /\ (i = r.id \/ rows[i].req.key = r.key)}
Admits(r) == proc = "up" /\ ~draining /\ Matches(r)

(* put_nowait raises QueueFull. *)
Full == Len(queue) >= QueueDepth

(* The row is inserted, traced and queued; a full queue rejects the task. *)
Insert(r) ==
    /\ Cardinality({i \in Ids : ~Purged(i)}) < MaxTasks
    /\ rows' = [Kept EXCEPT ![r.id] =
         [req |-> r, state |-> IF Full THEN "REJECTED" ELSE "SUBMITTED",
          traces |-> IF Full THEN 2 ELSE 1, old |-> FALSE]]
    /\ queue' = IF Full THEN queue ELSE Append(queue, r)
    /\ UNCHANGED <<proc, worker, binding, lapsed, draining, stops>>

SubmitNew(r) == Admits(r) /\ Hits(r) = {} /\ Insert(r)

(* Mutant: a repeated request is queued again. *)
SubmitAgainQueued(r) ==
    /\ Admits(r) /\ ~Full
    /\ \E i \in Hits(r) : rows[i].req = r
    /\ rows' = Kept /\ queue' = Append(queue, r)
    /\ UNCHANGED <<proc, worker, binding, lapsed, draining, stops>>

(* The same request again: the stored task is the answer.  (A different    *)
(* input, key or requester is refused and changes nothing.)                *)
SubmitAgain(r) ==
    /\ Admits(r)
    /\ \E i \in Hits(r) : rows[i].req = r
    /\ rows' = Kept
    /\ UNCHANGED <<proc, queue, worker, binding, lapsed, draining, stops>>

(* task_retention_seconds pass since the last change of a finished task. *)
Age(i) ==
    /\ i \in Stored /\ Ended(i) /\ ~rows[i].old
    /\ rows' = [rows EXCEPT ![i].old = TRUE]
    /\ UNCHANGED <<proc, queue, worker, binding, lapsed, draining, stops>>
-----------------------------------------------------------------------------
(* AnalysisService._worker.  An error is traced first and then stored: at  *)
(* the trace bound append_trace raises again and the state is not set.     *)

Settle(row, s) ==
    IF row.traces < MaxTrace
    THEN [row EXCEPT !.state = s, !.traces = @ + 1, !.old = FALSE]
    ELSE row

(* The item is taken from the queue; its graph starts only if the binding  *)
(* still covers it.                                                        *)
Take(w) ==
    /\ proc # "down" /\ worker[w] = None /\ queue # <<>>
    /\ queue' = Tail(queue)
    /\ LET r == Head(queue)
           row == rows[r.id]
       IN CASE proc = "drain" ->
                 /\ rows' = [rows EXCEPT ![r.id].state = "REJECTED", ![r.id].old = FALSE]
                 /\ UNCHANGED worker
            [] proc # "drain" /\ ~Matches(r) ->
                 /\ rows' = [rows EXCEPT ![r.id] = Settle(row, "REJECTED")]
                 /\ UNCHANGED worker
            [] OTHER ->
                 /\ rows' = [rows EXCEPT ![r.id].state = "WORKING", ![r.id].traces = @ + 1]
                 /\ worker' = [worker EXCEPT ![w] = r]
    /\ UNCHANGED <<proc, binding, lapsed, draining, stops>>

(* TaskStore.complete behind the appended trace codes. *)
Completed(row, n) ==
    CASE row.traces + n > MaxTrace -> [row EXCEPT !.traces = MaxTrace]
      [] row.traces + n <= MaxTrace /\ row.state \in Terminal ->
            Settle([row EXCEPT !.traces = @ + n], "FAILED")
      [] OTHER -> [row EXCEPT !.state = "COMPLETED", !.traces = @ + n, !.old = FALSE]

(* Mutant: the binding is not compared again when the graph has ended. *)
GraphEndsUnfenced(w, n) ==
    /\ proc # "down" /\ worker[w] # None
    /\ LET i == worker[w].id IN rows' = [rows EXCEPT ![i] = Completed(rows[i], n)]
    /\ worker' = [worker EXCEPT ![w] = None]
    /\ UNCHANGED <<proc, queue, binding, lapsed, draining, stops>>

(* The graph returns an artifact and n trace codes. *)
GraphEnds(w, n) ==
    /\ proc # "down" /\ worker[w] # None
    /\ LET i == worker[w].id IN
       rows' = [rows EXCEPT ![i] = IF Matches(worker[w]) THEN Completed(rows[i], n)
                                   ELSE Settle(rows[i], "REJECTED")]
    /\ worker' = [worker EXCEPT ![w] = None]
    /\ UNCHANGED <<proc, queue, binding, lapsed, draining, stops>>

(* The graph raises: its deadline, a fence inside it, an internal error. *)
GraphFails(w) ==
    /\ proc # "down" /\ worker[w] # None
    /\ LET i == worker[w].id IN
       \E s \in {"FAILED", "REJECTED"} :
          /\ s = "REJECTED" => ~Matches(worker[w])
          /\ rows' = [rows EXCEPT ![i] = Settle(rows[i], s)]
    /\ worker' = [worker EXCEPT ![w] = None]
    /\ UNCHANGED <<proc, queue, binding, lapsed, draining, stops>>
-----------------------------------------------------------------------------
(* The Manager's binding. *)

(* BindingState.reload: no older generation, and inside one generation     *)
(* only the end of an activation.                                          *)
Accepts(b) ==
    /\ b.gen >= binding.gen
    /\ b.gen = binding.gen /\ b # binding => binding.state # "ended" /\ b.state = "ended"

(* load_runtime_material: config, manifest and binding are read, decoded,  *)
(* validated and compared with one another.  None stands for files that    *)
(* fail any of it.                                                         *)
Loads(b) == b # None

(* SIGHUP.  A reload that is refused stops admission, and so does a        *)
(* binding that is not active; only a restart resumes it.                  *)
Reload(b) ==
    /\ proc # "down"
    /\ IF Loads(b) /\ Accepts(b)
       THEN binding' = b /\ draining' = (draining \/ b.state # "active")
       ELSE draining' = TRUE /\ UNCHANGED binding
    /\ UNCHANGED <<rows, proc, queue, worker, lapsed, stops>>

Lapse(g) ==
    /\ lapsed' = lapsed \cup {g}
    /\ UNCHANGED <<rows, proc, queue, worker, binding, draining, stops>>
-----------------------------------------------------------------------------
(* SIGTERM: _request_stop ends admission, the site is stopped while the    *)
(* workers still start graphs, then drain_and_close: the workers reject    *)
(* what they find in the queue, and the grace period ends the wait for the *)
(* graphs that run.                                                        *)

RequestStop ==
    /\ proc = "up" /\ stops < MaxCrash
    /\ proc' = "stop" /\ draining' = TRUE /\ stops' = stops + 1
    /\ UNCHANGED <<rows, queue, worker, binding, lapsed>>

SiteStopped ==
    /\ proc = "stop"
    /\ proc' = "drain" /\ draining' = TRUE
    /\ UNCHANGED <<rows, queue, worker, binding, lapsed, stops>>

Joined ==
    /\ proc = "drain" /\ queue = <<>> /\ worker = Idle
    /\ proc' = "down" /\ binding' = None /\ draining' = FALSE
    /\ UNCHANGED <<rows, queue, worker, lapsed, stops>>

InQueue(i) == \E k \in DOMAIN queue : queue[k].id = i

GraceEnds ==
    /\ proc = "drain" /\ (queue # <<>> \/ worker # Idle)
    /\ rows' = [i \in Ids |-> IF InQueue(i)
                              THEN [rows[i] EXCEPT !.state = "REJECTED", !.old = FALSE]
                              ELSE rows[i]]
    /\ queue' = <<>> /\ worker' = Idle
    /\ proc' = "down" /\ binding' = None /\ draining' = FALSE
    /\ UNCHANGED <<lapsed, stops>>

Crash ==
    /\ proc # "down" /\ stops < MaxCrash
    /\ proc' = "down" /\ queue' = <<>> /\ worker' = Idle
    /\ binding' = None /\ draining' = FALSE /\ stops' = stops + 1
    /\ UNCHANGED <<rows, lapsed>>

WorkerStep(w) == Take(w) \/ GraphFails(w) \/ \E n \in GraphCodes : GraphEnds(w, n)
StartStep     == \E b \in Binding : Start(b)

Next ==
    \/ StartStep \/ RequestStop \/ SiteStopped \/ Joined \/ GraceEnds \/ Crash
    \/ \E r \in Requests : SubmitNew(r) \/ SubmitAgain(r)
    \/ \E i \in Ids : Age(i)
    \/ \E w \in Workers : WorkerStep(w)
    \/ \E b \in Binding \cup {None} : Reload(b)
    \/ \E g \in Gens : Lapse(g)

Spec == Init /\ [][Next]_vars

(* The loop runs the workers, a graph has a hard deadline, a stopped or    *)
(* crashed container is started again.                                     *)
FairSpec ==
    /\ Spec /\ WF_vars(StartStep)
    /\ WF_vars(SiteStopped) /\ WF_vars(Joined \/ GraceEnds)
    /\ \A w \in Workers : WF_vars(WorkerStep(w))
-----------------------------------------------------------------------------
(* Every unfinished task of a running service has exactly one owner, the   *)
(* queue or a worker, and the owner's request is the stored one: no task   *)
(* is run twice and none is forgotten, whatever is submitted again         *)
(* (AnalysisService.submit, _worker, drain_and_close).                     *)
OneOwner ==
    proc # "down" =>
      \A i \in Ids :
        LET q  == {k \in DOMAIN queue : queue[k].id = i}
            ws == {w \in Workers : worker[w] # None /\ worker[w].id = i}
        IN /\ (i \in Stored /\ ~Ended(i)) <=> (Cardinality(q) + Cardinality(ws) = 1)
           /\ Cardinality(q) + Cardinality(ws) <= 1
           /\ \A k \in q : rows[i].req = queue[k] /\ rows[i].state = "SUBMITTED"
           /\ \A w \in ws : rows[i].req = worker[w] /\ rows[i].state = "WORKING"

(* A finished task keeps its outcome until its retention has passed;       *)
(* set_state overwrites without a look at the old state (TaskStore).       *)
OutcomeIsFinal ==
    \A i \in Ids : i \in Stored /\ Ended(i) /\ ~rows[i].old =>
        rows'[i] # None /\ rows'[i].req = rows[i].req /\ rows'[i].state = rows[i].state

(* An artifact is stored only under the binding its input was frozen for:  *)
(* a reload, a revocation or an expiry during the graph fences it          *)
(* (AnalysisService._worker).                                              *)
LateArtifactFenced ==
    \A i \in Ids : rows'[i] # None /\ rows'[i].state = "COMPLETED" /\ rows'[i] # rows[i]
        => \/ rows[i] # None /\ rows[i].state = "COMPLETED"
           \/ Active(binding) /\ binding.gen = rows'[i].req.gen

(* While the process runs its generation never goes back                   *)
(* (BindingState.reload).                                                  *)
GenerationAdvances ==
    proc # "down" /\ proc' # "down" => binding'.gen >= binding.gen

(* Every admitted task ends: through crashes, drains and reloads no task   *)
(* stays submitted or working for ever.                                    *)
TasksEnd == \A i \in Ids : (i \in Stored /\ ~Ended(i)) ~> (i \notin Stored \/ Ended(i))

(* "drain: stop new tasks, complete or cancel what is in flight within the *)
(* budget and return a stable outcome" (analysis-plugin-design.md): once   *)
(* the service has drained no task is unfinished.                          *)
DrainSettles ==
    [][proc = "drain" /\ proc' = "down" /\ stops' = stops
          => \A i \in Ids : rows'[i] = None \/ rows'[i].state \in Terminal]_vars

(* The store, the queue and the workers agree on who owns each task        *)
(* (AnalysisService.submit, _worker).                                      *)
TaskInv == TypeOK /\ OneOwner

(* No step undoes an outcome, stores an artifact under a binding it was    *)
(* not made for, or takes the generation of the process back (TaskStore,   *)
(* _worker, BindingState.reload).                                          *)
TaskSteps == [][OutcomeIsFinal /\ LateArtifactFenced /\ GenerationAdvances]_vars
=============================================================================
