---------------------------- MODULE ModelRollout -----------------------------
(***************************************************************************)
(* The rollout of a model to one shard (control-go/internal/model/         *)
(* rollout.go, recovery.go), composed with the Edge that serves the shard  *)
(* (module Detection) and with the ingest fence of the control core        *)
(* (event/ingest.go).  A rollout stages the pool generation, makes the     *)
(* Edge drain (PrepareRoute) and install the new route (CommitRoute),      *)
(* swaps the canonical binding in PostgreSQL and then lets the Edge resume *)
(* (ResumeRoute).  An operation whose outcome is open is resume_pending    *)
(* and is continued by ReconcileOperation, on request.                     *)
(*                                                                         *)
(* An operation's calls are synchronous; a call that the caller has given  *)
(* up may still reach the Edge, or never.  Operations on one shard may run *)
(* at the same time: nothing but the fences keeps them apart.  A pool      *)
(* generation fixes its model revision, and every swap raises the binding  *)
(* generation and the route epoch together, so one number stands for both. *)
(***************************************************************************)
EXTENDS Detection

CONSTANTS Boot,      \* the operation that bound the first generation
          MaxFaults  \* model bound: calls given up, refused or cut off

ASSUME BootAssumption  == Boot \in Op /\ 1 \in Gen
ASSUME FaultAssumption == MaxFaults \in Nat

VARIABLES
    binding, \* shard_bindings
    pool,    \* pool_generations and model_pool_observations_current
    ops,     \* model_rollout_operations, and where the caller of each is
    net,     \* requests on their way to the Edge
    faults

control == <<binding, pool, ops, net>>
sysvars == <<vars, control, faults>>

Binding == [gen : Gen, epoch : Epoch]
Request == [kind : {"prepare", "commit", "resume"}, cur : Epoch,
            route : Route, deadline : Deadline \cup {None}]
(* A reply: the call succeeded, and pending_inputs. *)
Reply   == [ok : BOOLEAN, pending : Nat]
Step    == {"none", "stage", "prepare", "commit", "cas", "resume",
            "rcommit", "rcas", "rresume"}
Operation == [status : {"none", "running", "resume_pending", "applied", "failed"},
              step : Step, target : Gen, old : Binding, obs : Op \cup {None},
              sent : Request \cup {None}, reply : Reply \cup {None}]

SysTypeOK ==
    /\ TypeOK
    /\ binding \in [gen : Gen, prev : Gen \cup {None}, epoch : Epoch,
                    resume : {"current", "unavailable", "resume_pending"}]
    /\ pool \in [Gen -> [status : {"none", "warming", "active", "draining"},
                         obs : Op \cup {None}]]
    /\ ops \in [Op -> Operation]
    /\ net \subseteq Request
    /\ faults \in 0..MaxFaults

Current == [gen |-> binding.gen, epoch |-> binding.epoch]

SysInit ==
    /\ Init
    /\ route # None /\ route.op = Boot /\ route.gen = 1
    /\ committed.deadline = CHOOSE d \in Deadline : \A e \in Deadline : d <= e
    /\ binding = [gen |-> 1, prev |-> None, epoch |-> 1, resume |-> "current"]
    /\ pool = [g \in Gen |-> IF g = 1 THEN [status |-> "active", obs |-> Boot]
                                      ELSE [status |-> "none", obs |-> None]]
    /\ ops = [o \in Op |-> [status |-> IF o = Boot THEN "applied" ELSE "none",
                            step |-> "none", target |-> 1, old |-> Current,
                            obs |-> None, sent |-> None, reply |-> None]]
    /\ net = {} /\ faults = 0
-----------------------------------------------------------------------------
(* A call that is given up, refused or cut off. *)
Fault == faults < MaxFaults /\ faults' = faults + 1

(* The calls of operation o. *)

RouteOf(o, epoch) == [op |-> o, gen |-> ops[o].target, epoch |-> epoch]

(* Every handshake is sent with a new deadline. *)
Fresh ==
    LET used == {m.deadline : m \in net} \cup
                {h.deadline : h \in {committed, IF journal = None THEN None ELSE journal.hs} \ {None}}
    IN CHOOSE d \in Deadline \ used : \A e \in Deadline \ used : d <= e

Send(o, step, m, rest) ==
    /\ net' = net \cup {m}
    /\ ops' = [ops EXCEPT ![o] = [rest EXCEPT !.step = step, !.sent = m, !.reply = None]]

PrepareMsg(o, b) == [kind |-> "prepare", cur |-> b.epoch,
                     route |-> RouteOf(o, b.epoch + 1), deadline |-> None]
CommitMsg(o, b)  == [kind |-> "commit", cur |-> b.epoch,
                     route |-> RouteOf(o, b.epoch + 1), deadline |-> None]
ResumeMsg(o, b)  == [kind |-> "resume", cur |-> b.epoch,
                     route |-> RouteOf(o, b.epoch), deadline |-> Fresh]

Returns(o, status) ==
    ops' = [ops EXCEPT ![o].status = status, ![o].step = "none",
                       ![o].sent = None, ![o].reply = None]

Answered(o, step) == ops[o].step = step /\ ops[o].reply # None

(* markUnavailable and markResumePending: a compare-and-set. *)
Mark(b, state) ==
    binding' = IF Current = b THEN [binding EXCEPT !.resume = state] ELSE binding
-----------------------------------------------------------------------------
(* Rollout *)

Start(o, g) ==
    /\ ops[o].status = "none"
    /\ binding.epoch < MaxEpoch
    /\ g > binding.gen \/ g = binding.prev    \* OpRollout, OpRollback
    /\ ops' = [ops EXCEPT ![o] = [@ EXCEPT !.status = "running", !.step = "stage",
                                           !.target = g, !.old = Current]]
    /\ pool' = IF pool[g].status = "none" THEN [pool EXCEPT ![g].status = "warming"]
                                          ELSE pool
    /\ UNCHANGED <<vars, binding, net, faults>>

(* The pool generation is deployed and observed, unless a qualified one    *)
(* can be reused; then the Edge is asked to withdraw the route.            *)
StagePool(o) ==
    /\ ops[o].step = "stage"
    /\ LET g     == ops[o].target
           reuse == pool[g].obs # None /\ pool[g].status \in {"active", "draining"}
           obs   == IF reuse THEN pool[g].obs ELSE o
       IN /\ pool' = [pool EXCEPT ![g].obs = obs]
          /\ Send(o, "prepare", PrepareMsg(o, ops[o].old), [ops[o] EXCEPT !.obs = obs])
    /\ UNCHANGED <<vars, binding, faults>>

StageFails(o) ==
    /\ ops[o].step = "stage"
    /\ Returns(o, "failed")
    /\ UNCHANGED <<vars, binding, pool, net, faults>>

Prepared(o) ==
    /\ Answered(o, "prepare")
    /\ IF ops[o].reply.ok
       THEN /\ Send(o, "commit", CommitMsg(o, ops[o].old), ops[o])
            /\ UNCHANGED binding
       ELSE /\ Mark(ops[o].old, "unavailable")
            /\ Returns(o, "resume_pending") /\ UNCHANGED net
    /\ UNCHANGED <<vars, pool, faults>>

(* Mutant: the readback of CommitRoute is not looked at. *)
CommittedUnchecked(o) ==
    /\ Answered(o, "commit")
    /\ ops' = [ops EXCEPT ![o].step = "cas", ![o].reply = None]
    /\ UNCHANGED <<vars, binding, pool, net, faults>>

Committed(o) ==
    /\ Answered(o, "commit")
    /\ IF ops[o].reply.ok /\ ops[o].reply.pending = 0
       THEN /\ ops' = [ops EXCEPT ![o].step = "cas", ![o].reply = None]
            /\ UNCHANGED binding
       ELSE /\ Mark(ops[o].old, "unavailable")
            /\ Returns(o, "resume_pending")
    /\ UNCHANGED <<vars, pool, net, faults>>

CanSwap(o) == pool[ops[o].target].obs = ops[o].obs /\ Current = ops[o].old

(* casSwapBinding, and the handshake that follows it. *)
SwapBinding(o, next) ==
    /\ CanSwap(o)
    /\ LET g == ops[o].target
           b == [gen |-> g, epoch |-> binding.epoch + 1]
       IN /\ binding' = [gen |-> g, prev |-> binding.gen, epoch |-> b.epoch,
                         resume |-> "current"]
          /\ pool' = [pool EXCEPT ![g].status = "active",
                        ![binding.gen].status = IF @ = "active" THEN "draining" ELSE @]
          /\ Send(o, next, ResumeMsg(o, b), [ops[o] EXCEPT !.old = b])

(* A fence of the transaction, or a database that cannot be reached. *)
SwapFails(o) == IF CanSwap(o) THEN Fault ELSE UNCHANGED faults

Swap(o) ==
    /\ ops[o].step = "cas"
    /\ \/ SwapBinding(o, "resume") /\ UNCHANGED faults
       \/ /\ SwapFails(o)
          /\ Mark(ops[o].old, "unavailable")
          /\ Returns(o, "resume_pending") /\ UNCHANGED <<pool, net>>
    /\ UNCHANGED vars

Resumed(o) ==
    /\ Answered(o, "resume")
    /\ IF ops[o].reply.ok
       THEN Returns(o, "applied") /\ UNCHANGED binding
       ELSE /\ Mark(ops[o].old, "resume_pending")
            /\ Returns(o, "resume_pending")
    /\ UNCHANGED <<vars, pool, net, faults>>
-----------------------------------------------------------------------------
(* ReconcileOperation: CommitRoute again before the swap, ResumeRoute      *)
(* after it; the operation stays resume_pending until it is applied.       *)

Reconcile(o) ==
    /\ ops[o].status = "resume_pending" /\ ops[o].step = "none"
    /\ pool[ops[o].target].obs # None
    /\ LET op == [ops[o] EXCEPT !.old = Current, !.obs = pool[ops[o].target].obs]
       IN IF binding.gen # ops[o].target
          THEN binding.epoch < MaxEpoch /\ Send(o, "rcommit", CommitMsg(o, Current), op)
          ELSE Send(o, "rresume", ResumeMsg(o, Current), op)
    /\ UNCHANGED <<vars, binding, pool, faults>>

RCommitted(o) ==
    /\ Answered(o, "rcommit")
    /\ IF ops[o].reply.ok /\ ops[o].reply.pending = 0
       THEN ops' = [ops EXCEPT ![o].step = "rcas", ![o].reply = None]
       ELSE Returns(o, "resume_pending")
    /\ UNCHANGED <<vars, binding, pool, net, faults>>

RSwap(o) ==
    /\ ops[o].step = "rcas"
    /\ \/ SwapBinding(o, "rresume") /\ UNCHANGED faults
       \/ SwapFails(o) /\ Returns(o, "resume_pending") /\ UNCHANGED <<binding, pool, net>>
    /\ UNCHANGED vars

RResumed(o) ==
    /\ Answered(o, "rresume")
    /\ \/ /\ ops[o].reply.ok
          /\ Mark(ops[o].old, "current")
          /\ Returns(o, IF Current = ops[o].old THEN "applied" ELSE "resume_pending")
       \/ /\ ~ops[o].reply.ok
          /\ Mark(ops[o].old, "resume_pending")
          /\ Returns(o, "resume_pending")
    /\ UNCHANGED <<vars, pool, net, faults>>
-----------------------------------------------------------------------------
(* GiveUp: the deadline of a call passes, its request stays on the way.    *)
(* Abandon: the caller's context ends or the process dies.                 *)

GiveUp(o) ==
    /\ Fault /\ ops[o].sent # None /\ ops[o].step \notin {"none", "cas", "rcas"}
    /\ ops' = [ops EXCEPT ![o].reply = [ok |-> FALSE, pending |-> 0]]
    /\ UNCHANGED <<vars, binding, pool, net>>

Abandon(o) ==
    /\ Fault /\ ops[o].step # "none"
    /\ Returns(o, ops[o].status)
    /\ UNCHANGED <<vars, binding, pool, net>>
-----------------------------------------------------------------------------
(* The Edge handles a request. *)

Answer(m, ok) ==
    /\ net' = net \ {m}
    /\ ops' = [o \in Op |-> IF ops[o].sent = m /\ ops[o].reply = None
                            THEN [ops[o] EXCEPT !.reply = [ok |-> ok, pending |-> Len(inputs)]]
                            ELSE ops[o]]
    /\ UNCHANGED <<binding, pool>>

Shake(m) == [route |-> m.route, deadline |-> m.deadline]

Handles(m) ==
    CASE m.kind = "prepare" -> CanPrepare(m.cur, m.route.epoch)
      [] m.kind = "commit"  -> CanCommit(m.route)
      [] m.kind = "resume"  -> CanResume(Shake(m))

Deliver(m) ==
    /\ Answer(m, TRUE)
    /\ \/ m.kind = "prepare" /\ PrepareRoute(m.cur, m.route.epoch)
       \/ m.kind = "commit" /\ CommitRoute(m.route)
       \/ m.kind = "resume" /\ ResumeRoute(Shake(m))
    /\ UNCHANGED faults

(* A fence, a pool that does not answer the readback, or a handshake that  *)
(* has expired.                                                            *)
Refuse(m) ==
    /\ pc \in {"idle", "down", "replay"}
    /\ Answer(m, FALSE)
    /\ \/ ~Handles(m) /\ UNCHANGED faults
       \/ Handles(m) /\ m.kind # "prepare" /\ Fault
    /\ UNCHANGED vars
-----------------------------------------------------------------------------
(* The ingest fence: results of the canonical route, while it is current.  *)
Exact(r) ==
    /\ binding.gen = r.gen /\ binding.epoch = r.epoch
    /\ binding.resume = "current"
    /\ pool[r.gen].status = "active"

IngestBatch(replied) ==
    /\ results # None /\ Exact(results.recs[1].route)
    /\ CommitResults(replied)
    /\ IF replied THEN UNCHANGED faults ELSE Fault
    /\ UNCHANGED control

Edge == EdgeStep /\ UNCHANGED <<control, faults>>

Control(o) ==
    \/ StagePool(o) \/ Prepared(o) \/ Committed(o) \/ Swap(o) \/ Resumed(o)
    \/ RCommitted(o) \/ RSwap(o) \/ RResumed(o)

SysNext ==
    \/ Edge
    \/ \E replied \in BOOLEAN : IngestBatch(replied)
    \/ \E o \in Op : \/ \E g \in Gen : Start(o, g)
                     \/ StageFails(o) \/ Control(o) \/ Reconcile(o)
                     \/ GiveUp(o) \/ Abandon(o)
    \/ \E m \in net : Deliver(m) \/ Refuse(m)

SysSpec == SysInit /\ [][SysNext]_sysvars

(* The actor's tick runs every 20 ms, the pool and the control core answer *)
(* again and again, and an operator keeps asking for reconciliation.       *)
FairSysSpec ==
    /\ SysSpec
    /\ WF_sysvars(Edge /\ pc' # "down")
    /\ WF_sysvars(IngestBatch(TRUE))
    /\ \A o \in Op : WF_sysvars(Control(o)) /\ WF_sysvars(Reconcile(o))
    /\ WF_sysvars(\E m \in net : Deliver(m) \/ Refuse(m))
-----------------------------------------------------------------------------
(* An Edge that admits windows to a route admits them to the canonical     *)
(* one: no late, repeated or concurrent request makes it serve a route     *)
(* that the binding has not reached or has left (casSwapBinding,           *)
(* resume_route, finish_route_recovery).                                   *)
ActiveIsCanonical ==
    Up /\ rstate = "active" => Current = [gen |-> route.gen, epoch |-> route.epoch]

(* The canonical binding moves only when nothing of the route it leaves is *)
(* pending on the Edge, so that no durable record is stranded behind the   *)
(* ingest fence by the swap (Rollout, casSwapBinding).                     *)
BindingMovesDrained == [][Current' # Current => Drained]_sysvars

(* A rollout that has started is applied or fails, also when the Edge has  *)
(* admitted work to drain (Rollout, ReconcileOperation).                   *)
RolloutSettles ==
    \A o \in Op : ops[o].status \in {"running", "resume_pending"}
                   ~> ops[o].status \in {"applied", "failed"}

(* At every moment of two rollouts the route that an Edge serves is the    *)
(* canonical binding (Rollout, casSwapBinding, resume_route).              *)
RolloutInv == SysTypeOK /\ ActiveIsCanonical
=============================================================================
