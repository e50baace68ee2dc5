---------------------------- MODULE EffectSystem ----------------------------
(***************************************************************************)
(* The path of one governed effect through the whole system: the durable   *)
(* intent ledger of PostgreSQL, the tasks of Control Core that claim,      *)
(* dispatch, reconcile and acknowledge it (control-go/internal/governance, *)
(* db/cas.go, firewall), and the target actor of the Edge, which is the    *)
(* module EdgeEffect.                                                      *)
(*                                                                         *)
(* A transaction is one step.  Every RPC is outside a transaction: its     *)
(* request may be lost, its reply may be lost, and an execute request may  *)
(* reach the actor long after its sender has given up on it.  A task may   *)
(* stop between any two steps, which is also what a failed transaction or  *)
(* an expired context comes to.                                            *)
(*                                                                         *)
(* An actor that refuses (no lease, no session, another pipeline, a stale  *)
(* fence) looks to its clients like a lost request, which every RPC here   *)
(* may be; so the actor's own lapses are left to the runs of EdgeEffect,   *)
(* as are journal faults and retention.  Its crashes, its recovery and the *)
(* expiry of its tokens are here.                                          *)
(***************************************************************************)
EXTENDS EdgeEffect

CONSTANTS
    Worker,        \* tasks that dispatch, reconcile and retry acknowledgements
    MaxAttempts,   \* rows of effect_attempts per intent, 64 in the code
    MaxAckTries,   \* attempts of effect_acknowledgements, 8 in the code
    Bounded        \* a task ends before its claim lease does (see ClaimLeaseExpires)

ASSUME SystemAssumption ==
    /\ MaxAttempts \in Nat \ {0} /\ MaxAckTries \in Nat \ {0}
    /\ Bounded \in BOOLEAN /\ JournalFaults = 0 /\ ~CanExpire

VARIABLES
    intent,      \* effect_intents.claim_state
    fenceOf,     \* the epoch in effect_intents.fence
    due,         \* deadline_unix_ms has passed
    owner,       \* whose identity claim_lease_id carries
    leaseOver,   \* claim_expires_at_unix_ms has passed
    act,         \* firewall_activations.result
    expected,    \* firewall_activations.expected_*
    binding,     \* firewall_bindings
    attempts,    \* rows of effect_attempts
    acks,        \* effect_acknowledgements
    assigned,    \* target_assignments.actor_runtime_epoch
    job,         \* what each task is doing
    net,         \* execute requests on their way to the actor
    ran, touched \* history: executes begun, operations that reached the switch

ledger  == <<intent, fenceOf, due, owner, leaseOver, attempts>>
policy  == <<act, expected, binding>>
history == <<ran, touched>>
goVars  == <<ledger, policy, acks, assigned, job, net, history>>
vars    == <<edgeVars, goVars>>

Ack == [state : {"none", "pending", "acked", "exhausted"},
        rec : Record \cup {None}, tries : 0..MaxAckTries]
NoAck == [state |-> "none", rec |-> None, tries |-> 0]

Pc == {"validate", "preflight", "rejected", "execute", "wait", "result", "unknown",
       "query", "converge", "ack", "acked", "ackFailed"}
Job == [pc : Pc, op : Op, tok : Token \cup {None}, rec : Record \cup {None},
        by : {"dispatch", "reconcile", "retry"}]
Request == [op : Op, fence : 0..MaxEpoch, tok : Token]

ASSUME SystemNoneAssumption == None \notin Job \cup Record \cup Token \cup Op

SysInit ==
    /\ Init
    /\ intent = [op \in Op |-> "absent"] /\ fenceOf = [op \in Op |-> 0]
    /\ due = [op \in Op |-> FALSE] /\ owner = [op \in Op |-> None]
    /\ leaseOver = [op \in Op |-> FALSE] /\ attempts = [op \in Op |-> 0]
    /\ act = [op \in Op |-> "none"]
    /\ binding = [ver |-> 0, op |-> None, bank |-> 0]
    /\ expected = [op \in Op |-> binding]
    /\ acks = [op \in Op |-> NoAck] /\ assigned = 0
    /\ job = [w \in Worker |-> None] /\ net = {}
    /\ ran = [op \in Op |-> 0] /\ touched = {}

-----------------------------------------------------------------------------
(* What the transactions are made of *)

(* Mutant: an activation that is being reconciled no longer counts. *)
OpenPrepared(op) == act[op] = "prepared"

(* firewall_one_open_activation_per_target_uidx, and the gate of ClaimIntent. *)
Open(op) == act[op] \in {"prepared", "reconciling"}
OtherOpen(op) == \E o \in Op \ {op} : Open(o)

(* gate_open: Activate opens the gate of a baseline, others are born open. *)
GateOpen(op) == Kind[op] = "baseline" => act[op] # "none"

At_(w, pc) == job[w] # None /\ job[w].pc = pc
Free(w)    == job[w] = None
Moves(w, pc) == job' = [job EXCEPT ![w].pc = pc]
Ends(w)    == job' = [job EXCEPT ![w] = None]
Start(w, pc, op, rec, by) ==
    /\ Free(w)
    /\ job' = [job EXCEPT ![w] = [pc |-> pc, op |-> op, tok |-> None, rec |-> rec, by |-> by]]

SetIntent(op, s) == intent' = [intent EXCEPT ![op] = s]

(* insertAttempt: the 65th attempt fails the whole transaction. *)
InsertAttempt(op) == attempts[op] < MaxAttempts /\ attempts' = [attempts EXCEPT ![op] = @ + 1]

(* insertEffectAckTx: ON CONFLICT DO NOTHING keeps an older row. *)
InsertAck(op, r) ==
    acks' = IF acks[op].state # "none" THEN acks
            ELSE [acks EXCEPT ![op] = [state |-> "pending", rec |-> r, tries |-> 0]]

(* projectBaseline: only baselines have an activation and move the binding. *)
ProjectResult(op, result) ==
    /\ act' = IF act[op] = "none" THEN act ELSE [act EXCEPT ![op] = result]
    /\ UNCHANGED <<expected, binding>>

(* The partial unique index refuses a second open activation. *)
ProjectUnknown(op) ==
    /\ Kind[op] = "baseline" => ~OtherOpen(op)
    /\ ProjectResult(op, "reconciling")

ProjectApplied(op, r) ==
    IF Kind[op] # "baseline" THEN UNCHANGED policy ELSE
        /\ binding = expected[op]
        /\ act' = [act EXCEPT ![op] = "applied"]
        /\ binding' = [ver |-> binding.ver + 1, op |-> op, bank |-> r.bank]
        /\ UNCHANGED expected

-----------------------------------------------------------------------------
(* The API: intents and activations *)

(* IntentService.Create, under the assignment that is current. *)
Create(op) ==
    /\ intent[op] = "absent" /\ assigned # 0
    /\ SetIntent(op, "unclaimed")
    /\ fenceOf' = [fenceOf EXCEPT ![op] = assigned]
    /\ UNCHANGED <<edgeVars, due, owner, leaseOver, attempts, policy, acks, assigned, job, net, history>>

(* ActivationService.Activate. *)
Activate(op) ==
    /\ Kind[op] = "baseline" /\ intent[op] = "unclaimed" /\ act[op] = "none"
    /\ ~OtherOpen(op)
    /\ act' = [act EXCEPT ![op] = "prepared"]
    /\ expected' = [expected EXCEPT ![op] = binding]
    /\ UNCHANGED <<edgeVars, ledger, binding, acks, assigned, job, net, history>>

(* AssignmentService.Handoff inserts the row of the next generation; its   *)
(* caller, outside this repository, passes the epoch that Edge returned.   *)
RecordAssignment ==
    /\ up /\ assigned # epoch
    /\ assigned' = epoch
    /\ UNCHANGED <<edgeVars, ledger, policy, acks, job, net, history>>

DeadlinePasses(op) ==
    /\ intent[op] \in {"unclaimed", "claimed", "unknown"} /\ ~due[op]
    /\ due' = [due EXCEPT ![op] = TRUE]
    /\ UNCHANGED <<edgeVars, intent, fenceOf, owner, leaseOver, attempts,
                   policy, acks, assigned, job, net, history>>

-----------------------------------------------------------------------------
(* Dispatch *)

Claimable(op) == intent[op] = "unclaimed" /\ GateOpen(op) /\ ~due[op]

Select(w, op) ==
    /\ Claimable(op)
    /\ Start(w, "validate", op, None, "dispatch")
    /\ UNCHANGED <<edgeVars, ledger, policy, acks, assigned, net, history>>

(* ValidateIntent fails, for whatever reason (a deadline, a fence, another *)
(* digest): holdBeforeSideEffect, if nobody claimed it since.              *)
HoldBeforeSideEffect(w) ==
    /\ At_(w, "validate")
    /\ LET op == job[w].op IN
       /\ intent[op] = "unclaimed"
       /\ SetIntent(op, "hold") /\ ProjectResult(op, "hold")
    /\ Ends(w)
    /\ UNCHANGED <<edgeVars, fenceOf, due, owner, leaseOver, attempts, acks, assigned, net, history>>

(* ClaimIntent.  The state only ever leaves unclaimed, so this happens once *)
(* to an intent and its claim_lease_id never changes again.                 *)
ClaimIntent(w) ==
    /\ At_(w, "validate")
    /\ LET op == job[w].op IN
       /\ intent[op] = "unclaimed" /\ ~due[op]
       /\ GateOpen(op) /\ ~OtherOpen(op) /\ fenceOf[op] = assigned
       /\ SetIntent(op, "claimed") /\ owner' = [owner EXCEPT ![op] = w]
    /\ Moves(w, "preflight")
    /\ UNCHANGED <<edgeVars, fenceOf, due, leaseOver, attempts, policy, acks, assigned, net, history>>

(* The preflight RPC: an answer with a token; or any error, though the     *)
(* actor may have issued a token that nobody will use.                     *)
PreflightEffect(w) ==
    /\ At_(w, "preflight")
    /\ LET op == job[w].op IN
       /\ ~due[op] /\ Preflight(op, fenceOf[op])
       /\ \/ \E t \in tokens' \ tokens :
                job' = [job EXCEPT ![w].pc = "execute", ![w].tok = t]
          \/ Moves(w, "rejected")
    /\ UNCHANGED <<ledger, policy, acks, assigned, net, history>>

PreflightRejected(w) ==
    /\ At_(w, "preflight")
    /\ Moves(w, "rejected")
    /\ UNCHANGED <<edgeVars, ledger, policy, acks, assigned, net, history>>

(* finalizePreflightHold; like every later transaction of the dispatcher   *)
(* it compares claim_lease_id, not claim_state.                            *)
FinalizePreflightHold(w) ==
    /\ At_(w, "rejected")
    /\ LET op == job[w].op IN
       SetIntent(op, "hold") /\ InsertAttempt(op) /\ ProjectResult(op, "hold")
    /\ Ends(w)
    /\ UNCHANGED <<edgeVars, fenceOf, due, owner, leaseOver, acks, assigned, net, history>>

ExecuteEffect(w) ==
    /\ At_(w, "execute")
    /\ net' = net \cup {[op |-> job[w].op, fence |-> fenceOf[job[w].op], tok |-> job[w].tok]}
    /\ Moves(w, "wait")
    /\ UNCHANGED <<edgeVars, ledger, policy, acks, assigned, history>>

(* The request reaches the actor, perhaps much later. *)
DeliverExecute(m) ==
    /\ ~due[m.op] /\ Execute(m.op, m.fence, m.tok)
    /\ net' = net \ {m}
    /\ ran' = [ran EXCEPT ![m.op] = @ + 1]
    /\ UNCHANGED <<ledger, policy, acks, assigned, job, touched>>

(* The request is lost, or the actor answers it with an error. *)
DropExecute(m) ==
    /\ net' = net \ {m}
    /\ UNCHANGED <<edgeVars, ledger, policy, acks, assigned, job, history>>

(* The actor finishes; its reply may find the task still waiting. *)
EdgeReply ==
    /\ FinishExecute
    /\ \/ UNCHANGED job
       \/ \E w \in Worker :
             /\ At_(w, "wait") /\ job[w].op = exec.op
             /\ job' = [job EXCEPT ![w].pc = "result", ![w].rec = Outcome]
    /\ UNCHANGED <<ledger, policy, acks, assigned, net, history>>

(* The execute RPC ends in an error or at the deadline; or renewLease errs, *)
(* its claim gone, its query failed or its context at its end, and that     *)
(* replaces whatever the RPCs returned.                                     *)
GiveUp(w) ==
    /\ job[w] # None
    /\ job[w].pc \in {"preflight", "rejected", "execute", "wait", "result"}
    /\ Moves(w, "unknown")
    /\ UNCHANGED <<edgeVars, ledger, policy, acks, assigned, net, history>>

(* Mutant: an unknown outcome is filed as a hold. *)
MarkUnknownAsHold(w) ==
    /\ At_(w, "unknown") \/ (At_(w, "result") /\ job[w].rec.status = "unknown")
    /\ LET op == job[w].op IN
       SetIntent(op, "hold") /\ InsertAttempt(op) /\ ProjectResult(op, "hold")
    /\ Ends(w)
    /\ UNCHANGED <<edgeVars, fenceOf, due, owner, leaseOver, acks, assigned, net, history>>

MarkUnknown(w) ==
    /\ At_(w, "unknown") \/ (At_(w, "result") /\ job[w].rec.status = "unknown")
    /\ LET op == job[w].op IN
       SetIntent(op, "unknown") /\ InsertAttempt(op) /\ ProjectUnknown(op)
    /\ Ends(w)
    /\ UNCHANGED <<edgeVars, fenceOf, due, owner, leaseOver, acks, assigned, net, history>>

(* finalizeApplied and finalizeKnownHold: state, attempt, projection and   *)
(* the acknowledgement row in one transaction.                             *)
Settle(op, r) ==
    /\ InsertAttempt(op) /\ InsertAck(op, r)
    /\ \/ r.status = "applied" /\ SetIntent(op, "finalized") /\ ProjectApplied(op, r)
       \/ r.status = "hold" /\ SetIntent(op, "hold") /\ ProjectResult(op, "hold")

(* Mutant: the acknowledgement goes out before the transaction. *)
FinalizeAfterAck(w) ==
    /\ At_(w, "result") /\ job[w].rec.status # "unknown"
    /\ Moves(w, "ack")
    /\ UNCHANGED <<edgeVars, ledger, policy, acks, assigned, net, history>>

Finalize(w) ==
    /\ At_(w, "result")
    /\ Settle(job[w].op, job[w].rec)
    /\ Moves(w, "ack")
    /\ UNCHANGED <<edgeVars, fenceOf, due, owner, leaseOver, assigned, net, history>>

-----------------------------------------------------------------------------
(* Acknowledgement: the canonical result is durable, the actor may forget *)

(* The RPC is served; its reply may be lost. *)
AckServed(w) ==
    /\ At_(w, "ack") /\ AcknowledgeEffect(job[w].rec)
    /\ Moves(w, "acked") \/ Moves(w, "ackFailed")
    /\ UNCHANGED <<ledger, policy, acks, assigned, net, history>>

AckRefused(w) ==
    /\ At_(w, "ack")
    /\ Moves(w, "ackFailed")
    /\ UNCHANGED <<edgeVars, ledger, policy, acks, assigned, net, history>>

MarkAcked(w) ==
    /\ At_(w, "acked") /\ acks[job[w].op].state = "pending"
    /\ acks' = [acks EXCEPT ![job[w].op].state = "acked"]
    /\ Ends(w)
    /\ UNCHANGED <<edgeVars, ledger, policy, assigned, net, history>>

(* recordAckFailure.  ReconcileUnknown does not call it. *)
RecordAckFailure(w) ==
    /\ At_(w, "ackFailed") /\ job[w].by # "reconcile"
    /\ LET a == acks[job[w].op] IN
       acks' = IF a.state # "pending" THEN acks ELSE
               [acks EXCEPT ![job[w].op].tries = a.tries + 1,
                            ![job[w].op].state =
                                IF a.tries + 1 >= MaxAckTries THEN "exhausted" ELSE "pending"]
    /\ Ends(w)
    /\ UNCHANGED <<edgeVars, ledger, policy, assigned, net, history>>

RetryPendingAcknowledgement(w, op) ==
    /\ acks[op].state = "pending"
    /\ Start(w, "ack", op, acks[op].rec, "retry")
    /\ UNCHANGED <<edgeVars, ledger, policy, acks, assigned, net, history>>

-----------------------------------------------------------------------------
(* ReconcileUnknown, by the maintenance loop or an API request *)

LoadUnknownIntent(w, op) ==
    /\ intent[op] = "unknown"
    /\ Start(w, "query", op, None, "reconcile")
    /\ UNCHANGED <<edgeVars, ledger, policy, acks, assigned, net, history>>

(* Execute without a token answers with the pending result of exactly this *)
(* operation and fence; everything else is an error.                       *)
Answerable(op) ==
    /\ WriteReady /\ FenceOk(fenceOf[op], due[op])
    /\ pending # None /\ Key(pending.rec) = <<op, fenceOf[op]>>

QueryEffectReadback(w) ==
    /\ At_(w, "query") /\ Answerable(job[w].op)
    /\ job' = [job EXCEPT ![w].pc = "converge", ![w].rec = pending.rec]
    /\ UNCHANGED <<edgeVars, ledger, policy, acks, assigned, net, history>>

(* The CAS is on claim_state='unknown'; an unknown answer only adds an     *)
(* attempt and repeats the projection.                                     *)
Converge(w) ==
    /\ At_(w, "converge") /\ intent[job[w].op] = "unknown"
    /\ LET op == job[w].op  r == job[w].rec IN
       \/ Settle(op, r) /\ Moves(w, "ack")
       \/ /\ r.status = "unknown"
          /\ InsertAttempt(op) /\ ProjectUnknown(op) /\ Ends(w)
          /\ UNCHANGED <<intent, acks>>
    /\ UNCHANGED <<edgeVars, fenceOf, due, owner, leaseOver, assigned, net, history>>

-----------------------------------------------------------------------------
(* Leases and process life *)

(* The lease runs out when its owner stopped renewing it.  The maintenance *)
(* loop gives a dispatch one second and the lease lasts thirty, so its     *)
(* tasks are gone by then (Bounded); nothing in the dispatcher itself      *)
(* bounds it that way.                                                     *)
ClaimLeaseExpires(op) ==
    /\ intent[op] = "claimed" /\ ~leaseOver[op]
    /\ Bounded => \A w \in Worker : job[w] # None => job[w].op # op
    /\ leaseOver' = [leaseOver EXCEPT ![op] = TRUE]
    /\ UNCHANGED <<edgeVars, intent, fenceOf, due, owner, attempts,
                   policy, acks, assigned, job, net, history>>

(* Mutant: an expired claim is handed to the next dispatcher. *)
FenceExpiredClaimsReleases(op) ==
    /\ intent[op] = "claimed" /\ leaseOver[op]
    /\ SetIntent(op, "unclaimed")
    /\ UNCHANGED <<edgeVars, fenceOf, due, owner, leaseOver, attempts, policy,
                   acks, assigned, job, net, history>>

(* Mutant: the expiry is cleared and the state stays claimed. *)
FenceExpiredClaimsKeeps(op) ==
    /\ intent[op] = "claimed" /\ leaseOver[op]
    /\ leaseOver' = [leaseOver EXCEPT ![op] = FALSE]
    /\ UNCHANGED <<edgeVars, intent, fenceOf, due, owner, attempts, policy,
                   acks, assigned, job, net, history>>

(* Mutant: the update does not compare claim_state. *)
FenceExpiredClaimsAnyState(op) ==
    /\ intent[op] # "unknown" /\ leaseOver[op]
    /\ SetIntent(op, "unknown") /\ ProjectUnknown(op)
    /\ UNCHANGED <<edgeVars, fenceOf, due, owner, leaseOver, attempts,
                   acks, assigned, job, net, history>>

FenceExpiredClaims(op) ==
    /\ intent[op] = "claimed" /\ leaseOver[op]
    /\ SetIntent(op, "unknown") /\ ProjectUnknown(op)
    /\ UNCHANGED <<edgeVars, fenceOf, due, owner, leaseOver, attempts,
                   acks, assigned, job, net, history>>

(* A task stops: its process dies, its context ends, a transaction fails,  *)
(* a CAS finds no row, an RPC of the reconciler fails.                     *)
Stop(w) ==
    /\ ~Free(w)
    /\ Ends(w)
    /\ UNCHANGED <<edgeVars, ledger, policy, acks, assigned, net, history>>

(* FenceOwnedClaimsOnShutdown: no projection follows. *)
Shutdown(w) ==
    /\ \E op \in Op : intent[op] = "claimed" /\ owner[op] = w
    /\ intent' = [op \in Op |-> IF intent[op] = "claimed" /\ owner[op] = w
                                THEN "unknown" ELSE intent[op]]
    /\ Ends(w)
    /\ UNCHANGED <<edgeVars, fenceOf, due, owner, leaseOver, attempts,
                   policy, acks, assigned, net, history>>

-----------------------------------------------------------------------------
(* The actor on its own *)
EdgeStep ==
    /\ ActorStep
    /\ touched' = IF switch' # switch THEN touched \cup {exec.op} ELSE touched
    /\ UNCHANGED <<ledger, policy, acks, assigned, job, net, ran>>

EdgeBackground ==
    /\ \/ \E t \in tokens : TokenExpires(t)
       \/ ReconcileApplied \/ ReconcileUnknown
       \/ Crash \/ Spawn \/ Reconnect
    /\ UNCHANGED goVars

TaskStep(w) ==
    \/ \E op \in Op : \/ Select(w, op) \/ LoadUnknownIntent(w, op)
                      \/ RetryPendingAcknowledgement(w, op)
    \/ HoldBeforeSideEffect(w) \/ ClaimIntent(w)
    \/ PreflightEffect(w) \/ PreflightRejected(w) \/ FinalizePreflightHold(w)
    \/ ExecuteEffect(w) \/ GiveUp(w) \/ MarkUnknown(w) \/ Finalize(w)
    \/ AckServed(w) \/ AckRefused(w) \/ MarkAcked(w) \/ RecordAckFailure(w)
    \/ QueryEffectReadback(w) \/ Converge(w)
    \/ Stop(w) \/ Shutdown(w)

SysNext ==
    \/ \E op \in Op : \/ Create(op) \/ Activate(op) \/ DeadlinePasses(op)
                      \/ ClaimLeaseExpires(op) \/ FenceExpiredClaims(op)
    \/ RecordAssignment
    \/ \E w \in Worker : TaskStep(w)
    \/ \E m \in net : DeliverExecute(m) \/ DropExecute(m)
    \/ EdgeStep \/ EdgeReply \/ EdgeBackground

SysSpec == SysInit /\ [][SysNext]_vars

(* A task ends at the latest with its context, a lease runs out by the     *)
(* clock of the database, and the maintenance loop fences every two        *)
(* seconds.  Nothing else is assumed: not that a task gets further than    *)
(* its first step, nor that the actor is assigned or answers.              *)
Fairness ==
    /\ \A op \in Op : WF_vars(ClaimLeaseExpires(op)) /\ WF_vars(FenceExpiredClaims(op))
    /\ \A w \in Worker : WF_vars(Stop(w))

FairSysSpec == SysSpec /\ Fairness

-----------------------------------------------------------------------------
(* Properties *)

SysTypeOK ==
    /\ TypeOK
    /\ intent \in [Op -> {"absent", "unclaimed", "claimed", "unknown", "finalized", "hold"}]
    /\ fenceOf \in [Op -> 0..MaxEpoch] /\ assigned \in 0..MaxEpoch
    /\ due \in [Op -> BOOLEAN] /\ leaseOver \in [Op -> BOOLEAN]
    /\ owner \in [Op -> Worker \cup {None}]
    /\ attempts \in [Op -> 0..MaxAttempts]
    /\ act \in [Op -> {"none", "prepared", "reconciling", "hold", "applied"}]
    /\ acks \in [Op -> Ack]
    /\ job \in [Worker -> Job \cup {None}]
    /\ net \subseteq Request
    /\ ran \in [Op -> Nat] /\ touched \subseteq Op

(* An approved effect begins on the switch at most once, whatever claims   *)
(* are lost, tasks stop, leases expire and messages arrive late ("no       *)
(* second intent, no blind retry", dispatcher.go:28).                      *)
AtMostOnce == \A op \in Op : ran[op] <= 1

(* A hold in the ledger means the switch was never touched for it: no      *)
(* outcome that is merely unknown is filed as a hold.                      *)
HoldMeansUntouched == \A op \in Op : intent[op] = "hold" => op \notin touched

(* Outside an open activation the ledger's binding is the truth about the  *)
(* switch: selector and rules are those of the last finalized baseline.    *)
BindingIsTrue ==
    (\A op \in Op : ~Open(op) /\ intent[op] # "claimed") =>
        IF binding.op = None THEN bank[selector] = Empty
        ELSE selector = binding.bank /\ bank[selector] = BodyOf[binding.op]

(* The rules packets are matched against are always one whole rule set: no *)
(* bank is written while the selector points at it, although each plan     *)
(* fixes its bank at preflight and requests may arrive late.               *)
ActiveBankWhole == bank[selector] # Mixed

(* The actor forgets an operation only after the ledger holds its result   *)
(* and the acknowledgement row that names it ("post-PostgreSQL journal     *)
(* checkpoint", dispatcher.go:480).                                        *)
ForgottenAfterCommit ==
    [][jbase' # jbase =>
        /\ intent[LastRec.op] = IF LastRec.status = "applied" THEN "finalized" ELSE "hold"
        /\ acks[LastRec.op].rec = LastRec]_vars

(* An outcome in the ledger is final: "An old-lease late result does NOT   *)
(* overwrite new facts" (dispatcher.go:116).                               *)
OutcomeIsFinal ==
    [][\A op \in Op : intent[op] \in {"finalized", "hold"} => intent'[op] = intent[op]]_vars

(* A claim never outlives its owner for good: it ends in an outcome, or    *)
(* FenceExpiredClaims turns it over to reconciliation.                     *)
ClaimsEnd == \A op \in Op : intent[op] = "claimed" ~> intent[op] # "claimed"

(* The ledger never says more than happened: a hold was never written to   *)
(* the switch, and the binding that FinalizeActivation projects is what    *)
(* the switch runs.                                                        *)
LedgerIsTrue == SysTypeOK /\ HoldMeansUntouched /\ BindingIsTrue
=============================================================================
