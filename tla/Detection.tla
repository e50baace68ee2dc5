------------------------------ MODULE Detection ------------------------------
(***************************************************************************)
(* The detection path of one target (edge-rs/src/actor.rs, inference.rs):  *)
(* final windows go to the input WAL, in batches through the one committed *)
(* inference route to the result WAL, and from there to the control core,  *)
(* whose ACK checkpoints the source, input and result WALs, in this order. *)
(* The route changes by PrepareRoute, CommitRoute and ResumeRoute; each    *)
(* stage is a record of the route journal, restored after a crash.         *)
(*                                                                         *)
(* Window w is finalized from source record w, when the snapshot of a      *)
(* later window arrives or when the source has been idle for long enough   *)
(* (module Telemetry has the source itself).  Each window has one snapshot *)
(* here; a partial snapshot, the first one whose bank was not watched from *)
(* its start, makes its window one that is never offered to inference.     *)
(* A WAL is its pending records and its checkpoint; an append is atomic    *)
(* (module Wal).  A route stands for its whole identity tuple; its binding *)
(* digest is that of its generation.                                       *)
(* Prepare and Commit are requests of the environment (ModelRollout has    *)
(* the control core that sends them), and so is what the control core      *)
(* answers to a batch of results.                                          *)
(***************************************************************************)
EXTENDS Integers, Sequences, FiniteSets

CONSTANTS Op,         \* rollout operation ids
          Gen,        \* pool generations
          Deadline,   \* deadlines of committed-binding handshakes
          Batch,      \* inference_batch_records
          InputLimit, \* input records at the critical watermark
          MaxWindow,  \* model bound: windows the source has snapshots of
          MaxEpoch,   \* model bound: route epochs
          MaxCrash,   \* model bound: crashes of the actor
          None

ASSUME GenAssumption   == Gen \subseteq Nat \ {0}
ASSUME BatchAssumption == Batch \in Nat \ {0} /\ InputLimit \in Nat \ {0}
ASSUME BoundAssumption == {MaxWindow, MaxEpoch, MaxCrash} \subseteq Nat

VARIABLES
    srcck, seen, \* source WAL: its checkpoint, its last snapshot
    inck, inputs, \* input WAL: its checkpoint, the InferenceRecords behind it
    results,    \* result WAL: the pending batch and its ACK, or None
    journal,    \* route journal: its last RouteWalRecord
    events,     \* PostgreSQL: the canonical Events
    pc,         \* the actor is down, replays the source WAL, waits for its
                \* next tick or command, or is between two durable steps
    known,      \* known_input_ids
    nextw,      \* the window that is final next
    rstate,     \* InferenceRouter.state
    route,      \* InferenceRouter.route
    committed,  \* committed_resume
    recovering, \* route_recovery is some
    started,    \* active_bank_started_ms is some
    partial,    \* source WAL: the windows whose snapshot is not valid
    refused,    \* history: windows dropped at the critical watermark
    reopened,   \* history: windows that a crash made open again after the
                \* idle timer had closed them
    crashes

disk   == <<srcck, seen, inck, inputs, results, journal>>
router == <<rstate, route, committed>>
memory == <<pc, known, nextw, router, recovering>>
source == <<started, partial, reopened>>
vars   == <<disk, events, memory, source, refused, crashes>>

Window    == 1..MaxWindow
Epoch     == 1..MaxEpoch
Route     == [op : Op, gen : Gen, epoch : Epoch]
Handshake == [route : Route, deadline : Deadline]
Input     == [win : Window, route : Route \cup {None}]
Results   == [recs : Seq(Input), upto : Nat, acked : BOOLEAN]
(* The key of an Event is its window and route; `batch` stands for the     *)
(* digests of the durable result it was made from.                         *)
Event     == [win : Window, route : Route, batch : Nat]
Stage     == {"prepared", "ready", "active"}
RouteRecord == [stage : Stage, route : Route \cup {None},
                hs : Handshake \cup {None}]

ASSUME NoneAssumption == None \notin RouteRecord \cup Route

TypeOK ==
    /\ srcck \in 0..MaxWindow /\ seen \in 0..MaxWindow
    /\ inck \in Nat /\ inputs \in Seq(Input)
    /\ results \in Results \cup {None}
    /\ journal \in RouteRecord \cup {None}
    /\ events \subseteq Event
    /\ pc \in {"down", "replay", "idle", "rebind", "ckInput", "ckResult"}
    /\ known \subseteq Window /\ nextw \in 1..(MaxWindow + 1)
    /\ rstate \in {"withdrawn", "draining", "ready", "active", "hold"}
    /\ route \in Route \cup {None} /\ committed \in Handshake \cup {None}
    /\ recovering \in BOOLEAN /\ refused \subseteq Window
    /\ started \in BOOLEAN /\ partial \subseteq Window /\ reopened \subseteq Window
    /\ crashes \in 0..MaxCrash

Bound(r)    == r.route # None
Wins(recs)  == {recs[i].win : i \in DOMAIN recs}
HasBound    == \E i \in DOMAIN inputs : Bound(inputs[i])
Drained     == results = None /\ ~HasBound
Idle        == pc = "idle"
Up          == pc \notin {"down", "replay"}
-----------------------------------------------------------------------------
(* An actor that has just been assigned, without a route, or one that has  *)
(* served its first route for a while and has nothing pending.             *)
Init ==
    /\ srcck = 0 /\ seen = 0 /\ inck = 0 /\ inputs = <<>> /\ results = None
    /\ events = {} /\ pc = "idle" /\ known = {} /\ nextw = 1
    /\ recovering = FALSE /\ refused = {} /\ crashes = 0
    /\ partial = {} /\ reopened = {}
    /\ \/ /\ journal = None /\ rstate = "withdrawn"
          /\ route = None /\ committed = None /\ started = FALSE
       \/ \E h \in Handshake :
             /\ h.route.epoch = 1
             /\ journal = [stage |-> "active", route |-> h.route, hs |-> h]
             /\ rstate = "active" /\ route = h.route /\ committed = h /\ started = TRUE
-----------------------------------------------------------------------------
(* Route commands.  Can... is the chain of early returns of the handler.   *)

CanPrepare(cur, prop) ==
    /\ Idle /\ ~recovering
    /\ prop > cur
    /\ IF route = None THEN cur = 0 ELSE route.epoch = cur

PrepareRoute(cur, prop) ==
    /\ CanPrepare(cur, prop)
    /\ rstate' = "draining"
    /\ journal' = [stage |-> "prepared", route |-> route, hs |-> committed]
    /\ UNCHANGED <<srcck, seen, inck, inputs, results, events, pc, known, nextw,
                   route, committed, recovering, refused, crashes, source>>

(* Mutant: only the result WAL is drained before the route is replaced. *)
CanCommitUndrained(r) ==
    /\ Idle /\ ~recovering /\ results = None
    /\ \/ rstate = "ready" /\ route = r
       \/ rstate = "draining" /\ (route # None => r.epoch > route.epoch)

CanCommit(r) ==
    /\ Idle /\ ~recovering /\ Drained
    /\ \/ rstate = "ready" /\ route = r
       \/ rstate = "draining" /\ (route # None => r.epoch > route.epoch)

(* The central pool answers the binding readback (or not: no change). *)
CommitRoute(r) ==
    /\ CanCommit(r)
    /\ rstate' = "ready" /\ route' = r /\ committed' = None
    /\ journal' = [stage |-> "ready", route |-> r, hs |-> None]
    /\ UNCHANGED <<srcck, seen, inck, inputs, results, events, pc, known, nextw,
                   recovering, refused, crashes, source>>

(* Mutant: the handshake is not compared with the prepared route. *)
CanResumeAny(h) ==
    /\ Idle /\ ~recovering
    /\ \/ rstate = "active" /\ committed = h
       \/ rstate = "ready"

(* A duplicate of the handshake that made the route active is answered,    *)
(* every other handshake of an active route is a fence mismatch.           *)
CanResume(h) ==
    /\ Idle /\ ~recovering
    /\ \/ rstate = "active" /\ committed = h
       \/ rstate = "ready" /\ h.route = route

ResumeRoute(h) ==
    /\ CanResume(h)
    /\ rstate' = "active" /\ committed' = h
    /\ journal' = [stage |-> "active", route |-> route, hs |-> h]
    /\ UNCHANGED <<srcck, seen, inck, inputs, results, events, pc, known, nextw,
                   route, recovering, refused, crashes, source>>
-----------------------------------------------------------------------------
(* Recovery of the route from the last record of the journal.  The stages  *)
(* that carry a route read its binding back from the central pool again.   *)

FinishRouteRecovery ==
    /\ Idle /\ recovering
    /\ recovering' = FALSE
    /\ route' = journal.route
    /\ committed' = journal.hs
    /\ rstate' = CASE journal.stage = "prepared" -> "draining"
                   [] journal.stage = "ready"    -> "ready"
                   [] journal.stage = "active"   -> "active"
    /\ UNCHANGED <<disk, events, pc, known, nextw, refused, crashes, source>>

(* The pool cannot be reached: the router was reset and is left prepared.  *)
RouteRecoveryFails ==
    /\ Idle /\ recovering /\ journal.route # None
    /\ rstate' = "draining"
    /\ UNCHANGED <<disk, events, pc, known, nextw, route, committed,
                   recovering, refused, crashes, source>>
-----------------------------------------------------------------------------
(* Admission: a final window of valid quality becomes a record, bound to   *)
(* the route if the route is active and route-neutral otherwise.  At the   *)
(* critical watermark it is dropped.                                       *)

Full == Len(inputs) >= InputLimit
Final(w) ==
    LET rec     == [win |-> w, route |-> IF rstate = "active" THEN route ELSE None]
        offered == w \notin known /\ w \notin partial
    IN /\ inputs' = IF offered /\ ~Full THEN Append(inputs, rec) ELSE inputs
       /\ known' = IF offered /\ ~Full THEN known \cup {w} ELSE known
       /\ refused' = IF offered /\ Full THEN refused \cup {w} ELSE refused

(* A snapshot of the next window makes the open window final.  It is       *)
(* partial when the start of its bank is not known.                        *)
PushSnapshot ==
    /\ Idle /\ seen < MaxWindow
    /\ seen' = seen + 1
    /\ nextw' = seen + 1
    /\ IF nextw = seen /\ seen > 0 THEN Final(seen)
                               ELSE UNCHANGED <<inputs, known, refused>>
    /\ partial' = IF started THEN partial ELSE partial \cup {seen + 1}
    /\ started' = TRUE
    /\ UNCHANGED <<srcck, inck, results, journal, events, pc, router,
                   recovering, reopened, crashes>>

(* WindowEngine::tick after idle_source_timeout_ms without a snapshot. *)
IdleClose ==
    /\ Idle /\ nextw = seen /\ seen > 0
    /\ nextw' = seen + 1
    /\ Final(seen)
    /\ UNCHANGED <<srcck, seen, inck, results, journal, events, pc, router,
                   recovering, crashes, source>>
-----------------------------------------------------------------------------
(* The records one tick looks at. *)
View == SubSeq(inputs, 1, IF Len(inputs) < Batch THEN Len(inputs) ELSE Batch)

CanProcess ==
    /\ Idle /\ rstate \in {"active", "draining"}
    /\ results = None /\ inputs # <<>>

(* A route-neutral head is copied, bound, to the tail of the log, and then *)
(* checkpointed; a copy that the view already shows is not repeated.       *)
RebindHead ==
    /\ CanProcess /\ ~Bound(inputs[1]) /\ rstate = "active"
    /\ LET durable == \E i \in 2..Len(View) :
                         /\ View[i].win = inputs[1].win /\ Bound(View[i])
                         /\ View[i].route.epoch = route.epoch
       IN inputs' = IF durable THEN inputs
                    ELSE Append(inputs, [inputs[1] EXCEPT !.route = route])
    /\ pc' = "rebind"
    /\ UNCHANGED <<srcck, seen, inck, results, journal, events, known, nextw,
                   router, recovering, refused, crashes, source>>

RebindCheckpoint ==
    /\ pc = "rebind"
    /\ inputs' = Tail(inputs) /\ inck' = inck + 1 /\ pc' = "idle"
    /\ UNCHANGED <<srcck, seen, results, journal, events, known, nextw, router,
                   recovering, refused, crashes, source>>

(* The records at the head of the view that are bound to one epoch. *)
Prefix ==
    LET n == CHOOSE k \in 0..Len(View) :
                /\ \A i \in 1..k : Bound(View[i]) /\ View[i].route.epoch = View[1].route.epoch
                /\ k < Len(View) =>
                     ~(Bound(View[k+1]) /\ View[k+1].route.epoch = View[1].route.epoch)
    IN SubSeq(View, 1, n)

(* validate_inference_records: no window twice, every record on the route. *)
CanInfer ==
    /\ CanProcess /\ Bound(inputs[1]) /\ route # None
    /\ \A i \in DOMAIN Prefix : Prefix[i].route = route
    /\ Cardinality(Wins(Prefix)) = Len(Prefix)

Infer ==
    /\ CanInfer
    /\ results' = [recs |-> Prefix, upto |-> inck + Len(Prefix), acked |-> FALSE]
    /\ UNCHANGED <<srcck, seen, inck, inputs, journal, events, memory, refused, crashes, source>>

(* The response of the pool crosses a fence: the route is held. *)
InferDrift ==
    /\ CanInfer
    /\ rstate' = "hold"
    /\ UNCHANGED <<disk, events, pc, known, nextw, route, committed,
                   recovering, refused, crashes, source>>
-----------------------------------------------------------------------------
(* Delivery.  The control core commits the records that do not conflict    *)
(* with an Event of the same key, and the batch is acknowledged when none  *)
(* did and the reply arrives.                                              *)

EventOf(i) == [win |-> results.recs[i].win, route |-> results.recs[i].route,
               batch |-> results.upto]
Conflicts(e) == \E f \in events : f.win = e.win /\ f.route = e.route /\ f # e
NewEvents == {EventOf(i) : i \in DOMAIN results.recs}

CommitResults(replied) ==
    /\ Idle /\ results # None /\ ~results.acked
    /\ events' = events \cup {e \in NewEvents : ~Conflicts(e)}
    /\ results' = [results EXCEPT !.acked = replied /\ ~(\E e \in NewEvents : Conflicts(e))]
    /\ UNCHANGED <<srcck, seen, inck, inputs, journal, memory, refused, crashes, source>>

MaxWin(recs) == CHOOSE w \in Wins(recs) : \A v \in Wins(recs) : v <= w

(* The three checkpoints behind a durable ACK; a checkpoint never moves    *)
(* back, and a refused one ends the tick.                                  *)
CheckpointSource ==
    /\ Idle /\ results # None /\ results.acked
    /\ MaxWin(results.recs) >= srcck
    /\ srcck' = MaxWin(results.recs) /\ pc' = "ckInput"
    /\ UNCHANGED <<seen, inck, inputs, results, journal, events, known, nextw,
                   router, recovering, refused, crashes, source>>

(* Mutant: the input WAL is checkpointed at its last sequence. *)
CheckpointAllInputs ==
    /\ pc = "ckInput"
    /\ inputs' = <<>>
    /\ inck' = inck + Len(inputs) /\ pc' = "ckResult"
    /\ UNCHANGED <<srcck, seen, results, journal, events, known, nextw, router,
                   recovering, refused, crashes, source>>

CheckpointInput ==
    /\ pc = "ckInput"
    /\ inputs' = SubSeq(inputs, results.upto - inck + 1, Len(inputs))
    /\ inck' = results.upto /\ pc' = "ckResult"
    /\ UNCHANGED <<srcck, seen, results, journal, events, known, nextw, router,
                   recovering, refused, crashes, source>>

CheckpointResult ==
    /\ pc = "ckResult"
    /\ results' = None /\ known' = known \ Wins(results.recs) /\ pc' = "idle"
    /\ UNCHANGED <<srcck, seen, inck, inputs, journal, events, nextw, router,
                   recovering, refused, crashes, source>>
-----------------------------------------------------------------------------
(* The idle close is not durable: the window it closed is open again when  *)
(* the source checkpoint has not passed it.                                *)
Crash ==
    /\ pc # "down" /\ crashes < MaxCrash
    /\ crashes' = crashes + 1
    /\ pc' = "down" /\ known' = {} /\ rstate' = "withdrawn"
    /\ route' = None /\ committed' = None /\ recovering' = FALSE
    /\ started' = FALSE
    /\ reopened' = IF nextw > seen /\ srcck < seen THEN reopened \cup {seen} ELSE reopened
    /\ UNCHANGED <<disk, events, nextw, partial, refused>>

(* Mutant: the identities of the pending inputs are not recovered. *)
RestartForgets ==
    /\ pc = "down"
    /\ pc' = "replay" /\ known' = {} /\ nextw' = srcck + 1 /\ started' = (srcck < seen)
    /\ UNCHANGED <<disk, events, router, recovering, refused, crashes, partial, reopened>>

Restart ==
    /\ pc = "down"
    /\ pc' = "replay" /\ known' = Wins(inputs) /\ nextw' = srcck + 1
    /\ started' = (srcck < seen)
    /\ UNCHANGED <<disk, events, router, recovering, refused, crashes, partial, reopened>>

(* The snapshots behind the source checkpoint are pushed again: all but    *)
(* the last window become final again.  A window that is known or partial  *)
(* is skipped, and one that the watermark refuses fails the spawn.         *)
ReplayWindow ==
    /\ pc = "replay" /\ nextw < seen
    /\ nextw' = nextw + 1
    /\ IF nextw \in known \cup partial THEN UNCHANGED <<inputs, known, pc>>
       ELSE IF Full THEN pc' = "down" /\ known' = {} /\ UNCHANGED inputs
       ELSE /\ inputs' = Append(inputs, [win |-> nextw, route |-> None])
            /\ known' = known \cup {nextw} /\ UNCHANGED pc
    /\ UNCHANGED <<srcck, seen, inck, results, journal, events, router,
                   recovering, refused, crashes, source>>

Spawn ==
    /\ pc = "replay" /\ nextw >= seen
    /\ pc' = "idle" /\ recovering' = (journal # None)
    /\ UNCHANGED <<disk, events, known, nextw, router, refused, crashes, source>>

EdgeStep ==
    \/ FinishRouteRecovery \/ RouteRecoveryFails
    \/ PushSnapshot \/ IdleClose \/ RebindHead \/ RebindCheckpoint \/ Infer \/ InferDrift
    \/ CheckpointSource \/ CheckpointInput \/ CheckpointResult
    \/ Crash \/ Restart \/ ReplayWindow \/ Spawn

Next ==
    \/ EdgeStep
    \/ \E cur \in 0..MaxEpoch, prop \in Epoch : PrepareRoute(cur, prop)
    \/ \E r \in Route : CommitRoute(r)
    \/ \E h \in Handshake : ResumeRoute(h)
    \/ \E replied \in BOOLEAN : CommitResults(replied)

Spec == Init /\ [][Next]_vars
-----------------------------------------------------------------------------
(* A window has at most one canonical Event, whatever is sent again after  *)
(* a lost ACK, a restart or a change of the route (process_pending_inputs, *)
(* process_pending_results, ingestOne), except a window that the idle      *)
(* timer had closed and that a crash opened again before the source        *)
(* checkpoint passed it (WindowEngine::tick, recover_source_state): that   *)
(* one may be admitted a second time.                                      *)
OneEvent == \A e, f \in events : e.win = f.win => e = f \/ e.win \in reopened

(* What OneEvent says without its exception; TLC refutes it.               *)
OneEventEver == \A e, f \in events : e.win = f.win => e = f

(* Every route-bound record that is still pending, in the input or the     *)
(* result WAL, can be served by the route the journal restores: the route  *)
(* is replaced only behind a drain (commit_route,                          *)
(* has_route_bound_pending_inputs).                                        *)
BoundOnRoute ==
    LET pending == {inputs[i] : i \in DOMAIN inputs} \cup
                   (IF results = None THEN {} ELSE {results.recs[i] : i \in DOMAIN results.recs})
    IN /\ \A r \in pending : Bound(r) => journal # None /\ r.route = journal.route
       /\ Up /\ ~recovering /\ journal # None => route = journal.route

(* The source checkpoint passes no window that is neither a canonical      *)
(* Event, nor pending in the input WAL, nor refused at the watermark, nor  *)
(* withheld from inference for its quality (process_pending_results,       *)
(* admit_window_advance, WindowEngine::finalize).                          *)
NothingLost ==
    \A w \in 1..srcck :
        w \in {e.win : e \in events} \cup Wins(inputs) \cup refused \cup partial

(* Every pending record can be served by the route that a restart would    *)
(* restore from the journal (commit_route, finish_route_recovery).         *)
RouteSound == TypeOK /\ BoundOnRoute
=============================================================================
