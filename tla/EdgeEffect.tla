----------------------------- MODULE EdgeEffect -----------------------------
(***************************************************************************)
(* The effect path of one target actor of the Edge agent                   *)
(* (edge-rs/src/actor.rs, with firewall.rs and p4runtime.rs): preflight,   *)
(* execute, acknowledge, the effect journal and its recovery, against a    *)
(* switch whose writes may be lost or land in part.                        *)
(*                                                                         *)
(* The actor is one task, so a command runs to its end before the next;    *)
(* the steps of execute are separate here because the process may crash    *)
(* between any two of them.  The journal is a DurableLog: base is its      *)
(* checkpoint and tail what a restart replays.                             *)
(*                                                                         *)
(* The switch is reduced to what the properties tell apart: two policy     *)
(* banks, the selector and the overlay slots, each holding the whole body  *)
(* of one operation, nothing, or a mixture.  A Write whose response is     *)
(* lost has landed wholly, partly or not at all by the time the following  *)
(* Read is answered.  execute reads a whole bank back; recovery reads only *)
(* the keys of its plan, so it cannot see what else the bank holds.        *)
(***************************************************************************)
EXTENDS Integers, Sequences, FiniteSets

CONSTANTS
    Op,             \* effect operations (operation id, intent id and digest)
    Kind,           \* Kind[op]: "baseline", "upsert" or "delete"
    Slot,           \* overlay rule slots
    SlotOf,         \* SlotOf[op]: the slot an overlay operation addresses
    Body,           \* rule sets
    BodyOf,         \* BodyOf[op]: the rule set of a baseline or an upsert
    TokenLimit,     \* preflights.len() bound of preflight
    JournalFaults,  \* model bound: journal appends that fail in a live process
    MaxToken,       \* model bound: tokens issued
    MaxEpoch,       \* model bound: actor incarnations
    CanExpire,      \* whether a WAL record may outlive max_age_seconds
    None

(* A bounded capture is not here: compile refuses it at preflight. *)
Kinds == {"baseline", "upsert", "delete"}
Empty == "empty"
Mixed == "mixed"

ASSUME EffectAssumption ==
    /\ Kind \in [Op -> Kinds]
    /\ SlotOf \in [Op -> Slot]
    /\ BodyOf \in [Op -> Body]
    /\ Empty \notin Body /\ Mixed \notin Body
    /\ TokenLimit \in Nat /\ JournalFaults \in Nat
    /\ MaxToken \in Nat /\ MaxEpoch \in Nat
    /\ CanExpire \in BOOLEAN

VARIABLES
    bank, selector, overlay,     \* the switch
    jbase, jtail,                \* the effect journal on disk
    overActive,                  \* history: the newest WriteStarted names the selected bank
    expired,                     \* disk: which log holds a record past its age limit
    up,                          \* the actor runs
    epoch,                       \* its actor_runtime_epoch
    state,                       \* ActorState
    session,                     \* P4Session: "none", "exact" or "drifted" pipeline
    lease,                       \* now < lease_deadline
    held,                        \* wal_retention_hold
    tokens, issued,              \* preflights, and how many were ever issued
    pending,                     \* pending_effect_ack
    recovered,                   \* recovered_effect
    exec,                        \* the execute command under way
    faults                       \* journal appends that have failed

switch  == <<bank, selector, overlay>>
journal == <<jbase, jtail, overActive>>
conn    == <<up, epoch, state, session, lease, held, expired>>
work    == <<tokens, issued, pending, recovered, exec>>
edgeVars == <<switch, journal, conn, work, faults>>

Banks    == {0, 1}
Content  == Body \cup {Empty, Mixed}
Statuses == {"started", "applied", "hold", "unknown"}

(* EffectJournalRecord: the intent with its fence, the compiled plan (only *)
(* the bank it stages is kept) and the result.  `by` tells the result of   *)
(* execute from that of recovery: their digests differ.                    *)
Record == [op : Op, fence : 0..MaxEpoch, bank : Banks,
           status : Statuses, by : {"execute", "recovery"}]
Token   == [id : 1..MaxToken, op : Op, bank : Banks]
Pending == [rec : Record, seq : Nat]
Recovered == [rec : Record, last : Statuses]
Steps   == {"begin", "staging", "staged", "applied", "hold", "unknown"}
Exec    == [op : Op, fence : 0..MaxEpoch, bank : Banks, step : Steps]

ASSUME NoneAssumption == None \notin Pending \cup Recovered \cup Exec

LastSeq == jbase + Len(jtail)
LastRec == jtail[Len(jtail)]

-----------------------------------------------------------------------------
(* The switch holds the plan and nothing else where the plan applies: what *)
(* the readbacks of apply_plan, which read a whole bank, establish.        *)
Matches(op, b) ==
    CASE Kind[op] = "baseline" -> bank[b] = BodyOf[op] /\ selector = b
      [] Kind[op] = "upsert"   -> overlay[SlotOf[op]] = BodyOf[op]
      [] OTHER                 -> overlay[SlotOf[op]] = Empty

(* readback_plan asks for the keys of the plan, the default entry and the  *)
(* selector.  A bank that holds more than the plan, or the leavings of a   *)
(* staging, may answer like the plan or not.                               *)
ReadsExact(op, b) ==
    IF Kind[op] = "baseline" THEN selector = b /\ bank[b] # Empty ELSE Matches(op, b)
ReadsOther(op, b) == ~Matches(op, b)

(* require_write_ready *)
WriteReady == /\ up /\ exec = None
              /\ ~held /\ recovered = None
              /\ lease /\ state = "primary" /\ session = "exact"

(* verify_target_fence and the deadline of verify_intent_fence; `due` says *)
(* that the intent's deadline has passed.                                  *)
FenceOk(fence, due) == fence = epoch /\ ~due

(* journal.append_message succeeds, or fails and leaves the log as it is. *)
Journal(r) ==
    /\ jtail' = Append(jtail, r) /\ jbase' = jbase /\ faults' = faults
    /\ overActive' = IF r.status = "started" THEN selector = r.bank ELSE overActive
JournalFails == faults < JournalFaults /\ faults' = faults + 1 /\ UNCHANGED journal

Init ==
    /\ bank = [b \in Banks |-> Empty] /\ selector = 0
    /\ overlay = [s \in Slot |-> Empty]
    /\ jbase = 0 /\ jtail = <<>> /\ overActive = FALSE /\ expired = "none"
    /\ up = FALSE /\ epoch = 0 /\ state = "revoked" /\ session = "none"
    /\ lease = FALSE /\ held = FALSE
    /\ tokens = {} /\ issued = 0
    /\ pending = None /\ recovered = None /\ exec = None
    /\ faults = 0

-----------------------------------------------------------------------------
(* Commands *)

(* preflight compiles the intent against the bank that is inactive now and *)
(* keeps the plan under a fresh token.                                     *)
Preflight(op, fence) ==
    /\ WriteReady /\ FenceOk(fence, FALSE)
    /\ pending = None
    /\ Cardinality(tokens) < TokenLimit
    /\ issued < MaxToken
    /\ tokens' = tokens \cup {[id |-> issued + 1, op |-> op, bank |-> 1 - selector]}
    /\ issued' = issued + 1
    /\ UNCHANGED <<switch, journal, conn, pending, recovered, exec, faults>>

(* reverify_pipeline finds another pipeline: the preflight is refused and  *)
(* the session stays marked.                                               *)
PreflightDrift(fence) ==
    /\ WriteReady /\ FenceOk(fence, FALSE)
    /\ pending = None
    /\ session' = "drifted"
    /\ UNCHANGED <<switch, journal, up, epoch, state, lease, held, expired, work, faults>>

(* Mutant: execute does not look at pending_effect_ack. *)
ExecutableUnguarded(op, fence, t) ==
    /\ WriteReady /\ FenceOk(fence, FALSE)
    /\ t \in tokens

(* execute, up to the token: it is consumed whatever follows. *)
Executable(op, fence, t) ==
    /\ WriteReady /\ FenceOk(fence, FALSE)
    /\ pending = None
    /\ t \in tokens

(* Mutant: the plan is applied before it is journaled. *)
ExecuteUnjournaled(op, fence, t) ==
    /\ Executable(op, fence, t) /\ t.op = op
    /\ exec' = [op |-> op, fence |-> fence, bank |-> t.bank, step |-> "begin"]
    /\ tokens' = tokens \ {t}
    /\ UNCHANGED <<switch, journal, conn, issued, pending, recovered, faults>>

(* execute journals WriteStarted before it touches the switch. *)
Execute(op, fence, t) ==
    /\ Executable(op, fence, t) /\ t.op = op
    /\ Journal([op |-> op, fence |-> fence, bank |-> t.bank,
                status |-> "started", by |-> "execute"])
    /\ exec' = [op |-> op, fence |-> fence, bank |-> t.bank, step |-> "begin"]
    /\ tokens' = tokens \ {t}
    /\ UNCHANGED <<switch, conn, issued, pending, recovered>>

(* The token belongs to another effect digest, or WriteStarted could not   *)
(* be journaled: an error, nothing written, the token gone.                *)
ExecuteRefused(op, fence, t) ==
    /\ Executable(op, fence, t)
    /\ \/ t.op # op /\ UNCHANGED <<journal, faults>>
       \/ t.op = op /\ JournalFails
    /\ tokens' = tokens \ {t}
    /\ UNCHANGED <<switch, conn, issued, pending, recovered, exec>>

At(s)   == exec # None /\ exec.step = s
Goto(s) == exec' = [exec EXCEPT !.step = s]
idle    == <<journal, conn, tokens, issued, pending, recovered, faults>>

(* apply_baseline and apply_overlay_upsert read first; a failure there is  *)
(* a Hold, nothing having been written.                                    *)
ApplyReadFails ==
    /\ At("begin") /\ Kind[exec.op] \in {"baseline", "upsert"}
    /\ Goto("hold")
    /\ UNCHANGED <<switch, idle>>

(* apply_baseline clears the staged bank, sets its default and inserts the *)
(* entries, reading back after each; until then the bank is a mixture.     *)
StageBank ==
    /\ At("begin") /\ Kind[exec.op] = "baseline"
    /\ \/ bank' = [bank EXCEPT ![exec.bank] = Mixed] /\ Goto("staging")
       \/ bank' = bank /\ Goto("unknown")
    /\ UNCHANGED <<selector, overlay, idle>>

BankStaged ==
    /\ At("staging")
    /\ \/ bank' = [bank EXCEPT ![exec.bank] = BodyOf[exec.op]]
          /\ (Goto("staged") \/ Goto("unknown"))
       \/ bank' = bank /\ Goto("unknown")
    /\ UNCHANGED <<selector, overlay, idle>>

(* Mutant: the selector write is believed without a readback. *)
FlipSelectorUnread ==
    /\ At("staged")
    /\ selector' \in {selector, exec.bank}
    /\ Goto("applied")
    /\ UNCHANGED <<bank, overlay, idle>>

(* The selector is written last and read back. *)
FlipSelector ==
    /\ At("staged")
    /\ selector' \in {selector, exec.bank}
    /\ \/ selector' = exec.bank /\ Goto("applied")
       \/ Goto("unknown")
    /\ UNCHANGED <<bank, overlay, idle>>

(* apply_overlay_upsert and apply_overlay_delete: one batch of writes, of  *)
(* which any part may land, and a readback.                                *)
Wanted(op) == IF Kind[op] = "upsert" THEN BodyOf[op] ELSE Empty
WriteOverlay ==
    /\ At("begin") /\ Kind[exec.op] \in {"upsert", "delete"}
    /\ LET s == SlotOf[exec.op] IN
       \E c \in {overlay[s], Mixed, Wanted(exec.op)} :
          /\ overlay' = [overlay EXCEPT ![s] = c]
          /\ \/ c = Wanted(exec.op) /\ Goto("applied")
             \/ Goto("unknown")
    /\ UNCHANGED <<bank, selector, idle>>

Outcome == [op |-> exec.op, fence |-> exec.fence, bank |-> exec.bank,
            status |-> exec.step, by |-> "execute"]

(* execute journals the result, keeps it until its acknowledgement, and    *)
(* returns it.                                                             *)
FinishExecute ==
    /\ exec # None /\ exec.step \in {"applied", "hold", "unknown"}
    /\ Journal(Outcome)
    /\ pending' = [rec |-> Outcome, seq |-> LastSeq + 1]
    /\ exec' = None
    /\ UNCHANGED <<switch, conn, tokens, issued, recovered>>

(* The result cannot be journaled: execute returns the error. *)
ResultNotJournaled ==
    /\ exec # None /\ exec.step \in {"applied", "hold", "unknown"}
    /\ JournalFails
    /\ exec' = None
    /\ UNCHANGED <<switch, conn, tokens, issued, pending, recovered>>

(* Mutant: an unknown result may be acknowledged. *)
AckableUnknown(r) == /\ up /\ exec = None /\ pending # None /\ pending.rec = r

(* The conditions of acknowledge_effect, for the result r. *)
Ackable(r) == /\ up /\ exec = None /\ pending # None /\ pending.rec = r
              /\ r.status # "unknown" /\ recovered = None
              /\ expired # "journal"

(* acknowledge_effect, once PostgreSQL holds the result. *)
AcknowledgeEffect(r) ==
    /\ Ackable(r)
    /\ jbase' = pending.seq
    /\ jtail' = SubSeq(jtail, pending.seq - jbase + 1, Len(jtail))
    /\ pending' = None
    /\ UNCHANGED <<switch, overActive, conn, tokens, issued, recovered, exec, faults>>

(* renew by the holder of the lease; a session is primary until it is lost. *)
Renew ==
    /\ up /\ exec = None /\ ~held
    /\ lease' = (state # "revoked")
    /\ state' = IF session # "none" THEN "primary" ELSE state
    /\ UNCHANGED <<switch, journal, up, epoch, session, held, expired, work, faults>>

(* revoke *)
Revoke ==
    /\ up /\ exec = None
    /\ lease' = FALSE /\ state' = "revoked" /\ session' = "none" /\ tokens' = {}
    /\ UNCHANGED <<switch, journal, up, epoch, held, expired,
                   issued, pending, recovered, exec, faults>>

-----------------------------------------------------------------------------
(* maintain, every 20 ms *)

(* The retention fence latches: Hold, no session, no tokens. *)
RetentionExpires ==
    /\ CanExpire /\ up /\ exec = None /\ ~held
    /\ expired' \in {"other"} \cup IF jtail = <<>> THEN {} ELSE {"journal"}
    /\ held' = TRUE
    /\ state' = "hold" /\ session' = "none" /\ tokens' = {}
    /\ UNCHANGED <<switch, journal, up, epoch, lease, issued, pending, recovered, exec, faults>>

(* The lease runs out and maintain notices. *)
LeaseExpires ==
    /\ up /\ exec = None /\ lease /\ ~held
    /\ lease' = FALSE
    /\ state' = "readonly"
    /\ tokens' = {}
    /\ UNCHANGED <<switch, journal, up, epoch, session, held, expired,
                   issued, pending, recovered, exec, faults>>

(* drain_stream_events: mastership lost, or the stream broke. *)
SessionLost ==
    /\ up /\ exec = None /\ ~held /\ session # "none"
    /\ session' = "none" /\ state' \in {"readonly", "hold"}
    /\ UNCHANGED <<switch, journal, up, epoch, lease, held, expired, work, faults>>

Reconnect ==
    /\ up /\ exec = None /\ ~held /\ session = "none"
    /\ lease /\ state # "revoked"
    /\ \/ session' = "exact" /\ state' = "primary"
       \/ session' = "none" /\ state' = "hold"
    /\ UNCHANGED <<switch, journal, up, epoch, lease, held, expired, work, faults>>

TokenExpires(t) ==
    /\ up /\ exec = None /\ ~held /\ t \in tokens
    /\ tokens' = tokens \ {t}
    /\ UNCHANGED <<switch, journal, conn, issued, pending, recovered, exec, faults>>

Recovering == up /\ exec = None /\ ~held /\ session # "none" /\ recovered # None

(* reconcile_recovered_effect only reads: a readback that matches becomes  *)
(* an Applied result, a mismatch an Unknown one, journaled once.           *)
RecoveryResult(s) == [recovered.rec EXCEPT !.status = s, !.by = "recovery"]

ReconcileApplied ==
    /\ Recovering /\ ReadsExact(recovered.rec.op, recovered.rec.bank)
    /\ Journal(RecoveryResult("applied"))
    /\ pending' = [rec |-> RecoveryResult("applied"), seq |-> LastSeq + 1]
    /\ recovered' = None
    /\ UNCHANGED <<switch, conn, tokens, issued, exec>>

ReconcileUnknown ==
    /\ Recovering /\ ReadsOther(recovered.rec.op, recovered.rec.bank)
    /\ recovered.last # "unknown"
    /\ Journal(RecoveryResult("unknown"))
    /\ pending' = [rec |-> RecoveryResult("unknown"), seq |-> LastSeq + 1]
    /\ recovered' = [recovered EXCEPT !.last = "unknown"]
    /\ UNCHANGED <<switch, conn, tokens, issued, exec>>

(* A read or the append fails: maintain puts the actor on Hold. *)
ReconcileFails ==
    /\ Recovering
    /\ state' = "hold"
    /\ UNCHANGED <<switch, journal, up, epoch, session, lease, held, expired, work, faults>>

-----------------------------------------------------------------------------
(* Process life *)

(* The process dies, or the actor is shut down to be assigned again. *)
Crash ==
    /\ up
    /\ up' = FALSE /\ state' = "revoked" /\ session' = "none" /\ lease' = FALSE /\ held' = FALSE
    /\ tokens' = {} /\ pending' = None /\ recovered' = None /\ exec' = None
    /\ UNCHANGED <<switch, journal, epoch, expired, issued, faults>>

(* recover_effect_journal: the whole tail belongs to one operation, or the *)
(* actor does not start.                                                   *)
Key(r) == <<r.op, r.fence>>
Recoverable == \A i, j \in DOMAIN jtail : Key(jtail[i]) = Key(jtail[j])

(* What replay leaves in memory: the last result that was journaled, and   *)
(* the operation itself unless that result is final.                       *)
ReplayedPending ==
    LET results == {i \in DOMAIN jtail : jtail[i].status # "started"}
    IN  IF results = {} THEN None
        ELSE LET i == CHOOSE i \in results : \A k \in results : k <= i
             IN  [rec |-> jtail[i], seq |-> jbase + i]

(* Mutant: an operation without a result is taken for one that never ran. *)
ReplayedRecoveredResults ==
    IF jtail = <<>> \/ LastRec.status # "unknown"
    THEN None ELSE [rec |-> LastRec, last |-> LastRec.status]

ReplayedRecovered ==
    IF jtail = <<>> \/ LastRec.status \in {"applied", "hold"}
    THEN None ELSE [rec |-> LastRec, last |-> LastRec.status]

(* spawn, under a fresh actor_runtime_epoch (supervisor assign). *)
Spawn ==
    /\ ~up /\ epoch < MaxEpoch
    /\ expired = "none" => Recoverable
    /\ up' = TRUE /\ epoch' = epoch + 1
    /\ lease' = TRUE /\ held' = (expired # "none")
    /\ \/ expired = "none" /\ session' = "exact" /\ state' = "primary"
       \/ session' = "none" /\ state' = "hold"
    /\ pending' = IF expired # "none" THEN None ELSE ReplayedPending
    /\ recovered' = IF expired # "none" THEN None ELSE ReplayedRecovered
    /\ UNCHANGED <<switch, journal, expired, tokens, issued, exec, faults>>

-----------------------------------------------------------------------------
ActorStep ==
    \/ ApplyReadFails \/ StageBank \/ BankStaged \/ FlipSelector \/ WriteOverlay

Background ==
    \/ RetentionExpires \/ LeaseExpires \/ SessionLost \/ Reconnect
    \/ \E t \in tokens : TokenExpires(t)
    \/ ReconcileApplied \/ ReconcileUnknown \/ ReconcileFails
    \/ Crash \/ Spawn

(* Any client, well behaved or not. *)
Next ==
    \/ \E op \in Op, fence \in 0..MaxEpoch :
          \/ Preflight(op, fence)
          \/ \E t \in tokens : Execute(op, fence, t) \/ ExecuteRefused(op, fence, t)
    \/ \E fence \in 0..MaxEpoch : PreflightDrift(fence)
    \/ Renew \/ Revoke
    \/ ActorStep \/ FinishExecute \/ ResultNotJournaled
    \/ \E r \in Record : AcknowledgeEffect(r)
    \/ Background

Spec == Init /\ [][Next]_edgeVars

(* maintain runs every 20 ms and an execute that started runs on, so their *)
(* steps are fair; that the switch is reachable again and again, and       *)
(* answers a read again and again, is the environment's part.              *)
FairSpec == /\ Spec
            /\ WF_edgeVars(ActorStep) /\ WF_edgeVars(FinishExecute)
            /\ SF_edgeVars(Reconnect /\ session' = "exact")
            /\ SF_edgeVars(ReconcileApplied) /\ SF_edgeVars(ReconcileUnknown)

-----------------------------------------------------------------------------
(* Properties *)

TypeOK ==
    /\ bank \in [Banks -> Content] /\ selector \in Banks
    /\ overlay \in [Slot -> Content]
    /\ jbase \in Nat /\ jtail \in Seq(Record) /\ overActive \in BOOLEAN
    /\ expired \in {"none", "other", "journal"}
    /\ up \in BOOLEAN /\ epoch \in 0..MaxEpoch
    /\ state \in {"primary", "readonly", "hold", "revoked"}
    /\ session \in {"none", "exact", "drifted"}
    /\ lease \in BOOLEAN /\ held \in BOOLEAN
    /\ tokens \subseteq Token /\ issued \in 0..MaxToken
    /\ pending \in Pending \cup {None}
    /\ recovered \in Recovered \cup {None}
    /\ exec \in Exec \cup {None}
    /\ faults \in 0..JournalFaults

(* The refusal of recover_effect_journal (actor.rs:1525) never fires: the  *)
(* uncheckpointed journal belongs to one operation, whatever the clients,  *)
(* the crashes and the recoveries do.  It holds until an append fails.     *)
SingleUntilFault == faults = 0 => Recoverable

(* A result is acknowledged by the sequence number kept with it: that is   *)
(* the last record of the journal, so the checkpoint drops the whole       *)
(* operation and nothing newer.                                            *)
PendingIsLast ==
    pending # None => /\ exec = None /\ jtail # <<>>
                      /\ pending.seq = LastSeq /\ pending.rec = LastRec

(* From the moment a result says Applied until it is acknowledged, the     *)
(* switch holds exactly that plan, through crashes, later preflights and   *)
(* calls of other clients.  One exception: the token of a baseline was     *)
(* compiled before another baseline took its bank, execute was cut before  *)
(* it had staged the selected bank anew, and recovery, which reads only    *)
(* the keys of the plan (actor.rs:1671-1682), found them there.  The       *)
(* selector is right then, the rest of the bank need not be.               *)
AppliedStaysTrue ==
    jtail # <<>> /\ LastRec.status = "applied" =>
       \/ Matches(LastRec.op, LastRec.bank)
       \/ /\ overActive /\ LastRec.by = "recovery"
          /\ Kind[LastRec.op] = "baseline" /\ selector = LastRec.bank

(* Without the exception; TLC refutes it. *)
AppliedIsExact ==
    jtail # <<>> /\ LastRec.status = "applied" => Matches(LastRec.op, LastRec.bank)

(* Recovery journals an unknown result once, however often maintain reads  *)
(* the switch and however often the process restarts.                      *)
JournalBounded == faults = 0 => Len(jtail) <= 3

(* The switch changes only on behalf of an operation whose WriteStarted is *)
(* the newest record of the journal.                                       *)
WriteAhead ==
    [][switch' # switch => /\ jtail # <<>> /\ LastRec.status = "started"
                           /\ exec # None /\ Key(LastRec) = Key(exec)]_edgeVars

(* The journal gives an operation up only when its outcome is known: the   *)
(* checkpoint moves over a final Applied or Hold and empties the journal.  *)
OnlySettledDropped ==
    [][jbase' # jbase => /\ jtail # <<>> /\ LastRec.status \in {"applied", "hold"}
                         /\ jtail' = <<>>]_edgeVars

(* A write whose outcome was lost in a crash gets a durable result, if the *)
(* actor stays up, keeps its lease, is not fenced by retention and every   *)
(* append succeeded.                                                       *)
RecoverySettles ==
    <>[](up /\ lease /\ ~held /\ faults = 0) => []<>(jtail = <<>> \/ LastRec.status # "started")

(* The journal stays fit for recover_effect_journal: until an append fails *)
(* it belongs to one operation and has at most three records, and also     *)
(* after a failure the result that is still to be acknowledged is its last *)
(* record.                                                                 *)
JournalSound == TypeOK /\ SingleUntilFault /\ PendingIsLast /\ JournalBounded
=============================================================================
