------------------------------ MODULE Telemetry ------------------------------
(***************************************************************************)
(* The telemetry source of one target (edge-rs/src/actor.rs, window.rs and *)
(* the counters of p4/src/masi_switch.p4).  The switch counts packets into *)
(* one of two banks.  The actor flips the selector, reads the bank that is *)
(* now frozen, makes the snapshot durable, clears the bank and finalizes   *)
(* the snapshot, and each stage is a record of the source WAL; a stage     *)
(* that fails is tried again by the next maintenance tick, from the        *)
(* records after a crash.  Finalized snapshots fill event-time windows;    *)
(* the canonical ACK of a window checkpoints the source WAL behind it.     *)
(* Digest hints share the log.                                             *)
(*                                                                         *)
(* The count of a bank is its aggregate counter, the one that snapshot and *)
(* clear are checked against; its cells are left out, and with them a      *)
(* clear that zeroes the aggregate and not every cell.  Time is the index  *)
(* of the current window, and the log is a DurableLog without its capacity *)
(* (module Wal).  A Write whose response is lost has landed or not by the  *)
(* time the following Read is answered.                                    *)
(***************************************************************************)
EXTENDS Integers, Sequences, FiniteSets

CONSTANTS MaxPackets,   \* model bound: packets counted
          MaxFlips,     \* model bound: freeze operations started
          MaxLives,     \* model bound: actor incarnations
          MaxHints,     \* model bound: digest hints received
          MaxWindow,    \* model bound: the last window index
          SlowPipeline, \* whether a packet may be in the pipeline while the
                        \* selector is flipped, read back and the bank read
          None

ASSUME SlowAssumption == SlowPipeline \in BOOLEAN
ASSUME BoundsAssumption == {MaxPackets, MaxFlips, MaxLives, MaxHints, MaxWindow} \subseteq Nat

VARIABLES
    sel,        \* switch: telemetry_selector, the active bank and its epoch
    count,      \* switch: telemetry_bank_counter
    flight,     \* switch: the bank of a packet between selector and counter
    ckpt, log,  \* disk: source WAL checkpoint and the records behind it
    inputs,     \* disk: source sequences of the windows in input and result WAL
    up, life,   \* the actor runs; its actor_runtime_epoch
    rec,        \* source_recovery
    step,       \* how far finish_source_recovery has come in this attempt
    hints,      \* pending_digest_acks
    windows,    \* snapshots admitted to windows that are not final
    through,    \* finalized_through_ms: windows below it are final
    started,    \* active_bank_started_ms is known
    now,        \* the current window
    ghost       \* packets counted, finalized, and counted into a bank too late

switch == <<sel, count, flight>>
wal    == <<ckpt, log>>
memory == <<rec, step, hints, windows, through, started>>
vars   == <<switch, wal, inputs, up, life, memory, now, ghost>>

Banks    == {0, 1}
Selector == [bank : Banks, epoch : Nat]
Flipped(s) == [bank |-> 1 - s.bank, epoch |-> s.epoch + 1]

(* TelemetrySnapshot: its window, its source_runtime_epoch, its packets    *)
(* and whether its quality is valid.                                       *)
Snapshot == [win : 0..MaxWindow, life : Nat, packets : Nat, valid : BOOLEAN]

(* SourceRecovery.  `from` is the selector before the flip, `before` the   *)
(* counter_packets_before that the snapshot must agree with.               *)
Recovery == [op : Nat, from : Selector, before : Nat, frozen : BOOLEAN,
             snap : Snapshot \cup {None}, cleared : BOOLEAN, life : Nat]

(* SourceWalRecord: op is operation_wal_sequence, and `what` the payload   *)
(* of its stage.                                                           *)
FreezeStages == {"BankFreezeStarted", "BankFrozen", "SnapshotDurable",
                 "ClearCompleted", "SnapshotFinalized"}
HintStages   == {"DigestHintDurable", "DigestHintAcked"}
Record == [stage : FreezeStages \cup HintStages, op : Nat, rec : Recovery \cup {None}]

ASSUME NoneAssumption == None \notin Recovery \cup Snapshot

NextSeq == ckpt + Len(log) + 1
AppendLog(stage, op, r) ==
    /\ log' = Append(log, [stage |-> stage, op |-> op, rec |-> r])
    /\ ckpt' = ckpt

-----------------------------------------------------------------------------
(* recover_source_state: what a restart reads out of the records l behind  *)
(* checkpoint c.                                                           *)
Freezes(l) == {i \in DOMAIN l : l[i].stage = "BankFreezeStarted"}
Done(l, i) == \E j \in DOMAIN l : j > i /\ l[j].stage = "SnapshotFinalized" /\ l[j].op = l[i].op
OpenOps(l) == {i \in Freezes(l) : ~Done(l, i)}
HasStage(l, i, s) == \E j \in DOMAIN l : l[j].stage = s /\ l[j].op = l[i].op

(* The operation a restart resumes.  BankFrozen sets `frozen` and nothing  *)
(* else: counter_packets_before stays that of BankFreezeStarted.           *)
Resumed(l) ==
    IF OpenOps(l) = {} THEN None
    ELSE LET i == CHOOSE k \in OpenOps(l) : TRUE
         IN [l[i].rec EXCEPT
               !.frozen  = HasStage(l, i, "BankFrozen"),
               !.snap    = IF HasStage(l, i, "SnapshotDurable")
                           THEN (CHOOSE r \in {l[j] : j \in DOMAIN l} :
                                   r.stage = "SnapshotDurable" /\ r.op = l[i].op).rec.snap
                           ELSE None,
               !.cleared = HasStage(l, i, "ClearCompleted")]

(* A freeze stage must continue the one open operation, and finalization   *)
(* must follow the clear; anything else is WalCorrupt.                     *)
StageFits(l, k) ==
    LET l0 == SubSeq(l, 1, k - 1) IN
    /\ l[k].stage = "BankFreezeStarted" => OpenOps(l0) = {}
    /\ l[k].stage \in FreezeStages \ {"BankFreezeStarted"} =>
          \E i \in OpenOps(l0) :
             /\ l[i].op = l[k].op
             /\ l[k].stage = "SnapshotFinalized" => HasStage(l0, i, "ClearCompleted")
StagesFit(l) == \A k \in DOMAIN l : StageFits(l, k)

(* A DigestHintAcked record needs its hint in the log. *)
HintAcked(l, s) == \E k \in DOMAIN l : l[k].stage = "DigestHintAcked" /\ l[k].op = s
HintsFit(c, l) == \A k \in DOMAIN l : l[k].stage = "DigestHintAcked" =>
                     \E i \in 1..(k - 1) : l[i].stage = "DigestHintDurable" /\ c + i = l[k].op
PendingHints(c, l) ==
    LET pending[i \in 0..Len(l)] ==
            IF i = 0 THEN <<>>
            ELSE IF l[i].stage = "DigestHintDurable" /\ ~HintAcked(l, c + i)
                 THEN Append(pending[i - 1], c + i)
                 ELSE pending[i - 1]
    IN pending[Len(l)]

(* WindowEngine::push refuses a snapshot of another runtime epoch inside a *)
(* window; replayed snapshots of one window meet in one engine.            *)
Finals(l) == {i \in DOMAIN l : l[i].stage = "SnapshotFinalized"}
SnapAt(l, i) == l[i].rec.snap
WindowsFit(l) == \A i, j \in Finals(l) :
                    SnapAt(l, i).win = SnapAt(l, j).win => SnapAt(l, i).life = SnapAt(l, j).life

(* spawn succeeds exactly when all three hold. *)
Replays(c, l) == StagesFit(l) /\ HintsFit(c, l) /\ WindowsFit(l)

Admitted(c, l) == {[seq |-> c + i, snap |-> SnapAt(l, i)] : i \in Finals(l)}

Init ==
    /\ sel = [bank |-> 0, epoch |-> 0] /\ count = [b \in Banks |-> 0] /\ flight = None
    /\ ckpt = 0 /\ log = <<>> /\ inputs = {}
    /\ up = FALSE /\ life = 0
    /\ rec = None /\ step = "begin" /\ hints = <<>>
    /\ windows = {} /\ through = 0 /\ started = FALSE
    /\ now = 0 /\ ghost = [seen |-> 0, final |-> 0, strays |-> 0]

-----------------------------------------------------------------------------
(* The switch *)

(* A packet takes its bank from the selector ... *)
PacketSelects ==
    /\ flight = None /\ ghost.seen < MaxPackets
    /\ flight' = sel.bank
    /\ UNCHANGED <<sel, count, wal, inputs, up, life, memory, now, ghost>>

(* ... and is counted there, perhaps after the selector has been flipped.  *)
(* A stray counts into a bank whose snapshot is already durable.           *)
Reported(b) == \E i \in OpenOps(log) :
                  log[i].rec.from.bank = b /\ HasStage(log, i, "SnapshotDurable")
PacketCounts ==
    /\ flight # None
    /\ count' = [count EXCEPT ![flight] = @ + 1]
    /\ flight' = None
    /\ ghost' = [ghost EXCEPT !.seen = @ + 1, !.strays = @ + IF Reported(flight) THEN 1 ELSE 0]
    /\ UNCHANGED <<sel, wal, inputs, up, life, memory, now>>

-----------------------------------------------------------------------------
(* The freeze operation *)

(* Mutant: the timer starts a new operation over the unfinished one. *)
PollAgain ==
    /\ up /\ step = "begin"
    /\ sel.epoch < MaxFlips
    /\ rec' = [op |-> NextSeq, from |-> sel, before |-> count[sel.bank], frozen |-> FALSE,
               snap |-> None, cleared |-> FALSE, life |-> life]
    /\ AppendLog("BankFreezeStarted", NextSeq, rec')
    /\ UNCHANGED <<switch, inputs, up, life, step, hints, windows, through, started, now, ghost>>

(* poll_telemetry reads selector and counter and journals the operation.   *)
Poll ==
    /\ up /\ step = "begin" /\ rec = None
    /\ sel.epoch < MaxFlips
    /\ rec' = [op |-> NextSeq, from |-> sel, before |-> count[sel.bank], frozen |-> FALSE,
               snap |-> None, cleared |-> FALSE, life |-> life]
    /\ AppendLog("BankFreezeStarted", NextSeq, rec')
    /\ UNCHANGED <<switch, inputs, up, life, step, hints, windows, through, started, now, ghost>>

InAttempt(s) == up /\ rec # None /\ step = s
Goes(s) == step' = s /\ UNCHANGED <<hints, windows, through, started>>

(* The selector is the one before the flip: write the new one and read it  *)
(* back.  A write that did not land ends the attempt.                      *)
FlipSelector(landed) ==
    /\ InAttempt("begin") /\ sel = rec.from /\ ~rec.frozen
    /\ sel' = IF landed THEN Flipped(sel) ELSE sel
    /\ Goes(IF landed THEN "flipped" ELSE "begin")
    /\ UNCHANGED <<count, flight, wal, inputs, up, life, rec, now, ghost>>

(* The write landed but the readback failed. *)
FlipUnanswered ==
    /\ InAttempt("begin") /\ sel = rec.from /\ ~rec.frozen
    /\ sel' = Flipped(sel)
    /\ UNCHANGED <<count, flight, wal, inputs, up, life, memory, now, ghost>>

(* The selector is already the new one: an earlier attempt flipped it. *)
FindFlipped ==
    /\ InAttempt("begin") /\ sel = Flipped(rec.from)
    /\ Goes(IF rec.cleared THEN "cleared" ELSE IF rec.snap # None THEN "durable"
            ELSE IF rec.frozen THEN "frozen" ELSE "flipped")
    /\ UNCHANGED <<switch, wal, inputs, up, life, rec, now, ghost>>

(* The frozen bank is read again: what arrived before the flip counts. *)
FreezeBank ==
    /\ InAttempt("flipped")
    /\ SlowPipeline \/ flight # rec.from.bank
    /\ rec' = [rec EXCEPT !.before = count[rec.from.bank], !.frozen = TRUE]
    /\ AppendLog("BankFrozen", rec.op, rec')
    /\ Goes("frozen")
    /\ UNCHANGED <<switch, inputs, up, life, now, ghost>>

(* The cells and then the aggregate, which must not have moved since.  The *)
(* quality is valid when it is known when the bank became active.          *)
TakeSnapshot ==
    /\ InAttempt("frozen")
    /\ IF count[rec.from.bank] = rec.before
       THEN /\ rec' = [rec EXCEPT !.snap = [win |-> now, life |-> rec.life,
                                            packets |-> rec.before, valid |-> started]]
            /\ AppendLog("SnapshotDurable", rec.op, rec')
            /\ Goes("durable")
       ELSE Goes("begin") /\ UNCHANGED <<rec, wal>>
    /\ UNCHANGED <<switch, inputs, up, life, now, ghost>>

(* Mutant: the bank is cleared as soon as it is read. *)
ClearBankEarly(landed) ==
    /\ InAttempt("durable") \/ InAttempt("frozen")
    /\ count' = IF landed THEN [count EXCEPT ![rec.from.bank] = 0] ELSE count
    /\ Goes(IF step = "durable" THEN "clearing" ELSE step)
    /\ UNCHANGED <<sel, flight, wal, inputs, up, life, rec, now, ghost>>

(* clear_telemetry_bank: the write lands or not, then the aggregate is     *)
(* read back and must be zero.                                             *)
ClearBank(landed) ==
    /\ InAttempt("durable")
    /\ count' = IF landed THEN [count EXCEPT ![rec.from.bank] = 0] ELSE count
    /\ Goes("clearing")
    /\ UNCHANGED <<sel, flight, wal, inputs, up, life, rec, now, ghost>>

ClearReadback ==
    /\ InAttempt("clearing")
    /\ IF count[rec.from.bank] = 0
       THEN /\ rec' = [rec EXCEPT !.cleared = TRUE]
            /\ AppendLog("ClearCompleted", rec.op, rec')
            /\ Goes("cleared")
       ELSE Goes("begin") /\ UNCHANGED <<rec, wal>>
    /\ UNCHANGED <<switch, inputs, up, life, now, ghost>>

(* push: a snapshot of a final window is late, one of another runtime      *)
(* epoch is refused; both stay in the log and out of the windows.          *)
Push(snap, seq) ==
    windows' = IF \/ snap.win < through
                  \/ \E w \in windows : w.snap.win = snap.win /\ w.snap.life # snap.life
               THEN windows
               ELSE windows \cup {[seq |-> seq, snap |-> snap]}

Finalize ==
    /\ InAttempt("cleared")
    /\ AppendLog("SnapshotFinalized", rec.op, rec)
    /\ Push(rec.snap, NextSeq)
    /\ ghost' = [ghost EXCEPT !.final = @ + rec.snap.packets]
    /\ rec' = None /\ step' = "begin" /\ started' = TRUE
    /\ UNCHANGED <<switch, inputs, up, life, hints, through, now>>

(* Any P4 call of the attempt fails; the next tick starts over. *)
AttemptFails ==
    /\ up /\ step \in {"flipped", "frozen", "durable", "clearing"}
    /\ Goes("begin")
    /\ UNCHANGED <<switch, wal, inputs, up, life, rec, now, ghost>>

-----------------------------------------------------------------------------
(* Windows and checkpoints.  The actor is one task: these run between the  *)
(* attempts of finish_source_recovery.                                     *)

Tick == /\ now < MaxWindow
        /\ now' = now + 1
        /\ UNCHANGED <<switch, wal, inputs, up, life, memory, ghost>>

(* finalize and admit_window_advance, once the watermark has passed window *)
(* w: a window with a snapshot of unknown quality leaves no input record,  *)
(* and one that is already in the input WAL no second one.                 *)
InWindow(w) == {x \in windows : x.snap.win = w}
CloseWindow(w) ==
    /\ up /\ step = "begin" /\ w < now /\ InWindow(w) # {}
    /\ windows' = windows \ InWindow(w)
    /\ through' = w + 1
    /\ inputs' = IF \A x \in InWindow(w) : x.snap.valid
                 THEN inputs \cup {CHOOSE s \in {x.seq : x \in InWindow(w)} :
                                     \A x \in InWindow(w) : x.seq <= s}
                 ELSE inputs
    /\ UNCHANGED <<switch, wal, up, life, rec, step, hints, started, now, ghost>>

(* Mutant: the checkpoint does not wait for digest acknowledgements. *)
CheckpointPastHints(s, torn) ==
    /\ up /\ step = "begin"
    /\ s \in inputs /\ \A t \in inputs : s <= t
    /\ inputs' = IF torn THEN inputs ELSE inputs \ {s}
    /\ IF s > ckpt THEN ckpt' = s /\ log' = SubSeq(log, s - ckpt + 1, Len(log))
                   ELSE UNCHANGED wal
    /\ UNCHANGED <<switch, up, life, memory, now, ghost>>

(* process_pending_results after the canonical ACK of the oldest input: it *)
(* checkpoints the source WAL first, then input and result WAL; torn is    *)
(* the crash or error in between.                                          *)
Checkpoint(s, torn) ==
    /\ up /\ step = "begin"
    /\ s \in inputs /\ \A t \in inputs : s <= t
    /\ hints # <<>> => Head(hints) > s
    /\ inputs' = IF torn THEN inputs ELSE inputs \ {s}
    /\ IF s > ckpt THEN ckpt' = s /\ log' = SubSeq(log, s - ckpt + 1, Len(log))
                   ELSE UNCHANGED wal
    /\ UNCHANGED <<switch, up, life, memory, now, ghost>>

(* persist_digest_hint, without the acknowledgement it tries to send. *)
PersistHint ==
    /\ up /\ step = "begin"
    /\ Cardinality({i \in DOMAIN log : log[i].stage = "DigestHintDurable"}) < MaxHints
    /\ AppendLog("DigestHintDurable", 0, None)
    /\ hints' = Append(hints, NextSeq)
    /\ UNCHANGED <<switch, inputs, up, life, rec, step, windows, through, started, now, ghost>>

(* flush_digest_acks: the stream took the acknowledgement. *)
FlushHint ==
    /\ up /\ step = "begin" /\ hints # <<>>
    /\ AppendLog("DigestHintAcked", Head(hints), None)
    /\ hints' = Tail(hints)
    /\ UNCHANGED <<switch, inputs, up, life, rec, step, windows, through, started, now, ghost>>

(* The process stops; the last incarnation of the model runs on. *)
Crash ==
    /\ up /\ life < MaxLives
    /\ up' = FALSE
    /\ rec' = None /\ step' = "begin" /\ hints' = <<>>
    /\ windows' = {} /\ through' = 0 /\ started' = FALSE
    /\ UNCHANGED <<switch, wal, inputs, life, now, ghost>>

(* spawn with recover_source_state, under a fresh actor_runtime_epoch. *)
Spawn ==
    /\ ~up /\ life < MaxLives
    /\ Replays(ckpt, log)
    /\ up' = TRUE /\ life' = life + 1
    /\ rec' = Resumed(log) /\ step' = "begin"
    /\ hints' = PendingHints(ckpt, log)
    /\ windows' = Admitted(ckpt, log) /\ through' = 0
    /\ started' = (Finals(log) # {})
    /\ UNCHANGED <<switch, wal, inputs, now, ghost>>

Attempt == FindFlipped \/ FreezeBank \/ TakeSnapshot \/ ClearReadback \/ Finalize

Next ==
    \/ PacketSelects \/ PacketCounts \/ Tick
    \/ Poll \/ Attempt \/ FlipUnanswered \/ AttemptFails
    \/ \E landed \in BOOLEAN : FlipSelector(landed) \/ ClearBank(landed)
    \/ \E w \in 0..MaxWindow : CloseWindow(w)
    \/ \E s \in inputs, torn \in BOOLEAN : Checkpoint(s, torn)
    \/ PersistHint \/ FlushHint \/ Crash \/ Spawn

Spec == Init /\ [][Next]_vars

(* The maintenance tick runs every 20 ms while the actor is up, a target   *)
(* is assigned again after a crash, and a switch that is retried for ever  *)
(* answers in the end.                                                     *)
Fairness ==
    /\ WF_vars(PacketCounts) /\ WF_vars(Spawn)
    /\ WF_vars(FindFlipped) /\ WF_vars(Finalize)
    /\ SF_vars(FlipSelector(TRUE)) /\ SF_vars(FreezeBank) /\ SF_vars(TakeSnapshot)
    /\ SF_vars(ClearBank(TRUE)) /\ SF_vars(ClearReadback)

FairSpec == Spec /\ Fairness

-----------------------------------------------------------------------------
(* Properties *)

(* The state is well typed. *)
TypeOK ==
    /\ sel \in Selector /\ count \in [Banks -> Nat] /\ flight \in Banks \cup {None}
    /\ ckpt \in Nat /\ log \in Seq(Record)
    /\ \A s \in inputs : s \in Nat
    /\ up \in BOOLEAN /\ life \in Nat
    /\ rec \in Recovery \cup {None}
    /\ step \in {"begin", "flipped", "frozen", "durable", "clearing", "cleared"}
    /\ hints \in Seq(Nat)
    /\ \A w \in windows : w.seq \in Nat /\ w.snap \in Snapshot
    /\ through \in Nat /\ started \in BOOLEAN /\ now \in 0..MaxWindow

(* Every packet the switch counted is in exactly one place: a bank that is *)
(* still to be read, the durable snapshot of the open operation, or a      *)
(* finalized snapshot.  A crash, a lost write or a retry between any two   *)
(* stages neither loses one nor counts it twice; only a packet that was    *)
(* inside the pipeline when its bank was read (a stray) can be missed.     *)
Unread(b) == IF Reported(b) THEN Resumed(log).snap.packets ELSE count[b]
Conserved == LET total == ghost.final + Unread(0) + Unread(1)
             IN ghost.seen - ghost.strays <= total /\ total <= ghost.seen

(* The freeze records behind the checkpoint always read as whole           *)
(* operations, one at a time and in stage order: recover_source_state      *)
(* never meets "overlapping telemetry freeze operations", a stage without  *)
(* its operation, or a finalization before the clear.                      *)
StagesReplay == StagesFit(log)

(* A checkpoint never drops a digest hint that is not acknowledged ("digest *)
(* ACK must finish before source checkpoint crosses its record").          *)
HintsOutlive ==
    [][\A s \in (ckpt + 1)..ckpt' :
          log[s - ckpt].stage = "DigestHintDurable" => HintAcked(log, s)]_vars

(* A freeze operation that was started ends: an inconsistent snapshot is   *)
(* "retaining bank for retry", and the retry succeeds in the end.          *)
SourceSettles == (OpenOps(log) # {}) ~> (OpenOps(log) = {})

(* A DigestHintAcked record without its hint, which recover_source_state   *)
(* refuses (actor.rs:2497), is one whose hint a checkpoint has dropped:    *)
(* no crash, replay or retry writes an acknowledgement for anything else.  *)
AcksFit(c, l) ==
    \A k \in DOMAIN l : l[k].stage = "DigestHintAcked" =>
       \/ l[k].op <= c
       \/ \E i \in DOMAIN l : i < k /\ l[i].stage = "DigestHintDurable" /\ l[k].op = c + i

(* Whatever stage a crash or a failing read cuts short, a restart can read *)
(* the freeze operations out of the source WAL, and finds every hint       *)
(* acknowledgement with its hint unless the checkpoint lies between them.  *)
(* It is not said that the restart succeeds: the checkpoint between hint   *)
(* and acknowledgement, and two runtime epochs in one window, are both     *)
(* reachable, and then Replays fails as the code does.                     *)
TelemetryInv == TypeOK /\ StagesReplay /\ AcksFit(ckpt, log)
=============================================================================
