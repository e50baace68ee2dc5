--------------------------- MODULE SwitchWorkload ---------------------------
(***************************************************************************)
(* The two workloads of the switch qualification, run-performance.py and   *)
(* run-soak.py, over the P4Runtime client (lib/p4runtime_client.py) and    *)
(* the helpers of lib/qualification_workload.py, against one BMv2 switch.  *)
(*                                                                         *)
(* A workload is a list of steps, one for each call of the client: `todo`  *)
(* holds the steps that are left.  A call may fail before, in the middle   *)
(* of or after its effect, and the switch may acknowledge what it did not  *)
(* do: that is what the readbacks are for.  The StreamChannel of the       *)
(* client is read by a thread of its own into a bounded queue, which the   *)
(* workload drains.  TrafficHarness.run is the module TrafficHarness; here *)
(* it begins, ends and is clean or not.                                    *)
(***************************************************************************)
EXTENDS Integers, Sequences, SequencesExt, FiniteSets

CONSTANTS Counts,    \* the rule counts, (0, 128, 1024, 4096) in the code
          Initial,   \* rules of the first bank of the soak, 1024 in the code
          Batch,     \* MAX_UPDATES_PER_WRITE
          Repeats,   \* independent repeats of a rule count
          PhaseTime, \* seconds of a soak phase
          SampleTime, Interval, \* seconds between samples, between activations
          QueueMax,  \* maxsize of the queue of responses
          DrainMax,  \* MAX_SUPPLEMENTAL_HINTS_PER_DRAIN
          NFaults    \* bound: faults of one qualification

ASSUME WorkloadAssumption ==
    /\ Counts \in Seq(Nat) /\ Counts # <<>>
    /\ {Initial, Batch, Repeats, PhaseTime, SampleTime, Interval, QueueMax, DrainMax} \subseteq Nat \ {0}
    /\ NFaults \in Nat

VARIABLES
    formal,  \* the mode is formal, not rehearsal
    job,     \* the workload that runs, "idle" if none
    todo,    \* its remaining steps
    sw,      \* the switch: pipeline, forwarding entries, selector, overlay, banks
    view,    \* active_bank and rules_by_bank of the soak
    rep,     \* the report so far: errors, checks that failed, rows, cleanup
    traffic, \* "no", "warmup" or "measured"
    turn,    \* cycles of the benchmark, samples of the soak
    goal,    \* history: the bank that should be selected, the rules of each bank
    torn,    \* history: measured traffic met a wrong or incomplete bank
    stream,  \* the queue of the StreamChannel and its thread
    verdict, \* what the last workload wrote
    faults   \* faults so far

wvars == <<formal, job, todo, sw, view, rep, traffic, turn, goal, torn, stream, verdict, faults>>

Bank  == {0, 1}
None  == 2   \* no selector entry
Blank == [loaded |-> FALSE, infra |-> FALSE, sel |-> None, overlay |-> FALSE, bank |-> [b \in Bank |-> {}]]

View0   == [active |-> 0, rules |-> [b \in Bank |-> <<>>]]
Report0 == [err |-> FALSE, bad |-> FALSE, rows |-> 0, clean |-> FALSE]
Goal0   == [bank |-> 0, rules |-> [b \in Bank |-> {}]]
Stream0 == [len |-> 0, alive |-> TRUE, got |-> 0, lost |-> FALSE]
(* The local state of a workload as it starts, and once it is gone.        *)
Forget  == /\ view' = View0 /\ rep' = Report0 /\ goal' = Goal0 /\ stream' = Stream0
           /\ traffic' = "no" /\ turn' = 0 /\ torn' = FALSE /\ verdict' = "none"

(* An entry: its action and its key, priority included.                    *)
Rule(action, key) == <<action, key>>
(* make_baseline_rules: one rule that drops and belongs to its generation, *)
(* and permits whose keys are the same in every generation.                *)
make_baseline_rules(count, generation) ==
    [i \in 1..count |-> IF i = 1 THEN Rule("drop", generation) ELSE Rule("permit", i)]

Step(op, bank, rules) == [op |-> op, bank |-> bank, rules |-> rules]
Op(op)       == Step(op, 0, <<>>)
Flip(bank)   == <<Step("flip", bank, <<>>), Step("selected", bank, <<>>)>>
Delete(bank, rules) == IF rules = <<>> THEN <<>> ELSE <<Step("delete", bank, rules)>>
Count(k)     == Counts[(k % Len(Counts)) + 1]

Prepare  == <<Op("set"), Op("verify"), Op("infra")>>
Warmup   == <<Op("warmup"), Op("end"), Op("drain")>>
Teardown == <<Op("set"), Op("verify"), Op("residual")>>

(* run-performance.py: set up, warm up, then one turn for each rule count  *)
(* and repeat.                                                             *)
PerformanceSetup == Prepare \o Warmup \o <<Op("turn")>>
PerformanceTurn(k) ==
    LET rules == make_baseline_rules(Count((k - 1) \div Repeats), k)
    IN  Prepare \o <<Step("write", 1, rules), Step("readback", 1, rules)>> \o Flip(1)
        \o <<Op("measure"), Op("end"), Op("drain")>> \o Flip(0)
        \o Delete(1, rules) \o <<Op("residual1"), Op("row"), Op("turn")>>
NTurns == Len(Counts) * Repeats

(* run-soak.py: set up, warm up, then traffic of four phases with one turn *)
(* of sample_callback for each sample.                                     *)
SoakSetup ==
    LET rules == make_baseline_rules(Initial, 1)
    IN  Prepare \o <<Step("write", 0, rules), Step("initial", 0, rules)>> \o Warmup
        \o <<Op("measure"), Op("turn")>>
NSamples == (4 * PhaseTime) \div SampleTime
Offset(k)  == k * SampleTime
(* The activation cycle that a sample is due for, -1 before the last phase *)
(* and at its end.                                                         *)
CycleAt(k) == IF Offset(k) >= 3 * PhaseTime /\ Offset(k) < 4 * PhaseTime
              THEN (Offset(k) - 3 * PhaseTime) \div Interval ELSE -1
ExpectedCycles == IF PhaseTime \div Interval > 1 THEN PhaseTime \div Interval ELSE 1

Activation(cycle) ==
    LET target == 1 - view.active
        candidate == make_baseline_rules(Count(cycle), 100 + cycle)
    IN  Delete(target, view.rules[target])
        \o <<Step("write", target, candidate), Step("readback", target, candidate)>>
        \o Flip(target) \o Flip(1 - target) \o Flip(target)
        \o <<Op("overlay"), Op("dropped"), Op("expire"), Op("forwarded")>>
        \o (IF candidate = <<>> THEN <<>> ELSE <<Step("probe", target, candidate)>>)
        \o <<Step("row", target, candidate)>>
SoakTurn(k) ==
    (IF CycleAt(k) > CycleAt(k - 1) THEN Activation(CycleAt(k)) ELSE <<>>)
    \o <<Op("metrics"), Op("drain"), Op("turn")>>

Turns == IF job = "soak" THEN NSamples ELSE NTurns
TurnSteps(k) == IF job = "soak" THEN SoakTurn(k) ELSE PerformanceTurn(k)
(* The deletes of the soak are for the rules that its view holds then.     *)
SoakCleanup == Delete(0, view.rules[0]) \o Delete(1, view.rules[1]) \o Teardown \o <<Op("drain")>>

-----------------------------------------------------------------------------
(* One step of the workload, its normal end and its exception.  A step of  *)
(* a sample_callback that raises ends that callback only: the harness      *)
(* keeps the error and takes the next sample.                              *)
At(op)     == todo # <<>> /\ Head(todo).op = op
Bank1      == Head(todo).bank
Rules      == Head(todo).rules
InCallback == job = "soak" /\ traffic = "measured"
Advance    == todo' = Tail(todo) /\ UNCHANGED rep
Raise      == /\ todo' = IF InCallback THEN <<Op("turn")>> ELSE <<>>
              /\ rep' = [rep EXCEPT !.err = TRUE]
Note(check) == todo' = Tail(todo) /\ rep' = [rep EXCEPT !.bad = @ \/ ~check]

Fault == faults < NFaults /\ faults' = faults + 1
NoFault == UNCHANGED faults

(* Measured traffic meets a bank that is not the one that the workload     *)
(* selected last, or lacks a rule that it should hold.                     *)
TornIn(s, g) == s.sel # g.bank \/ ~(g.rules[g.bank] \subseteq s.bank[g.bank])
Watch == torn' = (torn \/ (traffic = "measured" /\ TornIn(sw', goal')))

(* A call that changes the switch: `whole` is its effect, `parts` holds    *)
(* every part of it, nothing and all included; `ok` says that the switch   *)
(* takes it.                                                               *)
Call(ok, whole, parts, wanted) ==
    /\ goal' = wanted
    /\ \/ ok /\ sw' = whole /\ Advance /\ NoFault
       \/ ~ok /\ sw' \in parts /\ Raise /\ NoFault
       \/ Fault /\ sw' \in parts /\ Raise
       \/ Fault /\ sw' \in parts \ {whole} /\ Advance
    /\ Watch
    /\ UNCHANGED <<job, view, traffic, turn, stream, verdict>>

(* A call that reads: it returns, or it raises.                            *)
Read(ok, after) ==
    /\ \/ ok /\ after /\ NoFault
       \/ ~ok /\ Raise /\ NoFault
       \/ Fault /\ Raise
    /\ UNCHANGED <<job, sw, view, traffic, turn, goal, torn, stream, verdict>>

set_pipeline == At("set") /\ Call(TRUE, [Blank EXCEPT !.loaded = TRUE], {sw, [Blank EXCEPT !.loaded = TRUE]},
                                  Goal0)

(* The readback compares P4Info, device config and cookie: a commit that   *)
(* was acknowledged and not done passes when the same program ran before.  *)
verify_pipeline_identity == At("verify") /\ Read(sw.loaded, Advance)

install_infrastructure ==
    At("infra") /\ Call(~sw.infra /\ sw.sel = None, [sw EXCEPT !.infra = TRUE, !.sel = 0],
                        {[sw EXCEPT !.infra = i, !.sel = s] : i \in {sw.infra, TRUE}, s \in {sw.sel, 0}}, goal)

(* One RPC of write_batched: CONTINUE_ON_ERROR applies what it can.        *)
Updates == {Rules[i] : i \in {j \in DOMAIN Rules : j <= Batch}}
Rest    == IF Len(Rules) <= Batch THEN Tail(todo)
           ELSE <<[Head(todo) EXCEPT !.rules = SubSeq(@, Batch + 1, Len(@))]>> \o Tail(todo)
WriteBatch(ok, kind, wanted) ==
    /\ goal' = wanted
    /\ LET new(S) == IF kind = "DELETE" THEN sw.bank[Bank1] \ S ELSE sw.bank[Bank1] \cup S
           parts == {[sw EXCEPT !.bank[Bank1] = new(S)] : S \in SUBSET Updates}
           whole == [sw EXCEPT !.bank[Bank1] = new(Updates)]
       IN  \/ ok /\ sw' = whole /\ todo' = Rest /\ UNCHANGED rep /\ NoFault
           \/ ~ok /\ sw' = whole /\ Raise /\ NoFault
           \/ Fault /\ sw' \in parts /\ Raise
           \/ Fault /\ sw' \in parts \ {whole} /\ todo' = Rest /\ UNCHANGED rep
    /\ Watch
    /\ UNCHANGED <<job, view, traffic, turn, stream, verdict>>

write_rules ==
    At("write") /\ IF Rules = <<>>
                   THEN /\ UNCHANGED <<job, sw, view, traffic, turn, stream, verdict, faults>>
                        /\ Advance /\ goal' = [goal EXCEPT !.rules[Bank1] = {}] /\ Watch
                   ELSE WriteBatch(Updates \cap sw.bank[Bank1] = {}, "INSERT",
                                   [goal EXCEPT !.rules[Bank1] = IF Rules[1][1] = "drop" THEN ToSet(Rules) ELSE @])
delete_rules ==
    At("delete") /\ WriteBatch(Updates \subseteq sw.bank[Bank1], "DELETE", [goal EXCEPT !.rules[Bank1] = {}])

(* exact_rule_readback asks for the keys of the candidate: what else the   *)
(* bank holds does not show.  The benchmark counts an empty bank.          *)
Exact == IF Rules = <<>> /\ job = "performance" THEN sw.bank[Bank1] = {} ELSE ToSet(Rules) \subseteq sw.bank[Bank1]
exact_rule_readback == At("readback") /\ Read(TRUE, Note(Exact))
InitialReadback ==
    /\ At("initial")
    /\ \/ Exact /\ Advance /\ NoFault /\ view' = [view EXCEPT !.rules[0] = Rules]
       \/ ~Exact /\ Raise /\ NoFault /\ UNCHANGED view
       \/ Fault /\ Raise /\ UNCHANGED view
    /\ UNCHANGED <<job, sw, traffic, turn, goal, torn, stream, verdict>>

FlipSelector == At("flip") /\ Call(sw.sel # None, [sw EXCEPT !.sel = Bank1], {sw, [sw EXCEPT !.sel = Bank1]},
                                   [goal EXCEPT !.bank = Bank1])
(* Mutant: a flip that returned is taken for a flip that was done.         *)
SelectedAssumed == At("selected") /\ Read(sw.sel # None, Advance)
read_policy_bank == At("selected") /\ Read(sw.sel # None, Note(sw.sel = Bank1))

OverlayInsert == At("overlay") /\ Call(~sw.overlay, [sw EXCEPT !.overlay = TRUE], {sw, [sw EXCEPT !.overlay = TRUE]}, goal)
(* The drop probe: the counter of an absent overlay has no entry to index. *)
OverlayDrop   == At("dropped") /\ Read(sw.overlay, Note(TRUE))
OverlayDelete == At("expire") /\ Call(sw.overlay, [sw EXCEPT !.overlay = FALSE], {sw, [sw EXCEPT !.overlay = FALSE]}, goal)
(* The delete is read back, then one packet must pass: it may get lost.    *)
single_packet_outcome ==
    /\ At("forwarded")
    /\ \/ Read(TRUE, Note(~sw.overlay /\ sw.infra))
       \/ /\ Fault /\ Note(FALSE)
          /\ UNCHANGED <<job, sw, view, traffic, turn, goal, torn, stream, verdict>>
(* The counter of the candidate's first rule grows by one only when the    *)
(* selected bank holds it.                                                 *)
BaselineProbe == At("probe") /\ Read(Rules[1] \in sw.bank[Bank1], Note(sw.sel = Bank1))

(* measurements.append, activations.append with the new local view.        *)
AppendRow ==
    /\ At("row") /\ todo' = Tail(todo)
    /\ rep' = [rep EXCEPT !.rows = @ + 1]
    /\ view' = IF job = "soak" THEN [active |-> Bank1, rules |-> [view.rules EXCEPT ![Bank1] = Rules]] ELSE view
    /\ UNCHANGED <<job, sw, traffic, turn, goal, torn, stream, verdict, faults>>

Residual1 == At("residual1") /\ Read(TRUE, Note(sw.bank[1] = {}))
Empty     == sw.bank = [b \in Bank |-> {}] /\ ~sw.overlay
Residual  == At("residual") /\ Read(TRUE, todo' = Tail(todo) /\ rep' = [rep EXCEPT !.clean = Empty])
Metrics   == At("metrics") /\ Read(sw.sel # None, Advance)

-----------------------------------------------------------------------------
(* The StreamChannel: its thread puts what the switch sends into a bounded *)
(* queue, and dies of a full queue or of a broken stream.                  *)
ConsumeStream ==
    /\ job # "idle" /\ stream.alive
    /\ \/ traffic # "no" /\ stream.len < QueueMax /\ stream' = [stream EXCEPT !.len = @ + 1] /\ NoFault
       \/ stream.len = QueueMax /\ stream' = [stream EXCEPT !.alive = FALSE] /\ NoFault
       \/ Fault /\ stream' = [stream EXCEPT !.alive = FALSE]
    /\ UNCHANGED <<job, todo, sw, view, rep, traffic, turn, goal, torn, verdict>>

(* One message of drain_supplemental_hints: the one over the limit is      *)
(* taken and not answered.  An ACK that no stream carries is none.         *)
OverLimit == stream.got >= DrainMax
Take(answered) ==
    stream' = [stream EXCEPT !.len = @ - 1, !.got = IF answered THEN @ + 1 ELSE 0,
                             !.lost = @ \/ ~answered \/ ~stream.alive]
(* Mutant: the messages of one drain are not counted.                      *)
DrainUncounted ==
    /\ At("drain") /\ stream.len > 0 /\ NoFault
    /\ stream' = [stream EXCEPT !.len = @ - 1]
    /\ UNCHANGED <<todo, rep, job, sw, view, traffic, turn, goal, torn, verdict>>
DrainOne ==
    /\ At("drain") /\ stream.len > 0
    /\ \/ ~OverLimit /\ Take(TRUE) /\ UNCHANGED <<todo, rep>> /\ NoFault
       \/ OverLimit /\ Take(FALSE) /\ Raise /\ NoFault
       \/ ~OverLimit /\ Fault /\ Take(FALSE) /\ Raise   \* the queue of requests is full
    /\ UNCHANGED <<job, sw, view, traffic, turn, goal, torn, verdict>>
(* A quiet queue ends the drain.  A thread that is gone died of an error,  *)
(* which the drain raises: the switch ends the stream without one only     *)
(* after the client has closed its half, which it does in Close.           *)
DrainEnds ==
    /\ At("drain") /\ stream.len = 0
    /\ stream' = [stream EXCEPT !.got = 0]
    /\ IF stream.alive THEN Advance ELSE Raise
    /\ UNCHANGED <<job, sw, view, traffic, turn, goal, torn, verdict, faults>>
drain_supplemental_hints == DrainOne \/ DrainEnds

-----------------------------------------------------------------------------
(* TrafficHarness.run begins; it ends clean, with errors or gaps, or by an *)
(* exception.  Nothing is forwarded without the forwarding entries; the    *)
(* soak looks at the errors of its warm-up only, not at its gaps.  That it *)
(* ends is what TrafficHarness checks, with its exception: a sender that   *)
(* dies while it holds the lock of a shared counter.                       *)
TrafficBegins ==
    /\ At("warmup") \/ At("measure")
    /\ traffic' = IF At("warmup") THEN "warmup" ELSE "measured"
    /\ torn' = (torn \/ (At("measure") /\ TornIn(sw, goal)))
    /\ Advance /\ UNCHANGED <<job, sw, view, turn, goal, stream, verdict, faults>>
Forwarded == sw.infra \/ (job = "soak" /\ traffic = "warmup")
TrafficEnds ==
    /\ At("end") /\ traffic' = "no"
    /\ \/ Note(Forwarded) /\ NoFault
       \/ Fault /\ Note(FALSE)
       \/ Fault /\ todo' = <<>> /\ rep' = [rep EXCEPT !.err = TRUE]
    /\ UNCHANGED <<job, sw, view, turn, goal, torn, stream, verdict>>

(* The next cycle of the benchmark or sample of the soak, or the clean-up. *)
NextTurn ==
    /\ At("turn") /\ turn < Turns
    /\ turn' = turn + 1 /\ todo' = TurnSteps(turn + 1)
    /\ UNCHANGED <<job, sw, view, rep, traffic, goal, torn, stream, verdict, faults>>
TurnsOver ==
    /\ At("turn") /\ turn = Turns
    /\ todo' = IF job = "soak" THEN <<Op("end"), Op("cleanup")>> ELSE Teardown
    /\ UNCHANGED <<job, sw, view, rep, traffic, turn, goal, torn, stream, verdict, faults>>
CleanUp ==
    /\ At("cleanup") /\ todo' = SoakCleanup
    /\ view' = [view EXCEPT !.rules = [b \in Bank |-> <<>>]]
    /\ UNCHANGED <<job, sw, rep, traffic, turn, goal, torn, stream, verdict, faults>>

(* The client and its stream, and what the workload begins with.           *)
Start(kind) ==
    /\ job' = kind
    /\ todo' = IF kind = "soak" THEN SoakSetup ELSE PerformanceSetup
    /\ Forget

(* raw_pass of the benchmark and of the soak.                              *)
PerformancePassed == ~rep.err /\ ~rep.bad /\ rep.clean /\ rep.rows = NTurns
SoakPassed        == ~rep.err /\ ~rep.bad /\ rep.clean /\ rep.rows = ExpectedCycles
Passed == IF job = "soak" THEN SoakPassed ELSE PerformancePassed
(* close, and the document: an exit status of 1 goes with FAIL.            *)
Close ==
    /\ job # "idle" /\ todo = <<>>
    /\ job' = "idle" /\ traffic' = "no"
    /\ verdict' = IF ~Passed THEN "FAIL" ELSE IF formal THEN "PASS" ELSE "HOLD"
    /\ UNCHANGED <<todo, sw, view, rep, turn, goal, torn, stream, faults>>

WorkloadStep ==
    \/ set_pipeline \/ verify_pipeline_identity \/ install_infrastructure \/ write_rules \/ delete_rules
    \/ exact_rule_readback \/ InitialReadback \/ FlipSelector \/ read_policy_bank
    \/ OverlayInsert \/ OverlayDrop \/ OverlayDelete \/ single_packet_outcome \/ BaselineProbe
    \/ AppendRow \/ Residual1 \/ Residual \/ Metrics \/ drain_supplemental_hints
    \/ TrafficBegins \/ TrafficEnds \/ NextTurn \/ TurnsOver \/ CleanUp \/ Close

WorkloadInit ==
    /\ job = "idle" /\ todo = <<>> /\ sw = Blank /\ traffic = "no" /\ turn = 0 /\ torn = FALSE
    /\ view = View0 /\ rep = Report0 /\ goal = Goal0 /\ stream = Stream0 /\ verdict = "none" /\ faults = 0
=============================================================================
