--------------------------- MODULE TrafficHarness ---------------------------
(***************************************************************************)
(* One TrafficHarness.run of the switch qualification (testkit/p4_switch/  *)
(* lib/qualification_workload.py): a sender in a process of its own, paced *)
(* and publishing its progress under a lock that it shares with the        *)
(* parent; two capture threads that count the frames they see; the main    *)
(* thread that samples them, joins the sender, drains the captures and     *)
(* says what was sent and what was seen.                                   *)
(*                                                                         *)
(* The switch between the two captures may lose, duplicate and reorder     *)
(* frames, a capture socket may overflow, and the sender may hang or be    *)
(* killed at any step.                                                     *)
(***************************************************************************)
EXTENDS Integers, FiniteSets, FiniteSetsExt, Sequences

CONSTANTS NPhases,    \* len(phases)
          PerPhase,   \* frames that the schedule of one phase holds
          PublishAt,  \* SENDER_PROGRESS_PUBLISH_PACKETS
          NSamples,   \* samples that the schedule holds
          NStable,    \* CAPTURE_DRAIN_STABLE_INTERVALS
          NFaults,    \* bound: losses, duplicates and overflows
          SenderDies  \* the sender may be killed from outside

ASSUME HarnessAssumption ==
    /\ {NPhases, PerPhase, PublishAt, NStable} \subseteq Nat \ {0}
    /\ NSamples \in Nat /\ NFaults \in Nat /\ SenderDies \in BOOLEAN

Phase    == 1..NPhases
Frame    == 1..NPhases * PerPhase
PhaseOf(f) == (f - 1) \div PerPhase + 1
Side     == {"ingress", "egress"}
Per(S)   == [p \in Phase |-> Cardinality({f \in S : PhaseOf(f) = p})]

VARIABLES
    mpc,      \* the main thread
    spc,      \* the sender process
    tried,    \* state["attempted"]: frames are sent in the order of their numbers
    accepted, \* the frames that the kernel took
    serr,     \* state["errors"] of the sender is not empty
    progress, \* the shared array: what the sender last published
    orphan,   \* history: the sender died while it held the lock of the array
    inbox,    \* messages for parent_control
    sw,       \* frames inside the switch
    sock,     \* frames in the buffer of each capture's socket, with their copies
    cap,      \* the two captures
    faults,   \* faults of the network so far
    taken,    \* samples taken
    cberr,    \* callback_errors is not empty
    drain,    \* the drain loop: prior counts and stable intervals
    state,    \* sender_state, as the main thread has it
    result    \* what run returned

vars == <<mpc, spc, tried, accepted, serr, progress, orphan, inbox, sw, sock, cap, faults, taken, cberr,
          drain, state, result>>
sender == <<spc, tried, accepted, serr, progress, orphan>>
net    == <<sw, sock, faults>>
mains  == <<taken, cberr, drain, state, result>>

Zero     == [p \in Phase |-> 0]
NoResult == [errors |-> TRUE, attempted |-> Zero, by |-> Zero, in |-> Zero, out |-> Zero]
Counts   == [Phase -> 0..2 * PerPhase]
(* The states of a capture thread: not started, receiving, ended.          *)
Threads  == {"off", "up", "ended"}
Over     == {"done", "raised"}

TypeOK ==
    /\ mpc \in {"spawn", "ready", "ingress", "egress", "start", "sample", "callback",
                "join", "result", "drain", "stop1", "stop2", "report"} \cup Over
    /\ spc \in {"none", "init", "ready", "send", "publish", "flush", "reply", "dead", "killed"}
    /\ tried \in 0..Cardinality(Frame) /\ accepted \subseteq 1..tried
    /\ serr \in BOOLEAN /\ orphan \in BOOLEAN /\ cberr \in BOOLEAN
    /\ progress \in [attempted : 0..Cardinality(Frame), by : Counts]
    (* the array never runs ahead of the sender *)
    /\ progress.attempted <= tried /\ \A p \in Phase : progress.by[p] <= Per(accepted)[p]
    /\ inbox \in Seq({"ready", "result"}) /\ Len(inbox) <= 2
    /\ sw \subseteq Frame /\ sock \in [Side -> [Frame -> 0..2]] /\ faults \in 0..NFaults
    /\ \A c \in Side : /\ cap[c].thread \in Threads /\ cap[c].seen \subseteq Frame /\ cap[c].by \in Counts
                       /\ {cap[c].stop, cap[c].error, cap[c].dropped, cap[c].drops} \subseteq BOOLEAN
    /\ taken \in 0..NSamples
    /\ drain.stable \in 0..NStable
    /\ {state.errors, result.errors} \subseteq BOOLEAN

Init ==
    /\ mpc = "spawn" /\ spc = "none"
    /\ tried = 0 /\ accepted = {} /\ serr = FALSE /\ orphan = FALSE
    /\ progress = [attempted |-> 0, by |-> Zero]
    /\ inbox = <<>> /\ sw = {} /\ sock = [c \in Side |-> [f \in Frame |-> 0]] /\ faults = 0
    /\ cap = [c \in Side |-> [thread |-> "off", stop |-> FALSE, seen |-> {}, by |-> Zero, error |-> FALSE,
                              dropped |-> FALSE, drops |-> FALSE]]
    /\ taken = 0 /\ cberr = FALSE
    /\ drain = [prior |-> <<-1, -1>>, stable |-> 0]
    /\ state = [errors |-> FALSE, attempted |-> Zero, by |-> Zero]
    /\ result = NoResult
-----------------------------------------------------------------------------
(* The sender process: _sender_process_main. *)

Alive == spc \notin {"none", "dead", "killed"}
(* The lock of the shared array is taken. *)
Locked == spc \in {"publish", "flush"} \/ orphan

(* The socket is opened and `ready' sent, or an exception leads to the     *)
(* finally clause, which publishes once more and sends the state.          *)
Open ==
    /\ spc = "init"
    /\ \/ spc' = "ready" /\ inbox' = Append(inbox, "ready") /\ UNCHANGED serr
       \/ ~Locked /\ spc' = "flush" /\ serr' = TRUE /\ UNCHANGED inbox
    /\ UNCHANGED <<mpc, tried, accepted, progress, orphan, net, cap, mains>>

(* A frame reaches the buffer of a capture that is receiving, or overflows *)
(* it, which the kernel counts.                                            *)
Buffered(c, f) ==
    \/ /\ cap[c].thread = "up"
       /\ sock' = [sock EXCEPT ![c][f] = @ + 1] /\ UNCHANGED cap
    \/ /\ cap[c].thread = "up" /\ faults < NFaults
       /\ cap' = [cap EXCEPT ![c].dropped = TRUE] /\ UNCHANGED sock
    \/ cap[c].thread # "up" /\ UNCHANGED <<sock, cap>>

AtBoundary == (tried + 1) % PublishAt = 0

(* One frame: accepted, cut short, or refused with an exception. *)
SendFrame ==
    /\ spc = "send" /\ tried < Cardinality(Frame)
    /\ tried' = tried + 1
    /\ \/ /\ accepted' = accepted \cup {tried + 1}
          /\ sw' = sw \cup {tried + 1}
          /\ Buffered("ingress", tried + 1)
          /\ faults' = faults + (IF cap' # cap THEN 1 ELSE 0)
          /\ (AtBoundary => ~Locked) /\ spc' = (IF AtBoundary THEN "publish" ELSE "send")
          /\ UNCHANGED serr
       \/ /\ serr' = TRUE
          /\ \/ (AtBoundary => ~Locked) /\ spc' = (IF AtBoundary THEN "publish" ELSE "send")
             \/ ~Locked /\ spc' = "flush"
          /\ UNCHANGED <<accepted, net, cap>>
    /\ UNCHANGED <<mpc, progress, orphan, inbox, mains>>

SenderEnds ==
    /\ spc = "send" /\ tried = Cardinality(Frame) /\ ~Locked
    /\ spc' = "flush"
    /\ UNCHANGED <<mpc, tried, accepted, serr, progress, orphan, inbox, net, cap, mains>>

(* _publish_sender_progress, under the lock. *)
Publish ==
    /\ spc \in {"publish", "flush"}
    /\ progress' = [attempted |-> tried, by |-> Per(accepted)]
    /\ spc' = IF spc = "publish" THEN "send" ELSE "reply"
    /\ UNCHANGED <<mpc, tried, accepted, serr, orphan, inbox, net, cap, mains>>

(* The state is sent and the process exits with 0. *)
Reply ==
    /\ spc = "reply" /\ spc' = "dead"
    /\ inbox' = Append(inbox, "result")
    /\ UNCHANGED <<mpc, tried, accepted, serr, progress, orphan, net, cap, mains>>

(* The end of the sender by a signal, which no Python handler sees. *)
Killed == spc' = "killed" /\ orphan' = (orphan \/ spc \in {"publish", "flush"})

Die ==
    /\ SenderDies /\ Alive /\ Killed
    /\ UNCHANGED <<mpc, tried, accepted, serr, progress, inbox, net, cap, mains>>
-----------------------------------------------------------------------------
(* The switch and the captures. *)

Forward(f) ==
    /\ f \in sw
    /\ Buffered("egress", f)
    /\ \/ sw' = sw \ {f} /\ faults' = faults + (IF cap' # cap THEN 1 ELSE 0)
       \/ faults < NFaults /\ cap' = cap /\ sw' = sw /\ sock["egress"][f] = 0 /\ faults' = faults + 1
    /\ UNCHANGED <<mpc, sender, inbox, mains>>

Lose(f) ==
    /\ f \in sw /\ faults < NFaults
    /\ sw' = sw \ {f} /\ faults' = faults + 1
    /\ UNCHANGED <<mpc, sender, inbox, sock, cap, mains>>

(* A frame is counted when its number is seen for the first time.  Mutant: *)
(* every copy counts.                                                      *)
CountsEvery(c, f) == TRUE
Fresh(c, f) == f \notin cap[c].seen

(* The receive loop of _Capture._run, which takes the frames of one socket *)
(* in whatever order the switch sent them.                                 *)
Receive(c, f) ==
    /\ cap[c].thread = "up" /\ sock[c][f] > 0
    /\ sock' = [sock EXCEPT ![c][f] = @ - 1]
    /\ cap' = [cap EXCEPT ![c].seen = @ \cup {f},
                          ![c].by[PhaseOf(f)] = @ + (IF Fresh(c, f) THEN 1 ELSE 0)]
    /\ UNCHANGED <<mpc, sender, inbox, sw, faults, mains>>

(* The thread ends: asked to, or by an exception.  It reads and closes the *)
(* socket, and the kernel's count of drops with it, or fails to read it.   *)
EndCapture(c) ==
    /\ cap[c].thread = "up"
    /\ \E failed, unread \in BOOLEAN :
          /\ cap[c].stop \/ failed
          /\ cap' = [cap EXCEPT ![c].thread = "ended",
                                ![c].error = @ \/ failed \/ unread,
                                ![c].drops = cap[c].dropped /\ ~unread]
    /\ sock' = [sock EXCEPT ![c] = [f \in Frame |-> 0]]
    /\ UNCHANGED <<mpc, sender, inbox, sw, faults, mains>>
-----------------------------------------------------------------------------
(* The main thread: TrafficHarness.run. *)

Go(l) == mpc' = l
Quiet == UNCHANGED <<sw, sock, faults>>

Spawn ==
    /\ mpc = "spawn" /\ Go("ready") /\ spc' = "init"
    /\ UNCHANGED <<tried, accepted, serr, progress, orphan, inbox, net, cap, mains>>

(* terminate and join. *)
Terminated == IF Alive THEN Killed ELSE UNCHANGED <<spc, orphan>>

(* The parent's end of the pipe is at its end. *)
Closed == ~Alive /\ inbox = <<>>

(* poll(SENDER_READY_TIMEOUT_SECONDS) and recv. *)
AwaitReady ==
    /\ mpc = "ready"
    /\ \/ /\ inbox # <<>> /\ inbox' = Tail(inbox)
          /\ Go(IF Head(inbox) = "ready" THEN "ingress" ELSE "raised")
          /\ UNCHANGED <<spc, orphan>>
       \/ Closed /\ Go("raised") /\ UNCHANGED <<spc, orphan, inbox>>           \* EOFError
       \/ inbox = <<>> /\ Alive /\ Terminated /\ Go("raised") /\ UNCHANGED inbox  \* TimeoutError
    /\ UNCHANGED <<tried, accepted, serr, progress, net, cap, mains>>

(* _Capture.start of the one and then of the other.  A failure ends the    *)
(* sender and stops both; a thread that was never started cannot be        *)
(* joined, which raises another exception instead.                         *)
StartCapture(c, next) ==
    /\ mpc = c
    /\ \/ cap' = [cap EXCEPT ![c].thread = "up"] /\ Go(next) /\ UNCHANGED <<spc, orphan>>
       \/ /\ cap' = [d \in Side |-> [cap[d] EXCEPT !.stop = TRUE,
                                                   !.thread = IF d = c THEN "ended" ELSE @]]
          /\ Terminated /\ Go("raised")
    /\ Quiet /\ UNCHANGED <<tried, accepted, serr, progress, inbox, mains>>

(* The start command; without a sender it raises, and the captures stay.   *)
StartSender ==
    /\ mpc = "start"
    /\ \/ ~Alive /\ Go("raised") /\ UNCHANGED spc
       \/ spc = "ready" /\ spc' = "send" /\ Go(IF NSamples = 0 THEN "join" ELSE "sample")
    /\ UNCHANGED <<tried, accepted, serr, progress, orphan, inbox, net, cap, mains>>

(* The frames that a capture has counted. *)
Unique(c) == MapThenSumSet(LAMBDA p : cap[c].by[p], Phase)

(* A sample takes the sender's counts under the lock and those of the two  *)
(* captures; then the callback runs.                                       *)
Sample ==
    /\ mpc = "sample" /\ ~Locked /\ Go("callback")
    /\ taken' = taken + 1
    /\ UNCHANGED <<sender, inbox, net, cap, cberr, drain, state, result>>

Callback ==
    /\ mpc = "callback"
    /\ Go(IF taken = NSamples THEN "join" ELSE "sample")
    /\ cberr' \in {cberr, TRUE}
    /\ UNCHANGED <<sender, inbox, net, cap, taken, drain, state, result>>

(* join(timeout).  A sender that is still alive has its published counts   *)
(* taken for its state, without the attempts by phase.  Mutant: join       *)
(* without a timeout.                                                      *)
JoinForever ==
    /\ mpc = "join" /\ ~Alive /\ Go("result")
    /\ UNCHANGED <<sender, inbox, net, cap, mains>>
Join ==
    /\ mpc = "join"
    /\ \/ ~Alive /\ Go("result") /\ UNCHANGED <<spc, orphan, state>>
       \/ /\ Alive /\ ~Locked /\ Terminated
          /\ state' = [errors |-> TRUE, attempted |-> Zero, by |-> progress.by]
          /\ Go("drain")
    /\ UNCHANGED <<tried, accepted, serr, progress, inbox, net, cap, taken, cberr, drain, result>>

(* The result message, or the end of the pipe: then recv raises, and the   *)
(* captures are left running.                                              *)
TakeResult ==
    /\ mpc = "result"
    /\ \/ Closed /\ Go("raised") /\ UNCHANGED <<inbox, state>>
       \/ /\ inbox # <<>> /\ inbox' = Tail(inbox) /\ Go("drain")
          /\ state' = [errors |-> serr \/ spc = "killed", attempted |-> Per(1..tried), by |-> Per(accepted)]
    /\ UNCHANGED <<sender, net, cap, taken, cberr, drain, result>>

(* One turn of the drain loop, or its deadline. *)
Drain ==
    /\ mpc = "drain"
    /\ LET now == <<Unique("ingress"), Unique("egress")>>
           n   == IF now = drain.prior THEN drain.stable + 1 ELSE 0
       IN  \/ drain' = [prior |-> now, stable |-> n] /\ Go(IF n = NStable THEN "stop1" ELSE "drain")
           \/ Go("stop1") /\ UNCHANGED drain
    /\ UNCHANGED <<sender, inbox, net, cap, taken, cberr, state, result>>

(* stop and join(timeout=3) of one capture, then of the other. *)
StopCapture(c, l, next) ==
    /\ mpc = l
    /\ \/ ~cap[c].stop /\ cap' = [cap EXCEPT ![c].stop = TRUE] /\ UNCHANGED mpc
       \/ /\ cap[c].stop /\ Go(next)
          /\ \/ cap[c].thread = "ended" /\ UNCHANGED cap
             \/ cap[c].thread = "up" /\ cap' = [cap EXCEPT ![c].error = TRUE]
    /\ Quiet /\ UNCHANGED <<sender, inbox, mains>>

(* The result: counts by phase, and everything that counts as an error.    *)
Errors == \/ state.errors \/ cberr
          \/ \E c \in Side : cap[c].error \/ cap[c].drops
          \/ drain.stable < NStable

Report ==
    /\ mpc = "report" /\ Go("done")
    /\ result' = [errors |-> Errors, attempted |-> state.attempted, by |-> state.by,
                  in |-> cap["ingress"].by, out |-> cap["egress"].by]
    /\ UNCHANGED <<sender, inbox, net, cap, taken, cberr, drain, state>>

Main ==
    \/ Spawn \/ AwaitReady
    \/ StartCapture("ingress", "egress") \/ StartCapture("egress", "start")
    \/ StartSender \/ Sample \/ Callback \/ Join \/ TakeResult \/ Drain
    \/ StopCapture("ingress", "stop1", "stop2") \/ StopCapture("egress", "stop2", "report")
    \/ Report

Sender == Open \/ SendFrame \/ SenderEnds \/ Publish \/ Reply \/ Die

World ==
    \/ \E f \in Frame : Forward(f) \/ Lose(f) \/ \E c \in Side : Receive(c, f)
    \/ \E c \in Side : EndCapture(c)

Next == Main \/ Sender \/ World

(* The main thread runs and its timeouts expire.  A sender that holds the  *)
(* lock goes on; nothing else is assumed of it, or of the switch.          *)
Spec == Init /\ [][Next]_vars /\ WF_vars(Main) /\ WF_vars(Publish)
-----------------------------------------------------------------------------
(* What run-soak and run-performance ask of a result: no error, no gap,    *)
(* every attempt accepted.                                                 *)
Gap(n, m) == \E p \in Phase : n[p] > m[p]
Clean == /\ ~result.errors /\ result.attempted = result.by
         /\ ~Gap(result.by, result.in) /\ ~Gap(result.by, result.out)

(* A clean result means that the whole schedule was sent, that every frame *)
(* was accepted and that each was seen on both sides of the switch,        *)
(* whatever was lost, copied, dropped by a socket, cut short by a timeout  *)
(* or left in a buffer when the captures were stopped.                     *)
CleanIsTrue ==
    mpc = "done" /\ Clean => accepted = Frame /\ \A c \in Side : cap[c].seen = Frame

(* However run ends, by a result or by an exception of any step, no sender *)
(* process is left behind.                                                 *)
SenderReaped == mpc \in Over => ~Alive

(* A result is only given for captures that have ended, or with an error.  *)
CapturesEnded == mpc = "done" => \A c \in Side : cap[c].thread = "ended" \/ result.errors

(* run ends, by a result or an exception, even with a sender that hangs    *)
(* or dies; unless it dies in the middle of publishing, with the lock.     *)
RunEnds == <>(mpc \in Over \/ orphan)

(* What run reports is true and nothing of it outlives the report: a clean *)
(* result saw every frame, the sender is reaped, the captures have ended.  *)
ReportIsTrue == TypeOK /\ CleanIsTrue /\ SenderReaped /\ CapturesEnded
=============================================================================
