------------------------ MODULE TrafficHarnessProofs ------------------------
(***************************************************************************)
(* Proofs about module TrafficHarness: what a run of the harness reports   *)
(* is true, for every number of phases, frames and samples, every bound on *)
(* the faults of the network, and a sender, captures and a switch that go  *)
(* on, hang, fail or die in any order.                                     *)
(***************************************************************************)
EXTENDS TrafficHarness, FiniteSetTheorems, TLAPS

(* The inductive invariant.  A capture counts by phase what it has seen.   *)
Capture == [thread : Threads, stop : BOOLEAN, seen : SUBSET Frame, by : Counts,
            error : BOOLEAN, dropped : BOOLEAN, drops : BOOLEAN]
CapInv ==
    /\ cap \in [Side -> Capture]
    /\ \A c \in Side : cap[c].by = Per(cap[c].seen)

(* A frame that was not sent yet is nowhere; one inside the switch has one *)
(* copy behind it at the most.                                             *)
NetInv ==
    /\ \A f \in Frame : f > tried => f \notin sw /\ \A c \in Side : sock[c][f] = 0
    /\ \A f \in sw : sock["egress"][f] <= 1

(* The sender says that it is ready before it sends and gives its result   *)
(* at its end; without an error it ends behind the last frame.             *)
SenderInv ==
    /\ spc \in {"none", "init"} => inbox = <<>>
    /\ spc \notin {"dead", "killed"} => Len(inbox) <= 1
    /\ \A i \in 1..Len(inbox) : inbox[i] = "result" => spc = "dead"
    /\ spc \in {"flush", "reply", "dead"} => serr \/ tried = Cardinality(Frame)

(* The main thread: the places at which the sender is not there yet or is  *)
(* gone, both captures were started, one or both were stopped.             *)
Reaped  == {"result", "drain", "stop1", "stop2", "report"} \cup Over
Started == {"start", "sample", "callback", "join", "result", "drain", "stop1", "stop2", "report"}
Stopped(c) == cap[c].thread = "ended" \/ cap[c].error
MainInv ==
    /\ mpc = "spawn" => spc = "none"
    /\ mpc \in Reaped => ~Alive
    /\ mpc \in {"spawn", "ready", "ingress", "egress", "start"} => taken = 0
    /\ mpc = "sample" => taken < NSamples
    /\ mpc \notin {"stop1", "stop2", "report"} \cup Over => drain.stable < NStable
    /\ mpc \in Started \cup {"egress"} => cap["ingress"].thread # "off"
    /\ mpc \in Started => cap["egress"].thread # "off"
    /\ mpc \in {"stop2", "report"} => Stopped("ingress")
    /\ mpc = "report" => Stopped("egress")

(* A state of the sender without an error is that of the whole schedule. *)
StateInv ==
    mpc \in {"drain", "stop1", "stop2", "report"} /\ ~state.errors =>
        state.attempted = Per(1..tried) /\ state.by = Per(accepted) /\ tried = Cardinality(Frame)

HarnessInv ==
    /\ TypeOK /\ CapInv /\ NetInv /\ SenderInv /\ MainInv /\ StateInv
    /\ CleanIsTrue /\ CapturesEnded
-----------------------------------------------------------------------------
(* Counting frames by phase.                                               *)

LEMMA Sizes == /\ NPhases \in Nat \ {0} /\ PerPhase \in Nat \ {0} /\ PublishAt \in Nat \ {0}
               /\ NStable \in Nat \ {0} /\ NSamples \in Nat /\ NFaults \in Nat
  BY HarnessAssumption

LEMMA FrameCount ==
    /\ NPhases * PerPhase \in Nat /\ Frame = 1..(NPhases * PerPhase)
    /\ IsFiniteSet(Frame) /\ Cardinality(Frame) = NPhases * PerPhase
<1>1. PICK n \in Nat : n = NPhases * PerPhase
  BY Sizes
<1>2. IsFiniteSet(1..n) /\ Cardinality(1..n) = n
  <2>1. 1 \in Int /\ n \in Int /\ (1 > n => n = 0) /\ n - 1 + 1 = n
    OBVIOUS
  <2> QED BY <2>1, FS_Interval
<1>3. Frame = 1..n
  BY <1>1 DEF Frame
<1> QED BY <1>1, <1>2, <1>3

(* The phase of a frame is one, and the frames of a phase are PerPhase.    *)
LEMMA PhaseBounds ==
    ASSUME NEW f \in Frame
    PROVE  /\ PhaseOf(f) \in Phase
           /\ (PhaseOf(f) - 1) * PerPhase < f /\ f <= (PhaseOf(f) - 1) * PerPhase + PerPhase
<1>1. PICK q \in Int : q = (f - 1) \div PerPhase
  BY Sizes, FrameCount
<1>2. q * PerPhase <= f - 1 /\ f - 1 < q * PerPhase + PerPhase
  BY <1>1, Sizes, FrameCount
<1>3. q >= 0
  BY <1>2, Sizes, FrameCount
<1>4. q < NPhases
  <2> SUFFICES ASSUME q >= NPhases PROVE FALSE
    BY Sizes
  <2>1. q * PerPhase >= NPhases * PerPhase
    BY Sizes
  <2> QED BY <1>2, <2>1, Sizes, FrameCount
<1>5. PhaseOf(f) = q + 1
  BY <1>1 DEF PhaseOf
<1>6. q + 1 \in 1..NPhases /\ (q + 1) - 1 = q
  BY <1>3, <1>4, Sizes
<1>7. f \in Int /\ q * PerPhase \in Int /\ PerPhase \in Int
  BY Sizes, FrameCount
<1>8. q * PerPhase < f /\ f <= q * PerPhase + PerPhase
  BY <1>2, <1>7
<1> QED BY <1>5, <1>6, <1>8 DEF Phase

LEMMA PhaseSize ==
    ASSUME NEW p \in Phase, NEW S \in SUBSET Frame
    PROVE  /\ IsFiniteSet({f \in S : PhaseOf(f) = p})
           /\ Cardinality({f \in S : PhaseOf(f) = p}) \in 0..(2 * PerPhase)
<1> DEFINE T == {f \in S : PhaseOf(f) = p}
<1>1. PICK b \in Int, n \in Nat : b = (p - 1) * PerPhase /\ n = PerPhase
  BY Sizes DEF Phase
<1>2. T \in SUBSET ((b + 1)..(b + n))
  <2> SUFFICES ASSUME NEW f \in T PROVE f \in (b + 1)..(b + n)
    OBVIOUS
  <2>1. f \in Frame /\ PhaseOf(f) = p
    OBVIOUS
  <2>2. b < f /\ f <= b + n
    BY <1>1, <2>1, PhaseBounds
  <2>3. f \in Int
    BY <2>1, FrameCount
  <2> QED BY <2>2, <2>3
<1> HIDE DEF T
<1>3. IsFiniteSet((b + 1)..(b + n)) /\ Cardinality((b + 1)..(b + n)) <= n
  <2>1. b + 1 \in Int /\ b + n \in Int /\ (b + n) - (b + 1) + 1 = n /\ 0 <= n
    OBVIOUS
  <2>2. /\ IsFiniteSet((b + 1)..(b + n))
        /\ Cardinality((b + 1)..(b + n)) = IF b + 1 > b + n THEN 0 ELSE (b + n) - (b + 1) + 1
    BY <2>1, FS_Interval
  <2> QED BY <2>1, <2>2
<1>4. IsFiniteSet(T) /\ Cardinality(T) <= Cardinality((b + 1)..(b + n))
  BY <1>2, <1>3, FS_Subset
<1>5. Cardinality(T) \in Nat /\ Cardinality((b + 1)..(b + n)) \in Nat
  BY <1>3, <1>4, FS_CardinalityType
<1>6. Cardinality(T) \in 0..(2 * PerPhase)
  <2>1. Cardinality(T) <= n
    BY <1>3, <1>4, <1>5
  <2> QED BY <1>1, <1>5, <2>1
<1> QED BY <1>4, <1>6 DEF T

LEMMA PerType ==
    ASSUME NEW S \in SUBSET Frame
    PROVE  Per(S) \in Counts
  BY PhaseSize DEF Per, Counts

LEMMA PerMonotone ==
    ASSUME NEW T \in SUBSET Frame, NEW S \in SUBSET T, NEW p \in Phase
    PROVE  Per(S)[p] <= Per(T)[p]
<1>1. {f \in S : PhaseOf(f) = p} \in SUBSET {f \in T : PhaseOf(f) = p}
  OBVIOUS
<1>2. IsFiniteSet({f \in T : PhaseOf(f) = p})
  BY PhaseSize
<1>3. Cardinality({f \in S : PhaseOf(f) = p}) <= Cardinality({f \in T : PhaseOf(f) = p})
  BY <1>1, <1>2, FS_Subset
<1> QED BY <1>3 DEF Per

LEMMA PerAdd ==
    ASSUME NEW S \in SUBSET Frame, NEW f \in Frame
    PROVE  Per(S \cup {f}) = [Per(S) EXCEPT ![PhaseOf(f)] = @ + (IF f \notin S THEN 1 ELSE 0)]
<1>1. CASE f \in S
  <2>1. S \cup {f} = S /\ PhaseOf(f) \in Phase
    BY <1>1, PhaseBounds
  <2>2. Per(S) \in [Phase -> 0..(2 * PerPhase)]
    BY PerType DEF Counts
  <2>3. Per(S)[PhaseOf(f)] + 0 = Per(S)[PhaseOf(f)]
    BY <2>1, <2>2, Sizes
  <2> QED BY <1>1, <2>1, <2>2, <2>3
<1>2. CASE f \notin S
  <2>1. ASSUME NEW p \in Phase
        PROVE  Per(S \cup {f})[p] = (IF p = PhaseOf(f) THEN Per(S)[p] + 1 ELSE Per(S)[p])
    <3> DEFINE A == {g \in S : PhaseOf(g) = p}
               B == {g \in S \cup {f} : PhaseOf(g) = p}
    <3>1. CASE p = PhaseOf(f)
      <4>1. B = A \cup {f} /\ f \notin A
        BY <1>2, <3>1
      <4>2. IsFiniteSet(A)
        BY PhaseSize
      <4> HIDE DEF A, B
      <4>3. Cardinality(B) = Cardinality(A) + 1
        BY <4>1, <4>2, FS_AddElement
      <4> QED BY <3>1, <4>3 DEF Per, A, B
    <3>2. CASE p # PhaseOf(f)
      <4>1. B = A
        BY <3>2
      <4> QED BY <3>2, <4>1 DEF Per
    <3> QED BY <3>1, <3>2
  <2>2. Per(S) = [p \in Phase |-> Per(S)[p]] /\ Per(S \cup {f}) = [p \in Phase |-> Per(S \cup {f})[p]]
    BY DEF Per
  <2> QED BY <1>2, <2>1, <2>2
<1> QED BY <1>1, <1>2

(* Whoever counts in every phase as many as there are has seen them all.   *)
LEMMA FullCount ==
    ASSUME NEW T \in SUBSET Frame, NEW S \in SUBSET T, \A p \in Phase : Per(T)[p] <= Per(S)[p]
    PROVE  S = T
<1> SUFFICES ASSUME NEW f \in T PROVE f \in S
  OBVIOUS
<1> DEFINE p == PhaseOf(f)
           A == {g \in S : PhaseOf(g) = p}
           B == {g \in T : PhaseOf(g) = p}
<1>1. p \in Phase
  BY PhaseBounds
<1>2. IsFiniteSet(B) /\ A \in SUBSET B /\ f \in B
  BY <1>1, PhaseSize
<1>3. Per(T)[p] = Cardinality(B) /\ Per(S)[p] = Cardinality(A)
  BY <1>1 DEF Per
<1> HIDE DEF A, B, p
<1>4. Cardinality(A) \in Nat /\ Cardinality(B) \in Nat
  BY <1>2, FS_Subset, FS_CardinalityType
<1>5. Cardinality(A) <= Cardinality(B) /\ (Cardinality(B) = Cardinality(A) => B = A)
  BY <1>2, FS_Subset
<1>6. B = A
  BY <1>1, <1>3, <1>4, <1>5
<1> QED BY <1>2, <1>6 DEF A
-----------------------------------------------------------------------------
(* The invariant in parts, so that a step shows what it can disturb.       *)

SenderType ==
    /\ spc \in {"none", "init", "ready", "send", "publish", "flush", "reply", "dead", "killed"}
    /\ tried \in 0..Cardinality(Frame) /\ accepted \subseteq 1..tried
    /\ serr \in BOOLEAN /\ orphan \in BOOLEAN
    /\ progress \in [attempted : 0..Cardinality(Frame), by : Counts]
    /\ progress.attempted <= tried /\ \A p \in Phase : progress.by[p] <= Per(accepted)[p]
PipeType == inbox \in Seq({"ready", "result"}) /\ Len(inbox) <= 2
NetType  == sw \subseteq Frame /\ sock \in [Side -> [Frame -> 0..2]] /\ faults \in 0..NFaults
MainType ==
    /\ mpc \in {"spawn", "ready", "ingress", "egress", "start", "sample", "callback",
                "join", "result", "drain", "stop1", "stop2", "report"} \cup Over
    /\ cberr \in BOOLEAN /\ taken \in 0..NSamples /\ drain.stable \in 0..NStable
    /\ state.errors \in BOOLEAN /\ result.errors \in BOOLEAN

LEMMA Parts == HarnessInv => SenderType /\ PipeType /\ NetType /\ MainType
  BY DEF HarnessInv, TypeOK, SenderType, PipeType, NetType, MainType

LEMMA CapTypes ==
    ASSUME CapInv
    PROVE  \A c \in Side : /\ cap[c].thread \in Threads /\ cap[c].seen \subseteq Frame /\ cap[c].by \in Counts
                           /\ {cap[c].stop, cap[c].error, cap[c].dropped, cap[c].drops} \subseteq BOOLEAN
  BY DEF CapInv, Capture

LEMMA Types ==
    ASSUME SenderType, PipeType, NetType, MainType, CapInv
    PROVE  TypeOK
<1>1. {state.errors, result.errors} \subseteq BOOLEAN
  BY DEF MainType
<1> QED BY <1>1, CapTypes DEF SenderType, PipeType, NetType, MainType, TypeOK

LEMMA TypesNext ==
    ASSUME SenderType', PipeType', NetType', MainType', CapInv'
    PROVE  TypeOK'
<1>1. {state'.errors, result'.errors} \subseteq BOOLEAN
  BY DEF MainType
<1>2. \A c \in Side : /\ cap'[c].thread \in Threads /\ cap'[c].seen \subseteq Frame /\ cap'[c].by \in Counts
                      /\ {cap'[c].stop, cap'[c].error, cap'[c].dropped, cap'[c].drops} \subseteq BOOLEAN
  BY DEF CapInv, Capture
<1> QED BY <1>1, <1>2 DEF SenderType, PipeType, NetType, MainType, TypeOK

(* What a sender accepted is of the schedule. *)
LEMMA AcceptedFrames ==
    ASSUME SenderType
    PROVE  accepted \subseteq Frame /\ 1..tried \subseteq Frame /\ tried \in Nat
  BY FrameCount DEF SenderType

LEMMA StandSender ==
    ASSUME HarnessInv, UNCHANGED <<tried, accepted, serr, progress>>,
           spc' = spc \/ spc' = "killed", orphan' \in BOOLEAN
    PROVE  SenderType'
<1>1. SenderType
  BY Parts
<1>2. Per(accepted)' = Per(accepted)
  BY DEF Per
<1> QED BY <1>1, <1>2 DEF SenderType

LEMMA StandCap ==
    ASSUME CapInv, UNCHANGED cap
    PROVE  CapInv'
<1>1. \A c \in Side : cap'[c].by = Per(cap'[c].seen)
  BY DEF CapInv
<1>2. \A c \in Side : Per(cap[c].seen)' = Per(cap'[c].seen)
  BY DEF Per
<1> QED BY <1>1, <1>2 DEF CapInv

(* A step of the sender, which is alive, so that the main thread is before *)
(* the end of its join.                                                    *)
LEMMA SenderMoves ==
    ASSUME HarnessInv, Alive, UNCHANGED <<mpc, taken, cberr, drain, state, result>>,
           \A c \in Side : cap'[c].thread = cap[c].thread /\ cap'[c].error = cap[c].error,
           SenderType', PipeType', NetType', CapInv', NetInv', SenderInv'
    PROVE  HarnessInv'
<1>1. mpc \notin Reaped
  BY DEF HarnessInv, MainInv
<1>2. MainType'
  BY Parts DEF MainType
<1>3. MainInv'
  BY <1>1 DEF HarnessInv, MainInv, Reaped, Started, Stopped, Side, Alive
<1>4. StateInv' /\ CleanIsTrue' /\ CapturesEnded'
  BY <1>1 DEF StateInv, CleanIsTrue, CapturesEnded, Reaped, Over
<1> QED BY <1>2, <1>3, <1>4, TypesNext DEF HarnessInv

(* A step of the switch or of a capture. *)
LEMMA WorldMoves ==
    ASSUME HarnessInv, UNCHANGED <<mpc, sender, inbox, mains>>, NetType', CapInv', NetInv',
           \A c \in Side : /\ cap[c].seen \subseteq cap'[c].seen /\ (cap[c].error => cap'[c].error)
                           /\ \/ cap'[c].thread = cap[c].thread
                              \/ cap[c].thread = "up" /\ cap'[c].thread = "ended"
    PROVE  HarnessInv'
<1>1. SenderType' /\ PipeType' /\ MainType'
  <2>1. SenderType'
    BY Parts, StandSender DEF sender, SenderType
  <2> QED BY <2>1, Parts DEF PipeType, MainType, mains
<1>2. SenderInv'
  BY DEF HarnessInv, SenderInv, sender
<1>3. MainInv'
  <2>1. ("ingress" \in Side /\ "egress" \in Side) /\ Alive' = Alive /\ spc' = spc
    BY DEF Side, Alive, sender
  <2>2. \A c \in Side : (Stopped(c) => Stopped(c)') /\ (cap[c].thread # "off" => cap'[c].thread # "off")
    BY DEF Stopped
  <2> QED BY <2>1, <2>2 DEF HarnessInv, MainInv, mains
<1>4. StateInv'
  <2>1. Per(1..tried)' = Per(1..tried) /\ Per(accepted)' = Per(accepted)
    BY DEF Per, sender
  <2> QED BY <2>1 DEF HarnessInv, StateInv, sender, mains
<1>5. CleanIsTrue'
  <2>1. Clean' <=> Clean
    BY DEF Clean, Gap, mains
  <2>2. \A c \in Side : cap'[c].seen \subseteq Frame
    BY DEF CapInv, Capture
  <2> QED BY <2>1, <2>2 DEF HarnessInv, CleanIsTrue, sender
<1>6. CapturesEnded'
  BY DEF HarnessInv, CapturesEnded, mains
<1> QED BY <1>1, <1>2, <1>3, <1>4, <1>5, <1>6, TypesNext DEF HarnessInv

(* A step of the main thread before its end: it may end the sender. *)
LEMMA MainMoves ==
    ASSUME HarnessInv, UNCHANGED <<tried, accepted, serr, progress, net>>,
           SenderType', PipeType', SenderInv', CapInv', MainType', MainInv', StateInv', mpc' # "done"
    PROVE  HarnessInv'
<1>1. NetType' /\ NetInv'
  BY Parts DEF HarnessInv, NetType, NetInv, net
<1>2. CleanIsTrue' /\ CapturesEnded'
  BY DEF CleanIsTrue, CapturesEnded
<1> QED BY <1>1, <1>2, TypesNext DEF HarnessInv
-----------------------------------------------------------------------------
LEMMA InitInv == Init => HarnessInv
<1> SUFFICES ASSUME Init PROVE HarnessInv
  OBVIOUS
<1>1. Per({}) = Zero
  <2>1. \A p \in Phase : {f \in {} : PhaseOf(f) = p} = {}
    OBVIOUS
  <2>2. Cardinality({}) = 0
    BY FS_EmptySet
  <2> QED BY <2>1, <2>2 DEF Per, Zero
<1>2. Zero \in Counts
  BY <1>1, PerType
<1>3. Cardinality(Frame) \in Nat
  BY FrameCount
<1>4. SenderType
  <2>1. progress \in [attempted : 0..Cardinality(Frame), by : Counts] /\ progress.attempted <= tried
    BY <1>2, <1>3 DEF Init
  <2>2. \A p \in Phase : progress.by[p] <= Per(accepted)[p]
    BY <1>1 DEF Init, Zero
  <2>3. tried \in 0..Cardinality(Frame) /\ accepted \subseteq 1..tried
    BY <1>3 DEF Init
  <2>4. spc = "none" /\ serr \in BOOLEAN /\ orphan \in BOOLEAN
    BY DEF Init
  <2> QED BY <2>1, <2>2, <2>3, <2>4 DEF SenderType
<1>5. PipeType /\ NetType
  BY Sizes DEF Init, PipeType, NetType
<1>6. MainType
  <2>1. mpc = "spawn" /\ taken \in 0..NSamples /\ drain.stable \in 0..NStable
    BY Sizes DEF Init
  <2>2. cberr \in BOOLEAN
    BY DEF Init
  <2>3. state.errors \in BOOLEAN
    BY DEF Init
  <2>4. result.errors \in BOOLEAN
    BY DEF Init, NoResult
  <2> QED BY <2>1, <2>2, <2>3, <2>4 DEF MainType
<1>7. CapInv
  <2> DEFINE x == [thread |-> "off", stop |-> FALSE, seen |-> {}, by |-> Zero, error |-> FALSE,
                   dropped |-> FALSE, drops |-> FALSE]
  <2>1. x \in Capture
    BY <1>2 DEF Capture, Threads
  <2>2. x.by = Per(x.seen)
    BY <1>1
  <2>3. cap = [c \in Side |-> x]
    BY DEF Init
  <2> HIDE DEF x
  <2> QED BY <2>1, <2>2, <2>3 DEF CapInv
<1>8. NetInv
  BY DEF Init, NetInv
<1>9. SenderInv
  BY DEF Init, SenderInv
<1>10. MainInv
  BY Sizes DEF Init, MainInv, Reaped, Over, Started
<1>11. StateInv /\ CleanIsTrue /\ CapturesEnded
  BY DEF Init, StateInv, CleanIsTrue, CapturesEnded
<1> QED BY <1>4, <1>5, <1>6, <1>7, <1>8, <1>9, <1>10, <1>11, Types DEF HarnessInv
-----------------------------------------------------------------------------
(* The sender. *)

(* Frames and faults at a capture. *)
LEMMA BufferedIs ==
    ASSUME HarnessInv, NEW c \in Side, NEW f \in Frame, sock[c][f] <= 1, Buffered(c, f)
    PROVE  /\ sock' \in [Side -> [Frame -> 0..2]]
           /\ sock' = sock \/ sock' = [sock EXCEPT ![c][f] = @ + 1]
           /\ CapInv' /\ (cap' # cap => faults < NFaults)
           /\ \A d \in Side : /\ cap'[d].thread = cap[d].thread /\ cap'[d].error = cap[d].error
                              /\ cap'[d].seen = cap[d].seen
<1>1. sock \in [Side -> [Frame -> 0..2]] /\ CapInv
  BY Parts DEF NetType, HarnessInv
<1>2. CASE sock' = [sock EXCEPT ![c][f] = @ + 1] /\ UNCHANGED cap
  <2>1. sock[c][f] \in 0..2 /\ sock[c][f] + 1 \in 0..2
    BY <1>1
  <2>2. sock' \in [Side -> [Frame -> 0..2]]
    BY <1>1, <1>2, <2>1
  <2> QED BY <1>1, <1>2, <2>2, StandCap
<1>3. CASE faults < NFaults /\ cap' = [cap EXCEPT ![c].dropped = TRUE] /\ UNCHANGED sock
  <2>1. cap \in [Side -> Capture]
    BY <1>1 DEF CapInv
  <2>2. \A d \in Side : /\ cap'[d].thread = cap[d].thread /\ cap'[d].error = cap[d].error
                        /\ cap'[d].seen = cap[d].seen /\ cap'[d].by = cap[d].by
    BY <1>3, <2>1 DEF Capture
  <2>3. cap' \in [Side -> Capture]
    BY <1>3, <2>1 DEF Capture
  <2>4. \A d \in Side : Per(cap[d].seen)' = Per(cap[d].seen)
    BY <2>2 DEF Per
  <2>5. CapInv'
    BY <1>1, <2>2, <2>3, <2>4 DEF CapInv
  <2> QED BY <1>1, <1>3, <2>2, <2>5
<1>4. CASE UNCHANGED <<sock, cap>>
  BY <1>1, <1>4, StandCap
<1> QED BY <1>2, <1>3, <1>4 DEF Buffered

(* The same capture is left by a step that does not look at it. *)
LEMMA CapsLeft ==
    ASSUME HarnessInv, UNCHANGED cap
    PROVE  /\ CapInv'
           /\ \A c \in Side : cap'[c].thread = cap[c].thread /\ cap'[c].error = cap[c].error
  BY StandCap DEF HarnessInv

LEMMA OpenKeeps ==
    ASSUME HarnessInv, Open
    PROVE  HarnessInv'
<1>1. /\ spc = "init" /\ UNCHANGED <<mpc, tried, accepted, progress, orphan, net, cap, mains>>
      /\ \/ spc' = "ready" /\ inbox' = Append(inbox, "ready") /\ UNCHANGED serr
         \/ spc' = "flush" /\ serr' = TRUE /\ UNCHANGED inbox
  BY DEF Open
<1>2. Alive /\ inbox = <<>>
  BY <1>1 DEF Alive, HarnessInv, SenderInv
<1>3. serr' \in BOOLEAN
  BY <1>1, Parts DEF SenderType
<1>4. Per(accepted)' = Per(accepted)
  BY <1>1 DEF Per
<1>5. SenderType'
  BY <1>1, <1>3, <1>4, Parts DEF SenderType
<1>6. PipeType' /\ SenderInv'
  <2>1. CASE spc' = "ready" /\ inbox' = Append(inbox, "ready")
    <3>1. inbox' = <<"ready">>
      BY <1>2, <2>1
    <3>2. inbox' \in Seq({"ready", "result"}) /\ Len(inbox') = 1 /\ inbox'[1] = "ready"
      BY <3>1
    <3>3. \A i \in 1..Len(inbox') : inbox'[i] # "result"
      BY <3>2
    <3> QED BY <2>1, <3>2, <3>3 DEF PipeType, SenderInv
  <2>2. CASE spc' = "flush" /\ serr' = TRUE /\ UNCHANGED inbox
    BY <1>2, <2>2 DEF PipeType, SenderInv
  <2> QED BY <1>1, <2>1, <2>2
<1>7. NetType' /\ NetInv'
  BY <1>1, Parts DEF NetType, NetInv, HarnessInv, net
<1> QED BY <1>1, <1>2, <1>5, <1>6, <1>7, CapsLeft, SenderMoves DEF mains

LEMMA SendFrameKeeps ==
    ASSUME HarnessInv, SendFrame
    PROVE  HarnessInv'
<1>1. PICK k \in Nat : k = tried + 1 /\ tried \in Nat /\ k <= Cardinality(Frame) /\ tried' = k
  <2>1. tried \in Nat /\ Cardinality(Frame) \in Nat
    BY Parts, FrameCount DEF SenderType
  <2> QED BY <2>1 DEF SendFrame
<1>2. /\ spc = "send" /\ spc' \in {"send", "publish", "flush"}
      /\ UNCHANGED <<mpc, progress, orphan, inbox, mains>>
      /\ \/ /\ accepted' = accepted \cup {k} /\ sw' = sw \cup {k} /\ Buffered("ingress", k)
            /\ faults' = faults + (IF cap' # cap THEN 1 ELSE 0) /\ UNCHANGED serr
            /\ spc' # "flush"
         \/ serr' = TRUE /\ UNCHANGED <<accepted, net, cap>>
  BY <1>1 DEF SendFrame
<1>3. k \in Frame /\ Alive /\ Cardinality(Frame) \in Nat
  BY <1>1, <1>2, FrameCount DEF Alive
<1>4. /\ \A f \in Frame : f > tried => f \notin sw /\ \A c \in Side : sock[c][f] = 0
      /\ \A f \in Frame : f \in Nat
  BY FrameCount DEF HarnessInv, NetInv
<1>5. k \notin sw /\ \A c \in Side : sock[c][k] = 0
  BY <1>1, <1>3, <1>4
<1>6. SenderType'
  <2>1. SenderType /\ accepted' \subseteq 1..k
    BY <1>1, <1>2, Parts DEF SenderType
  <2>2. tried' \in 0..Cardinality(Frame)
    BY <1>1, <1>3
  <2>3. 1..k \subseteq Frame
    BY <1>1, FrameCount
  <2>4. ASSUME NEW p \in Phase PROVE progress.by[p] <= Per(accepted')[p]
    <3>1. Per(accepted)[p] <= Per(accepted')[p]
      <4>1. accepted \in SUBSET accepted' /\ accepted' \in SUBSET Frame
        BY <1>2, <2>1, <2>3
      <4> QED BY <4>1, PerMonotone
    <3>2. Per(accepted) \in Counts /\ Per(accepted') \in Counts
      BY <1>2, <2>1, <2>3, PerType
    <3>3. progress.by[p] \in Nat /\ Per(accepted)[p] \in Nat /\ Per(accepted')[p] \in Nat
      BY <2>1, <3>2, Sizes DEF Counts, SenderType
    <3>4. progress.by[p] <= Per(accepted)[p]
      BY <2>1 DEF SenderType
    <3> QED BY <3>1, <3>3, <3>4
  <2>5. Per(accepted)' = Per(accepted')
    BY DEF Per
  <2>6. progress.attempted <= k /\ serr' \in BOOLEAN
    <3>1. progress.attempted \in Nat /\ progress.attempted <= tried
      BY <1>3, <2>1 DEF SenderType
    <3>2. serr' \in BOOLEAN
      BY <1>2, <2>1 DEF SenderType
    <3> QED BY <1>1, <3>1, <3>2
  <2> QED BY <1>1, <1>2, <2>1, <2>2, <2>4, <2>5, <2>6 DEF SenderType
<1>7. PipeType'
  BY <1>2, Parts DEF PipeType
<1>8. SenderInv'
  <2>1. spc' = "flush" => serr'
    BY <1>2
  <2> QED BY <1>2, <2>1 DEF HarnessInv, SenderInv
<1>9. CASE /\ accepted' = accepted \cup {k} /\ sw' = sw \cup {k} /\ Buffered("ingress", k)
           /\ faults' = faults + (IF cap' # cap THEN 1 ELSE 0)
  <2>1. "ingress" \in Side /\ "egress" \in Side /\ sock["ingress"][k] <= 1
    BY <1>5 DEF Side
  <2>2. /\ sock' \in [Side -> [Frame -> 0..2]]
        /\ sock' = sock \/ sock' = [sock EXCEPT !["ingress"][k] = @ + 1]
        /\ CapInv' /\ (cap' # cap => faults < NFaults)
        /\ \A d \in Side : cap'[d].thread = cap[d].thread /\ cap'[d].error = cap[d].error
    BY <1>3, <1>9, <2>1, BufferedIs
  <2>3. faults' \in 0..NFaults
    BY <1>9, <2>2, Parts, Sizes DEF NetType
  <2>4. NetType'
    BY <1>3, <1>9, <2>2, <2>3, Parts DEF NetType
  <2>5. sock \in [Side -> [Frame -> 0..2]] /\ sw \subseteq Frame
    BY Parts DEF NetType
  <2>6. /\ sock'["egress"] = sock["egress"]
        /\ \A f \in Frame, c \in Side : f # k => sock'[c][f] = sock[c][f]
    BY <2>1, <2>2, <2>5
  <2>7. \A f \in Frame : f > k => f \notin sw' /\ \A c \in Side : sock'[c][f] = 0
    BY <1>1, <1>4, <1>9, <2>6
  <2>8. \A f \in sw' : sock'["egress"][f] <= 1
    BY <1>5, <1>9, <2>1, <2>6 DEF HarnessInv, NetInv
  <2>9. NetInv'
    BY <1>1, <2>7, <2>8 DEF NetInv
  <2> QED BY <1>2, <1>3, <1>6, <1>7, <1>8, <2>2, <2>4, <2>9, SenderMoves DEF mains
<1>10. CASE UNCHANGED <<accepted, net, cap>>
  <2>1. NetType'
    BY <1>10, Parts DEF NetType, net
  <2>2. NetInv'
    BY <1>1, <1>4, <1>10 DEF NetInv, HarnessInv, net
  <2> QED BY <1>2, <1>3, <1>6, <1>7, <1>8, <1>10, <2>1, <2>2, CapsLeft, SenderMoves DEF mains
<1> QED BY <1>2, <1>9, <1>10

LEMMA PublishKeeps ==
    ASSUME HarnessInv, SenderEnds \/ Publish
    PROVE  HarnessInv'
<1>1. /\ spc \in {"send", "publish", "flush"} /\ spc' \in {"send", "flush", "reply"}
      /\ spc' = "flush" => tried = Cardinality(Frame)
      /\ spc' = "reply" => spc = "flush"
      /\ UNCHANGED progress \/ progress' = [attempted |-> tried, by |-> Per(accepted)]
      /\ UNCHANGED <<mpc, tried, accepted, serr, orphan, inbox, net, cap, mains>>
  BY DEF SenderEnds, Publish
<1>2. Alive
  BY <1>1 DEF Alive
<1>3. Per(accepted)' = Per(accepted)
  BY <1>1 DEF Per
<1>4. SenderType /\ Per(accepted) \in Counts
  BY Parts, AcceptedFrames, PerType
<1>5. /\ progress' \in [attempted : 0..Cardinality(Frame), by : Counts]
      /\ progress'.attempted <= tried /\ \A p \in Phase : progress'.by[p] <= Per(accepted)[p]
  <2>1. CASE UNCHANGED progress
    BY <1>4, <2>1 DEF SenderType
  <2>2. CASE progress' = [attempted |-> tried, by |-> Per(accepted)]
    <3>1. tried \in 0..Cardinality(Frame) /\ Cardinality(Frame) \in Nat
      BY <1>4, FrameCount DEF SenderType
    <3>2. progress'.attempted <= tried /\ progress'.by = Per(accepted)
      BY <2>2, <3>1
    <3>3. \A p \in Phase : Per(accepted)[p] \in Nat
      BY <1>4, Sizes DEF Counts
    <3> QED BY <1>4, <2>2, <3>1, <3>2, <3>3
  <2> QED BY <1>1, <2>1, <2>2
<1>6. SenderType'
  BY <1>1, <1>3, <1>4, <1>5 DEF SenderType
<1>7. PipeType' /\ NetType' /\ NetInv'
  BY <1>1, Parts DEF PipeType, NetType, NetInv, HarnessInv, net
<1>8. SenderInv'
  BY <1>1 DEF HarnessInv, SenderInv
<1> QED BY <1>1, <1>2, <1>6, <1>7, <1>8, CapsLeft, SenderMoves DEF mains

LEMMA ReplyKeeps ==
    ASSUME HarnessInv, Reply
    PROVE  HarnessInv'
<1>1. /\ spc = "reply" /\ spc' = "dead" /\ inbox' = Append(inbox, "result")
      /\ UNCHANGED <<mpc, tried, accepted, serr, progress, orphan, net, cap, mains>>
  BY DEF Reply
<1>2. Alive
  BY <1>1 DEF Alive
<1>3. Per(accepted)' = Per(accepted)
  BY <1>1 DEF Per
<1>4. SenderType'
  BY <1>1, <1>3, Parts DEF SenderType
<1>5. inbox \in Seq({"ready", "result"}) /\ Len(inbox) <= 1
  BY <1>1, Parts DEF PipeType, HarnessInv, SenderInv
<1>6. inbox' \in Seq({"ready", "result"}) /\ Len(inbox') = Len(inbox) + 1
  BY <1>1, <1>5
<1>7. PipeType'
  BY <1>5, <1>6 DEF PipeType
<1>8. SenderInv'
  BY <1>1 DEF HarnessInv, SenderInv
<1>9. NetType' /\ NetInv'
  BY <1>1, Parts DEF NetType, NetInv, HarnessInv, net
<1> QED BY <1>1, <1>2, <1>4, <1>7, <1>8, <1>9, CapsLeft, SenderMoves DEF mains

LEMMA DieKeeps ==
    ASSUME HarnessInv, Die
    PROVE  HarnessInv'
<1>1. /\ Alive /\ spc' = "killed" /\ orphan' = (orphan \/ spc \in {"publish", "flush"})
      /\ UNCHANGED <<mpc, tried, accepted, serr, progress, inbox, net, cap, mains>>
  BY DEF Die, Killed
<1>2. orphan' \in BOOLEAN
  BY <1>1
<1>3. SenderType'
  BY <1>1, <1>2, StandSender
<1>4. PipeType' /\ NetType' /\ NetInv'
  BY <1>1, Parts DEF PipeType, NetType, NetInv, HarnessInv, net
<1>5. SenderInv'
  BY <1>1 DEF HarnessInv, SenderInv, Alive
<1> QED BY <1>1, <1>3, <1>4, <1>5, CapsLeft, SenderMoves DEF mains
-----------------------------------------------------------------------------
(* The switch and the captures. *)

LEMMA ForwardKeeps ==
    ASSUME HarnessInv, NEW f \in Frame, Forward(f)
    PROVE  HarnessInv'
<1>1. /\ f \in sw /\ Buffered("egress", f) /\ UNCHANGED <<mpc, sender, inbox, mains>>
      /\ \/ sw' = sw \ {f} /\ faults' = faults + (IF cap' # cap THEN 1 ELSE 0)
         \/ faults < NFaults /\ cap' = cap /\ sw' = sw /\ sock["egress"][f] = 0 /\ faults' = faults + 1
  BY DEF Forward
<1>2. "egress" \in Side /\ sock["egress"][f] <= 1
  BY <1>1 DEF Side, HarnessInv, NetInv
<1>3. /\ sock' \in [Side -> [Frame -> 0..2]]
      /\ sock' = sock \/ sock' = [sock EXCEPT !["egress"][f] = @ + 1]
      /\ CapInv' /\ (cap' # cap => faults < NFaults)
      /\ \A d \in Side : /\ cap'[d].thread = cap[d].thread /\ cap'[d].error = cap[d].error
                         /\ cap'[d].seen = cap[d].seen
  BY <1>1, <1>2, BufferedIs
<1>4. sock \in [Side -> [Frame -> 0..2]] /\ sw \subseteq Frame /\ faults \in 0..NFaults /\ tried \in Nat
  BY Parts, AcceptedFrames DEF NetType
<1>5. faults' \in 0..NFaults
  BY <1>1, <1>3, <1>4, Sizes
<1>6. NetType'
  BY <1>1, <1>3, <1>4, <1>5 DEF NetType
<1>7. f <= tried /\ tried' = tried
  <2>1. ~(f > tried) /\ f \in Nat
    BY <1>1, FrameCount DEF HarnessInv, NetInv
  <2> QED BY <1>1, <1>4, <2>1 DEF sender
<1>8. \A g \in Frame, c \in Side : g # f => sock'[c][g] = sock[c][g]
  BY <1>3, <1>4
<1>9. NetInv'
  <2>1. \A g \in Frame : g > tried => g # f
    BY <1>4, <1>7, FrameCount
  <2>2. \A g \in Frame : g > tried' => g \notin sw' /\ \A c \in Side : sock'[c][g] = 0
    BY <1>1, <1>7, <1>8, <2>1 DEF HarnessInv, NetInv
  <2>3. \A g \in sw' : sock'["egress"][g] <= 1
    <3> SUFFICES ASSUME NEW g \in sw' PROVE sock'["egress"][g] <= 1
      OBVIOUS
    <3>1. g \in sw /\ g \in Frame /\ sock["egress"][g] <= 1
      BY <1>1, <1>4 DEF HarnessInv, NetInv
    <3>2. CASE g # f
      BY <1>2, <1>8, <3>1, <3>2
    <3>3. CASE g = f
      <4>1. sock["egress"][f] = 0
        BY <1>1, <3>3
      <4>2. sock'["egress"][f] \in {0, 1}
        BY <1>2, <1>3, <1>4, <4>1
      <4> QED BY <3>3, <4>2
    <3> QED BY <3>2, <3>3
  <2> QED BY <2>2, <2>3 DEF NetInv
<1> QED BY <1>1, <1>3, <1>6, <1>9, WorldMoves

LEMMA LoseKeeps ==
    ASSUME HarnessInv, NEW f \in Frame, Lose(f)
    PROVE  HarnessInv'
<1>1. /\ faults < NFaults /\ sw' = sw \ {f} /\ faults' = faults + 1
      /\ UNCHANGED <<mpc, sender, inbox, sock, cap, mains>>
  BY DEF Lose
<1>2. NetType'
  BY <1>1, Parts, Sizes DEF NetType
<1>3. NetInv'
  BY <1>1 DEF HarnessInv, NetInv, sender
<1>4. CapInv'
  BY <1>1, CapsLeft
<1> QED BY <1>1, <1>2, <1>3, <1>4, WorldMoves

(* A capture counts a frame when it sees it for the first time. *)
LEMMA ReceiveKeeps ==
    ASSUME HarnessInv, NEW c \in Side, NEW f \in Frame, Receive(c, f)
    PROVE  HarnessInv'
<1>1. /\ sock[c][f] > 0 /\ sock' = [sock EXCEPT ![c][f] = @ - 1]
      /\ cap' = [cap EXCEPT ![c].seen = @ \cup {f},
                            ![c].by[PhaseOf(f)] = @ + (IF Fresh(c, f) THEN 1 ELSE 0)]
      /\ UNCHANGED <<mpc, sender, inbox, sw, faults, mains>>
  BY DEF Receive
<1>2. /\ sock \in [Side -> [Frame -> 0..2]] /\ sw \subseteq Frame /\ faults \in 0..NFaults
      /\ cap \in [Side -> Capture] /\ \A d \in Side : cap[d].by = Per(cap[d].seen) /\ cap[d].seen \subseteq Frame
  BY Parts DEF NetType, HarnessInv, CapInv, Capture
<1>3. sock[c][f] \in 0..2 /\ sock[c][f] - 1 \in 0..2
  BY <1>1, <1>2
<1>4. /\ sock' \in [Side -> [Frame -> 0..2]]
      /\ \A d \in Side, g \in Frame : sock'[d][g] <= sock[d][g]
  BY <1>1, <1>2, <1>3
<1>5. NetType'
  BY <1>1, <1>2, <1>4 DEF NetType
<1>6. NetInv'
  <2>1. "egress" \in Side /\ tried' = tried /\ sw' = sw
    BY <1>1 DEF Side, sender
  <2>2. \A g \in Frame : g > tried => g \notin sw /\ \A d \in Side : sock'[d][g] = 0
    BY <1>2, <1>4 DEF HarnessInv, NetInv
  <2>3. \A g \in sw : sock'["egress"][g] <= 1
    <3> SUFFICES ASSUME NEW g \in sw PROVE sock'["egress"][g] <= 1
      OBVIOUS
    <3>1. sock["egress"][g] \in 0..2 /\ sock'["egress"][g] \in 0..2 /\ sock["egress"][g] <= 1
      BY <1>2, <1>4, <2>1 DEF HarnessInv, NetInv
    <3>2. sock'["egress"][g] <= sock["egress"][g]
      BY <1>2, <1>4, <2>1
    <3> QED BY <3>1, <3>2
  <2> QED BY <2>1, <2>2, <2>3 DEF NetInv
<1>7. /\ \A d \in Side : cap'[d].thread = cap[d].thread /\ cap'[d].error = cap[d].error
      /\ \A d \in Side : d # c => cap'[d] = cap[d]
      /\ cap'[c].seen = cap[c].seen \cup {f}
      /\ cap'[c].by = [cap[c].by EXCEPT ![PhaseOf(f)] = @ + (IF f \notin cap[c].seen THEN 1 ELSE 0)]
  BY <1>1, <1>2 DEF Fresh, Capture
<1>8. cap'[c].by = Per(cap[c].seen \cup {f}) /\ Per(cap[c].seen \cup {f}) \in Counts
  <2>1. PICK S \in SUBSET Frame : S = cap[c].seen
    BY <1>2
  <2>2. Per(S \cup {f}) = [Per(S) EXCEPT ![PhaseOf(f)] = @ + (IF f \notin S THEN 1 ELSE 0)]
    BY PerAdd
  <2>3. S \cup {f} \in SUBSET Frame
    OBVIOUS
  <2>4. Per(S \cup {f}) \in Counts
    BY <2>3, PerType
  <2>5. cap[c].by = Per(S)
    BY <1>2, <2>1
  <2>6. cap'[c].by = [Per(S) EXCEPT ![PhaseOf(f)] = @ + (IF f \notin S THEN 1 ELSE 0)]
    BY <1>7, <2>1, <2>5
  <2>7. cap'[c].by = Per(S \cup {f})
    BY <2>2, <2>6
  <2> QED BY <2>1, <2>4, <2>7
<1>9. cap' \in [Side -> Capture]
  <2>1. cap' = [d \in Side |-> cap'[d]]
    BY <1>1, <1>2
  <2>2. cap'[c] = [cap[c] EXCEPT !.seen = cap[c].seen \cup {f}, !.by = cap'[c].by]
    BY <1>1, <1>2 DEF Capture
  <2>3. cap'[c] \in Capture
    <3>1. PICK r \in Capture, S \in SUBSET Frame, n \in Counts :
             r = cap[c] /\ S = cap[c].seen \cup {f} /\ n = cap'[c].by
      BY <1>2, <1>8
    <3>2. [r EXCEPT !.seen = S, !.by = n] \in Capture
      BY DEF Capture
    <3> QED BY <2>2, <3>1, <3>2
  <2> QED BY <1>2, <1>7, <2>1, <2>3
<1>10. CapInv'
  <2>1. \A d \in Side : Per(cap[d].seen)' = Per(cap'[d].seen)
    BY DEF Per
  <2>2. \A d \in Side : cap'[d].by = Per(cap'[d].seen)
    BY <1>2, <1>7, <1>8
  <2> QED BY <1>9, <2>1, <2>2 DEF CapInv
<1>11. \A d \in Side : cap[d].seen \subseteq cap'[d].seen
  BY <1>7
<1> QED BY <1>1, <1>5, <1>6, <1>7, <1>10, <1>11, WorldMoves

LEMMA EndCaptureKeeps ==
    ASSUME HarnessInv, NEW c \in Side, EndCapture(c)
    PROVE  HarnessInv'
<1>1. PICK failed \in BOOLEAN, unread \in BOOLEAN :
         cap' = [cap EXCEPT ![c].thread = "ended",
                            ![c].error = @ \/ failed \/ unread,
                            ![c].drops = cap[c].dropped /\ ~unread]
  BY DEF EndCapture
<1>2. /\ cap[c].thread = "up" /\ sock' = [sock EXCEPT ![c] = [f \in Frame |-> 0]]
      /\ UNCHANGED <<mpc, sender, inbox, sw, faults, mains>>
  BY DEF EndCapture
<1>3. CapInv /\ cap \in [Side -> Capture] /\ sock \in [Side -> [Frame -> 0..2]]
  BY Parts DEF HarnessInv, CapInv, NetType
<1>4. /\ \A d \in Side : cap'[d].seen = cap[d].seen /\ cap'[d].by = cap[d].by
      /\ \A d \in Side : d # c => cap'[d] = cap[d]
      /\ cap'[c].thread = "ended" /\ cap'[c].error = (cap[c].error \/ failed \/ unread)
  BY <1>1, <1>3 DEF Capture
<1>5. cap' \in [Side -> Capture]
  <2>1. PICK e \in BOOLEAN : e = (cap[c].error \/ failed \/ unread)
    OBVIOUS
  <2>2. PICK d \in BOOLEAN : d = (cap[c].dropped /\ ~unread)
    OBVIOUS
  <2>3. PICK r \in Capture : r = cap[c]
    BY <1>3
  <2>4. cap' = [cap EXCEPT ![c] = [r EXCEPT !.thread = "ended", !.error = e, !.drops = d]]
    BY <1>1, <1>3, <2>1, <2>2, <2>3
  <2>5. [r EXCEPT !.thread = "ended", !.error = e, !.drops = d] \in Capture
    BY DEF Capture, Threads
  <2> QED BY <1>3, <2>4, <2>5
<1>6. CapInv'
  <2>1. \A d \in Side : Per(cap[d].seen)' = Per(cap[d].seen)
    BY <1>4 DEF Per
  <2> QED BY <1>3, <1>4, <1>5, <2>1 DEF CapInv
<1>7. \A d \in Side, f \in Frame : sock'[d][f] = sock[d][f] \/ sock'[d][f] = 0
  BY <1>2, <1>3
<1>8. NetType'
  BY <1>2, <1>3, Parts DEF NetType
<1>9. NetInv'
  BY <1>2, <1>7, Parts DEF HarnessInv, NetInv, NetType, Side, sender
<1> QED BY <1>2, <1>4, <1>6, <1>8, <1>9, WorldMoves
-----------------------------------------------------------------------------
(* The main thread. *)

(* The pipe is left alone, by a step that may end the sender, or the first *)
(* message is taken: only a sender that has ended gives a result.          *)
LEMMA PipeLeft ==
    ASSUME HarnessInv, UNCHANGED <<inbox, serr, tried>>, spc' = spc \/ (Alive /\ spc' = "killed")
    PROVE  PipeType' /\ SenderInv'
<1>1. PipeType'
  BY Parts DEF PipeType
<1>2. SenderInv'
  BY DEF HarnessInv, SenderInv, Alive
<1> QED BY <1>1, <1>2

LEMMA PipeTaken ==
    ASSUME HarnessInv, inbox # <<>>, inbox' = Tail(inbox), UNCHANGED <<spc, serr, tried>>
    PROVE  PipeType' /\ SenderInv' /\ spc \notin {"none", "init"} /\ (Head(inbox) # "ready" => spc = "dead")
<1>1. inbox \in Seq({"ready", "result"}) /\ Len(inbox) \in 1..2
  <2>1. inbox \in Seq({"ready", "result"}) /\ Len(inbox) <= 2 /\ Len(inbox) \in Nat
    BY Parts DEF PipeType
  <2>2. Len(inbox) # 0
    BY <2>1
  <2>3. ASSUME NEW n \in Nat, n <= 2, n # 0 PROVE n \in 1..2
    BY <2>3
  <2> QED BY <2>1, <2>2, <2>3
<1>2. /\ Tail(inbox) \in Seq({"ready", "result"}) /\ Len(Tail(inbox)) = Len(inbox) - 1
      /\ \A i \in 1..Len(Tail(inbox)) : Tail(inbox)[i] = inbox[i + 1] /\ i + 1 \in 1..Len(inbox)
      /\ Head(inbox) = inbox[1] /\ inbox[1] \in {"ready", "result"} /\ 1 \in 1..Len(inbox)
  BY <1>1
<1>3. PipeType'
  BY <1>1, <1>2 DEF PipeType
<1>4. /\ spc \notin {"none", "init"}
      /\ spc \notin {"dead", "killed"} => Len(inbox) <= 1
      /\ \A i \in 1..Len(inbox) : inbox[i] = "result" => spc = "dead"
      /\ spc \in {"flush", "reply", "dead"} => serr \/ tried = Cardinality(Frame)
  BY DEF HarnessInv, SenderInv
<1>5. \A i \in 1..Len(inbox') : inbox'[i] = "result" => spc' = "dead"
  BY <1>2, <1>4
<1>6. spc' \notin {"dead", "killed"} => Len(inbox') <= 1
  BY <1>1, <1>2
<1>7. SenderInv'
  BY <1>4, <1>5, <1>6 DEF SenderInv
<1> QED BY <1>2, <1>3, <1>4, <1>7

(* terminate leaves no sender behind. *)
LEMMA TerminatedIs ==
    ASSUME HarnessInv, Terminated
    PROVE  (spc' = spc \/ (Alive /\ spc' = "killed")) /\ orphan' \in BOOLEAN /\ ~Alive'
<1>1. orphan \in BOOLEAN
  BY Parts DEF SenderType
<1> QED BY <1>1 DEF Terminated, Killed, Alive

LEMMA CapsMarked ==
    ASSUME HarnessInv, cap' \in [Side -> Capture],
           \A d \in Side : cap'[d].seen = cap[d].seen /\ cap'[d].by = cap[d].by
    PROVE  CapInv'
<1>1. \A d \in Side : Per(cap[d].seen)' = Per(cap[d].seen)
  BY DEF Per
<1> QED BY <1>1 DEF HarnessInv, CapInv

(* Until the main thread drains the captures, their counts are not asked.  *)
LEMMA EarlyState ==
    ASSUME mpc' \notin {"drain", "stop1", "stop2", "report"}
    PROVE  StateInv'
  BY DEF StateInv

LEMMA SpawnKeeps ==
    ASSUME HarnessInv, Spawn
    PROVE  HarnessInv'
<1>1. /\ mpc = "spawn" /\ mpc' = "ready" /\ spc' = "init"
      /\ UNCHANGED <<tried, accepted, serr, progress, orphan, inbox, net, cap, mains>>
  BY DEF Spawn, Go
<1>2. Per(accepted)' = Per(accepted)
  BY <1>1 DEF Per
<1>3. SenderType'
  BY <1>1, <1>2, Parts DEF SenderType
<1>4. spc = "none" => PipeType' /\ SenderInv'
  BY <1>1, Parts DEF PipeType, HarnessInv, SenderInv
<1>5. spc = "none"
  BY <1>1 DEF HarnessInv, MainInv
<1>6. MainType' /\ MainInv'
  BY <1>1, Parts DEF MainType, HarnessInv, MainInv, Reaped, Started, Over, mains
<1>7. StateInv' /\ CapInv'
  BY <1>1, EarlyState, CapsLeft
<1> QED BY <1>1, <1>3, <1>4, <1>5, <1>6, <1>7, MainMoves

(* The first message, the end of the pipe, or the timeout. *)
LEMMA AwaitReadyKeeps ==
    ASSUME HarnessInv, AwaitReady
    PROVE  HarnessInv'
<1>1. mpc = "ready" /\ UNCHANGED <<tried, accepted, serr, progress, net, cap, mains>>
  BY DEF AwaitReady
<1>2. /\ mpc' \in {"ingress", "raised"} /\ (spc' = spc \/ spc' = "killed") /\ orphan' \in BOOLEAN
      /\ PipeType' /\ SenderInv' /\ (mpc' = "raised" => ~Alive')
  <2>0. orphan \in BOOLEAN
    BY Parts DEF SenderType
  <2>1. CASE /\ inbox # <<>> /\ inbox' = Tail(inbox) /\ UNCHANGED <<spc, orphan>>
             /\ mpc' = (IF Head(inbox) = "ready" THEN "ingress" ELSE "raised")
    <3>1. PipeType' /\ SenderInv' /\ (Head(inbox) # "ready" => spc = "dead")
      BY <1>1, <2>1, PipeTaken
    <3> QED BY <2>0, <2>1, <3>1 DEF Alive
  <2>2. CASE Closed /\ mpc' = "raised" /\ UNCHANGED <<spc, orphan, inbox>>
    <3>1. PipeType' /\ SenderInv'
      BY <1>1, <2>2, PipeLeft
    <3> QED BY <2>0, <2>2, <3>1 DEF Closed, Alive
  <2>3. CASE Terminated /\ mpc' = "raised" /\ UNCHANGED inbox
    <3>1. (spc' = spc \/ (Alive /\ spc' = "killed")) /\ orphan' \in BOOLEAN /\ ~Alive'
      BY <2>3, TerminatedIs
    <3>2. PipeType' /\ SenderInv'
      BY <1>1, <2>3, <3>1, PipeLeft
    <3> QED BY <2>3, <3>1, <3>2
  <2> QED BY <2>1, <2>2, <2>3 DEF AwaitReady, Go
<1>3. SenderType'
  BY <1>1, <1>2, StandSender
<1>4. MainType' /\ MainInv'
  BY <1>1, <1>2, Parts DEF MainType, HarnessInv, MainInv, Reaped, Started, Over, mains
<1>5. StateInv' /\ CapInv'
  BY <1>1, <1>2, EarlyState, CapsLeft
<1> QED BY <1>1, <1>2, <1>3, <1>4, <1>5, MainMoves

(* A capture that starts is no longer off; one that fails ends the sender. *)
LEMMA StartCaptureKeeps ==
    ASSUME HarnessInv, NEW c \in Side, NEW next \in {"egress", "start"}, StartCapture(c, next),
           (c = "ingress" /\ next = "egress") \/ (c = "egress" /\ next = "start")
    PROVE  HarnessInv'
<1>1. mpc = c /\ UNCHANGED <<tried, accepted, serr, progress, inbox, net, mains>>
  BY DEF StartCapture, Quiet, net
<1>2. cap \in [Side -> Capture] /\ orphan \in BOOLEAN
  BY Parts DEF HarnessInv, CapInv, SenderType
<1>3. CASE cap' = [cap EXCEPT ![c].thread = "up"] /\ mpc' = next /\ UNCHANGED <<spc, orphan>>
  <2>1. SenderType'
    BY <1>1, <1>2, <1>3, StandSender
  <2>2. PipeType' /\ SenderInv'
    BY <1>1, <1>3, PipeLeft
  <2>3. /\ \A d \in Side : cap'[d].seen = cap[d].seen /\ cap'[d].by = cap[d].by
        /\ cap'[c].thread = "up" /\ \A d \in Side : d # c => cap'[d] = cap[d]
    BY <1>2, <1>3 DEF Capture
  <2>4. cap' \in [Side -> Capture]
    BY <1>2, <1>3 DEF Capture, Threads
  <2>5. CapInv'
    BY <2>3, <2>4, CapsMarked
  <2>6. MainType'
    BY <1>1, <1>3, Parts DEF MainType, mains
  <2>7. MainInv'
    BY <1>1, <1>3, <2>3 DEF HarnessInv, MainInv, Reaped, Started, Over, Side, mains
  <2>8. StateInv'
    BY <1>3, EarlyState
  <2> QED BY <1>1, <1>3, <2>1, <2>2, <2>5, <2>6, <2>7, <2>8, MainMoves
<1>4. CASE /\ cap' = [d \in Side |-> [cap[d] EXCEPT !.stop = TRUE,
                                                     !.thread = IF d = c THEN "ended" ELSE @]]
           /\ Terminated /\ mpc' = "raised"
  <2>1. (spc' = spc \/ (Alive /\ spc' = "killed")) /\ orphan' \in BOOLEAN /\ ~Alive'
    BY <1>4, TerminatedIs
  <2>2. SenderType'
    BY <1>1, <2>1, StandSender
  <2>3. PipeType' /\ SenderInv'
    BY <1>1, <2>1, PipeLeft
  <2>4. \A d \in Side : /\ cap'[d] \in Capture
                        /\ cap'[d].seen = cap[d].seen /\ cap'[d].by = cap[d].by
    <3> SUFFICES ASSUME NEW d \in Side
                 PROVE  /\ cap'[d] \in Capture
                        /\ cap'[d].seen = cap[d].seen /\ cap'[d].by = cap[d].by
      OBVIOUS
    <3>1. PICK r \in Capture : r = cap[d]
      BY <1>2
    <3>2. PICK t \in Threads : t = (IF d = c THEN "ended" ELSE r.thread)
      BY DEF Capture, Threads
    <3>3. cap'[d] = [r EXCEPT !.stop = TRUE, !.thread = t]
      BY <1>4, <3>1, <3>2
    <3>4. [r EXCEPT !.stop = TRUE, !.thread = t] \in Capture
      BY DEF Capture
    <3>5. cap'[d].seen = r.seen /\ cap'[d].by = r.by
      BY <3>3 DEF Capture
    <3> QED BY <3>1, <3>3, <3>4, <3>5
  <2>5. cap' = [d \in Side |-> cap'[d]]
    BY <1>4
  <2>6. CapInv'
    BY <2>4, <2>5, CapsMarked
  <2>7. MainType'
    BY <1>1, <1>4, Parts DEF MainType, Over, mains
  <2>8. MainInv'
    BY <1>4, <2>1 DEF MainInv, Reaped, Started, Over
  <2>9. StateInv'
    BY <1>4, EarlyState
  <2> QED BY <1>1, <1>4, <2>2, <2>3, <2>6, <2>7, <2>8, <2>9, MainMoves
<1> QED BY <1>3, <1>4 DEF StartCapture, Go

LEMMA StartSenderKeeps ==
    ASSUME HarnessInv, StartSender
    PROVE  HarnessInv'
<1>1. /\ mpc = "start" /\ UNCHANGED <<tried, accepted, serr, progress, orphan, inbox, net, cap, mains>>
      /\ \/ ~Alive /\ mpc' = "raised" /\ UNCHANGED spc
         \/ spc = "ready" /\ spc' = "send" /\ mpc' = (IF NSamples = 0 THEN "join" ELSE "sample")
  BY DEF StartSender, Go
<1>2. Per(accepted)' = Per(accepted)
  BY <1>1 DEF Per
<1>3. SenderType'
  BY <1>1, <1>2, Parts DEF SenderType
<1>4. PipeType' /\ SenderInv'
  BY <1>1, Parts DEF PipeType, HarnessInv, SenderInv
<1>5. MainType'
  BY <1>1, Parts DEF MainType, Over, mains
<1>6. taken = 0 /\ (NSamples # 0 => taken < NSamples)
  BY <1>1, Sizes DEF HarnessInv, MainInv
<1>7. (~Alive /\ UNCHANGED spc) => ~Alive'
  BY DEF Alive
<1>8. MainInv'
  BY <1>1, <1>6, <1>7 DEF HarnessInv, MainInv, Reaped, Started, Over, mains
<1>9. StateInv' /\ CapInv'
  BY <1>1, EarlyState, CapsLeft
<1> QED BY <1>1, <1>3, <1>4, <1>5, <1>8, <1>9, MainMoves

LEMMA SampleKeeps ==
    ASSUME HarnessInv, Sample \/ Callback
    PROVE  HarnessInv'
<1>1. /\ mpc \in {"sample", "callback"} /\ UNCHANGED <<sender, inbox, net, cap, drain, state, result>>
      /\ \/ mpc = "sample" /\ mpc' = "callback" /\ taken' = taken + 1 /\ UNCHANGED cberr
         \/ /\ mpc = "callback" /\ mpc' = (IF taken = NSamples THEN "join" ELSE "sample")
            /\ cberr' \in {cberr, TRUE} /\ UNCHANGED taken
  BY DEF Sample, Callback, Go
<1>2. SenderType'
  BY <1>1, Parts, StandSender DEF sender, SenderType
<1>3. PipeType' /\ SenderInv'
  BY <1>1, PipeLeft DEF sender
<1>4. taken \in 0..NSamples /\ (mpc = "sample" => taken < NSamples)
  BY Parts DEF HarnessInv, MainInv, MainType
<1>5. taken' \in 0..NSamples /\ (mpc' = "sample" => taken' < NSamples)
  <2>1. NSamples \in Nat
    BY Sizes
  <2>2. CASE mpc = "sample" /\ mpc' = "callback" /\ taken' = taken + 1
    BY <1>4, <2>1, <2>2
  <2>3. CASE mpc' = (IF taken = NSamples THEN "join" ELSE "sample") /\ UNCHANGED taken
    BY <1>4, <2>1, <2>3
  <2> QED BY <1>1, <2>2, <2>3
<1>6. cberr' \in BOOLEAN
  BY <1>1, Parts DEF MainType
<1>7. MainType'
  BY <1>1, <1>5, <1>6, Parts DEF MainType
<1>8. MainInv'
  BY <1>1, <1>5 DEF HarnessInv, MainInv, Reaped, Started, Over
<1>9. StateInv' /\ CapInv'
  BY <1>1, EarlyState, CapsLeft
<1> QED BY <1>1, <1>2, <1>3, <1>7, <1>8, <1>9, MainMoves DEF sender

(* A sender that does not end in time is ended, and its state is an error. *)
LEMMA JoinKeeps ==
    ASSUME HarnessInv, Join
    PROVE  HarnessInv'
<1>1. /\ mpc = "join"
      /\ UNCHANGED <<tried, accepted, serr, progress, inbox, net, cap, taken, cberr, drain, result>>
  BY DEF Join
<1>2. orphan \in BOOLEAN
  BY Parts DEF SenderType
<1>3. CASE ~Alive /\ mpc' = "result" /\ UNCHANGED <<spc, orphan, state>>
  <2>1. SenderType'
    BY <1>1, <1>2, <1>3, StandSender
  <2>2. PipeType' /\ SenderInv'
    BY <1>1, <1>3, PipeLeft
  <2>3. MainType'
    BY <1>1, <1>3, Parts DEF MainType
  <2>4. ~Alive'
    BY <1>3 DEF Alive
  <2>5. MainInv'
    BY <1>1, <1>3, <2>4 DEF HarnessInv, MainInv, Reaped, Started, Over
  <2>6. StateInv' /\ CapInv'
    BY <1>1, <1>3, EarlyState, CapsLeft
  <2> QED BY <1>1, <1>3, <2>1, <2>2, <2>3, <2>5, <2>6, MainMoves
<1>4. CASE /\ Terminated /\ mpc' = "drain"
           /\ state' = [errors |-> TRUE, attempted |-> Zero, by |-> progress.by]
  <2>1. (spc' = spc \/ (Alive /\ spc' = "killed")) /\ orphan' \in BOOLEAN /\ ~Alive'
    BY <1>4, TerminatedIs
  <2>2. SenderType'
    BY <1>1, <2>1, StandSender
  <2>3. PipeType' /\ SenderInv'
    BY <1>1, <2>1, PipeLeft
  <2>4. state'.errors = TRUE
    BY <1>4
  <2>5. MainType'
    BY <1>1, <1>4, <2>4, Parts DEF MainType
  <2>6. MainInv'
    BY <1>1, <1>4, <2>1 DEF HarnessInv, MainInv, Reaped, Started, Over
  <2>7. StateInv' /\ CapInv'
    BY <1>1, <2>4, CapsLeft DEF StateInv
  <2> QED BY <1>1, <1>4, <2>2, <2>3, <2>5, <2>6, <2>7, MainMoves
<1> QED BY <1>3, <1>4 DEF Join, Go

(* A result without an error is that of a sender that went to its end. *)
LEMMA TakeResultKeeps ==
    ASSUME HarnessInv, TakeResult
    PROVE  HarnessInv'
<1>1. mpc = "result" /\ UNCHANGED <<sender, net, cap, taken, cberr, drain, result>>
  BY DEF TakeResult
<1>2. SenderType'
  BY <1>1, Parts, StandSender DEF sender, SenderType
<1>3. ~Alive /\ ~Alive'
  BY <1>1 DEF HarnessInv, MainInv, Reaped, Alive, sender
<1>4. CASE mpc' = "raised" /\ UNCHANGED <<inbox, state>>
  <2>1. PipeType' /\ SenderInv'
    BY <1>1, <1>4, PipeLeft DEF sender
  <2>2. MainType'
    BY <1>1, <1>4, Parts DEF MainType, Over
  <2>3. MainInv'
    BY <1>3, <1>4 DEF MainInv, Reaped, Started, Over
  <2>4. StateInv' /\ CapInv'
    BY <1>1, <1>4, EarlyState, CapsLeft
  <2> QED BY <1>1, <1>2, <1>4, <2>1, <2>2, <2>3, <2>4, MainMoves DEF sender
<1>5. CASE /\ inbox # <<>> /\ inbox' = Tail(inbox) /\ mpc' = "drain"
           /\ state' = [errors |-> serr \/ spc = "killed", attempted |-> Per(1..tried), by |-> Per(accepted)]
  <2>1. PipeType' /\ SenderInv' /\ spc \notin {"none", "init"}
    BY <1>1, <1>5, PipeTaken DEF sender
  <2>2. PICK e \in BOOLEAN : e = (serr \/ spc = "killed")
    OBVIOUS
  <2>3. state'.errors = e /\ state'.attempted = Per(1..tried) /\ state'.by = Per(accepted)
    BY <1>5, <2>2
  <2>4. MainType'
    BY <1>1, <1>5, <2>3, Parts DEF MainType
  <2>5. MainInv'
    BY <1>1, <1>3, <1>5 DEF HarnessInv, MainInv, Reaped, Started, Over
  <2>6. ~e => tried = Cardinality(Frame)
    <3>1. ~e => spc = "dead" /\ ~serr
      BY <1>3, <2>1, <2>2, Parts DEF Alive, SenderType
    <3> QED BY <3>1 DEF HarnessInv, SenderInv
  <2>7. Per(1..tried)' = Per(1..tried) /\ Per(accepted)' = Per(accepted) /\ tried' = tried
    BY <1>1 DEF Per, sender
  <2>8. StateInv'
    BY <2>3, <2>6, <2>7 DEF StateInv
  <2>9. CapInv'
    BY <1>1, CapsLeft
  <2> QED BY <1>1, <1>2, <1>5, <2>1, <2>4, <2>5, <2>8, <2>9, MainMoves DEF sender
<1> QED BY <1>4, <1>5 DEF TakeResult, Go

(* The state of the sender stands while the captures are drained. *)
LEMMA DrainedState ==
    ASSUME HarnessInv, mpc \in {"drain", "stop1", "stop2"}, UNCHANGED <<sender, state>>
    PROVE  StateInv'
<1>1. Per(1..tried)' = Per(1..tried) /\ Per(accepted)' = Per(accepted) /\ tried' = tried
  BY DEF Per, sender
<1> QED BY <1>1 DEF HarnessInv, StateInv

LEMMA DrainKeeps ==
    ASSUME HarnessInv, Drain
    PROVE  HarnessInv'
<1>1. mpc = "drain" /\ UNCHANGED <<sender, inbox, net, cap, taken, cberr, state, result>>
  BY DEF Drain
<1>2. drain.stable \in 0..NStable /\ drain.stable < NStable /\ NStable \in Nat
  BY <1>1, Parts, Sizes DEF MainType, HarnessInv, MainInv, Over
<1>3. /\ mpc' \in {"drain", "stop1"} /\ drain'.stable \in 0..NStable
      /\ mpc' = "drain" => drain'.stable < NStable
  <2>1. PICK now, n : /\ n \in {drain.stable + 1, 0}
                      /\ \/ drain' = [prior |-> now, stable |-> n] /\ mpc' = (IF n = NStable THEN "stop1" ELSE "drain")
                         \/ mpc' = "stop1" /\ UNCHANGED drain
    BY DEF Drain, Go
  <2>2. n \in 0..NStable /\ (n # NStable => n < NStable)
    BY <1>2, <2>1
  <2>3. CASE drain' = [prior |-> now, stable |-> n] /\ mpc' = (IF n = NStable THEN "stop1" ELSE "drain")
    <3>1. drain'.stable = n
      BY <2>3
    <3> QED BY <2>2, <2>3, <3>1
  <2>4. CASE mpc' = "stop1" /\ UNCHANGED drain
    BY <1>2, <2>4
  <2> QED BY <2>1, <2>3, <2>4
<1>4. SenderType'
  BY <1>1, Parts, StandSender DEF sender, SenderType
<1>5. PipeType' /\ SenderInv'
  BY <1>1, PipeLeft DEF sender
<1>6. MainType'
  BY <1>1, <1>3, Parts DEF MainType
<1>7. ~Alive'
  BY <1>1 DEF HarnessInv, MainInv, Reaped, Alive, sender
<1>8. MainInv'
  BY <1>1, <1>3, <1>7 DEF HarnessInv, MainInv, Started, Over
<1>9. StateInv' /\ CapInv'
  BY <1>1, DrainedState, CapsLeft
<1> QED BY <1>1, <1>3, <1>4, <1>5, <1>6, <1>8, <1>9, MainMoves DEF sender

(* A capture is stopped and joined: it has ended, or it is an error. *)
LEMMA StopCaptureKeeps ==
    ASSUME HarnessInv, NEW c \in Side, NEW l, NEW next, StopCapture(c, l, next),
           \/ c = "ingress" /\ l = "stop1" /\ next = "stop2"
           \/ c = "egress" /\ l = "stop2" /\ next = "report"
    PROVE  HarnessInv'
<1>1. /\ mpc = l /\ UNCHANGED <<sender, inbox, net, mains>>
      /\ \/ cap' = [cap EXCEPT ![c].stop = TRUE] /\ UNCHANGED mpc
         \/ cap[c].thread = "ended" /\ UNCHANGED cap /\ mpc' = next
         \/ cap' = [cap EXCEPT ![c].error = TRUE] /\ mpc' = next
  BY DEF StopCapture, Quiet, net, Go
<1>2. cap \in [Side -> Capture]
  BY DEF HarnessInv, CapInv
<1>3. /\ cap' \in [Side -> Capture]
      /\ \A d \in Side : /\ cap'[d].seen = cap[d].seen /\ cap'[d].by = cap[d].by
                         /\ cap'[d].thread = cap[d].thread /\ (cap[d].error => cap'[d].error)
      /\ mpc' = next => cap'[c].thread = "ended" \/ cap'[c].error
  <2>1. CASE cap' = [cap EXCEPT ![c].stop = TRUE] /\ UNCHANGED mpc
    BY <1>1, <1>2, <2>1 DEF Capture
  <2>2. CASE cap[c].thread = "ended" /\ UNCHANGED cap
    BY <1>2, <2>2
  <2>3. CASE cap' = [cap EXCEPT ![c].error = TRUE]
    BY <1>2, <2>3 DEF Capture
  <2> QED BY <1>1, <2>1, <2>2, <2>3
<1>4. CapInv'
  BY <1>3, CapsMarked
<1>5. SenderType'
  BY <1>1, Parts, StandSender DEF sender, SenderType
<1>6. PipeType' /\ SenderInv'
  BY <1>1, PipeLeft DEF sender
<1>7. MainType'
  BY <1>1, Parts DEF MainType, mains
<1>8. ~Alive'
  BY <1>1 DEF HarnessInv, MainInv, Reaped, Alive, sender
<1>9. /\ \A d \in Side : (Stopped(d) => Stopped(d)') /\ (cap[d].thread # "off" => cap'[d].thread # "off")
      /\ mpc' = next => Stopped(c)'
      /\ "ingress" \in Side /\ "egress" \in Side
  BY <1>3 DEF Stopped, Side
<1>10. MainInv'
  BY <1>1, <1>8, <1>9 DEF HarnessInv, MainInv, Started, Over
<1>11. StateInv'
  BY <1>1, DrainedState DEF mains
<1> QED BY <1>1, <1>4, <1>5, <1>6, <1>7, <1>10, <1>11, MainMoves DEF sender

(* What is reported without an error is the whole schedule: the sender's   *)
(* state is complete, and counts by phase that are as large as those of    *)
(* the schedule leave no frame out.                                        *)
LEMMA ReportKeeps ==
    ASSUME HarnessInv, Report
    PROVE  HarnessInv'
<1>1. /\ mpc = "report" /\ mpc' = "done"
      /\ result' = [errors |-> Errors, attempted |-> state.attempted, by |-> state.by,
                    in |-> cap["ingress"].by, out |-> cap["egress"].by]
      /\ UNCHANGED <<sender, inbox, net, cap, taken, cberr, drain, state>>
  BY DEF Report, Go
<1>2. PICK e \in BOOLEAN : e = Errors
  BY DEF Errors
<1>3. /\ result'.errors = e /\ result'.attempted = state.attempted /\ result'.by = state.by
      /\ result'.in = cap["ingress"].by /\ result'.out = cap["egress"].by
  BY <1>1, <1>2
<1>4. SenderType' /\ PipeType' /\ SenderInv' /\ NetType' /\ NetInv' /\ CapInv'
  <2>1. SenderType'
    BY <1>1, Parts, StandSender DEF sender, SenderType
  <2>2. PipeType' /\ SenderInv'
    BY <1>1, PipeLeft DEF sender
  <2>3. NetType' /\ NetInv'
    BY <1>1, Parts DEF HarnessInv, NetType, NetInv, net, sender
  <2> QED BY <1>1, <2>1, <2>2, <2>3, CapsLeft
<1>5. MainType'
  BY <1>1, <1>3, Parts DEF MainType, Over
<1>6. MainInv'
  BY <1>1 DEF HarnessInv, MainInv, Reaped, Started, Over, Alive, sender
<1>7. StateInv'
  BY <1>1 DEF StateInv
<1>8. "ingress" \in Side /\ "egress" \in Side /\ \A c \in Side : c = "ingress" \/ c = "egress"
  BY DEF Side
<1>9. CapturesEnded'
  <2>1. \A c \in Side : cap[c].error => e
    BY <1>2 DEF Errors
  <2>2. \A c \in Side : Stopped(c)
    BY <1>1, <1>8 DEF HarnessInv, MainInv
  <2> QED BY <1>1, <1>3, <2>1, <2>2 DEF CapturesEnded, Stopped
<1>10. CleanIsTrue'
  <2> SUFFICES ASSUME Clean' PROVE accepted' = Frame /\ \A c \in Side : cap'[c].seen = Frame
    BY DEF CleanIsTrue
  <2>1. /\ ~e /\ state.attempted = state.by
        /\ \A p \in Phase : ~(state.by[p] > cap["ingress"].by[p]) /\ ~(state.by[p] > cap["egress"].by[p])
    BY <1>3 DEF Clean, Gap
  <2>2. ~state.errors
    BY <1>2, <2>1 DEF Errors
  <2>3. state.attempted = Per(1..tried) /\ state.by = Per(accepted) /\ tried = Cardinality(Frame)
    BY <1>1, <2>2 DEF HarnessInv, StateInv
  <2>4. 1..tried = Frame /\ accepted \in SUBSET Frame
    BY <2>3, FrameCount, Parts DEF SenderType
  <2>5. Per(Frame) = Per(accepted) /\ Per(Frame) \in Counts
    BY <2>1, <2>3, <2>4, PerType
  <2>6. \A p \in Phase : Per(Frame)[p] \in Nat
    BY <2>5, Sizes DEF Counts
  <2>7. accepted = Frame
    <3>1. \A p \in Phase : Per(Frame)[p] <= Per(accepted)[p]
      BY <2>5, <2>6
    <3> QED BY <2>4, <3>1, FullCount
  <2>8. ASSUME NEW c \in Side PROVE cap[c].seen = Frame
    <3>1. PICK S \in SUBSET Frame : S = cap[c].seen /\ cap[c].by = Per(S)
      BY DEF HarnessInv, CapInv, Capture
    <3>2. \A p \in Phase : Per(S)[p] \in Nat
      BY PerType, Sizes DEF Counts
    <3>3. \A p \in Phase : ~(Per(Frame)[p] > Per(S)[p])
      BY <1>8, <2>1, <2>3, <2>5, <3>1
    <3>4. \A p \in Phase : Per(Frame)[p] <= Per(S)[p]
      BY <2>6, <3>2, <3>3
    <3> QED BY <3>1, <3>4, FullCount
  <2> QED BY <1>1, <2>7, <2>8 DEF sender
<1> QED BY <1>4, <1>5, <1>6, <1>7, <1>9, <1>10, TypesNext DEF HarnessInv
-----------------------------------------------------------------------------
LEMMA StutterKeeps ==
    ASSUME HarnessInv, UNCHANGED vars
    PROVE  HarnessInv'
<1>1. UNCHANGED <<mpc, sender, inbox, mains, net, cap>>
  BY DEF vars, sender, mains, net
<1>2. NetType' /\ NetInv' /\ CapInv'
  BY <1>1, Parts, CapsLeft DEF NetType, HarnessInv, NetInv, net, sender
<1> QED BY <1>1, <1>2, WorldMoves

LEMMA NextKeeps ==
    ASSUME HarnessInv, [Next]_vars
    PROVE  HarnessInv'
<1>1. CASE Main
  <2>1. "ingress" \in Side /\ "egress" \in Side
    BY DEF Side
  <2>2. CASE StartCapture("ingress", "egress") \/ StartCapture("egress", "start")
    BY <2>1, <2>2, StartCaptureKeeps
  <2>3. CASE StopCapture("ingress", "stop1", "stop2") \/ StopCapture("egress", "stop2", "report")
    BY <2>1, <2>3, StopCaptureKeeps
  <2>4. CASE Spawn \/ AwaitReady \/ StartSender \/ Sample \/ Callback \/ Join \/ TakeResult \/ Drain \/ Report
    BY <2>4, SpawnKeeps, AwaitReadyKeeps, StartSenderKeeps, SampleKeeps, JoinKeeps, TakeResultKeeps,
       DrainKeeps, ReportKeeps
  <2> QED BY <1>1, <2>2, <2>3, <2>4 DEF Main
<1>2. CASE Sender
  BY <1>2, OpenKeeps, SendFrameKeeps, PublishKeeps, ReplyKeeps, DieKeeps DEF Sender
<1>3. CASE World
  BY <1>3, ForwardKeeps, LoseKeeps, ReceiveKeeps, EndCaptureKeeps DEF World
<1>4. CASE UNCHANGED vars
  BY <1>4, StutterKeeps
<1> QED BY <1>1, <1>2, <1>3, <1>4 DEF Next

LEMMA InvReport == HarnessInv => ReportIsTrue
  BY DEF HarnessInv, MainInv, ReportIsTrue, SenderReaped, Reaped

(* What TrafficHarness.run reports is true, for every schedule: a result   *)
(* without an error and without a gap between what was sent and what each  *)
(* capture counted means that the whole schedule was sent, accepted and    *)
(* seen on both sides of the switch, whatever the switch lost, copied or   *)
(* reordered and wherever the sender hung or died; no sender outlives run, *)
(* and a result is given for captures that have ended or with an error.    *)
THEOREM ReportHolds == Spec => []ReportIsTrue
<1>1. Init => HarnessInv
  BY InitInv
<1>2. HarnessInv /\ [Next]_vars => HarnessInv'
  BY NextKeeps
<1>3. HarnessInv => ReportIsTrue
  BY InvReport
<1> QED BY <1>1, <1>2, <1>3, PTL DEF Spec
=============================================================================
