---------------------------- MODULE RolloutProofs ----------------------------
(***************************************************************************)
(* Proofs about the modules Detection and ModelRollout.  The first part is *)
(* about the Edge alone: its variables keep their types, the route-bound   *)
(* records of the input and the result WAL are on the route of the         *)
(* journal, no window is lost and none has two Events, for every set of    *)
(* operations, generations and deadlines and every batch size, watermark,  *)
(* number of windows, epochs and crashes.  The second is about the         *)
(* composition with the rollout: it implements the Edge's specification,   *)
(* an Edge that is active serves the canonical binding and the binding     *)
(* moves only over a drained Edge, however requests are delayed, repeated  *)
(* or given up.                                                            *)
(***************************************************************************)
EXTENDS ModelRollout, SequenceTheorems, FiniteSetTheorems, WellFoundedInduction, TLAPS

(* `source` abbreviates three variables in the UNCHANGED of most actions.  *)
USE DEF source

(* A non-empty set of naturals has a least element.  (The library's least- *)
(* number principle takes an operator; this one takes a set.)              *)
LEMMA LeastNat ==
    ASSUME NEW T, T \subseteq Nat, T # {}
    PROVE  \E x \in T : \A y \in T : x <= y
<1> DEFINE Less == {p \in Nat \X Nat : p[1] < p[2]}
<1>1. IsWellFoundedOn(Less, Nat)
  BY NatLessThanWellFounded DEF OpToRel
<1>2. PICK x \in T : \A y \in T : ~(<<y, x>> \in Less)
  <2> HIDE DEF Less
  <2> QED BY <1>1, WFMin
<1>3. \A y \in T : ~(y < x)
  BY <1>2
<1> QED BY <1>3

(* A non-empty set of naturals up to n has a greatest element. *)
LEMMA GreatestUpTo ==
    ASSUME NEW n \in Nat, NEW T, T \subseteq 0..n, T # {}
    PROVE  \E x \in T : \A y \in T : y <= x
<1> DEFINE D == {k \in 0..n : n - k \in T}
<1>1. D \subseteq Nat /\ D # {}
  <2>1. PICK x \in T : TRUE
    OBVIOUS
  <2>2. n - x \in D
    <3>1. n - x \in 0..n /\ n - (n - x) = x
      BY <2>1
    <3> QED BY <2>1, <3>1
  <2>3. D \subseteq Nat
    OBVIOUS
  <2> HIDE DEF D
  <2> QED BY <2>2, <2>3
<1>2. PICK d \in D : \A y \in D : d <= y
  <2> HIDE DEF D
  <2> QED BY <1>1, LeastNat
<1>3. n - d \in T /\ d \in 0..n
  BY <1>2
<1>4. ASSUME NEW y \in T PROVE y <= n - d
  <2>1. n - y \in D
    OBVIOUS
  <2> QED BY <2>1, <1>2, <1>3
<1> QED BY <1>3, <1>4
-----------------------------------------------------------------------------
(* What the tick sends to the pool is a non-empty prefix of the input WAL  *)
(* (process_pending_inputs: the head of the view on one epoch).            *)
LEMMA PrefixIsPrefix ==
    ASSUME inputs \in Seq(Input), inputs # <<>>, Bound(inputs[1])
    PROVE  \E n \in 1..Len(inputs) : Prefix = SubSeq(inputs, 1, n)
<1> DEFINE m == IF Len(inputs) < Batch THEN Len(inputs) ELSE Batch
           Good(i) == Bound(View[i]) /\ View[i].route.epoch = View[1].route.epoch
           Stop(k) == /\ \A i \in 1..k : Good(i)
                      /\ k < Len(View) => ~Good(k + 1)
           n == CHOOSE k \in 0..Len(View) : Stop(k)
<1>1. m \in 1..Len(inputs)
  BY BatchAssumption, EmptySeq
<1>2. View \in Seq(Input) /\ Len(View) = m /\ \A i \in 1..m : View[i] = inputs[i]
  <2>1. View = SubSeq(inputs, 1, m)
    BY DEF View
  <2> HIDE DEF m
  <2> QED BY <1>1, <2>1, SubSeqProperties
<1>3. \E k \in 0..Len(View) : Stop(k)
  <2> DEFINE Bad == {k \in 0..m : k < m => ~Good(k + 1)}
  <2>1. m \in Bad /\ Bad \subseteq Nat
    BY <1>1
  <2>2. PICK k \in Bad : \A y \in Bad : k <= y
    <3> HIDE DEF Bad
    <3> QED BY <2>1, LeastNat
  <2>3. k \in 0..m /\ (k < m => ~Good(k + 1))
    BY <2>2
  <2>4. ASSUME NEW i \in 1..k PROVE Good(i)
    <3>1. i - 1 \in 0..m /\ i - 1 < m /\ i - 1 \notin Bad /\ (i - 1) + 1 = i
      <4> HIDE DEF Bad
      <4> QED BY <2>2, <2>3, <1>1
    <3> HIDE DEF Good
    <3> QED BY <3>1
  <2> HIDE DEF Good, Bad, m
  <2> QED BY <2>3, <2>4, <1>1, <1>2
<1>4. n \in 0..Len(View) /\ Stop(n)
  <2> HIDE DEF Stop
  <2> QED BY <1>3
<1>5. Good(1)
  BY <1>1, <1>2
<1>6. n \in 1..m
  <2> HIDE DEF Good, n, m
  <2> QED BY <1>1, <1>2, <1>4, <1>5
<1>7. Prefix = SubSeq(View, 1, n)
  BY DEF Prefix
<1>8. SubSeq(View, 1, n) = SubSeq(inputs, 1, n)
  <2> HIDE DEF n, m
  <2> QED BY <1>1, <1>2, <1>6, SubSeqProperties DEF View
<1> QED
  <2> HIDE DEF n, m
  <2> QED BY <1>1, <1>6, <1>7, <1>8

(* The windows of a batch are windows. *)
LEMMA WinsType ==
    ASSUME NEW recs \in Seq(Input)
    PROVE  Wins(recs) \subseteq Window
<1>1. \A i \in DOMAIN recs : recs[i] \in Input
  OBVIOUS
<1>2. \A r \in Input : r.win \in Window
  BY DEF Input
<1> QED BY <1>1, <1>2, Zenon DEF Wins

(* The window the source is checkpointed at is one of the batch. *)
LEMMA MaxWinType ==
    ASSUME NEW recs \in Seq(Input), recs # <<>>
    PROVE  MaxWin(recs) \in Window
<1>1. Wins(recs) \subseteq Window
  BY WinsType
<1>2. Wins(recs) # {}
  <2>1. 1 \in DOMAIN recs
    BY EmptySeq
  <2> QED BY <2>1 DEF Wins
<1>3. Wins(recs) \subseteq 0..MaxWindow /\ MaxWindow \in Nat
  BY <1>1, BoundAssumption DEF Window
<1>4. \E w \in Wins(recs) : \A v \in Wins(recs) : v <= w
  BY <1>2, <1>3, GreatestUpTo
<1> QED BY <1>1, <1>4 DEF MaxWin
-----------------------------------------------------------------------------
(* The inductive invariant.  A router that is active belongs to a running  *)
(* actor that has finished its recovery and has a journal; a pending batch *)
(* is not empty, holds bound records only and ends at or behind the input  *)
(* checkpoint; between two durable steps of a tick the batch it is about   *)
(* is still there.                                                         *)
ActiveRouter == rstate = "active" => Up /\ ~recovering /\ journal # None
RecoversFrom == recovering => journal # None
BatchBound   == results # None =>
                  /\ results.recs # <<>> /\ inck <= results.upto
                  /\ \A i \in DOMAIN results.recs : results.recs[i].route # None
TickHolds    == /\ pc = "rebind" => results = None /\ inputs # <<>>
                /\ pc \in {"ckInput", "ckResult"} => results # None
InputsOnRoute  == \A i \in DOMAIN inputs :
                     inputs[i].route # None =>
                        journal # None /\ inputs[i].route = journal.route
ResultsOnRoute == results # None =>
                     \A i \in DOMAIN results.recs :
                        results.recs[i].route # None =>
                           journal # None /\ results.recs[i].route = journal.route
RouterOnRoute  == Up /\ ~recovering /\ journal # None => route = journal.route
RouteInv == /\ TypeOK /\ ActiveRouter /\ RecoversFrom /\ BatchBound /\ TickHolds
            /\ InputsOnRoute /\ ResultsOnRoute /\ RouterOnRoute

(* The three parts are the property. *)
LEMMA RouteInvImplies == RouteInv => BoundOnRoute
BY Zenon DEF RouteInv, InputsOnRoute, ResultsOnRoute, RouterOnRoute, BoundOnRoute, Bound

(* The route invariant holds initially.                                    *)
LEMMA InitRouteInv == Init => RouteInv
<1> SUFFICES ASSUME Init PROVE RouteInv OBVIOUS
<1> USE BoundAssumption, EmptySeq DEF Init
<1>1. TypeOK
  <2>1. /\ srcck \in 0..MaxWindow /\ seen \in 0..MaxWindow /\ inck \in Nat
        /\ nextw \in 1..(MaxWindow + 1) /\ crashes \in 0..MaxCrash
    OBVIOUS
  <2>2. /\ inputs \in Seq(Input) /\ results \in Results \cup {None}
        /\ events \subseteq Event /\ known \subseteq Window /\ refused \subseteq Window
        /\ recovering \in BOOLEAN
        /\ pc \in {"down", "replay", "idle", "rebind", "ckInput", "ckResult"}
        /\ rstate \in {"withdrawn", "draining", "ready", "active", "hold"}
    OBVIOUS
  <2>3. /\ journal \in RouteRecord \cup {None} /\ route \in Route \cup {None}
        /\ committed \in Handshake \cup {None}
    BY DEF RouteRecord, Handshake, Stage
  <2> QED BY <2>1, <2>2, <2>3 DEF TypeOK
<1>2. ActiveRouter /\ RecoversFrom /\ BatchBound /\ TickHolds
  <2>1. ASSUME NEW h \in Handshake PROVE [stage |-> "active", route |-> h.route, hs |-> h] # None
    BY NoneAssumption DEF RouteRecord, Handshake, Stage
  <2> QED BY <2>1 DEF ActiveRouter, RecoversFrom, BatchBound, TickHolds, Up
<1>3. InputsOnRoute /\ ResultsOnRoute /\ RouterOnRoute
  BY DEF InputsOnRoute, ResultsOnRoute, RouterOnRoute
<1> QED BY <1>1, <1>2, <1>3 DEF RouteInv
-----------------------------------------------------------------------------
(* A record that is appended to the input WAL keeps it on the route if the *)
(* record itself is.                                                       *)
LEMMA AppendOnRoute ==
    ASSUME RouteInv, NEW rec \in Input,
           rec.route # None => journal # None /\ rec.route = journal.route
    PROVE  /\ Append(inputs, rec) \in Seq(Input)
           /\ Append(inputs, rec) # <<>>
           /\ \A i \in DOMAIN Append(inputs, rec) :
                 Append(inputs, rec)[i].route # None =>
                    journal # None /\ Append(inputs, rec)[i].route = journal.route
<1>1. inputs \in Seq(Input)
  BY DEF RouteInv, TypeOK
<1>2. /\ Append(inputs, rec) \in Seq(Input) /\ Append(inputs, rec) # <<>>
      /\ Len(Append(inputs, rec)) = Len(inputs) + 1
      /\ \A i \in 1..Len(inputs) : Append(inputs, rec)[i] = inputs[i]
      /\ Append(inputs, rec)[Len(inputs) + 1] = rec
  BY <1>1, AppendProperties
<1>3. \A i \in 1..Len(inputs) :
         inputs[i].route # None => journal # None /\ inputs[i].route = journal.route
  BY <1>1 DEF RouteInv, InputsOnRoute
<1>4. ASSUME NEW i \in DOMAIN Append(inputs, rec), Append(inputs, rec)[i].route # None
      PROVE  journal # None /\ Append(inputs, rec)[i].route = journal.route
  <2>1. i \in 1..(Len(inputs) + 1) /\ Len(inputs) \in Nat
    BY <1>1, <1>2
  <2>2. CASE i \in 1..Len(inputs)
    BY <2>2, <1>2, <1>3, <1>4
  <2>3. CASE i = Len(inputs) + 1
    BY <2>3, <1>2, <1>4
  <2> QED BY <2>1, <2>2, <2>3
<1> QED BY <1>2, <1>4

(* The admission of a final window (admit_final_windows). *)
LEMMA FinalOnRoute ==
    ASSUME RouteInv, NEW w \in Window, Final(w), UNCHANGED <<journal, results, pc>>
    PROVE  /\ inputs' \in Seq(Input) /\ known' \subseteq Window
           /\ refused' \subseteq Window /\ InputsOnRoute'
<1> DEFINE rec == [win |-> w, route |-> IF rstate = "active" THEN route ELSE None]
<1>1. rec \in Input /\ rec.route = (IF rstate = "active" THEN route ELSE None)
  BY DEF RouteInv, TypeOK, Input
<1>2. rec.route # None => journal # None /\ rec.route = journal.route
  BY <1>1 DEF RouteInv, ActiveRouter, RouterOnRoute
<1>3. inputs' = inputs \/ inputs' = Append(inputs, rec)
  BY DEF Final
<1>4. known' \subseteq Window /\ refused' \subseteq Window
  BY DEF Final, RouteInv, TypeOK
<1> HIDE DEF rec
<1>5. CASE inputs' = inputs
  BY <1>4, <1>5 DEF RouteInv, TypeOK, InputsOnRoute
<1>6. CASE inputs' = Append(inputs, rec)
  BY <1>1, <1>2, <1>4, <1>6, AppendOnRoute DEF InputsOnRoute
<1> QED BY <1>3, <1>5, <1>6

(* A suffix of the input WAL is on the route. *)
LEMMA SuffixOnRoute ==
    ASSUME RouteInv, NEW m \in Nat \ {0}
    PROVE  LET rest == SubSeq(inputs, m, Len(inputs))
           IN /\ rest \in Seq(Input)
              /\ \A i \in DOMAIN rest :
                    rest[i].route # None =>
                       journal # None /\ rest[i].route = journal.route
<1> DEFINE rest == SubSeq(inputs, m, Len(inputs))
<1>1. inputs \in Seq(Input) /\ Len(inputs) \in Nat
  BY DEF RouteInv, TypeOK
<1>2. /\ rest \in Seq(Input)
      /\ \A i \in DOMAIN rest : \E j \in 1..Len(inputs) : rest[i] = inputs[j]
  <2>1. CASE Len(inputs) < m
    <3>1. rest = <<>>
      BY <1>1, <2>1, SubSeqEmpty
    <3> HIDE DEF rest
    <3> QED BY <3>1, EmptySeq
  <2>2. CASE m <= Len(inputs)
    <3>1. /\ rest \in Seq(Input) /\ Len(rest) = Len(inputs) - m + 1
          /\ \A i \in 1..(Len(inputs) - m + 1) : rest[i] = inputs[m + i - 1]
      BY <1>1, <2>2, SubSeqProperties
    <3> HIDE DEF rest
    <3>2. ASSUME NEW i \in DOMAIN rest
          PROVE  \E j \in 1..Len(inputs) : rest[i] = inputs[j]
      <4>1. i \in 1..(Len(inputs) - m + 1)
        BY <3>1
      <4>2. m + i - 1 \in 1..Len(inputs) /\ rest[i] = inputs[m + i - 1]
        BY <1>1, <2>2, <3>1, <4>1
      <4> QED BY <4>2
    <3> QED BY <3>1, <3>2
  <2> QED BY <1>1, <2>1, <2>2
<1>3. \A j \in 1..Len(inputs) :
         inputs[j].route # None => journal # None /\ inputs[j].route = journal.route
  BY <1>1 DEF RouteInv, InputsOnRoute
<1> HIDE DEF rest
<1> QED BY <1>2, <1>3, Zenon DEF rest
-----------------------------------------------------------------------------
(* The route commands: the new record of the journal has the route of the  *)
(* router, and CommitRoute replaces the route only when nothing is bound.  *)
LEMMA PrepareStep ==
    ASSUME RouteInv, NEW cur, NEW prop, PrepareRoute(cur, prop) PROVE RouteInv'
<1> USE DEF RouteInv, PrepareRoute, CanPrepare, Idle, Up
<1>1. journal' \in RouteRecord /\ journal' # None /\ journal'.route = route
  BY NoneAssumption DEF TypeOK, RouteRecord, Stage
<1>2. TypeOK'
  BY <1>1 DEF TypeOK
<1>3. ActiveRouter' /\ RecoversFrom' /\ BatchBound' /\ TickHolds' /\ RouterOnRoute'
  BY <1>1 DEF ActiveRouter, RecoversFrom, BatchBound, TickHolds, RouterOnRoute
<1>4. journal # None => journal.route = route
  BY DEF RouterOnRoute
<1>5. InputsOnRoute' /\ ResultsOnRoute'
  BY <1>1, <1>4 DEF InputsOnRoute, ResultsOnRoute
<1> QED BY <1>2, <1>3, <1>5

(* A route commit keeps the route invariant,                               *)
LEMMA CommitStep ==
    ASSUME RouteInv, NEW r \in Route, CommitRoute(r) PROVE RouteInv'
<1> USE DEF RouteInv, CommitRoute, CanCommit, Idle, Up
<1>1. journal' \in RouteRecord /\ journal' # None /\ journal'.route = r
  BY NoneAssumption DEF RouteRecord, Stage
<1>2. TypeOK'
  BY <1>1 DEF TypeOK
<1>3. ActiveRouter' /\ RecoversFrom' /\ BatchBound' /\ TickHolds' /\ RouterOnRoute'
  BY <1>1 DEF ActiveRouter, RecoversFrom, BatchBound, TickHolds, RouterOnRoute, Drained
<1>4. InputsOnRoute' /\ ResultsOnRoute'
  BY DEF InputsOnRoute, ResultsOnRoute, Drained, HasBound, Bound
<1> QED BY <1>2, <1>3, <1>4

(* the resumption of a route does,                                         *)
LEMMA ResumeStep ==
    ASSUME RouteInv, NEW h \in Handshake, ResumeRoute(h) PROVE RouteInv'
<1> USE DEF RouteInv, ResumeRoute, CanResume, Idle, Up
<1>1. journal' \in RouteRecord /\ journal' # None /\ journal'.route = route
  BY NoneAssumption DEF TypeOK, RouteRecord, Stage
<1>2. TypeOK'
  BY <1>1 DEF TypeOK
<1>3. ActiveRouter' /\ RecoversFrom' /\ BatchBound' /\ TickHolds' /\ RouterOnRoute'
  BY <1>1 DEF ActiveRouter, RecoversFrom, BatchBound, TickHolds, RouterOnRoute
<1>4. journal # None => journal.route = route
  BY DEF RouterOnRoute
<1>5. InputsOnRoute' /\ ResultsOnRoute'
  BY <1>1, <1>4 DEF InputsOnRoute, ResultsOnRoute
<1> QED BY <1>2, <1>3, <1>5

(* Recovery restores the route of the journal. *)
LEMMA RecoveryStep ==
    ASSUME RouteInv, FinishRouteRecovery \/ RouteRecoveryFails PROVE RouteInv'
<1> USE DEF RouteInv, Idle, Up, disk
<1>1. CASE FinishRouteRecovery
  <2>1. journal \in RouteRecord /\ journal # None
    BY <1>1 DEF FinishRouteRecovery, RecoversFrom, TypeOK
  <2>2. /\ route' \in Route \cup {None} /\ committed' \in Handshake \cup {None}
        /\ rstate' \in {"draining", "ready", "active"}
    BY <1>1, <2>1 DEF FinishRouteRecovery, RouteRecord, Stage
  <2>3. TypeOK'
    BY <1>1, <2>2 DEF FinishRouteRecovery, TypeOK
  <2>4. ActiveRouter' /\ RecoversFrom' /\ BatchBound' /\ TickHolds' /\ RouterOnRoute'
    BY <1>1, <2>1 DEF FinishRouteRecovery, ActiveRouter, RecoversFrom, BatchBound,
                      TickHolds, RouterOnRoute
  <2>5. InputsOnRoute' /\ ResultsOnRoute'
    BY <1>1 DEF FinishRouteRecovery, InputsOnRoute, ResultsOnRoute
  <2> QED BY <2>3, <2>4, <2>5
<1>2. CASE RouteRecoveryFails
  <2> USE <1>2 DEF RouteRecoveryFails
  <2>1. TypeOK'
    BY DEF TypeOK
  <2>2. ActiveRouter' /\ RecoversFrom' /\ BatchBound' /\ TickHolds' /\ RouterOnRoute'
    BY DEF ActiveRouter, RecoversFrom, BatchBound, TickHolds, RouterOnRoute
  <2>3. InputsOnRoute' /\ ResultsOnRoute'
    BY DEF InputsOnRoute, ResultsOnRoute
  <2> QED BY <2>1, <2>2, <2>3
<1> QED BY <1>1, <1>2

(* The final windows of a running actor and of a replay. *)
LEMMA AdmissionStep ==
    ASSUME RouteInv, PushSnapshot \/ IdleClose PROVE RouteInv'
<1> USE DEF RouteInv, Idle, Up, router
<1>1. /\ UNCHANGED <<srcck, inck, results, journal, events, pc, rstate, route,
                     committed, recovering, crashes>>
      /\ pc = "idle"
  BY DEF PushSnapshot, IdleClose
<1>2. /\ inputs' \in Seq(Input) /\ known' \subseteq Window
      /\ refused' \subseteq Window /\ InputsOnRoute'
  <2>1. CASE Final(seen) /\ seen > 0
    <3>1. seen \in Window
      BY <2>1 DEF TypeOK, Window
    <3> QED BY <1>1, <2>1, <3>1, FinalOnRoute
  <2>2. CASE UNCHANGED <<inputs, known, refused>>
    BY <1>1, <2>2 DEF TypeOK, InputsOnRoute
  <2> QED BY <2>1, <2>2 DEF PushSnapshot, IdleClose
<1>3. seen' \in 0..MaxWindow /\ nextw' \in 1..(MaxWindow + 1)
  BY BoundAssumption DEF TypeOK, PushSnapshot, IdleClose
<1>7. partial' \subseteq Window /\ reopened' = reopened
  <2>1. CASE PushSnapshot
    <3>1. seen + 1 \in Window /\ partial' \subseteq partial \cup {seen + 1} /\ reopened' = reopened
      BY <2>1, BoundAssumption DEF TypeOK, PushSnapshot, Window
    <3> QED BY <3>1 DEF TypeOK
  <2>2. CASE IdleClose
    BY <2>2 DEF TypeOK, IdleClose
  <2> QED BY <2>1, <2>2
<1>8. started' \in BOOLEAN
  <2>1. started' = TRUE \/ started' = started
    BY Zenon DEF PushSnapshot, IdleClose
  <2> QED BY <2>1 DEF TypeOK
<1>4. TypeOK'
  BY <1>1, <1>2, <1>3, <1>7, <1>8 DEF TypeOK
<1>5. ActiveRouter' /\ RecoversFrom' /\ BatchBound' /\ TickHolds' /\ RouterOnRoute'
  BY <1>1 DEF ActiveRouter, RecoversFrom, BatchBound, TickHolds, RouterOnRoute
<1>6. ResultsOnRoute'
  BY <1>1 DEF ResultsOnRoute
<1> QED BY <1>2, <1>4, <1>5, <1>6

(* the replay of a window,                                                 *)
LEMMA ReplayStep ==
    ASSUME RouteInv, ReplayWindow PROVE RouteInv'
<1> USE DEF RouteInv, Up, router, ReplayWindow
<1> DEFINE rec == [win |-> nextw, route |-> None]
<1>1. nextw \in Window /\ nextw' \in 1..(MaxWindow + 1)
  BY BoundAssumption DEF TypeOK, Window
<1>2. rec \in Input /\ rec.route = None
  BY <1>1 DEF Input
<1>3. inputs' = inputs \/ inputs' = Append(inputs, rec)
  OBVIOUS
<1>4. known' \subseteq Window /\ pc' \in {"replay", "down"}
  BY <1>1 DEF TypeOK
<1>5. inputs' \in Seq(Input) /\ InputsOnRoute'
  <2> HIDE DEF rec
  <2>1. CASE inputs' = inputs
    BY <2>1 DEF TypeOK, InputsOnRoute
  <2>2. CASE inputs' = Append(inputs, rec)
    <3>1. UNCHANGED journal
      OBVIOUS
    <3> HIDE DEF RouteInv, ReplayWindow
    <3> QED BY <1>2, <2>2, <3>1, AppendOnRoute DEF InputsOnRoute
  <2> QED BY <1>3, <2>1, <2>2
<1>6. TypeOK'
  BY <1>1, <1>4, <1>5 DEF TypeOK
<1>7. ActiveRouter' /\ RecoversFrom' /\ BatchBound' /\ TickHolds' /\ RouterOnRoute'
  BY <1>4 DEF ActiveRouter, RecoversFrom, BatchBound, TickHolds, RouterOnRoute
<1>8. ResultsOnRoute'
  BY DEF ResultsOnRoute
<1> QED BY <1>5, <1>6, <1>7, <1>8
-----------------------------------------------------------------------------
(* A rebound copy is bound to the route of an active router. *)
LEMMA RebindStep ==
    ASSUME RouteInv, RebindHead \/ RebindCheckpoint PROVE RouteInv'
<1> USE DEF RouteInv, Idle, Up, router
<1>1. inputs \in Seq(Input)
  BY DEF TypeOK
<1>2. CASE RebindHead
  <2> USE <1>2 DEF RebindHead, CanProcess
  <2> DEFINE rec == [inputs[1] EXCEPT !.route = route]
  <2>1. inputs[1] \in Input
    BY <1>1, EmptySeq
  <2>2. rec \in Input /\ rec.route = route
    BY <2>1 DEF TypeOK, Input
  <2>3. journal # None /\ route = journal.route
    BY DEF ActiveRouter, RouterOnRoute
  <2>4. inputs' = inputs \/ inputs' = Append(inputs, rec)
    OBVIOUS
  <2>5. UNCHANGED <<journal, results>> /\ pc' = "rebind" /\ inputs # <<>> /\ results = None
    OBVIOUS
  <2>6. inputs' \in Seq(Input) /\ inputs' # <<>> /\ InputsOnRoute'
    <3> HIDE DEF rec
    <3>1. CASE inputs' = inputs
      BY <1>1, <2>5, <3>1 DEF InputsOnRoute
    <3>2. CASE inputs' = Append(inputs, rec)
      <4> HIDE DEF RouteInv, RebindHead, CanProcess
      <4> QED BY <2>2, <2>3, <2>5, <3>2, AppendOnRoute DEF InputsOnRoute
    <3> QED BY <2>4, <3>1, <3>2
  <2>7. TypeOK'
    BY <2>6 DEF TypeOK
  <2>8. ActiveRouter' /\ RecoversFrom' /\ BatchBound' /\ TickHolds' /\ RouterOnRoute'
    BY <2>6, <2>5 DEF ActiveRouter, RecoversFrom, BatchBound, TickHolds, RouterOnRoute
  <2>9. ResultsOnRoute'
    BY <2>5 DEF ResultsOnRoute
  <2> QED BY <2>6, <2>7, <2>8, <2>9
<1>3. CASE RebindCheckpoint
  <2> USE <1>3 DEF RebindCheckpoint
  <2>1. inputs # <<>> /\ results = None
    BY DEF TickHolds
  <2>2. inputs' = SubSeq(inputs, 2, Len(inputs))
    BY <1>1, <2>1, TailIsSubSeq
  <2>3. inputs' \in Seq(Input) /\ InputsOnRoute'
    <3>1. UNCHANGED journal
      OBVIOUS
    <3> HIDE DEF RouteInv, RebindCheckpoint
    <3> QED BY <2>2, <3>1, SuffixOnRoute DEF InputsOnRoute
  <2>4. TypeOK'
    BY <2>3 DEF TypeOK
  <2>5. ActiveRouter' /\ RecoversFrom' /\ BatchBound' /\ TickHolds' /\ RouterOnRoute'
    BY <2>1 DEF ActiveRouter, RecoversFrom, BatchBound, TickHolds, RouterOnRoute
  <2>6. ResultsOnRoute'
    BY <2>1 DEF ResultsOnRoute
  <2> QED BY <2>3, <2>4, <2>5, <2>6
<1> QED BY <1>2, <1>3

(* The batch of a tick is a prefix of the input WAL on the route. *)
LEMMA InferStep ==
    ASSUME RouteInv, Infer \/ InferDrift PROVE RouteInv'
<1> USE DEF RouteInv, Idle, Up, router, CanInfer, CanProcess
<1>1. CASE Infer
  <2> USE <1>1 DEF Infer, memory
  <2>1. inputs \in Seq(Input) /\ inck \in Nat
    BY DEF TypeOK
  <2>2. PICK n \in 1..Len(inputs) : Prefix = SubSeq(inputs, 1, n)
    <3>1. inputs # <<>> /\ Bound(inputs[1])
      OBVIOUS
    <3> HIDE DEF RouteInv, Infer, CanInfer
    <3> QED BY <2>1, <3>1, PrefixIsPrefix
  <2>3. /\ Prefix \in Seq(Input) /\ Len(Prefix) = n /\ n \in Nat \ {0}
        /\ \A i \in 1..n : Prefix[i] = inputs[i]
    <3> HIDE DEF RouteInv, Infer, CanInfer
    <3> QED BY <2>1, <2>2, SubSeqProperties
  <2>4. Prefix # <<>> /\ DOMAIN Prefix = 1..n /\ 1..n \subseteq DOMAIN inputs
    <3> HIDE DEF RouteInv, Infer, CanInfer
    <3> QED BY <2>1, <2>2, <2>3
  <2>5. \A i \in DOMAIN Prefix : Prefix[i].route = route /\ route # None
    OBVIOUS
  <2>6. /\ results' \in Results /\ results'.recs = Prefix /\ results'.upto = inck + n
        /\ UNCHANGED <<srcck, seen, inck, inputs, journal, events, pc, known, nextw,
                       rstate, route, committed, recovering, refused, crashes>>
        /\ pc = "idle"
    BY <2>1, <2>3 DEF Results
  <2>7. TypeOK'
    BY <2>6 DEF TypeOK
  <2>8. ActiveRouter' /\ RecoversFrom' /\ TickHolds' /\ RouterOnRoute' /\ InputsOnRoute'
    BY <2>6 DEF ActiveRouter, RecoversFrom, TickHolds, RouterOnRoute, InputsOnRoute
  <2>9. BatchBound'
    <3> HIDE DEF Infer, CanInfer
    <3> QED BY <2>1, <2>3, <2>4, <2>5, <2>6 DEF BatchBound
  <2>10. ResultsOnRoute'
    <3>1. \A i \in 1..n : Prefix[i].route # None =>
                             journal # None /\ Prefix[i].route = journal.route
      BY <2>3, <2>4 DEF InputsOnRoute
    <3> HIDE DEF Infer, CanInfer, RouteInv
    <3> QED BY <2>4, <2>6, <3>1 DEF ResultsOnRoute
  <2> QED BY <2>7, <2>8, <2>9, <2>10
<1>2. CASE InferDrift
  <2> USE <1>2 DEF InferDrift, disk
  <2>1. TypeOK'
    BY DEF TypeOK
  <2>2. ActiveRouter' /\ RecoversFrom' /\ BatchBound' /\ TickHolds' /\ RouterOnRoute'
    BY DEF ActiveRouter, RecoversFrom, BatchBound, TickHolds, RouterOnRoute
  <2>3. InputsOnRoute' /\ ResultsOnRoute'
    BY DEF InputsOnRoute, ResultsOnRoute
  <2> QED BY <2>1, <2>2, <2>3
<1> QED BY <1>1, <1>2

(* The control core commits Events and acknowledges the batch. *)
LEMMA DeliveryStep ==
    ASSUME RouteInv, NEW replied \in BOOLEAN, CommitResults(replied) PROVE RouteInv'
<1> USE DEF RouteInv, Idle, Up, router, memory, CommitResults
<1>1. results \in Results /\ results # None
  BY DEF TypeOK
<1>2. /\ results' \in Results /\ results'.recs = results.recs
      /\ results'.upto = results.upto
  BY <1>1 DEF Results
<1>3. NewEvents \subseteq Event
  <2>1. results.recs \in Seq(Input) /\ results.upto \in Nat
    BY <1>1 DEF Results
  <2>2. ASSUME NEW i \in DOMAIN results.recs PROVE EventOf(i) \in Event
    <3>1. results.recs[i] \in Input /\ results.recs[i].route # None
      BY <1>1, <2>1 DEF BatchBound
    <3> QED BY <2>1, <3>1 DEF EventOf, Event, Input
  <2> QED BY <2>2, Zenon DEF NewEvents
<1>4. events' \subseteq Event
  BY <1>3 DEF TypeOK
<1>5. TypeOK'
  BY <1>2, <1>4 DEF TypeOK
<1>6. ActiveRouter' /\ RecoversFrom' /\ TickHolds' /\ RouterOnRoute' /\ InputsOnRoute'
  BY <1>2 DEF ActiveRouter, RecoversFrom, TickHolds, RouterOnRoute, InputsOnRoute
<1>7. BatchBound' /\ ResultsOnRoute'
  BY <1>1, <1>2 DEF BatchBound, ResultsOnRoute
<1> QED BY <1>5, <1>6, <1>7

(* The three checkpoints behind a durable ACK. *)
LEMMA CheckpointStep ==
    ASSUME RouteInv, CheckpointSource \/ CheckpointInput \/ CheckpointResult
    PROVE  RouteInv'
<1> USE DEF RouteInv, Idle, Up, router
<1>1. CASE CheckpointSource
  <2> USE <1>1 DEF CheckpointSource
  <2>1. results.recs \in Seq(Input) /\ results.recs # <<>>
    BY DEF TypeOK, Results, BatchBound
  <2>2. srcck' \in 0..MaxWindow
    <3>1. MaxWin(results.recs) \in Window
      <4> HIDE DEF RouteInv, CheckpointSource
      <4> QED BY <2>1, MaxWinType
    <3> QED BY <3>1, BoundAssumption DEF Window
  <2>3. TypeOK'
    BY <2>2 DEF TypeOK
  <2>4. ActiveRouter' /\ RecoversFrom' /\ BatchBound' /\ TickHolds' /\ RouterOnRoute'
    BY DEF ActiveRouter, RecoversFrom, BatchBound, TickHolds, RouterOnRoute
  <2>5. InputsOnRoute' /\ ResultsOnRoute'
    BY DEF InputsOnRoute, ResultsOnRoute
  <2> QED BY <2>3, <2>4, <2>5
<1>2. CASE CheckpointInput
  <2> USE <1>2 DEF CheckpointInput
  <2>1. results \in Results /\ results # None /\ inck <= results.upto /\ inck \in Nat
    BY DEF TypeOK, TickHolds, BatchBound
  <2>2. results.upto - inck + 1 \in Nat \ {0} /\ results.upto \in Nat
    BY <2>1 DEF Results
  <2>3. inputs' \in Seq(Input) /\ InputsOnRoute'
    <3>1. inputs' = SubSeq(inputs, results.upto - inck + 1, Len(inputs)) /\ UNCHANGED journal
      OBVIOUS
    <3> HIDE DEF RouteInv, CheckpointInput
    <3> QED BY <2>2, <3>1, SuffixOnRoute DEF InputsOnRoute
  <2>4. TypeOK'
    BY <2>2, <2>3 DEF TypeOK
  <2>5. ActiveRouter' /\ RecoversFrom' /\ BatchBound' /\ TickHolds' /\ RouterOnRoute'
    BY <2>1, <2>2 DEF ActiveRouter, RecoversFrom, BatchBound, TickHolds, RouterOnRoute
  <2>6. ResultsOnRoute'
    BY DEF ResultsOnRoute
  <2> QED BY <2>3, <2>4, <2>5, <2>6
<1>3. CASE CheckpointResult
  <2> USE <1>3 DEF CheckpointResult
  <2>1. known' \subseteq Window
    BY DEF TypeOK
  <2>2. TypeOK'
    BY <2>1 DEF TypeOK
  <2>3. ActiveRouter' /\ RecoversFrom' /\ BatchBound' /\ TickHolds' /\ RouterOnRoute'
    BY DEF ActiveRouter, RecoversFrom, BatchBound, TickHolds, RouterOnRoute
  <2>4. InputsOnRoute' /\ ResultsOnRoute'
    BY DEF InputsOnRoute, ResultsOnRoute
  <2> QED BY <2>2, <2>3, <2>4
<1> QED BY <1>1, <1>2, <1>3
-----------------------------------------------------------------------------
(* A crash resets the router, and an actor that has spawned recovers its   *)
(* route exactly when the journal has a record.                            *)
LEMMA LifeStep ==
    ASSUME RouteInv, Crash \/ Restart \/ Spawn PROVE RouteInv'
<1> USE DEF RouteInv, Up, disk, router
<1>1. CASE Crash
  <2> USE <1>1 DEF Crash
  <2>1. TypeOK'
    <3>1. crashes' \in 0..MaxCrash /\ reopened' \subseteq Window
      BY BoundAssumption DEF TypeOK, Window
    <3>2. /\ UNCHANGED <<srcck, seen, inck, inputs, results, journal, events, nextw, refused,
                         partial>>
          /\ started' = FALSE
          /\ pc' = "down" /\ rstate' = "withdrawn" /\ known' = {} /\ recovering' = FALSE
          /\ route' = None /\ committed' = None
      OBVIOUS
    <3> HIDE DEF Crash
    <3> QED BY <3>1, <3>2 DEF TypeOK
  <2>2. ActiveRouter' /\ RecoversFrom' /\ BatchBound' /\ TickHolds' /\ RouterOnRoute'
    BY DEF ActiveRouter, RecoversFrom, BatchBound, TickHolds, RouterOnRoute
  <2>3. InputsOnRoute' /\ ResultsOnRoute'
    BY DEF InputsOnRoute, ResultsOnRoute
  <2> QED BY <2>1, <2>2, <2>3
<1>2. CASE Restart
  <2> USE <1>2 DEF Restart
  <2>1. known' \subseteq Window
    <3>1. inputs \in Seq(Input) /\ known' = Wins(inputs)
      BY DEF TypeOK
    <3> HIDE DEF RouteInv, Restart
    <3> QED BY <3>1, WinsType
  <2>2. nextw' \in 1..(MaxWindow + 1)
    BY BoundAssumption DEF TypeOK
  <2>3. TypeOK'
    BY <2>1, <2>2 DEF TypeOK
  <2>4. ActiveRouter' /\ RecoversFrom' /\ BatchBound' /\ TickHolds' /\ RouterOnRoute'
    BY DEF ActiveRouter, RecoversFrom, BatchBound, TickHolds, RouterOnRoute
  <2>5. InputsOnRoute' /\ ResultsOnRoute'
    BY DEF InputsOnRoute, ResultsOnRoute
  <2> QED BY <2>3, <2>4, <2>5
<1>3. CASE Spawn
  <2> USE <1>3 DEF Spawn
  <2>1. TypeOK'
    BY DEF TypeOK
  <2>2. ActiveRouter' /\ RecoversFrom' /\ BatchBound' /\ TickHolds' /\ RouterOnRoute'
    BY DEF ActiveRouter, RecoversFrom, BatchBound, TickHolds, RouterOnRoute
  <2>3. InputsOnRoute' /\ ResultsOnRoute'
    BY DEF InputsOnRoute, ResultsOnRoute
  <2> QED BY <2>1, <2>2, <2>3
<1> QED BY <1>1, <1>2, <1>3

(* and a stuttering step.                                                  *)
LEMMA StutterStep ==
    ASSUME RouteInv, UNCHANGED vars PROVE RouteInv'
<1> USE DEF RouteInv, vars, disk, memory, router, Up
<1>1. TypeOK'
  BY DEF TypeOK
<1>2. ActiveRouter' /\ RecoversFrom' /\ BatchBound' /\ TickHolds' /\ RouterOnRoute'
  BY DEF ActiveRouter, RecoversFrom, BatchBound, TickHolds, RouterOnRoute
<1>3. InputsOnRoute' /\ ResultsOnRoute'
  BY DEF InputsOnRoute, ResultsOnRoute
<1> QED BY <1>1, <1>2, <1>3

(* Every step keeps the inductive invariant. *)
LEMMA NextRouteInv == RouteInv /\ [Next]_vars => RouteInv'
<1> SUFFICES ASSUME RouteInv, [Next]_vars PROVE RouteInv'
  OBVIOUS
<1>1. CASE \E cur \in 0..MaxEpoch, prop \in Epoch : PrepareRoute(cur, prop)
  BY <1>1, PrepareStep
<1>2. CASE \E r \in Route : CommitRoute(r)
  BY <1>2, CommitStep
<1>3. CASE \E h \in Handshake : ResumeRoute(h)
  BY <1>3, ResumeStep
<1>4. CASE FinishRouteRecovery \/ RouteRecoveryFails
  BY <1>4, RecoveryStep
<1>5. CASE PushSnapshot \/ IdleClose
  BY <1>5, AdmissionStep
<1>6. CASE ReplayWindow
  BY <1>6, ReplayStep
<1>7. CASE RebindHead \/ RebindCheckpoint
  BY <1>7, RebindStep
<1>8. CASE Infer \/ InferDrift
  BY <1>8, InferStep
<1>9. CASE \E replied \in BOOLEAN : CommitResults(replied)
  BY <1>9, DeliveryStep
<1>10. CASE CheckpointSource \/ CheckpointInput \/ CheckpointResult
  BY <1>10, CheckpointStep
<1>11. CASE Crash \/ Restart \/ Spawn
  BY <1>11, LifeStep
<1>12. CASE UNCHANGED vars
  BY <1>12, StutterStep
<1> QED BY <1>1, <1>2, <1>3, <1>4, <1>5, <1>6, <1>7, <1>8, <1>9, <1>10, <1>11, <1>12
        DEF Next, EdgeStep

(* The variables of the detection path keep their types: the prefix a tick *)
(* sends and the window the source is checkpointed at exist whatever the   *)
(* batch size, and every Event has a route.                                *)
THEOREM DetectionTypes == Spec => []TypeOK
<1>1. RouteInv => TypeOK
  BY DEF RouteInv
<1> QED BY <1>1, InitRouteInv, NextRouteInv, PTL DEF Spec

(* Whatever commands, crashes, replays and lost replies occur, each route- *)
(* bound record pending in the input or the result WAL is on the route the *)
(* journal restores, and so is the router of a recovered actor             *)
(* (commit_route, process_pending_inputs, finish_route_recovery).          *)
THEOREM RouteStaysBound == Spec => []BoundOnRoute
BY InitRouteInv, NextRouteInv, RouteInvImplies, PTL DEF Spec

(* The detection path stays well typed and every pending record can be     *)
(* served by the route the journal restores.                               *)
THEOREM RouteIsSound == Spec => []RouteSound
BY DetectionTypes, RouteStaysBound, PTL DEF RouteSound
-----------------------------------------------------------------------------
(* What becomes of a window.  A window is placed when it is a canonical    *)
(* Event or pending in the input WAL, and kept when it is placed, was      *)
(* refused at the watermark or is withheld for its quality.                *)
Delivered == {e.win : e \in events}
Placed    == Delivered \cup Wins(inputs)
Kept      == Placed \cup refused \cup partial

(* The pending batch is the head of the input WAL until it has been        *)
(* acknowledged and the input WAL checkpointed; an acknowledged batch is   *)
(* delivered; a head that is about to be dropped by rebinding has a copy   *)
(* behind it; the next window of a running actor is the last one that has  *)
(* a snapshot, or the one after it.                                        *)
BatchIsHead ==
    results # None =>
        \/ /\ results.upto = inck + Len(results.recs)
           /\ Len(results.recs) <= Len(inputs)
           /\ \A i \in 1..Len(results.recs) : results.recs[i] = inputs[i]
        \/ results.acked /\ results.upto = inck
AckIsTrue ==
    /\ results # None /\ results.acked => Wins(results.recs) \subseteq Delivered
    /\ pc \in {"ckInput", "ckResult"} => results.acked
CopyStays == pc = "rebind" => \E i \in 2..Len(inputs) : inputs[i].win = inputs[1].win
Cursor    == /\ \A w \in Placed : w <= seen
             /\ srcck <= seen /\ nextw <= seen + 1
             /\ Up => nextw >= seen
HeadInv   == BatchIsHead /\ AckIsTrue /\ CopyStays /\ Cursor

(* Every window behind the cursor of a running actor, or behind the source *)
(* checkpoint, is kept, and so is every window that is skipped as known.   *)
LossInv == /\ pc # "down" => 1..(nextw - 1) \subseteq Kept
           /\ 1..srcck \subseteq Kept
           /\ known \subseteq Kept
-----------------------------------------------------------------------------
(* The windows of a log that a record is appended to, *)
LEMMA AppendWins ==
    ASSUME NEW s \in Seq(Input), NEW r \in Input
    PROVE  /\ Append(s, r) \in Seq(Input) /\ Len(Append(s, r)) = Len(s) + 1
           /\ \A i \in 1..Len(s) : Append(s, r)[i] = s[i]
           /\ Append(s, r)[Len(s) + 1] = r
           /\ Wins(Append(s, r)) = Wins(s) \cup {r.win}
<1> DEFINE a == Append(s, r)
<1>1. /\ a \in Seq(Input) /\ Len(a) = Len(s) + 1 /\ Len(s) \in Nat
      /\ \A i \in 1..Len(s) : a[i] = s[i]
      /\ a[Len(s) + 1] = r
  BY AppendProperties
<1> HIDE DEF a
<1>2. DOMAIN a = 1..(Len(s) + 1) /\ DOMAIN s = 1..Len(s)
  BY <1>1
<1>3. Wins(a) \subseteq Wins(s) \cup {r.win}
  <2>1. ASSUME NEW i \in 1..(Len(s) + 1) PROVE a[i].win \in Wins(s) \cup {r.win}
    <3>1. CASE i \in 1..Len(s)
      BY <3>1, <1>1, <1>2 DEF Wins
    <3>2. CASE i = Len(s) + 1
      BY <3>2, <1>1
    <3> QED BY <1>1, <3>1, <3>2
  <2> QED BY <2>1, <1>2 DEF Wins
<1>4. Wins(s) \cup {r.win} \subseteq Wins(a)
  <2>1. ASSUME NEW i \in 1..Len(s) PROVE s[i].win \in Wins(a)
    <3>1. i \in 1..(Len(s) + 1) /\ a[i] = s[i]
      BY <1>1
    <3> QED BY <3>1, <1>2 DEF Wins
  <2>2. r.win \in Wins(a)
    <3>1. Len(s) + 1 \in DOMAIN a /\ a[Len(s) + 1] = r
      BY <1>1, <1>2
    <3> QED BY <3>1 DEF Wins
  <2> QED BY <2>1, <2>2, <1>2 DEF Wins
<1> QED BY <1>1, <1>3, <1>4 DEF a

(* and of one that is checkpointed before position m. *)
LEMMA SuffixWins ==
    ASSUME NEW s \in Seq(Input), NEW m \in 1..(Len(s) + 1)
    PROVE  LET t == SubSeq(s, m, Len(s))
           IN /\ t \in Seq(Input) /\ Len(t) = Len(s) - m + 1
              /\ \A i \in 1..Len(t) : t[i] = s[m + i - 1] /\ m + i - 1 \in 1..Len(s)
              /\ Wins(t) \subseteq Wins(s)
              /\ \A i \in m..Len(s) : s[i].win \in Wins(t)
<1> DEFINE t == SubSeq(s, m, Len(s))
<1>1. Len(s) \in Nat /\ DOMAIN s = 1..Len(s) /\ m \in Int
  OBVIOUS
<1>2. /\ t \in Seq(Input) /\ Len(t) = Len(s) - m + 1
      /\ \A i \in 1..(Len(s) - m + 1) : t[i] = s[m + i - 1]
  <2>1. \A i \in m..Len(s) : s[i] \in Input
    BY <1>1
  <2>2. /\ t \in Seq(Input)
        /\ Len(t) = IF m <= Len(s) THEN Len(s) - m + 1 ELSE 0
        /\ \A i \in 1..(Len(s) - m + 1) : t[i] = s[m + i - 1]
    BY <1>1, <2>1, SubSeqProperties
  <2> HIDE DEF t
  <2> QED BY <1>1, <2>2
<1> HIDE DEF t
<1>3. \A i \in 1..Len(t) : t[i] = s[m + i - 1] /\ m + i - 1 \in 1..Len(s)
  BY <1>1, <1>2
<1>4. DOMAIN t = 1..Len(t)
  BY <1>2
<1>5. Wins(t) \subseteq Wins(s)
  BY <1>1, <1>3, <1>4 DEF Wins
<1>6. ASSUME NEW i \in m..Len(s) PROVE s[i].win \in Wins(t)
  <2>1. i - m + 1 \in 1..Len(t) /\ m + (i - m + 1) - 1 = i
    BY <1>1, <1>2
  <2>2. t[i - m + 1] = s[i]
    BY <1>3, <2>1
  <2> QED BY <2>1, <2>2, <1>4 DEF Wins
<1> QED BY <1>2, <1>3, <1>5, <1>6 DEF t

(* A window of a log has a position in it. *)
LEMMA WinsAt ==
    ASSUME NEW s \in Seq(Input), NEW w \in Wins(s)
    PROVE  \E i \in 1..Len(s) : s[i].win = w
<1>1. DOMAIN s = 1..Len(s)
  OBVIOUS
<1> QED BY <1>1, Zenon DEF Wins

(* The source is checkpointed at the latest window of the batch. *)
LEMMA MaxWinIs ==
    ASSUME NEW recs \in Seq(Input), recs # <<>>
    PROVE  /\ MaxWin(recs) \in Wins(recs) /\ MaxWin(recs) \in Window
           /\ \A v \in Wins(recs) : v <= MaxWin(recs)
<1>1. Wins(recs) \subseteq Window
  BY WinsType
<1>2. Wins(recs) # {}
  <2>1. 1 \in DOMAIN recs
    BY EmptySeq
  <2> QED BY <2>1 DEF Wins
<1>3. Wins(recs) \subseteq 0..MaxWindow /\ MaxWindow \in Nat
  BY <1>1, BoundAssumption DEF Window
<1>4. \E w \in Wins(recs) : \A v \in Wins(recs) : v <= w
  BY <1>2, <1>3, GreatestUpTo
<1> QED BY <1>1, <1>4 DEF MaxWin
-----------------------------------------------------------------------------
(* While the input WAL only grows, a pending batch stays its head. *)
LEMMA GrowKeepsHead ==
    ASSUME RouteInv, BatchIsHead, UNCHANGED <<results, inck>>,
           inputs' \in Seq(Input), Len(inputs) <= Len(inputs'),
           \A i \in 1..Len(inputs) : inputs'[i] = inputs[i]
    PROVE  BatchIsHead'
<1>1. Len(inputs) \in Nat /\ Len(inputs') \in Nat
  BY DEF RouteInv, TypeOK
<1>2. ASSUME results # None PROVE results.recs \in Seq(Input) /\ Len(results.recs) \in Nat
  BY <1>2 DEF RouteInv, TypeOK, Results
<1> QED BY <1>1, <1>2 DEF BatchIsHead

(* What is kept stays kept, as long as Events and refusals stay and every  *)
(* window of the input WAL stays placed.                                   *)
LEMMA KeptStays ==
    ASSUME events \subseteq events', refused \subseteq refused', partial \subseteq partial',
           Wins(inputs) \subseteq Placed'
    PROVE  Delivered \subseteq Delivered' /\ Placed \subseteq Placed' /\ Kept \subseteq Kept'
<1>1. Delivered \subseteq Delivered'
  BY DEF Delivered
<1>2. Placed \subseteq Placed'
  BY <1>1 DEF Placed
<1> QED BY <1>1, <1>2 DEF Kept

(* Steps that touch neither a log nor the cursor. *)
LEMMA QuietWindows ==
    ASSUME UNCHANGED <<srcck, seen, inck, inputs, results, events, pc, known, nextw,
                       refused, partial, reopened>>
    PROVE  (HeadInv => HeadInv') /\ (LossInv => LossInv')
<1>1. Delivered' = Delivered /\ Placed' = Placed /\ Kept' = Kept
  BY DEF Delivered, Placed, Kept, Wins
<1>2. Cursor => Cursor'
  BY <1>1 DEF Cursor, Up
<1>3. BatchIsHead /\ CopyStays => BatchIsHead' /\ CopyStays'
  BY DEF BatchIsHead, CopyStays
<1>4. AckIsTrue => AckIsTrue'
  BY <1>1 DEF AckIsTrue, Wins
<1>5. LossInv => LossInv'
  BY <1>1 DEF LossInv
<1> QED BY <1>2, <1>3, <1>4, <1>5 DEF HeadInv

(* The admission of a final window puts it into the input WAL, unless it   *)
(* is known or the watermark refuses it.                                   *)
LEMMA FinalPlaces ==
    ASSUME RouteInv, NEW w \in Window, Final(w)
    PROVE  /\ inputs' \in Seq(Input) /\ Len(inputs) <= Len(inputs')
           /\ \A i \in 1..Len(inputs) : inputs'[i] = inputs[i]
           /\ Wins(inputs) \subseteq Wins(inputs')
           /\ Wins(inputs') \subseteq Wins(inputs) \cup {w}
           /\ refused \subseteq refused'
           /\ known' \subseteq known \cup Wins(inputs')
           /\ w \in known \cup Wins(inputs') \cup refused' \cup partial
<1> DEFINE rec == [win |-> w, route |-> IF rstate = "active" THEN route ELSE None]
<1>1. rec \in Input /\ rec.win = w /\ inputs \in Seq(Input) /\ Len(inputs) \in Nat
  BY DEF RouteInv, TypeOK, Input
<1>2. CASE w \in known \/ w \in partial \/ Full
  <2>1. inputs' = inputs /\ known' \subseteq known \cup {w} /\ refused \subseteq refused'
    BY <1>2 DEF Final
  <2>2. w \in known \cup refused' \cup partial /\ known' \subseteq known
    BY <1>2 DEF Final
  <2> QED BY <1>1, <2>1, <2>2 DEF Wins
<1>3. CASE w \notin known /\ w \notin partial /\ ~Full
  <2>1. inputs' = Append(inputs, rec) /\ known' = known \cup {w} /\ refused' = refused
    BY <1>3 DEF Final
  <2> HIDE DEF rec
  <2>2. /\ inputs' \in Seq(Input) /\ Len(inputs') = Len(inputs) + 1
        /\ \A i \in 1..Len(inputs) : inputs'[i] = inputs[i]
        /\ Wins(Append(inputs, rec)) = Wins(inputs) \cup {w}
    BY <1>1, <2>1, AppendWins
  <2>3. Wins(inputs') = Wins(inputs) \cup {w}
    BY <2>1, <2>2 DEF Wins
  <2> QED BY <1>1, <2>1, <2>2, <2>3
<1> QED BY <1>2, <1>3

(* Admission of a running actor: the open window is the last one with a    *)
(* snapshot, and the ones before it are kept.                              *)
LEMMA AdmissionKeeps ==
    ASSUME RouteInv, HeadInv, LossInv, PushSnapshot \/ IdleClose
    PROVE  HeadInv' /\ LossInv'
<1>1. /\ UNCHANGED <<srcck, inck, results, events, pc>> /\ pc = "idle"
      /\ seen' \in {seen, seen + 1} /\ nextw' = seen + 1 /\ seen \in Nat
      /\ srcck \in Nat /\ nextw \in Nat \ {0} /\ inputs \in Seq(Input)
  BY DEF PushSnapshot, IdleClose, Idle, RouteInv, TypeOK
<1>2. /\ nextw <= seen + 1 /\ nextw >= seen /\ srcck <= seen
      /\ \A w \in Placed : w <= seen
  BY <1>1 DEF HeadInv, Cursor, Up
<1>3. /\ inputs' \in Seq(Input) /\ Len(inputs) <= Len(inputs')
      /\ \A i \in 1..Len(inputs) : inputs'[i] = inputs[i]
      /\ Wins(inputs) \subseteq Wins(inputs')
      /\ Wins(inputs') \subseteq Wins(inputs) \cup {seen}
      /\ refused \subseteq refused' /\ partial \subseteq partial'
      /\ known' \subseteq known \cup Wins(inputs')
      /\ nextw = seen /\ seen > 0 => seen \in known \cup Wins(inputs') \cup refused' \cup partial'
  <2>0. partial \subseteq partial'
    BY DEF PushSnapshot, IdleClose
  <2>1. CASE Final(seen) /\ seen > 0
    <3>1. seen \in Window
      BY <2>1 DEF RouteInv, TypeOK, Window
    <3> QED BY <2>0, <2>1, <3>1, FinalPlaces
  <2>2. CASE UNCHANGED <<inputs, known, refused>> /\ ~(nextw = seen /\ seen > 0)
    BY <1>1, <2>0, <2>2 DEF Wins
  <2> QED BY <2>1, <2>2 DEF PushSnapshot, IdleClose
<1>4. Delivered' = Delivered /\ Placed \subseteq Placed' /\ Kept \subseteq Kept'
  <2>1. Wins(inputs) \subseteq Placed' /\ events \subseteq events'
    BY <1>1, <1>3 DEF Placed, Wins
  <2> QED BY <2>1, <1>1, <1>3, KeptStays DEF Delivered
<1>5. BatchIsHead'
  BY <1>1, <1>3, GrowKeepsHead DEF HeadInv
<1>6. AckIsTrue' /\ CopyStays'
  BY <1>1, <1>4 DEF HeadInv, AckIsTrue, CopyStays, Wins
<1>7. Cursor'
  <2>0. \A w \in Placed' : w \in Placed \/ w = seen
    BY <1>3, <1>4 DEF Placed, Wins
  <2>1. \A w \in Placed' : w <= seen
    BY <1>1, <1>2, <2>0
  <2>2. \A w \in Placed' : w <= seen'
    <3>1. \A w \in Placed' : w \in Nat
      <4>1. Wins(inputs') \subseteq Window
        BY <1>3, WinsType
      <4>2. Delivered \subseteq Window
        BY DEF Delivered, RouteInv, TypeOK, Event
      <4>3. Placed' = Delivered \cup Wins(inputs')
        BY <1>4 DEF Placed, Wins
      <4>4. Window \subseteq Nat
        BY DEF Window
      <4> QED BY <4>1, <4>2, <4>3, <4>4
    <3> QED BY <2>1, <3>1, <1>1
  <2>3. srcck' <= seen' /\ nextw' <= seen' + 1 /\ nextw' >= seen'
    <3>1. CASE seen' = seen
      BY <3>1, <1>1, <1>2
    <3>2. CASE seen' = seen + 1
      <4>1. nextw' = seen'
        BY <3>2, <1>1
      <4> QED BY <3>2, <4>1, <1>1, <1>2
    <3> QED BY <3>1, <3>2, <1>1
  <2> QED BY <2>2, <2>3 DEF Cursor
<1>8. LossInv'
  <2>1. known' \subseteq Kept'
    BY <1>3, <1>4 DEF LossInv, Kept, Placed, Wins
  <2>2. 1..srcck' \subseteq Kept'
    BY <1>1, <1>4 DEF LossInv
  <2>3. 1..(nextw - 1) \subseteq Kept'
    BY <1>1, <1>4 DEF LossInv
  <2>4. nextw = seen /\ seen > 0 => seen \in Kept'
    BY <1>3, <1>4 DEF LossInv, Kept, Placed, Wins
  <2>5. 1..(nextw' - 1) \subseteq Kept'
    <3>1. nextw' - 1 = seen
      BY <1>1
    <3>2. ASSUME NEW w \in 1..seen PROVE w \in 1..(nextw - 1) \/ (w = seen /\ nextw = seen /\ seen > 0)
      BY <1>1, <1>2
    <3> QED BY <3>1, <3>2, <2>3, <2>4
  <2> QED BY <2>1, <2>2, <2>5 DEF LossInv
<1> QED BY <1>5, <1>6, <1>7, <1>8 DEF HeadInv

(* Replay: what is skipped is known and so kept, and what the watermark    *)
(* refuses fails the spawn.                                                *)
LEMMA ReplayKeeps ==
    ASSUME RouteInv, HeadInv, LossInv, ReplayWindow
    PROVE  HeadInv' /\ LossInv'
<1> DEFINE rec == [win |-> nextw, route |-> None]
<1>1. /\ UNCHANGED <<srcck, seen, inck, results, events, refused, partial>>
      /\ pc = "replay" /\ nextw < seen /\ nextw' = nextw + 1
      /\ seen \in Nat /\ srcck \in Nat /\ nextw \in Window /\ nextw \in Nat \ {0}
      /\ inputs \in Seq(Input)
  BY BoundAssumption DEF ReplayWindow, RouteInv, TypeOK, Window
<1>2. rec \in Input /\ rec.win = nextw
  BY <1>1 DEF Input
<1>3. /\ inputs' \in Seq(Input) /\ Len(inputs) <= Len(inputs')
      /\ \A i \in 1..Len(inputs) : inputs'[i] = inputs[i]
      /\ Wins(inputs) \subseteq Wins(inputs')
      /\ Wins(inputs') \subseteq Wins(inputs) \cup {nextw}
      /\ known' \subseteq known \cup Wins(inputs')
      /\ pc' = "down" \/ (pc' = "replay" /\ nextw \in known \cup partial \cup Wins(inputs'))
  <2>1. CASE inputs' = inputs /\ known' \subseteq known
    <3>1. pc' = "down" \/ (pc' = "replay" /\ nextw \in known \cup partial)
      BY <1>1, <2>1, <1>2, AppendProperties DEF ReplayWindow
    <3> QED BY <1>1, <2>1, <3>1 DEF Wins
  <2>2. CASE inputs' = Append(inputs, rec) /\ known' = known \cup {nextw} /\ pc' = pc
    <3> HIDE DEF rec
    <3>1. /\ inputs' \in Seq(Input) /\ Len(inputs') = Len(inputs) + 1
          /\ \A i \in 1..Len(inputs) : inputs'[i] = inputs[i]
          /\ Wins(Append(inputs, rec)) = Wins(inputs) \cup {nextw}
      BY <1>1, <1>2, <2>2, AppendWins
    <3>2. Wins(inputs') = Wins(inputs) \cup {nextw}
      BY <2>2, <3>1 DEF Wins
    <3> QED BY <1>1, <2>2, <3>1, <3>2
  <2> QED BY <2>1, <2>2 DEF ReplayWindow
<1>4. Delivered' = Delivered /\ Placed \subseteq Placed' /\ Kept \subseteq Kept'
  <2>1. /\ Wins(inputs) \subseteq Placed' /\ events \subseteq events'
        /\ refused \subseteq refused' /\ partial \subseteq partial'
    BY <1>1, <1>3 DEF Placed, Wins
  <2> QED BY <2>1, <1>1, KeptStays DEF Delivered
<1>5. BatchIsHead'
  BY <1>1, <1>3, GrowKeepsHead DEF HeadInv
<1>6. AckIsTrue' /\ CopyStays'
  BY <1>1, <1>3, <1>4 DEF HeadInv, AckIsTrue, CopyStays, Wins
<1>7. Cursor'
  <2>1. \A w \in Placed' : w \in Placed \/ w = nextw
    BY <1>3, <1>4 DEF Placed, Wins
  <2> QED BY <2>1, <1>1, <1>3 DEF HeadInv, Cursor, Up
<1>8. LossInv'
  <2>1. known' \subseteq Kept'
    BY <1>3, <1>4 DEF LossInv, Kept, Placed, Wins
  <2>2. 1..srcck' \subseteq Kept'
    BY <1>1, <1>4 DEF LossInv
  <2>3. ASSUME pc' # "down" PROVE 1..(nextw' - 1) \subseteq Kept'
    <3>1. nextw \in Kept'
      BY <2>3, <1>3, <1>4 DEF LossInv, Kept, Placed, Wins
    <3>2. 1..(nextw - 1) \subseteq Kept' /\ nextw' - 1 = nextw
      BY <1>1, <1>4 DEF LossInv
    <3> QED BY <3>1, <3>2, <1>1
  <2> QED BY <2>1, <2>2, <2>3 DEF LossInv
<1> QED BY <1>5, <1>6, <1>7, <1>8 DEF HeadInv

(* Rebinding: the copy at the tail, or the one that the view already       *)
(* shows, stays when the head is checkpointed.                             *)
LEMMA RebindHeadKeeps ==
    ASSUME RouteInv, HeadInv, LossInv, RebindHead
    PROVE  /\ HeadInv' /\ LossInv'
           /\ inputs' = inputs \/
                 \E rec \in Input : /\ inputs' = Append(inputs, rec)
                                    /\ rec.win = inputs[1].win /\ rec.route = route
<1> DEFINE rec == [inputs[1] EXCEPT !.route = route]
           durable == \E i \in 2..Len(View) :
                         /\ View[i].win = inputs[1].win /\ Bound(View[i])
                         /\ View[i].route.epoch = route.epoch
<1>1. /\ UNCHANGED <<srcck, seen, inck, results, events, known, nextw, refused, partial>>
      /\ pc = "idle" /\ pc' = "rebind" /\ results = None /\ inputs # <<>>
      /\ inputs \in Seq(Input) /\ Len(inputs) \in Nat \ {0}
      /\ route \in Route \cup {None} /\ inputs[1] \in Input
  BY EmptySeq DEF RebindHead, CanProcess, Idle, RouteInv, TypeOK
<1>2. rec \in Input /\ rec.win = inputs[1].win /\ rec.route = route
  BY <1>1 DEF Input
<1>3. inputs' = IF durable THEN inputs ELSE Append(inputs, rec)
  BY DEF RebindHead
<1>4. ASSUME durable PROVE \E i \in 2..Len(inputs) : inputs[i].win = inputs[1].win
  <2> DEFINE m == IF Len(inputs) < Batch THEN Len(inputs) ELSE Batch
  <2>1. m \in 1..Len(inputs)
    BY <1>1, BatchAssumption
  <2>2. Len(View) = m /\ \A i \in 1..m : View[i] = inputs[i]
    <3>1. View = SubSeq(inputs, 1, m)
      BY DEF View
    <3> HIDE DEF m
    <3> QED BY <1>1, <2>1, <3>1, SubSeqProperties
  <2>3. PICK i \in 2..Len(View) : View[i].win = inputs[1].win
    BY <1>4
  <2> HIDE DEF m
  <2>4. i \in 2..Len(inputs) /\ i \in 1..m
    BY <1>1, <2>1, <2>2, <2>3
  <2> QED BY <2>2, <2>3, <2>4
<1> HIDE DEF rec, durable
<1>5. /\ inputs' \in Seq(Input) /\ Len(inputs) <= Len(inputs')
      /\ \A i \in 1..Len(inputs) : inputs'[i] = inputs[i]
      /\ Wins(inputs') = Wins(inputs)
      /\ \E i \in 2..Len(inputs') : inputs'[i].win = inputs'[1].win
  <2>1. CASE durable
    BY <1>1, <1>3, <1>4, <2>1 DEF Wins
  <2>2. CASE ~durable
    <3>1. inputs' = Append(inputs, rec)
      BY <1>3, <2>2
    <3>2. /\ inputs' \in Seq(Input) /\ Len(inputs') = Len(inputs) + 1
          /\ \A i \in 1..Len(inputs) : inputs'[i] = inputs[i]
          /\ inputs'[Len(inputs) + 1] = rec
          /\ Wins(Append(inputs, rec)) = Wins(inputs) \cup {rec.win}
      BY <1>1, <1>2, <3>1, AppendWins
    <3>3. rec.win \in Wins(inputs)
      <4>1. 1 \in DOMAIN inputs
        BY <1>1
      <4> QED BY <4>1, <1>2 DEF Wins
    <3>4. Wins(inputs') = Wins(inputs)
      BY <3>1, <3>2, <3>3 DEF Wins
    <3>5. Len(inputs) + 1 \in 2..Len(inputs') /\ inputs'[1] = inputs[1]
      BY <1>1, <3>2
    <3>6. inputs'[Len(inputs) + 1].win = inputs'[1].win
      BY <1>2, <3>2, <3>5
    <3> QED BY <1>1, <3>2, <3>4, <3>5, <3>6
  <2> QED BY <2>1, <2>2
<1>6. Delivered' = Delivered /\ Placed' = Placed /\ Kept' = Kept
  BY <1>1, <1>5 DEF Delivered, Placed, Kept, Wins
<1>7. HeadInv'
  <2>1. BatchIsHead' /\ AckIsTrue' /\ CopyStays'
    BY <1>1, <1>5 DEF BatchIsHead, AckIsTrue, CopyStays
  <2>2. Cursor'
    BY <1>1, <1>6 DEF HeadInv, Cursor, Up
  <2> QED BY <2>1, <2>2 DEF HeadInv
<1>8. LossInv'
  BY <1>1, <1>6 DEF LossInv
<1>9. inputs' = inputs \/ inputs' = Append(inputs, rec)
  BY <1>3
<1> QED BY <1>2, <1>7, <1>8, <1>9

(* The checkpoint of a rebound head loses no window. *)
LEMMA RebindCheckpointKeeps ==
    ASSUME RouteInv, HeadInv, LossInv, RebindCheckpoint
    PROVE  /\ HeadInv' /\ LossInv' /\ Placed' = Placed /\ Wins(inputs') = Wins(inputs)
           /\ Len(inputs) >= 1 /\ inputs' = SubSeq(inputs, 2, Len(inputs))
<1>1. /\ UNCHANGED <<srcck, seen, results, events, known, nextw, refused, partial>>
      /\ pc = "rebind" /\ pc' = "idle" /\ results = None /\ inputs # <<>>
      /\ inputs \in Seq(Input) /\ Len(inputs) \in Nat \ {0} /\ inputs' = Tail(inputs)
  BY EmptySeq DEF RebindCheckpoint, RouteInv, TypeOK, TickHolds
<1>2. inputs' = SubSeq(inputs, 2, Len(inputs))
  BY <1>1, TailIsSubSeq
<1>3. /\ Wins(SubSeq(inputs, 2, Len(inputs))) \subseteq Wins(inputs)
      /\ \A i \in 2..Len(inputs) : inputs[i].win \in Wins(SubSeq(inputs, 2, Len(inputs)))
  <2>1. 2 \in 1..(Len(inputs) + 1)
    BY <1>1
  <2> QED BY <1>1, <2>1, SuffixWins
<1>4. PICK c \in 2..Len(inputs) : inputs[c].win = inputs[1].win
  BY <1>1 DEF HeadInv, CopyStays
<1>5. Wins(inputs') = Wins(inputs)
  <2>1. ASSUME NEW w \in Wins(inputs) PROVE w \in Wins(SubSeq(inputs, 2, Len(inputs)))
    <3>1. PICK i \in 1..Len(inputs) : inputs[i].win = w
      BY <1>1, <2>1, WinsAt
    <3>2. i = 1 \/ i \in 2..Len(inputs)
      BY <1>1
    <3> QED BY <3>1, <3>2, <1>3, <1>4
  <2> QED BY <2>1, <1>2, <1>3 DEF Wins
<1>6. Delivered' = Delivered /\ Placed' = Placed /\ Kept' = Kept
  BY <1>1, <1>5 DEF Delivered, Placed, Kept, Wins
<1>7. HeadInv'
  BY <1>1, <1>6 DEF HeadInv, BatchIsHead, AckIsTrue, CopyStays, Cursor, Up
<1>8. LossInv'
  BY <1>1, <1>6 DEF LossInv
<1> QED BY <1>1, <1>2, <1>5, <1>6, <1>7, <1>8

(* The batch of a tick is the head of the input WAL. *)
LEMMA InferKeeps ==
    ASSUME RouteInv, HeadInv, LossInv, Infer
    PROVE  HeadInv' /\ LossInv'
<1>1. /\ UNCHANGED <<srcck, seen, inck, inputs, events, pc, known, nextw, refused, partial>>
      /\ pc = "idle" /\ inputs \in Seq(Input) /\ inputs # <<>> /\ Bound(inputs[1])
      /\ results' = [recs |-> Prefix, upto |-> inck + Len(Prefix), acked |-> FALSE]
  BY DEF Infer, CanInfer, CanProcess, Idle, memory, RouteInv, TypeOK
<1>2. PICK n \in 1..Len(inputs) : Prefix = SubSeq(inputs, 1, n)
  BY <1>1, PrefixIsPrefix
<1>3. Len(Prefix) = n /\ n <= Len(inputs) /\ \A i \in 1..n : Prefix[i] = inputs[i]
  BY <1>1, <1>2, SubSeqProperties
<1>4. BatchIsHead'
  <2>1. results'.recs = Prefix /\ results'.upto = inck + Len(Prefix)
    BY <1>1
  <2> QED BY <1>1, <1>3, <2>1 DEF BatchIsHead
<1>5. AckIsTrue' /\ CopyStays'
  BY <1>1 DEF AckIsTrue, CopyStays
<1>6. Delivered' = Delivered /\ Placed' = Placed /\ Kept' = Kept
  BY <1>1 DEF Delivered, Placed, Kept, Wins
<1>7. Cursor' /\ LossInv'
  BY <1>1, <1>6 DEF HeadInv, Cursor, Up, LossInv
<1> QED BY <1>4, <1>5, <1>7 DEF HeadInv

(* Delivery: a batch is acknowledged only when each of its records is an   *)
(* Event, and each new Event is about a window of the input WAL.           *)
LEMMA DeliveryKeeps ==
    ASSUME RouteInv, HeadInv, LossInv, NEW replied \in BOOLEAN, CommitResults(replied)
    PROVE  HeadInv' /\ LossInv' /\ Placed' = Placed
<1>1. /\ UNCHANGED <<srcck, seen, inck, inputs, pc, known, nextw, refused, partial>>
      /\ pc = "idle" /\ results # None /\ results \in Results /\ ~results.acked
      /\ events' = events \cup {e \in NewEvents : ~Conflicts(e)}
      /\ results' = [results EXCEPT !.acked = replied /\ ~(\E e \in NewEvents : Conflicts(e))]
      /\ inputs \in Seq(Input)
  BY DEF CommitResults, Idle, memory, RouteInv, TypeOK
<1>2. /\ results'.recs = results.recs /\ results'.upto = results.upto
      /\ results'.acked => ~(\E e \in NewEvents : Conflicts(e))
      /\ results.recs \in Seq(Input) /\ DOMAIN results.recs = 1..Len(results.recs)
  BY <1>1 DEF Results
<1>3. /\ Len(results.recs) <= Len(inputs)
      /\ \A i \in 1..Len(results.recs) : results.recs[i] = inputs[i]
  BY <1>1 DEF HeadInv, BatchIsHead
<1>4. \A e \in NewEvents : e.win \in Wins(inputs)
  <2>1. ASSUME NEW i \in DOMAIN results.recs PROVE EventOf(i).win \in Wins(inputs)
    <3>1. i \in DOMAIN inputs /\ results.recs[i] = inputs[i]
      BY <1>1, <1>2, <1>3
    <3> QED BY <3>1 DEF EventOf, Wins
  <2> QED BY <2>1 DEF NewEvents
<1>5. Delivered \subseteq Delivered' /\ Placed' = Placed /\ Kept' = Kept
  BY <1>1, <1>4 DEF Delivered, Placed, Kept, Wins
<1>6. BatchIsHead' /\ CopyStays'
  BY <1>1, <1>2 DEF HeadInv, BatchIsHead, CopyStays
<1>7. AckIsTrue'
  <2>1. ASSUME results'.acked PROVE Wins(results.recs) \subseteq Delivered'
    <3>1. NewEvents \subseteq events'
      BY <1>1, <1>2, <2>1
    <3>2. ASSUME NEW i \in DOMAIN results.recs PROVE results.recs[i].win \in Delivered'
      <4>1. EventOf(i) \in events' /\ EventOf(i).win = results.recs[i].win
        BY <3>1 DEF NewEvents, EventOf
      <4> QED BY <4>1 DEF Delivered
    <3> QED BY <3>2 DEF Wins
  <2> QED BY <2>1, <1>1, <1>2 DEF AckIsTrue, Wins
<1>8. Cursor' /\ LossInv'
  BY <1>1, <1>5 DEF HeadInv, Cursor, Up, LossInv
<1> QED BY <1>5, <1>6, <1>7, <1>8 DEF HeadInv

(* The source checkpoint: it moves to a delivered window, and everything   *)
(* before it is behind the cursor of a running actor.                      *)
LEMMA SourceKeeps ==
    ASSUME RouteInv, HeadInv, LossInv, CheckpointSource
    PROVE  /\ HeadInv' /\ LossInv' /\ Placed' = Placed /\ srcck <= srcck'
           /\ \A w \in Wins(results.recs) : w <= srcck'
<1>1. /\ UNCHANGED <<seen, inck, inputs, results, events, known, nextw, refused, partial>>
      /\ pc = "idle" /\ pc' = "ckInput" /\ results # None /\ results.acked
      /\ results \in Results /\ results.recs # <<>> /\ results.recs \in Seq(Input)
      /\ srcck' = MaxWin(results.recs) /\ srcck <= srcck'
      /\ seen \in Nat /\ nextw \in Nat
  BY DEF CheckpointSource, Idle, RouteInv, TypeOK, BatchBound, Results
<1>2. /\ MaxWin(results.recs) \in Wins(results.recs) /\ MaxWin(results.recs) \in Window
      /\ \A v \in Wins(results.recs) : v <= MaxWin(results.recs)
  BY <1>1, MaxWinIs
<1>3. Delivered' = Delivered /\ Placed' = Placed /\ Kept' = Kept
  BY <1>1 DEF Delivered, Placed, Kept, Wins
<1>4. srcck' \in Delivered
  BY <1>1, <1>2 DEF HeadInv, AckIsTrue
<1>5. srcck' <= seen /\ srcck' \in Nat \ {0}
  BY <1>1, <1>2, <1>4 DEF HeadInv, Cursor, Placed, Window
<1>6. HeadInv'
  <2>1. BatchIsHead' /\ CopyStays'
    BY <1>1 DEF HeadInv, BatchIsHead, CopyStays
  <2>2. AckIsTrue'
    BY <1>1, <1>3 DEF HeadInv, AckIsTrue, Wins
  <2>3. Cursor'
    BY <1>1, <1>3, <1>5 DEF HeadInv, Cursor, Up
  <2> QED BY <2>1, <2>2, <2>3 DEF HeadInv
<1>7. LossInv'
  <2>1. 1..(nextw - 1) \subseteq Kept /\ nextw >= seen
    BY <1>1 DEF LossInv, HeadInv, Cursor, Up
  <2>2. ASSUME NEW w \in 1..srcck' PROVE w \in Kept
    <3>1. w \in 1..(nextw - 1) \/ w = srcck'
      BY <1>1, <1>5, <2>1
    <3> QED BY <3>1, <2>1, <1>4 DEF Kept, Placed
  <2> QED BY <1>1, <1>3, <2>1, <2>2 DEF LossInv
<1> QED BY <1>1, <1>2, <1>3, <1>6, <1>7

(* The input checkpoint drops the records of the acknowledged batch, or    *)
(* none when a crash came between it and the result checkpoint.            *)
LEMMA InputKeeps ==
    ASSUME RouteInv, HeadInv, LossInv, CheckpointInput
    PROVE  /\ HeadInv' /\ LossInv'
           /\ \E m \in 1..(Len(inputs) + 1) :
                 /\ inputs' = SubSeq(inputs, m, Len(inputs))
                 /\ \A i \in 1..(m - 1) : inputs[i].win \in Wins(results.recs)
<1>1. /\ UNCHANGED <<srcck, seen, results, events, known, nextw, refused, partial>>
      /\ pc = "ckInput" /\ pc' = "ckResult" /\ inck' = results.upto
      /\ inputs' = SubSeq(inputs, results.upto - inck + 1, Len(inputs))
      /\ results # None /\ results \in Results /\ results.recs \in Seq(Input)
      /\ inputs \in Seq(Input) /\ Len(inputs) \in Nat /\ inck \in Nat /\ results.upto \in Nat
  BY DEF CheckpointInput, RouteInv, TypeOK, TickHolds, Results
<1>2. results.acked /\ Wins(results.recs) \subseteq Delivered
  BY <1>1 DEF HeadInv, AckIsTrue
<1> DEFINE m == results.upto - inck + 1
<1>3. /\ m \in 1..(Len(inputs) + 1)
      /\ \A i \in 1..(m - 1) : inputs[i].win \in Wins(results.recs)
  <2>1. CASE results.upto = inck
    BY <2>1, <1>1
  <2>2. CASE /\ results.upto = inck + Len(results.recs)
             /\ Len(results.recs) <= Len(inputs)
             /\ \A i \in 1..Len(results.recs) : results.recs[i] = inputs[i]
    <3>1. m = Len(results.recs) + 1 /\ Len(results.recs) \in Nat
          /\ DOMAIN results.recs = 1..Len(results.recs)
      BY <2>2, <1>1
    <3>2. ASSUME NEW i \in 1..(m - 1) PROVE inputs[i].win \in Wins(results.recs)
      <4>1. i \in DOMAIN results.recs /\ inputs[i] = results.recs[i]
        BY <2>2, <3>1
      <4> QED BY <4>1 DEF Wins
    <3> QED BY <3>1, <3>2, <2>2, <1>1
  <2> QED BY <1>1, <2>1, <2>2 DEF HeadInv, BatchIsHead
<1>4. inputs' = SubSeq(inputs, m, Len(inputs))
  BY <1>1
<1> HIDE DEF m
<1>5. /\ Wins(SubSeq(inputs, m, Len(inputs))) \subseteq Wins(inputs)
      /\ \A i \in m..Len(inputs) : inputs[i].win \in Wins(SubSeq(inputs, m, Len(inputs)))
  BY <1>1, <1>3, SuffixWins
<1>6. Wins(inputs') \subseteq Wins(inputs) /\ Wins(inputs) \subseteq Placed'
  <2>1. ASSUME NEW w \in Wins(inputs)
        PROVE  w \in Wins(SubSeq(inputs, m, Len(inputs))) \/ w \in Delivered
    <3>1. PICK i \in 1..Len(inputs) : inputs[i].win = w
      BY <1>1, <2>1, WinsAt
    <3>2. i \in 1..(m - 1) \/ i \in m..Len(inputs)
      BY <1>1, <1>3
    <3> QED BY <3>1, <3>2, <1>2, <1>3, <1>5
  <2>2. Delivered' = Delivered
    BY <1>1 DEF Delivered
  <2> QED BY <2>1, <2>2, <1>4, <1>5 DEF Placed, Wins
<1>7. Delivered' = Delivered /\ Placed' = Placed /\ Kept' = Kept
  <2>1. Placed \subseteq Placed' /\ Kept \subseteq Kept'
    <3>1. events \subseteq events' /\ refused \subseteq refused' /\ partial \subseteq partial'
      BY <1>1
    <3> QED BY <3>1, <1>6, KeptStays
  <2> QED BY <2>1, <1>1, <1>6 DEF Delivered, Placed, Kept, Wins
<1>8. HeadInv'
  <2>1. BatchIsHead' /\ CopyStays'
    BY <1>1, <1>2 DEF BatchIsHead, CopyStays
  <2>2. AckIsTrue'
    BY <1>1, <1>2, <1>7 DEF AckIsTrue, Wins
  <2>3. Cursor'
    BY <1>1, <1>7 DEF HeadInv, Cursor, Up
  <2> QED BY <2>1, <2>2, <2>3 DEF HeadInv
<1>9. LossInv'
  BY <1>1, <1>7 DEF LossInv
<1> QED BY <1>3, <1>4, <1>8, <1>9

(* The result checkpoint forgets identities, not records. *)
LEMMA ResultKeeps ==
    ASSUME RouteInv, HeadInv, LossInv, CheckpointResult
    PROVE  HeadInv' /\ LossInv'
<1>1. /\ UNCHANGED <<srcck, seen, inck, inputs, events, nextw, refused, partial>>
      /\ pc = "ckResult" /\ pc' = "idle" /\ results' = None /\ known' \subseteq known
  BY DEF CheckpointResult
<1>2. Delivered' = Delivered /\ Placed' = Placed /\ Kept' = Kept
  BY <1>1 DEF Delivered, Placed, Kept, Wins
<1>3. HeadInv'
  BY <1>1, <1>2 DEF HeadInv, BatchIsHead, AckIsTrue, CopyStays, Cursor, Up
<1>4. LossInv'
  BY <1>1, <1>2 DEF LossInv
<1> QED BY <1>3, <1>4

(* A crash forgets memory only, and a restart begins behind the source     *)
(* checkpoint.                                                             *)
LEMMA LifeKeeps ==
    ASSUME RouteInv, HeadInv, LossInv, Crash \/ Restart \/ Spawn
    PROVE  HeadInv' /\ LossInv'
<1>1. /\ UNCHANGED <<srcck, seen, inck, inputs, results, events, refused, partial>>
      /\ pc' \in {"down", "replay", "idle"}
      /\ srcck \in Nat /\ seen \in Nat /\ nextw \in Nat
      /\ \/ pc' = "down" /\ known' = {} /\ nextw' = nextw
         \/ pc' = "replay" /\ known' = Wins(inputs) /\ nextw' = srcck + 1
         \/ pc = "replay" /\ pc' = "idle" /\ known' = known /\ nextw' = nextw /\ nextw >= seen
  BY DEF Crash, Restart, Spawn, disk, RouteInv, TypeOK
<1>2. Delivered' = Delivered /\ Placed' = Placed /\ Kept' = Kept
  BY <1>1 DEF Delivered, Placed, Kept, Wins
<1>3. Wins(inputs) \subseteq Kept
  BY DEF Placed, Kept
<1>4. BatchIsHead' /\ CopyStays'
  BY <1>1 DEF HeadInv, BatchIsHead, CopyStays
<1>5. AckIsTrue'
  BY <1>1, <1>2 DEF HeadInv, AckIsTrue, Wins
<1>6. Cursor'
  <2>1. nextw' <= seen + 1 /\ srcck <= seen /\ (pc' = "idle" => nextw' >= seen)
    BY <1>1 DEF HeadInv, Cursor
  <2> QED BY <2>1, <1>1, <1>2 DEF HeadInv, Cursor, Up
<1>7. LossInv'
  <2>1. known' \subseteq Kept /\ 1..srcck \subseteq Kept
    BY <1>1, <1>3 DEF LossInv
  <2>2. ASSUME pc' # "down" PROVE 1..(nextw' - 1) \subseteq Kept
    <3>1. CASE nextw' = srcck + 1
      <4>1. nextw' - 1 = srcck
        BY <3>1, <1>1
      <4> QED BY <4>1, <2>1
    <3>2. CASE nextw' = nextw /\ pc = "replay"
      BY <3>2 DEF LossInv
    <3> QED BY <2>2, <3>1, <3>2, <1>1
  <2> QED BY <2>1, <2>2, <1>1, <1>2 DEF LossInv
<1> QED BY <1>4, <1>5, <1>6, <1>7 DEF HeadInv

(* No window is placed or lost in the initial state. *)
LEMMA InitKeeps == Init => HeadInv /\ LossInv
<1> SUFFICES ASSUME Init PROVE HeadInv /\ LossInv OBVIOUS
<1>1. Delivered = {} /\ Wins(inputs) = {}
  BY DEF Init, Delivered, Wins
<1> QED BY <1>1 DEF Init, HeadInv, BatchIsHead, AckIsTrue, CopyStays, Cursor, Placed, Up, LossInv

(* Every step keeps both. *)
LEMMA NextKeeps ==
    ASSUME RouteInv, HeadInv, LossInv, [Next]_vars PROVE HeadInv' /\ LossInv'
<1>1. CASE \/ \E cur \in 0..MaxEpoch, prop \in Epoch : PrepareRoute(cur, prop)
           \/ \E r \in Route : CommitRoute(r)
           \/ \E h \in Handshake : ResumeRoute(h)
           \/ FinishRouteRecovery \/ RouteRecoveryFails \/ InferDrift \/ UNCHANGED vars
  <2>1. UNCHANGED <<srcck, seen, inck, inputs, results, events, pc, known, nextw,
                    refused, partial, reopened>>
    BY <1>1 DEF PrepareRoute, CommitRoute, ResumeRoute, FinishRouteRecovery,
                RouteRecoveryFails, InferDrift, vars, disk, memory
  <2> QED BY <2>1, QuietWindows
<1>2. CASE PushSnapshot \/ IdleClose
  BY <1>2, AdmissionKeeps
<1>3. CASE ReplayWindow
  BY <1>3, ReplayKeeps
<1>4. CASE RebindHead
  BY <1>4, RebindHeadKeeps
<1>5. CASE RebindCheckpoint
  BY <1>5, RebindCheckpointKeeps
<1>6. CASE Infer
  BY <1>6, InferKeeps
<1>7. CASE \E replied \in BOOLEAN : CommitResults(replied)
  BY <1>7, DeliveryKeeps
<1>8. CASE CheckpointSource
  BY <1>8, SourceKeeps
<1>9. CASE CheckpointInput
  BY <1>9, InputKeeps
<1>10. CASE CheckpointResult
  BY <1>10, ResultKeeps
<1>11. CASE Crash \/ Restart \/ Spawn
  BY <1>11, LifeKeeps
<1> QED BY <1>1, <1>2, <1>3, <1>4, <1>5, <1>6, <1>7, <1>8, <1>9, <1>10, <1>11
        DEF Next, EdgeStep

(* The source checkpoint passes no window that is neither a canonical      *)
(* Event, nor pending in the input WAL, nor refused at the watermark, nor  *)
(* withheld for the quality of its snapshot:                               *)
(* through crashes between the three checkpoints, rebinding that reorders  *)
(* windows, lost replies and an idle timer that closes windows early       *)
(* (process_pending_results, process_pending_inputs, spawn).               *)
THEOREM NothingIsLost == Spec => []NothingLost
<1>1. LossInv => NothingLost
  BY DEF LossInv, NothingLost, Kept, Placed, Delivered
<1>2. Init => RouteInv /\ HeadInv /\ LossInv
  BY InitRouteInv, InitKeeps
<1>3. RouteInv /\ HeadInv /\ LossInv /\ [Next]_vars => RouteInv' /\ HeadInv' /\ LossInv'
  BY NextRouteInv, NextKeeps
<1> QED BY <1>1, <1>2, <1>3, PTL DEF Spec
-----------------------------------------------------------------------------
(* One Event for each window that no crash has opened again.  The open     *)
(* window is placed nowhere, unless the idle timer closed it, and then a   *)
(* restart finds the source checkpoint behind it; a replay knows what is   *)
(* pending; what has been delivered is behind the source checkpoint or     *)
(* still pending; of two copies of a window the later one is bound; and    *)
(* the pending copies of a delivered window are bound to the route of its  *)
(* Event, so that they can only conflict with it.                          *)
OpenIsFresh ==
    \A w \in Placed \ reopened :
        \/ w < seen
        \/ w = seen /\ nextw = seen + 1 /\ (pc \in {"down", "replay"} => srcck = seen)
ReplayKnows == pc = "replay" => Wins(inputs) \subseteq known /\ srcck < nextw
DeliveredBehind ==
    /\ \A w \in Delivered : w <= srcck \/ w \in Wins(inputs)
    /\ pc = "ckInput" => \A w \in Wins(results.recs) : w <= srcck
CopiesBound ==
    \A i, j \in 1..Len(inputs) :
        i < j /\ inputs[i].win = inputs[j].win /\ inputs[j].win \notin reopened
            => inputs[j].route # None
SameRoute ==
    \A e \in events : /\ e.route # None
                      /\ \A i \in 1..Len(inputs) :
                            inputs[i].win = e.win /\ e.win \notin reopened
                                => inputs[i].route = e.route
OnceInv == /\ OpenIsFresh /\ ReplayKnows /\ DeliveredBehind
           /\ CopiesBound /\ SameRoute /\ OneEvent

(* A router that is ready or active has a route, and so has the record     *)
(* that restores it.                                                       *)
Serving == {"ready", "active"}
ServedRoute == /\ rstate \in Serving => route \in Route
               /\ journal # None /\ journal.stage \in Serving => journal.route \in Route

(* Only CommitRoute brings a route, and it brings a whole one. *)
LEMMA NextServed == RouteInv /\ ServedRoute /\ [Next]_vars => ServedRoute'
<1> SUFFICES ASSUME RouteInv, ServedRoute, [Next]_vars PROVE ServedRoute'
  OBVIOUS
<1>1. CASE \E cur \in 0..MaxEpoch, prop \in Epoch : PrepareRoute(cur, prop)
  BY <1>1 DEF PrepareRoute, ServedRoute, Serving
<1>2. CASE \E r \in Route : CommitRoute(r)
  BY <1>2 DEF CommitRoute, ServedRoute, Serving
<1>3. ASSUME NEW h \in Handshake, ResumeRoute(h) PROVE ServedRoute'
  <2>1. route \in Route /\ route' = route /\ journal'.route = route
    BY <1>3 DEF ResumeRoute, CanResume, ServedRoute, Serving
  <2> QED BY <2>1 DEF ServedRoute
<1>4. CASE FinishRouteRecovery
  <2>1. journal \in RouteRecord /\ journal # None
    BY <1>4 DEF FinishRouteRecovery, RouteInv, RecoversFrom, TypeOK
  <2>2. journal.stage \in Stage /\ route' = journal.route /\ journal' = journal
    BY <1>4, <2>1 DEF FinishRouteRecovery, disk, RouteRecord
  <2>3. journal.stage = "prepared" => rstate' = "draining"
    BY <1>4 DEF FinishRouteRecovery
  <2> QED BY <2>1, <2>2, <2>3 DEF ServedRoute, Serving, Stage
<1>5. CASE RouteRecoveryFails \/ InferDrift \/ Crash
  <2>1. journal' = journal /\ rstate' \notin Serving
    BY <1>5 DEF RouteRecoveryFails, InferDrift, Crash, disk, Serving
  <2> QED BY <2>1 DEF ServedRoute
<1>6. CASE \/ PushSnapshot \/ IdleClose \/ ReplayWindow \/ RebindHead \/ RebindCheckpoint \/ Infer
           \/ CheckpointSource \/ CheckpointInput \/ CheckpointResult \/ Restart \/ Spawn
           \/ UNCHANGED vars \/ (\E replied \in BOOLEAN : CommitResults(replied))
  <2>1. UNCHANGED <<journal, rstate, route>>
    BY <1>6 DEF PushSnapshot, IdleClose, ReplayWindow, RebindHead, RebindCheckpoint, Infer,
                CheckpointSource, CheckpointInput, CheckpointResult, Restart, Spawn, vars,
                CommitResults, disk, memory, router
  <2> QED BY <2>1 DEF ServedRoute
<1> QED BY <1>1, <1>2, <1>3, <1>4, <1>5, <1>6 DEF Next, EdgeStep

(* Steps that touch neither a log nor the cursor. *)
LEMMA QuietOnce ==
    ASSUME OnceInv,
           UNCHANGED <<srcck, seen, inck, inputs, results, events, pc, known, nextw,
                       refused, partial, reopened>>
    PROVE  OnceInv'
<1>1. Delivered' = Delivered /\ Placed' = Placed
  BY DEF Delivered, Placed, Wins
<1>2. OpenIsFresh' /\ ReplayKnows' /\ DeliveredBehind'
  BY <1>1 DEF OnceInv, OpenIsFresh, ReplayKnows, DeliveredBehind, Up, Wins
<1>3. CopiesBound' /\ SameRoute' /\ OneEvent'
  BY DEF OnceInv, CopiesBound, SameRoute, OneEvent
<1> QED BY <1>2, <1>3 DEF OnceInv

(* A record that is appended: a fresh window, or a bound copy of a window  *)
(* that has not been delivered.                                            *)
LEMMA AppendOnce ==
    ASSUME RouteInv, CopiesBound, SameRoute, NEW rec \in Input,
           rec.win \notin reopened =>
               rec.win \notin Delivered /\ (rec.win \in Wins(inputs) => rec.route # None),
           inputs' = Append(inputs, rec), UNCHANGED <<events, reopened>>
    PROVE  CopiesBound' /\ SameRoute'
<1>1. /\ inputs \in Seq(Input) /\ Len(inputs) \in Nat /\ Len(inputs') = Len(inputs) + 1
      /\ \A i \in 1..Len(inputs) : inputs'[i] = inputs[i]
      /\ inputs'[Len(inputs) + 1] = rec /\ DOMAIN inputs = 1..Len(inputs)
  BY AppendWins DEF RouteInv, TypeOK
<1>2. ASSUME NEW i \in 1..Len(inputs'), NEW j \in 1..Len(inputs'), i < j,
             inputs'[i].win = inputs'[j].win, inputs'[j].win \notin reopened
      PROVE  inputs'[j].route # None
  <2>1. i \in 1..Len(inputs)
    BY <1>1, <1>2
  <2>2. CASE j \in 1..Len(inputs)
    BY <2>1, <2>2, <1>1, <1>2 DEF CopiesBound
  <2>3. CASE j = Len(inputs) + 1
    <3>1. rec.win \in Wins(inputs)
      BY <1>1, <1>2, <2>1, <2>3 DEF Wins
    <3> QED BY <3>1, <2>3, <1>1, <1>2
  <2> QED BY <2>2, <2>3, <1>1
<1>3. ASSUME NEW e \in events, NEW i \in 1..Len(inputs'), inputs'[i].win = e.win,
             e.win \notin reopened
      PROVE  inputs'[i].route = e.route
  <2>1. e.win \in Delivered
    BY DEF Delivered
  <2>2. i \in 1..Len(inputs)
    BY <1>1, <1>3, <2>1
  <2> QED BY <2>2, <1>1, <1>3 DEF SameRoute
<1>4. CopiesBound'
  BY <1>2 DEF CopiesBound
<1>5. SameRoute'
  BY <1>3 DEF SameRoute
<1> QED BY <1>4, <1>5

(* A checkpoint before position m. *)
LEMMA SuffixOnce ==
    ASSUME RouteInv, CopiesBound, SameRoute, NEW m \in 1..(Len(inputs) + 1),
           inputs' = SubSeq(inputs, m, Len(inputs)), UNCHANGED <<events, reopened>>
    PROVE  CopiesBound' /\ SameRoute'
<1>1. /\ inputs \in Seq(Input) /\ Len(inputs) \in Nat /\ Len(inputs') \in Nat
      /\ \A i \in 1..Len(inputs') : inputs'[i] = inputs[m + i - 1] /\ m + i - 1 \in 1..Len(inputs)
  BY SuffixWins DEF RouteInv, TypeOK
<1>2. ASSUME NEW i \in 1..Len(inputs'), NEW j \in 1..Len(inputs'), i < j,
             inputs'[i].win = inputs'[j].win, inputs'[j].win \notin reopened
      PROVE  inputs'[j].route # None
  <2>1. m + i - 1 < m + j - 1
    BY <1>1, <1>2
  <2> QED BY <2>1, <1>1, <1>2 DEF CopiesBound
<1>3. CopiesBound'
  BY <1>2 DEF CopiesBound
<1>4. ASSUME NEW e \in events, NEW i \in 1..Len(inputs'), inputs'[i].win = e.win,
             e.win \notin reopened
      PROVE  inputs'[i].route = e.route
  BY <1>1, <1>4 DEF SameRoute
<1>5. SameRoute'
  BY <1>4 DEF SameRoute
<1> QED BY <1>3, <1>5

(* The admission of a final window that is placed nowhere. *)
LEMMA FinalOnce ==
    ASSUME RouteInv, CopiesBound, SameRoute, NEW w \in Window, Final(w),
           w \in Placed => w \in reopened, UNCHANGED <<events, reopened>>
    PROVE  CopiesBound' /\ SameRoute'
<1> DEFINE rec == [win |-> w, route |-> IF rstate = "active" THEN route ELSE None]
<1>1. rec \in Input /\ rec.win = w
  BY DEF RouteInv, TypeOK, Input
<1>2. inputs' = inputs \/ inputs' = Append(inputs, rec)
  BY DEF Final
<1> HIDE DEF rec
<1>3. CASE inputs' = inputs
  BY <1>3 DEF CopiesBound, SameRoute
<1>4. CASE inputs' = Append(inputs, rec)
  BY <1>1, <1>4, AppendOnce DEF Placed
<1> QED BY <1>2, <1>3, <1>4

(* Admission of a running actor: the open window is fresh. *)
LEMMA AdmissionOnce ==
    ASSUME RouteInv, HeadInv, OnceInv, PushSnapshot \/ IdleClose
    PROVE  OnceInv'
<1>1. /\ UNCHANGED <<srcck, inck, results, events, pc, reopened>> /\ pc = "idle"
      /\ seen' \in {seen, seen + 1} /\ nextw' = seen + 1 /\ seen \in Nat
      /\ nextw \in Nat /\ inputs \in Seq(Input)
      /\ seen' = seen => nextw = seen
  BY DEF PushSnapshot, IdleClose, Idle, RouteInv, TypeOK
<1>2. nextw = seen => (seen \in Placed => seen \in reopened)
  BY <1>1 DEF OnceInv, OpenIsFresh
<1>3. /\ Wins(inputs) \subseteq Wins(inputs') /\ Wins(inputs') \subseteq Wins(inputs) \cup {seen}
      /\ inputs' \in Seq(Input) /\ CopiesBound' /\ SameRoute'
  <2>1. CASE Final(seen) /\ seen > 0 /\ nextw = seen
    <3>1. seen \in Window
      BY <2>1 DEF RouteInv, TypeOK, Window
    <3> QED BY <2>1, <3>1, <1>1, <1>2, FinalPlaces, FinalOnce DEF OnceInv
  <2>2. CASE UNCHANGED <<inputs, known, refused>>
    BY <1>1, <2>2 DEF Wins, OnceInv, CopiesBound, SameRoute
  <2> QED BY <2>1, <2>2 DEF PushSnapshot, IdleClose
<1>4. Delivered' = Delivered /\ \A w \in Placed' : w \in Placed \/ w = seen
  BY <1>1, <1>3 DEF Delivered, Placed, Wins
<1>5. OpenIsFresh'
  <2>1. \A w \in Placed' : w <= seen
    BY <1>1, <1>4 DEF HeadInv, Cursor
  <2>2. CASE seen' = seen + 1
    <3>1. \A w \in Placed' : w \in Nat
      <4>1. Wins(inputs') \subseteq Window
        BY <1>3, WinsType
      <4>2. Delivered \subseteq Window
        BY DEF Delivered, RouteInv, TypeOK, Event
      <4>3. Placed' = Delivered \cup Wins(inputs')
        BY <1>4 DEF Placed, Wins
      <4>4. Window \subseteq Nat
        BY DEF Window
      <4> QED BY <4>1, <4>2, <4>3, <4>4
    <3> QED BY <2>1, <2>2, <3>1, <1>1 DEF OpenIsFresh
  <2>3. CASE seen' = seen
    <3>1. \A w \in Placed \ reopened : w < seen
      BY <1>1, <2>3 DEF OnceInv, OpenIsFresh
    <3>2. pc' \notin {"down", "replay"} /\ nextw' = seen' + 1
      BY <1>1, <2>3
    <3> QED BY <3>1, <3>2, <2>3, <1>1, <1>4 DEF OpenIsFresh
  <2> QED BY <1>1, <2>2, <2>3
<1>6. ReplayKnows' /\ OneEvent'
  BY <1>1 DEF OnceInv, ReplayKnows, OneEvent
<1>7. DeliveredBehind'
  BY <1>1, <1>3, <1>4 DEF OnceInv, DeliveredBehind, Wins
<1> QED BY <1>3, <1>5, <1>6, <1>7 DEF OnceInv

(* Replay admits only windows behind the source checkpoint that are not    *)
(* pending, and those have not been delivered.                             *)
LEMMA ReplayOnce ==
    ASSUME RouteInv, OnceInv, ReplayWindow
    PROVE  OnceInv'
<1> DEFINE rec == [win |-> nextw, route |-> None]
<1>1. /\ UNCHANGED <<srcck, seen, results, events, reopened>>
      /\ pc = "replay" /\ nextw < seen /\ nextw' = nextw + 1
      /\ seen \in Nat /\ srcck \in Nat /\ nextw \in Window /\ nextw \in Nat
      /\ inputs \in Seq(Input)
  BY BoundAssumption DEF ReplayWindow, RouteInv, TypeOK, Window
<1>2. rec \in Input /\ rec.win = nextw
  BY <1>1 DEF Input
<1>3. \/ inputs' = inputs /\ (pc' = "replay" => known' = known) /\ pc' \in {"replay", "down"}
      \/ inputs' = Append(inputs, rec) /\ known' = known \cup {nextw} /\ nextw \notin known
         /\ pc' = "replay"
  BY <1>1 DEF ReplayWindow
<1> HIDE DEF rec
<1>4. Wins(inputs) \subseteq known /\ srcck < nextw
  BY <1>1 DEF OnceInv, ReplayKnows
<1>5. CASE inputs' = inputs /\ (pc' = "replay" => known' = known) /\ pc' \in {"replay", "down"}
  <2>1. Delivered' = Delivered /\ Placed' = Placed
    BY <1>1, <1>5 DEF Delivered, Placed, Wins
  <2>2. OpenIsFresh'
    BY <1>1, <1>4, <2>1 DEF OnceInv, OpenIsFresh
  <2>3. ReplayKnows'
    BY <1>1, <1>4, <1>5 DEF ReplayKnows, Wins
  <2>4. DeliveredBehind'
    BY <1>1, <1>5, <2>1 DEF OnceInv, DeliveredBehind, Wins
  <2>5. CopiesBound' /\ SameRoute' /\ OneEvent'
    BY <1>1, <1>5 DEF OnceInv, CopiesBound, SameRoute, OneEvent
  <2> QED BY <2>2, <2>3, <2>4, <2>5 DEF OnceInv
<1>6. CASE inputs' = Append(inputs, rec) /\ known' = known \cup {nextw} /\ nextw \notin known
           /\ pc' = "replay"
  <2>1. Wins(inputs') = Wins(inputs) \cup {nextw}
    <3>1. Wins(Append(inputs, rec)) = Wins(inputs) \cup {nextw}
      BY <1>1, <1>2, AppendWins
    <3> QED BY <3>1, <1>6 DEF Wins
  <2>2. nextw \notin Wins(inputs) /\ nextw \notin Delivered
    BY <1>1, <1>4, <1>6 DEF OnceInv, DeliveredBehind
  <2>3. CopiesBound' /\ SameRoute'
    BY <1>1, <1>2, <1>6, <2>2, AppendOnce DEF OnceInv
  <2>4. Delivered' = Delivered /\ \A w \in Placed' : w \in Placed \/ w = nextw
    BY <1>1, <2>1 DEF Delivered, Placed, Wins
  <2>5. OpenIsFresh'
    <3>1. \A w \in Placed \ reopened : w < seen
      BY <1>1, <1>4 DEF OnceInv, OpenIsFresh
    <3> QED BY <3>1, <2>4, <1>1 DEF OpenIsFresh
  <2>6. ReplayKnows'
    <3>1. srcck' < nextw'
      BY <1>1, <1>4
    <3> QED BY <3>1, <1>4, <1>6, <2>1 DEF ReplayKnows, Wins
  <2>7. DeliveredBehind' /\ OneEvent'
    <3>1. \A w \in Delivered' : w <= srcck' \/ w \in Wins(inputs')
      BY <1>1, <2>1, <2>4 DEF OnceInv, DeliveredBehind
    <3> QED BY <3>1, <1>1, <1>6 DEF OnceInv, DeliveredBehind, OneEvent
  <2> QED BY <2>3, <2>5, <2>6, <2>7 DEF OnceInv
<1> QED BY <1>3, <1>5, <1>6

(* Rebinding copies a window only while it has not been delivered: the     *)
(* pending copies of a delivered one are bound.                            *)
LEMMA RebindOnce ==
    ASSUME RouteInv, ServedRoute, HeadInv, LossInv, OnceInv, RebindHead \/ RebindCheckpoint
    PROVE  OnceInv'
<1>1. CASE RebindHead
  <2>1. /\ UNCHANGED <<srcck, seen, results, events, known, nextw, reopened>>
        /\ pc = "idle" /\ pc' = "rebind" /\ inputs # <<>> /\ inputs[1].route = None
        /\ inputs \in Seq(Input) /\ Len(inputs) \in Nat \ {0} /\ rstate = "active"
    BY <1>1, EmptySeq DEF RebindHead, CanProcess, Idle, Bound, RouteInv, TypeOK
  <2>2. /\ inputs[1].win \notin reopened => inputs[1].win \notin Delivered
        /\ inputs[1].win \in Wins(inputs)
    <3>1. ASSUME NEW e \in events, e.win = inputs[1].win, e.win \notin reopened PROVE FALSE
      BY <3>1, <2>1 DEF OnceInv, SameRoute
    <3>2. 1 \in DOMAIN inputs
      BY <2>1
    <3> QED BY <3>1, <3>2 DEF Delivered, Wins
  <2>3. \/ inputs' = inputs
        \/ \E rec \in Input : /\ inputs' = Append(inputs, rec)
                              /\ rec.win = inputs[1].win /\ rec.route = route
    BY <1>1, RebindHeadKeeps
  <2>4. CASE inputs' = inputs
    <3>1. Delivered' = Delivered /\ Placed' = Placed
      BY <2>1, <2>4 DEF Delivered, Placed, Wins
    <3>2. OpenIsFresh' /\ ReplayKnows' /\ DeliveredBehind'
      BY <2>1, <2>4, <3>1 DEF OnceInv, OpenIsFresh, ReplayKnows, DeliveredBehind, Up, Wins
    <3>3. CopiesBound' /\ SameRoute' /\ OneEvent'
      BY <2>1, <2>4 DEF OnceInv, CopiesBound, SameRoute, OneEvent
    <3> QED BY <3>2, <3>3 DEF OnceInv
  <2>5. ASSUME NEW rec \in Input, inputs' = Append(inputs, rec),
               rec.win = inputs[1].win, rec.route = route
        PROVE  OnceInv'
    <3>1. Wins(Append(inputs, rec)) = Wins(inputs) \cup {rec.win}
      BY <2>1, AppendWins
    <3>2. Wins(inputs') = Wins(inputs)
      BY <3>1, <2>2, <2>5 DEF Wins
    <3>3. Delivered' = Delivered /\ Placed' = Placed
      BY <2>1, <3>2 DEF Delivered, Placed, Wins
    <3>4. OpenIsFresh' /\ ReplayKnows' /\ DeliveredBehind'
      BY <2>1, <3>2, <3>3 DEF OnceInv, OpenIsFresh, ReplayKnows, DeliveredBehind, Up, Wins
    <3>5. rec.route # None
      BY <2>1, <2>5, NoneAssumption DEF ServedRoute, Serving
    <3>6. CopiesBound' /\ SameRoute' /\ OneEvent'
      BY <2>1, <2>2, <2>5, <3>5, AppendOnce DEF OnceInv, OneEvent
    <3> QED BY <3>4, <3>6 DEF OnceInv
  <2> QED BY <2>3, <2>4, <2>5
<1>2. CASE RebindCheckpoint
  <2>1. /\ UNCHANGED <<srcck, seen, results, events, known, nextw, reopened>>
        /\ pc = "rebind" /\ pc' = "idle"
    BY <1>2 DEF RebindCheckpoint
  <2>2. /\ Placed' = Placed /\ Wins(inputs') = Wins(inputs)
        /\ Len(inputs) >= 1 /\ inputs' = SubSeq(inputs, 2, Len(inputs))
    BY <1>2, RebindCheckpointKeeps
  <2>3. 2 \in 1..(Len(inputs) + 1) /\ Delivered' = Delivered
    BY <2>1, <2>2 DEF RouteInv, TypeOK, Delivered
  <2>4. CopiesBound' /\ SameRoute' /\ OneEvent'
    BY <2>1, <2>2, <2>3, SuffixOnce DEF OnceInv, OneEvent
  <2>5. OpenIsFresh' /\ ReplayKnows' /\ DeliveredBehind'
    BY <2>1, <2>2, <2>3 DEF OnceInv, OpenIsFresh, ReplayKnows, DeliveredBehind, Up, Wins
  <2> QED BY <2>4, <2>5 DEF OnceInv
<1> QED BY <1>1, <1>2

(* A batch becomes pending. *)
LEMMA InferOnce ==
    ASSUME OnceInv, Infer PROVE OnceInv'
<1>1. /\ UNCHANGED <<srcck, seen, inck, inputs, events, pc, known, nextw, reopened>>
      /\ pc = "idle"
  BY DEF Infer, CanInfer, CanProcess, Idle, memory
<1>2. Delivered' = Delivered /\ Placed' = Placed
  BY <1>1 DEF Delivered, Placed, Wins
<1>3. OpenIsFresh' /\ ReplayKnows' /\ DeliveredBehind'
  BY <1>1, <1>2 DEF OnceInv, OpenIsFresh, ReplayKnows, DeliveredBehind, Up, Wins
<1>4. CopiesBound' /\ SameRoute' /\ OneEvent'
  BY <1>1 DEF OnceInv, CopiesBound, SameRoute, OneEvent
<1> QED BY <1>3, <1>4 DEF OnceInv

(* Delivery: a second record of a delivered window is on the route of its  *)
(* Event, so that it has the key of that Event, and conflicts.             *)
LEMMA DeliveryOnce ==
    ASSUME RouteInv, HeadInv, LossInv, OnceInv, NEW replied \in BOOLEAN, CommitResults(replied)
    PROVE  OnceInv'
<1>1. /\ UNCHANGED <<srcck, seen, inck, inputs, pc, known, nextw, reopened>>
      /\ pc = "idle" /\ results # None /\ results \in Results /\ ~results.acked
      /\ events' = events \cup {e \in NewEvents : ~Conflicts(e)}
      /\ inputs \in Seq(Input) /\ DOMAIN inputs = 1..Len(inputs) /\ Len(inputs) \in Nat
      /\ DOMAIN results.recs = 1..Len(results.recs) /\ Len(results.recs) \in Nat
      /\ results.recs \in Seq(Input)
  BY DEF CommitResults, Idle, memory, RouteInv, TypeOK, Results
<1>2. /\ Len(results.recs) <= Len(inputs)
      /\ \A i \in 1..Len(results.recs) : results.recs[i] = inputs[i]
  BY <1>1 DEF HeadInv, BatchIsHead
<1>3. ASSUME NEW i \in 1..Len(inputs), inputs[i].route # None
      PROVE  inputs[i].route = journal.route
  BY <1>1, <1>3 DEF RouteInv, InputsOnRoute
<1>4. ASSUME NEW e \in NewEvents
      PROVE  \E i \in 1..Len(results.recs) :
                /\ e = [win |-> inputs[i].win, route |-> inputs[i].route, batch |-> results.upto]
                /\ i \in 1..Len(inputs) /\ inputs[i].route = journal.route
                /\ inputs[i].route # None
  <2>1. PICK i \in DOMAIN results.recs : e = EventOf(i)
    BY <1>4, Zenon DEF NewEvents
  <2>2. results.recs[i] = inputs[i] /\ results.recs[i].route # None /\ i \in 1..Len(inputs)
    BY <1>1, <1>2, <2>1 DEF RouteInv, BatchBound
  <2> QED BY <1>1, <1>3, <2>1, <2>2 DEF EventOf
<1>5. ASSUME NEW e \in NewEvents, NEW j \in 1..Len(inputs), inputs[j].win = e.win,
             e.win \notin reopened
      PROVE  inputs[j].route = e.route
  <2>1. PICK i \in 1..Len(results.recs) :
                /\ e = [win |-> inputs[i].win, route |-> inputs[i].route, batch |-> results.upto]
                /\ i \in 1..Len(inputs) /\ inputs[i].route = journal.route
                /\ inputs[i].route # None
    BY <1>4
  <2>2. e.win = inputs[i].win /\ e.route = journal.route
    BY <2>1
  <2>3. inputs[j].route # None
    <3>1. CASE i < j
      BY <3>1, <2>1, <2>2, <1>5 DEF OnceInv, CopiesBound
    <3>2. CASE j <= i
      <4>1. j \in 1..Len(results.recs) /\ j \in DOMAIN results.recs
        BY <3>2, <2>1, <1>1
      <4> QED BY <4>1, <1>1, <1>2 DEF RouteInv, BatchBound
    <3> QED BY <3>1, <3>2, <2>1
  <2> QED BY <2>2, <2>3, <1>3
<1>6. \A e \in NewEvents : e.route # None /\ e.route = journal.route /\ e.batch = results.upto
  BY <1>4
<1>7. SameRoute'
  <2>1. \A e \in events' : e \in events \/ e \in NewEvents
    BY <1>1
  <2> QED BY <1>1, <1>5, <1>6, <2>1 DEF OnceInv, SameRoute
<1>8. OneEvent'
  <2>1. ASSUME NEW e \in NewEvents, NEW f \in events, ~Conflicts(e), e.win = f.win,
               e.win \notin reopened
        PROVE  e = f
    <3>1. PICK i \in 1..Len(inputs) : inputs[i].win = e.win /\ inputs[i].route = e.route
      BY <1>4
    <3>2. f.route = e.route
      BY <3>1, <2>1 DEF OnceInv, SameRoute
    <3> QED BY <2>1, <3>2 DEF Conflicts
  <2>2. ASSUME NEW e \in NewEvents, NEW f \in NewEvents, e.win = f.win PROVE e = f
    <3>1. PICK i \in 1..Len(results.recs) :
             e = [win |-> inputs[i].win, route |-> inputs[i].route, batch |-> results.upto]
      BY <1>4
    <3>2. PICK j \in 1..Len(results.recs) :
             f = [win |-> inputs[j].win, route |-> inputs[j].route, batch |-> results.upto]
      BY <1>4
    <3>3. inputs[i].win = inputs[j].win /\ inputs[i].route = inputs[j].route
      BY <3>1, <3>2, <2>2, <1>6
    <3> QED BY <3>1, <3>2, <3>3
  <2>3. ASSUME NEW e \in events', NEW f \in events', e.win = f.win, e.win \notin reopened
        PROVE  e = f
    <3>1. CASE e \in events /\ f \in events
      BY <3>1, <2>3 DEF OnceInv, OneEvent
    <3>2. CASE e \in NewEvents /\ f \in NewEvents
      BY <3>2, <2>2, <2>3
    <3>3. CASE e \in NewEvents /\ ~Conflicts(e) /\ f \in events
      BY <3>3, <2>1, <2>3
    <3>4. CASE f \in NewEvents /\ ~Conflicts(f) /\ e \in events
      BY <3>4, <2>1, <2>3
    <3> QED BY <3>1, <3>2, <3>3, <3>4, <1>1
  <2> QED BY <1>1, <2>3 DEF OneEvent
<1>9. Placed' = Placed
  BY DeliveryKeeps
<1>10. DeliveredBehind'
  <2>1. \A w \in Delivered' : w \in Delivered \/ w \in Wins(inputs)
    <3>1. \A e \in NewEvents : e.win \in Wins(inputs)
      BY <1>1, <1>4 DEF Wins
    <3> QED BY <3>1, <1>1 DEF Delivered
  <2>2. Wins(inputs') = Wins(inputs)
    BY <1>1 DEF Wins
  <2> QED BY <2>1, <2>2, <1>1 DEF OnceInv, DeliveredBehind
<1>11. OpenIsFresh' /\ ReplayKnows' /\ CopiesBound'
  BY <1>1, <1>9 DEF OnceInv, OpenIsFresh, ReplayKnows, CopiesBound, Up
<1> QED BY <1>7, <1>8, <1>10, <1>11 DEF OnceInv

(* The three checkpoints: the input WAL gives up only what is behind the   *)
(* source checkpoint.                                                      *)
LEMMA CheckpointOnce ==
    ASSUME RouteInv, HeadInv, LossInv, OnceInv,
           CheckpointSource \/ CheckpointInput \/ CheckpointResult
    PROVE  OnceInv'
<1>1. CASE CheckpointSource
  <2>1. /\ UNCHANGED <<seen, inputs, results, events, known, nextw, reopened>>
        /\ pc = "idle" /\ pc' = "ckInput" /\ srcck \in Nat
    BY <1>1 DEF CheckpointSource, Idle, RouteInv, TypeOK
  <2>2. /\ Placed' = Placed /\ srcck <= srcck'
        /\ \A w \in Wins(results.recs) : w <= srcck'
    BY <1>1, SourceKeeps
  <2>3. srcck' \in Nat
    <3>1. TypeOK'
      BY <1>1, CheckpointStep DEF RouteInv
    <3> QED BY <3>1 DEF TypeOK
  <2>4. DeliveredBehind'
    <3>1. Delivered' = Delivered /\ Delivered \subseteq Nat
      BY <2>1 DEF Delivered, RouteInv, TypeOK, Event, Window
    <3>2. \A w \in Delivered' : w <= srcck' \/ w \in Wins(inputs')
      BY <3>1, <2>1, <2>2, <2>3 DEF OnceInv, DeliveredBehind, Wins
    <3> QED BY <3>2, <2>1, <2>2 DEF DeliveredBehind, Wins
  <2>5. OpenIsFresh' /\ ReplayKnows' /\ CopiesBound' /\ SameRoute' /\ OneEvent'
    BY <2>1, <2>2 DEF OnceInv, OpenIsFresh, ReplayKnows, CopiesBound, SameRoute, OneEvent, Up
  <2> QED BY <2>4, <2>5 DEF OnceInv
<1>2. CASE CheckpointInput
  <2>1. /\ UNCHANGED <<srcck, seen, results, events, known, nextw, reopened>>
        /\ pc = "ckInput" /\ pc' = "ckResult" /\ inputs \in Seq(Input) /\ Len(inputs) \in Nat
    BY <1>2 DEF CheckpointInput, RouteInv, TypeOK
  <2>2. PICK m \in 1..(Len(inputs) + 1) :
                 /\ inputs' = SubSeq(inputs, m, Len(inputs))
                 /\ \A i \in 1..(m - 1) : inputs[i].win \in Wins(results.recs)
    BY <1>2, InputKeeps
  <2>3. /\ Wins(SubSeq(inputs, m, Len(inputs))) \subseteq Wins(inputs)
        /\ \A i \in m..Len(inputs) : inputs[i].win \in Wins(SubSeq(inputs, m, Len(inputs)))
    BY <2>1, SuffixWins
  <2>4. /\ Wins(inputs') \subseteq Wins(inputs)
        /\ \A i \in m..Len(inputs) : inputs[i].win \in Wins(inputs')
    BY <2>2, <2>3 DEF Wins
  <2>5. CopiesBound' /\ SameRoute' /\ OneEvent'
    BY <2>1, <2>2, SuffixOnce DEF OnceInv, OneEvent
  <2>6. DeliveredBehind'
    <3>1. ASSUME NEW w \in Delivered PROVE w <= srcck \/ w \in Wins(inputs')
      <4>1. CASE w <= srcck
        BY <4>1
      <4>2. CASE w \in Wins(inputs)
        <5>1. PICK i \in 1..Len(inputs) : inputs[i].win = w
          BY <4>2, <2>1, WinsAt
        <5>2. i \in 1..(m - 1) \/ i \in m..Len(inputs)
          BY <2>1
        <5> QED BY <5>1, <5>2, <2>1, <2>2, <2>4 DEF OnceInv, DeliveredBehind
      <4> QED BY <4>1, <4>2 DEF OnceInv, DeliveredBehind
    <3>2. Delivered' = Delivered
      BY <2>1 DEF Delivered
    <3> QED BY <3>1, <3>2, <2>1 DEF DeliveredBehind
  <2>7. OpenIsFresh' /\ ReplayKnows'
    <3>1. Placed' \subseteq Placed
      BY <2>1, <2>4 DEF Placed, Delivered, Wins
    <3> QED BY <3>1, <2>1 DEF OnceInv, OpenIsFresh, ReplayKnows, Up
  <2> QED BY <2>5, <2>6, <2>7 DEF OnceInv
<1>3. CASE CheckpointResult
  <2>1. /\ UNCHANGED <<srcck, seen, inputs, events, nextw, reopened>>
        /\ pc = "ckResult" /\ pc' = "idle"
    BY <1>3 DEF CheckpointResult
  <2>2. Delivered' = Delivered /\ Placed' = Placed /\ Wins(inputs') = Wins(inputs)
    BY <2>1 DEF Delivered, Placed, Wins
  <2>3. OpenIsFresh' /\ ReplayKnows' /\ DeliveredBehind'
    BY <2>1, <2>2 DEF OnceInv, OpenIsFresh, ReplayKnows, DeliveredBehind, Up
  <2>4. CopiesBound' /\ SameRoute' /\ OneEvent'
    BY <2>1 DEF OnceInv, CopiesBound, SameRoute, OneEvent
  <2> QED BY <2>3, <2>4 DEF OnceInv
<1> QED BY <1>1, <1>2, <1>3

(* A crash opens a window again only when the source checkpoint has not    *)
(* passed it, and a restart knows everything that is pending.              *)
LEMMA LifeOnce ==
    ASSUME RouteInv, HeadInv, OnceInv, Crash \/ Restart \/ Spawn
    PROVE  OnceInv'
<1>1. /\ UNCHANGED <<srcck, seen, inputs, results, events>> /\ reopened \subseteq reopened'
      /\ srcck \in Nat /\ seen \in Nat /\ nextw \in Nat /\ srcck <= seen
      /\ \/ pc # "down" /\ pc' = "down" /\ nextw' = nextw
            /\ (nextw > seen /\ srcck < seen => seen \in reopened')
         \/ pc = "down" /\ pc' = "replay" /\ known' = Wins(inputs) /\ nextw' = srcck + 1
         \/ pc = "replay" /\ pc' = "idle" /\ nextw' = nextw
  BY DEF Crash, Restart, Spawn, disk, RouteInv, TypeOK, HeadInv, Cursor
<1>2. Delivered' = Delivered /\ Placed' = Placed /\ Wins(inputs') = Wins(inputs)
  BY <1>1 DEF Delivered, Placed, Wins
<1>3. ASSUME NEW w \in Placed \ reopened', ~(w < seen)
      PROVE  w = seen /\ nextw' = seen + 1 /\ (pc' \in {"down", "replay"} => srcck = seen)
  <2>1. w = seen /\ nextw = seen + 1 /\ (pc \in {"down", "replay"} => srcck = seen)
    BY <1>1, <1>3 DEF OnceInv, OpenIsFresh
  <2> QED BY <1>1, <1>3, <2>1
<1>4. OpenIsFresh'
  BY <1>1, <1>2, <1>3 DEF OpenIsFresh
<1>5. ReplayKnows' /\ DeliveredBehind'
  BY <1>1, <1>2 DEF OnceInv, ReplayKnows, DeliveredBehind
<1>6. CopiesBound' /\ SameRoute' /\ OneEvent'
  BY <1>1 DEF OnceInv, CopiesBound, SameRoute, OneEvent
<1> QED BY <1>4, <1>5, <1>6 DEF OnceInv

(* No window is placed in the initial state. *)
LEMMA InitOnce == Init => OnceInv
<1> SUFFICES ASSUME Init PROVE OnceInv OBVIOUS
<1>1. Delivered = {} /\ Wins(inputs) = {}
  BY DEF Init, Delivered, Wins
<1> QED BY <1>1 DEF Init, OnceInv, OpenIsFresh, Placed, ReplayKnows, DeliveredBehind,
                    CopiesBound, SameRoute, OneEvent

(* Every step keeps the invariant. *)
LEMMA NextOnce ==
    ASSUME RouteInv, ServedRoute, HeadInv, LossInv, OnceInv, [Next]_vars
    PROVE  OnceInv'
<1>1. CASE \/ \E cur \in 0..MaxEpoch, prop \in Epoch : PrepareRoute(cur, prop)
           \/ \E r \in Route : CommitRoute(r)
           \/ \E h \in Handshake : ResumeRoute(h)
           \/ FinishRouteRecovery \/ RouteRecoveryFails \/ InferDrift \/ UNCHANGED vars
  <2>1. UNCHANGED <<srcck, seen, inck, inputs, results, events, pc, known, nextw,
                    refused, partial, reopened>>
    BY <1>1 DEF PrepareRoute, CommitRoute, ResumeRoute, FinishRouteRecovery,
                RouteRecoveryFails, InferDrift, vars, disk, memory
  <2> QED BY <2>1, QuietOnce
<1>2. CASE PushSnapshot \/ IdleClose
  BY <1>2, AdmissionOnce
<1>3. CASE ReplayWindow
  BY <1>3, ReplayOnce
<1>4. CASE RebindHead \/ RebindCheckpoint
  BY <1>4, RebindOnce
<1>5. CASE Infer
  BY <1>5, InferOnce
<1>6. CASE \E replied \in BOOLEAN : CommitResults(replied)
  BY <1>6, DeliveryOnce
<1>7. CASE CheckpointSource \/ CheckpointInput \/ CheckpointResult
  BY <1>7, CheckpointOnce
<1>8. CASE Crash \/ Restart \/ Spawn
  BY <1>8, LifeOnce
<1> QED BY <1>1, <1>2, <1>3, <1>4, <1>5, <1>6, <1>7, <1>8 DEF Next, EdgeStep

(* A window that no crash has opened again after its idle close has at     *)
(* most one canonical Event: through lost replies, crashes between any two *)
(* durable steps, replays, idle closes, rebound copies and changes of the  *)
(* route (process_pending_inputs, process_pending_results, ingestOne).     *)
THEOREM EventIsOnce == Spec => []OneEvent
<1>1. OnceInv => OneEvent
  BY DEF OnceInv
<1>2. Init => RouteInv /\ ServedRoute /\ HeadInv /\ LossInv /\ OnceInv
  <2>1. Init => ServedRoute
    BY DEF Init, ServedRoute, Serving, Handshake
  <2> QED BY <2>1, InitRouteInv, InitKeeps, InitOnce
<1>3. RouteInv /\ ServedRoute /\ HeadInv /\ LossInv /\ OnceInv /\ [Next]_vars
         => RouteInv' /\ ServedRoute' /\ HeadInv' /\ LossInv' /\ OnceInv'
  BY NextRouteInv, NextServed, NextKeeps, NextOnce
<1> QED BY <1>1, <1>2, <1>3, PTL DEF Spec
-----------------------------------------------------------------------------
(* The composition with the rollout. *)

(* Deadlines are points in time: whatever finite set of them has been used *)
(* there is a next one (the handshake's deadline is now plus a timeout).   *)
DeadlinesLast ==
    \A S : IsFiniteSet(S) => \E d \in Deadline \ S : \A e \in Deadline \ S : d <= e

(* Points in time that are counted from zero are such deadlines. *)
LEMMA TimesLast ==
    ASSUME Deadline = Nat
    PROVE  DeadlinesLast
<1> SUFFICES ASSUME NEW S, IsFiniteSet(S)
             PROVE  \E d \in Nat \ S : \A e \in Nat \ S : d <= e
  BY DEF DeadlinesLast
<1>1. Nat \ S # {}
  <2> SUFFICES ASSUME Nat \subseteq S PROVE FALSE
    OBVIOUS
  <2>1. PICK k \in Nat : k = Cardinality(S)
    BY FS_CardinalityType
  <2>2. 1..(k + 1) \in SUBSET S
    OBVIOUS
  <2>3. Cardinality(1..(k + 1)) <= k
    <3> HIDE DEF DeadlinesLast
    <3> QED BY <2>1, <2>2, FS_Subset
  <2>4. Cardinality(1..(k + 1)) = k + 1
    <3>1. 1 \in Int /\ k + 1 \in Int /\ ~(1 > k + 1) /\ (k + 1) - 1 + 1 = k + 1
      OBVIOUS
    <3> QED BY <3>1, FS_Interval
  <2> QED BY <2>3, <2>4
<1> QED BY <1>1, LeastNat
-----------------------------------------------------------------------------
(* Types.  The requests on their way are finitely many, so that there is a *)
(* fresh deadline, and a handshake has one.                                *)
BindingType == [gen : Gen, prev : Gen \cup {None}, epoch : Epoch,
                resume : {"current", "unavailable", "resume_pending"}]
PoolType    == [Gen -> [status : {"none", "warming", "active", "draining"},
                        obs : Op \cup {None}]]
ControlTypeOK ==
    /\ binding \in BindingType /\ pool \in PoolType /\ ops \in [Op -> Operation]
    /\ net \subseteq Request /\ faults \in 0..MaxFaults
    /\ IsFiniteSet(net)

(* A finite set of values x.deadline is finite. *)
LEMMA DeadlinesFinite ==
    ASSUME NEW S, IsFiniteSet(S)
    PROVE  IsFiniteSet({x.deadline : x \in S})
<1> DEFINE T == {x.deadline : x \in S}
           f == [x \in S |-> x.deadline]
<1>1. f \in Surjection(S, T)
  BY DEF Surjection
<1> HIDE DEF f, T
<1>2. IsFiniteSet(T)
  BY <1>1, FS_Surjection
<1> QED BY <1>2 DEF T

(* The deadline of a new handshake is a deadline that is not in use. *)
LEMMA FreshType ==
    ASSUME DeadlinesLast, IsFiniteSet(net)
    PROVE  Fresh \in Deadline
<1> DEFINE H == {committed, IF journal = None THEN None ELSE journal.hs} \ {None}
           used == {m.deadline : m \in net} \cup {h.deadline : h \in H}
<1>1. IsFiniteSet(H)
  <2> DEFINE A == {committed} \cup {IF journal = None THEN None ELSE journal.hs}
  <2>1. IsFiniteSet(A)
    BY FS_Singleton, FS_AddElement
  <2>2. H \in SUBSET A
    OBVIOUS
  <2> HIDE DEF A, H
  <2> QED BY <2>1, <2>2, FS_Subset
<1>2. IsFiniteSet(used)
  <2> HIDE DEF H
  <2> QED BY <1>1, DeadlinesFinite, FS_Union
<1>3. Fresh = CHOOSE d \in Deadline \ used : \A e \in Deadline \ used : d <= e
  BY DEF Fresh
<1> HIDE DEF used
<1>4. \E d \in Deadline \ used : \A e \in Deadline \ used : d <= e
  BY <1>2 DEF DeadlinesLast
<1> QED BY <1>3, <1>4

(* The requests of an operation are requests. *)
LEMMA MessageTypes ==
    ASSUME ControlTypeOK, NEW o \in Op, NEW b \in Binding
    PROVE  /\ b.epoch < MaxEpoch => PrepareMsg(o, b) \in Request /\ CommitMsg(o, b) \in Request
           /\ Fresh \in Deadline => ResumeMsg(o, b) \in Request
<1>1. ops[o].target \in Gen
  BY DEF ControlTypeOK, Operation
<1>2. b.epoch \in Epoch /\ (b.epoch < MaxEpoch => b.epoch + 1 \in Epoch)
  BY BoundAssumption DEF Binding, Epoch
<1>3. \A e \in Epoch : RouteOf(o, e) \in Route
  BY <1>1 DEF RouteOf, Route
<1> QED BY <1>2, <1>3 DEF PrepareMsg, CommitMsg, ResumeMsg, Request

(* An operation returns. *)
LEMMA ReturnTypes ==
    ASSUME ControlTypeOK, NEW o \in Op, NEW status \in {"running", "resume_pending", "applied", "failed", "none"},
           Returns(o, status)
    PROVE  /\ ops' \in [Op -> Operation]
           /\ ops'[o] = [ops[o] EXCEPT !.status = status, !.step = "none", !.sent = None, !.reply = None]
           /\ \A p \in Op \ {o} : ops'[p] = ops[p]
<1>1. ops[o] \in Operation
  BY DEF ControlTypeOK
<1>2. [ops[o] EXCEPT !.status = status, !.step = "none", !.sent = None, !.reply = None] \in Operation
  BY <1>1 DEF Operation, Step
<1> QED BY <1>2 DEF Returns, ControlTypeOK

(* A mark keeps the generation and the epoch of the binding. *)
LEMMA MarkTypes ==
    ASSUME binding \in BindingType, NEW b, NEW state \in {"current", "unavailable", "resume_pending"},
           Mark(b, state)
    PROVE  binding' \in BindingType /\ binding'.gen = binding.gen /\ binding'.epoch = binding.epoch
BY DEF Mark, BindingType
-----------------------------------------------------------------------------
(* The inductive invariant.  Requests: what is on its way was sent for the *)
(* binding as it is or as it was.                                          *)
RequestOK(m) ==
    /\ m.kind = "prepare" => m.cur <= binding.epoch
    /\ m.kind = "commit"  => m.cur <= binding.epoch /\ m.route.epoch = m.cur + 1
    /\ m.kind = "resume"  => m.route.epoch <= binding.epoch /\ m.deadline \in Deadline
RequestInv == \A m \in net : RequestOK(m)

(* Operations: the binding that one has read is not ahead of the real one, *)
(* and from CommitRoute to the swap its call is the one for that binding.  *)
Committing == {"commit", "rcommit", "cas", "rcas"}
OperationOK(o) ==
    /\ ops[o].old.epoch <= binding.epoch
    /\ ops[o].step \in {"stage", "prepare"} => ops[o].old.epoch < MaxEpoch
    /\ ops[o].step \in Committing =>
          ops[o].old.epoch < MaxEpoch /\ ops[o].sent = CommitMsg(o, ops[o].old)
OperationInv == \A o \in Op : OperationOK(o)

(* The Edge: its journal is on the canonical route or on the next one, and *)
(* on the next one it is drained and not active.                           *)
Ahead == journal.route.epoch = binding.epoch + 1
EdgeInv ==
    /\ journal # None /\ journal.route \in Route
    /\ journal.route.epoch = binding.epoch \/ Ahead
    /\ journal.route.epoch = binding.epoch => journal.route.gen = binding.gen
    /\ Ahead => journal.stage = "ready" /\ Drained
    /\ rstate = "active" => journal.stage = "active"

(* An operation whose CommitRoute was answered, on the binding it has      *)
(* read, is the one whose route the Edge has installed.                    *)
MaySwap(o) ==
    /\ Current = ops[o].old
    /\ \/ ops[o].step \in {"cas", "rcas"}
       \/ ops[o].step \in {"commit", "rcommit"} /\ ops[o].reply # None /\ ops[o].reply.ok
SwapOK(o) == MaySwap(o) => journal.route = RouteOf(o, ops[o].old.epoch + 1)
SwapInv   == \A o \in Op : SwapOK(o)

CanonInv == RequestInv /\ OperationInv /\ EdgeInv /\ SwapInv
SysInv   == RouteInv /\ ControlTypeOK /\ CanonInv

(* A step of operation o that leaves the Edge, the generation and the      *)
(* epoch of the binding and the other operations alone.                    *)
LEMMA OperationStep ==
    ASSUME ControlTypeOK, CanonInv, NEW o \in Op, UNCHANGED vars,
           binding'.gen = binding.gen, binding'.epoch = binding.epoch,
           \A p \in Op \ {o} : ops'[p] = ops[p],
           RequestInv', OperationOK(o)', SwapOK(o)'
    PROVE  CanonInv'
<1>1. Current' = Current
  BY DEF Current
<1>2. EdgeInv'
  BY DEF vars, disk, memory, router, CanonInv, EdgeInv, Ahead, Drained, HasBound, Bound
<1>3. ASSUME NEW p \in Op \ {o} PROVE OperationOK(p)' /\ SwapOK(p)'
  <2>1. OperationOK(p) /\ SwapOK(p) /\ ops'[p] = ops[p]
    BY DEF CanonInv, OperationInv, SwapInv
  <2>2. OperationOK(p)'
    BY <2>1 DEF OperationOK, CommitMsg, RouteOf
  <2>3. SwapOK(p)'
    BY <1>1, <2>1 DEF SwapOK, MaySwap, RouteOf, vars, disk
  <2> QED BY <2>2, <2>3
<1> QED BY <1>2, <1>3 DEF CanonInv, OperationInv, SwapInv

(* The requests stay what they are, also when the binding moves on. *)
LEMMA RequestsStay ==
    ASSUME ControlTypeOK, RequestInv, binding'.epoch \in Nat, binding'.epoch >= binding.epoch,
           net' \subseteq net
    PROVE  RequestInv'
<1> SUFFICES ASSUME NEW m \in net' PROVE RequestOK(m)'
  BY DEF RequestInv
<1>1. m \in Request /\ RequestOK(m) /\ binding.epoch \in Nat
  BY BoundAssumption DEF RequestInv, ControlTypeOK, BindingType, Epoch
<1>2. m.cur \in Nat /\ m.route.epoch \in Nat
  BY <1>1, BoundAssumption DEF Request, Route, Epoch
<1> QED BY <1>1, <1>2 DEF RequestOK

(* A request that is sent for a binding that is not ahead is fine. *)
LEMMA RequestSent ==
    ASSUME ControlTypeOK, RequestInv, NEW m, net' = net \cup {m},
           binding'.epoch \in Nat, binding'.epoch >= binding.epoch, RequestOK(m)'
    PROVE  RequestInv'
<1> SUFFICES ASSUME NEW n \in net PROVE RequestOK(n)'
  BY DEF RequestInv
<1>1. n \in Request /\ RequestOK(n) /\ binding.epoch \in Nat
  BY BoundAssumption DEF RequestInv, ControlTypeOK, BindingType, Epoch
<1>2. n.cur \in Nat /\ n.route.epoch \in Nat
  BY <1>1, BoundAssumption DEF Request, Route, Epoch
<1> QED BY <1>1, <1>2 DEF RequestOK

(* What is known of an operation. *)
LEMMA OperationKnown ==
    ASSUME SysInv, NEW o \in Op
    PROVE  /\ ops[o] \in Operation /\ OperationOK(o) /\ SwapOK(o)
           /\ ops[o].old \in Binding /\ ops[o].old.epoch \in Nat /\ ops[o].old.gen \in Gen
           /\ binding \in BindingType /\ binding.epoch \in Epoch /\ binding.epoch \in Nat
           /\ binding.gen \in Gen /\ Current \in Binding
<1>1. ops[o] \in Operation /\ binding \in BindingType
  BY DEF SysInv, ControlTypeOK
<1>2. OperationOK(o) /\ SwapOK(o)
  BY DEF SysInv, CanonInv, OperationInv, SwapInv
<1>3. ops[o].old \in Binding /\ binding.epoch \in Epoch /\ binding.gen \in Gen
  BY <1>1 DEF Operation, BindingType
<1>4. Current \in Binding
  BY <1>3 DEF Current, Binding
<1> QED BY <1>1, <1>2, <1>3, <1>4, BoundAssumption DEF Binding, Epoch
-----------------------------------------------------------------------------
(* The rollout, step by step: an operation that sends nothing new and does *)
(* not come to hold an answered CommitRoute. *)
LEMMA ReturnKeeps ==
    ASSUME SysInv, NEW o \in Op, NEW status \in {"running", "resume_pending", "applied", "failed", "none"},
           Returns(o, status), UNCHANGED <<vars, pool, net>>, faults' \in 0..MaxFaults,
           binding' \in BindingType, binding'.gen = binding.gen, binding'.epoch = binding.epoch
    PROVE  ControlTypeOK' /\ CanonInv'
<1>1. /\ ops' \in [Op -> Operation] /\ \A p \in Op \ {o} : ops'[p] = ops[p]
      /\ ops'[o] = [ops[o] EXCEPT !.status = status, !.step = "none", !.sent = None, !.reply = None]
  BY ReturnTypes DEF SysInv
<1>2. ControlTypeOK'
  BY <1>1 DEF SysInv, ControlTypeOK
<1>3. RequestInv'
  BY OperationKnown, RequestsStay DEF SysInv, CanonInv
<1>4. ops'[o].step = "none" /\ ops'[o].old = ops[o].old
  BY <1>1, OperationKnown DEF Operation
<1>5. OperationOK(o)' /\ SwapOK(o)'
  BY <1>4, OperationKnown DEF OperationOK, SwapOK, MaySwap, Committing
<1>6. CanonInv'
  BY <1>1, <1>3, <1>5, OperationStep DEF SysInv
<1> QED BY <1>2, <1>6

(* An operation sends a request for the binding it has read. *)
LEMMA SendKeeps ==
    ASSUME SysInv, NEW o \in Op, NEW step \in Step, NEW m \in Request, NEW rest \in Operation,
           Send(o, step, m, rest), UNCHANGED <<vars, binding, faults>>, pool' \in PoolType,
           RequestOK(m), rest.target = ops[o].target, rest.old.epoch <= binding.epoch,
           step \notin {"stage", "cas", "rcas"},
           step = "prepare" => rest.old.epoch < MaxEpoch,
           step \in {"commit", "rcommit"} => rest.old.epoch < MaxEpoch /\ m = CommitMsg(o, rest.old)
    PROVE  ControlTypeOK' /\ CanonInv'
<1>1. /\ ops' \in [Op -> Operation] /\ net' \subseteq Request /\ IsFiniteSet(net')
      /\ ops'[o] = [rest EXCEPT !.step = step, !.sent = m, !.reply = None]
      /\ \A p \in Op \ {o} : ops'[p] = ops[p]
  <2>1. ControlTypeOK
    BY DEF SysInv
  <2>2. [rest EXCEPT !.step = step, !.sent = m, !.reply = None] \in Operation
    BY DEF Operation
  <2> QED BY <2>1, <2>2, FS_AddElement DEF Send, ControlTypeOK
<1>2. ControlTypeOK'
  BY <1>1 DEF SysInv, ControlTypeOK
<1>3. RequestInv'
  <2>1. net' = net \cup {m} /\ RequestOK(m)'
    BY DEF Send, RequestOK
  <2> QED BY <2>1, OperationKnown, RequestSent DEF SysInv, CanonInv
<1>4. /\ ops'[o].step = step /\ ops'[o].old = rest.old /\ ops'[o].sent = m
      /\ ops'[o].reply = None /\ ops'[o].target = ops[o].target
  BY <1>1 DEF Operation
<1>5. OperationOK(o)'
  BY <1>4 DEF OperationOK, Committing, CommitMsg, RouteOf
<1>6. SwapOK(o)'
  BY <1>4 DEF SwapOK, MaySwap
<1>7. CanonInv'
  BY <1>1, <1>3, <1>5, <1>6, OperationStep DEF SysInv
<1> QED BY <1>2, <1>7

(* Rollout begins, *)
LEMMA StartKeeps ==
    ASSUME SysInv, NEW o \in Op, NEW g \in Gen, Start(o, g)
    PROVE  ControlTypeOK' /\ CanonInv'
<1> DEFINE new == [ops[o] EXCEPT !.status = "running", !.step = "stage", !.target = g, !.old = Current]
<1>1. ops[o] \in Operation /\ Current \in Binding /\ binding.epoch \in Nat
  BY OperationKnown
<1>2. new \in Operation /\ new.step = "stage" /\ new.old = Current /\ Current.epoch = binding.epoch
  BY <1>1 DEF Operation, Step, Current
<1>3. ops' = [ops EXCEPT ![o] = new]
  BY DEF Start
<1> HIDE DEF new
<1>4. ops' \in [Op -> Operation] /\ ops'[o] = new /\ \A p \in Op \ {o} : ops'[p] = ops[p]
  BY <1>2, <1>3 DEF SysInv, ControlTypeOK
<1>5. ControlTypeOK'
  <2>1. pool' \in PoolType
    BY DEF Start, SysInv, ControlTypeOK, PoolType
  <2> QED BY <1>4, <2>1 DEF Start, SysInv, ControlTypeOK
<1>6. RequestInv'
  BY <1>1, RequestsStay DEF Start, SysInv, CanonInv
<1>7. OperationOK(o)' /\ SwapOK(o)'
  BY <1>1, <1>2, <1>4 DEF Start, OperationOK, SwapOK, MaySwap, Committing
<1>8. CanonInv'
  BY <1>4, <1>6, <1>7, OperationStep DEF Start, SysInv
<1> QED BY <1>5, <1>8

(* stages the pool generation and asks the Edge to withdraw its route,     *)
LEMMA StageKeeps ==
    ASSUME SysInv, NEW o \in Op, StagePool(o)
    PROVE  ControlTypeOK' /\ CanonInv'
<1> DEFINE g     == ops[o].target
           reuse == pool[g].obs # None /\ pool[g].status \in {"active", "draining"}
           obs   == IF reuse THEN pool[g].obs ELSE o
           rest  == [ops[o] EXCEPT !.obs = obs]
           m     == PrepareMsg(o, ops[o].old)
<1>1. /\ ops[o] \in Operation /\ OperationOK(o) /\ ops[o].step = "stage" /\ g \in Gen
      /\ pool \in PoolType /\ ops[o].old \in Binding
  BY OperationKnown DEF StagePool, Operation, SysInv, ControlTypeOK
<1>2. obs \in Op \cup {None} /\ pool' \in PoolType
  BY <1>1 DEF StagePool, PoolType
<1>3. rest \in Operation /\ rest.old = ops[o].old /\ rest.target = ops[o].target
  <2> HIDE DEF obs
  <2> QED BY <1>1, <1>2 DEF Operation
<1>4. m \in Request /\ m.kind = "prepare" /\ m.cur = ops[o].old.epoch
  BY <1>1, MessageTypes DEF OperationOK, PrepareMsg, SysInv
<1>5. Send(o, "prepare", m, rest) /\ UNCHANGED <<vars, binding, faults>>
  BY DEF StagePool
<1>6. RequestOK(m) /\ rest.old.epoch <= binding.epoch /\ rest.old.epoch < MaxEpoch
  <2> HIDE DEF m, rest
  <2> QED BY <1>1, <1>3, <1>4 DEF OperationOK, RequestOK
<1> HIDE DEF m, rest, obs
<1> QED BY <1>2, <1>3, <1>4, <1>5, <1>6, SendKeeps DEF Step

(* and, once the Edge drains, to install the new one.                      *)
LEMMA PreparedKeeps ==
    ASSUME SysInv, NEW o \in Op, Prepared(o)
    PROVE  ControlTypeOK' /\ CanonInv'
<1>1. /\ ops[o] \in Operation /\ OperationOK(o) /\ ops[o].step = "prepare" /\ ops[o].old \in Binding
      /\ binding \in BindingType /\ binding.epoch \in Nat /\ ops[o].old.epoch \in Nat
      /\ UNCHANGED <<vars, pool, faults>> /\ faults' \in 0..MaxFaults
  BY OperationKnown DEF Prepared, Answered, SysInv, ControlTypeOK
<1>2. CASE ops[o].reply.ok
  <2> DEFINE m == CommitMsg(o, ops[o].old)
  <2>1. m \in Request /\ m.kind = "commit" /\ m.cur = ops[o].old.epoch /\ m.route.epoch = ops[o].old.epoch + 1
    BY <1>1, MessageTypes DEF OperationOK, CommitMsg, RouteOf, SysInv
  <2>2. Send(o, "commit", m, ops[o]) /\ UNCHANGED binding
    BY <1>2 DEF Prepared
  <2>3. RequestOK(m)
    <3> HIDE DEF m
    <3> QED BY <1>1, <2>1 DEF OperationOK, RequestOK
  <2>4. pool' \in PoolType
    BY <1>1 DEF SysInv, ControlTypeOK
  <2>5. m = CommitMsg(o, ops[o].old)
    OBVIOUS
  <2> HIDE DEF m
  <2> QED BY <1>1, <2>1, <2>2, <2>3, <2>4, <2>5, SendKeeps DEF Step, OperationOK
<1>3. CASE ~ops[o].reply.ok
  <2>1. Mark(ops[o].old, "unavailable") /\ Returns(o, "resume_pending") /\ UNCHANGED net
    BY <1>3 DEF Prepared
  <2>2. binding' \in BindingType /\ binding'.gen = binding.gen /\ binding'.epoch = binding.epoch
    BY <1>1, <2>1, MarkTypes
  <2> QED BY <1>1, <2>1, <2>2, ReturnKeeps
<1> QED BY <1>2, <1>3

(* The answer to CommitRoute is read: Rollout and ReconcileOperation.      *)
LEMMA CommittedKeeps ==
    ASSUME SysInv, NEW o \in Op, Committed(o) \/ RCommitted(o)
    PROVE  ControlTypeOK' /\ CanonInv'
<1>1. /\ ops[o] \in Operation /\ OperationOK(o) /\ SwapOK(o) /\ ops[o].step \in {"commit", "rcommit"}
      /\ ops[o].reply # None /\ binding \in BindingType /\ binding.epoch \in Nat
      /\ UNCHANGED <<vars, pool, net, faults>> /\ faults' \in 0..MaxFaults
  BY OperationKnown DEF Committed, RCommitted, Answered, SysInv, ControlTypeOK
<1>2. CASE ops[o].reply.ok /\ ops[o].reply.pending = 0
  <2>1. PICK s \in {"cas", "rcas"} :
           ops' = [ops EXCEPT ![o].step = s, ![o].reply = None] /\ UNCHANGED binding
    BY <1>2 DEF Committed, RCommitted
  <2> DEFINE new == [ops[o] EXCEPT !.step = s, !.reply = None]
  <2>2. /\ new \in Operation /\ new.step = s /\ new.old = ops[o].old /\ new.sent = ops[o].sent
        /\ new.target = ops[o].target
    BY <1>1 DEF Operation, Step
  <2>3. ops' = [ops EXCEPT ![o] = new]
    BY <2>1 DEF SysInv, ControlTypeOK
  <2> HIDE DEF new
  <2>4. ops' \in [Op -> Operation] /\ ops'[o] = new /\ \A p \in Op \ {o} : ops'[p] = ops[p]
    BY <2>2, <2>3 DEF SysInv, ControlTypeOK
  <2>5. ControlTypeOK'
    BY <1>1, <2>1, <2>4 DEF SysInv, ControlTypeOK
  <2>6. RequestInv'
    BY <1>1, <2>1, RequestsStay DEF SysInv, CanonInv
  <2>7. OperationOK(o)'
    BY <1>1, <2>1, <2>2, <2>4 DEF OperationOK, Committing, CommitMsg, RouteOf
  <2>8. SwapOK(o)'
    <3>1. Current' = Current /\ journal' = journal
      BY <1>1, <2>1 DEF Current, vars, disk
    <3>2. MaySwap(o)' => MaySwap(o)
      BY <1>1, <1>2, <2>2, <2>4, <3>1 DEF MaySwap
    <3> QED BY <1>1, <2>2, <2>4, <3>1, <3>2 DEF SwapOK, RouteOf
  <2>9. CanonInv'
    BY <1>1, <2>1, <2>4, <2>6, <2>7, <2>8, OperationStep DEF SysInv
  <2> QED BY <2>5, <2>9
<1>3. CASE ~(ops[o].reply.ok /\ ops[o].reply.pending = 0)
  <2>1. /\ Returns(o, "resume_pending")
        /\ Mark(ops[o].old, "unavailable") \/ UNCHANGED binding
    BY <1>3 DEF Committed, RCommitted
  <2>2. binding' \in BindingType /\ binding'.gen = binding.gen /\ binding'.epoch = binding.epoch
    BY <1>1, <2>1, MarkTypes
  <2> QED BY <1>1, <2>1, <2>2, ReturnKeeps
<1> QED BY <1>2, <1>3

(* The answer to ResumeRoute is read, an operation fails while its pool is *)
(* staged, or its caller goes away.                                        *)
LEMMA EndKeeps ==
    ASSUME SysInv, NEW o \in Op, Resumed(o) \/ RResumed(o) \/ StageFails(o) \/ Abandon(o)
    PROVE  ControlTypeOK' /\ CanonInv'
<1>1. /\ ops[o] \in Operation /\ binding \in BindingType /\ faults \in 0..MaxFaults
      /\ ops[o].status \in {"running", "resume_pending", "applied", "failed", "none"}
  BY OperationKnown DEF SysInv, ControlTypeOK, Operation
<1>2. /\ UNCHANGED <<vars, pool, net>>
      /\ \E status \in {"running", "resume_pending", "applied", "failed", "none"} : Returns(o, status)
      /\ UNCHANGED binding \/ \E state \in {"current", "unavailable", "resume_pending"} : Mark(ops[o].old, state)
  BY <1>1 DEF Resumed, RResumed, StageFails, Abandon
<1>3. faults' \in 0..MaxFaults
  BY <1>1, FaultAssumption DEF Resumed, RResumed, StageFails, Abandon, Fault
<1>4. binding' \in BindingType /\ binding'.gen = binding.gen /\ binding'.epoch = binding.epoch
  BY <1>1, <1>2, MarkTypes
<1> QED BY <1>2, <1>3, <1>4, ReturnKeeps

(* A call is given up: its answer is a failure, and the request stays.     *)
LEMMA GiveUpKeeps ==
    ASSUME SysInv, NEW o \in Op, GiveUp(o)
    PROVE  ControlTypeOK' /\ CanonInv'
<1> DEFINE r   == [ok |-> FALSE, pending |-> 0]
           new == [ops[o] EXCEPT !.reply = r]
<1>1. /\ ops[o] \in Operation /\ OperationOK(o) /\ binding.epoch \in Nat /\ faults \in 0..MaxFaults
      /\ UNCHANGED <<vars, binding, pool, net>> /\ ops[o].step \notin {"cas", "rcas"}
  BY OperationKnown DEF GiveUp, SysInv, ControlTypeOK
<1>2. r \in Reply /\ ~r.ok
  BY DEF Reply
<1>3. /\ new \in Operation /\ new.step = ops[o].step /\ new.old = ops[o].old /\ new.sent = ops[o].sent
      /\ new.target = ops[o].target /\ new.reply = r
  <2> HIDE DEF r
  <2> QED BY <1>1, <1>2 DEF Operation
<1>4. ops' = [ops EXCEPT ![o] = new]
  BY DEF GiveUp, SysInv, ControlTypeOK
<1> HIDE DEF new, r
<1>5. ops' \in [Op -> Operation] /\ ops'[o] = new /\ \A p \in Op \ {o} : ops'[p] = ops[p]
  BY <1>3, <1>4 DEF SysInv, ControlTypeOK
<1>6. faults' \in 0..MaxFaults
  BY <1>1, FaultAssumption DEF GiveUp, Fault
<1>7. ControlTypeOK'
  BY <1>1, <1>5, <1>6 DEF SysInv, ControlTypeOK
<1>8. RequestInv'
  BY <1>1, RequestsStay DEF SysInv, CanonInv
<1>9. OperationOK(o)' /\ SwapOK(o)'
  BY <1>1, <1>2, <1>3, <1>5 DEF OperationOK, Committing, CommitMsg, RouteOf, SwapOK, MaySwap
<1>10. CanonInv'
  BY <1>1, <1>5, <1>8, <1>9, OperationStep DEF SysInv
<1> QED BY <1>7, <1>10

(* ReconcileOperation sends CommitRoute or ResumeRoute for the binding as  *)
(* it finds it.                                                            *)
LEMMA ReconcileKeeps ==
    ASSUME DeadlinesLast, SysInv, NEW o \in Op, Reconcile(o)
    PROVE  ControlTypeOK' /\ CanonInv'
<1> DEFINE op == [ops[o] EXCEPT !.old = Current, !.obs = pool[ops[o].target].obs]
<1>1. /\ ops[o] \in Operation /\ OperationOK(o) /\ Current \in Binding /\ binding.epoch \in Nat
      /\ UNCHANGED <<vars, binding, pool, faults>> /\ ops[o].target \in Gen /\ pool \in PoolType
      /\ Current.epoch = binding.epoch
  BY OperationKnown DEF Reconcile, SysInv, ControlTypeOK, Operation, Current
<1>2. op \in Operation /\ op.old = Current /\ op.target = ops[o].target
  BY <1>1 DEF Operation, PoolType
<1>3. CASE binding.gen # ops[o].target
  <2> DEFINE m == CommitMsg(o, Current)
  <2>1. binding.epoch < MaxEpoch /\ Send(o, "rcommit", m, op)
    BY <1>3 DEF Reconcile
  <2>2. m \in Request /\ m.kind = "commit" /\ m.cur = binding.epoch /\ m.route.epoch = binding.epoch + 1
    BY <1>1, <2>1, MessageTypes DEF CommitMsg, RouteOf, SysInv
  <2>3. RequestOK(m) /\ m = CommitMsg(o, op.old)
    <3>1. m = CommitMsg(o, op.old)
      BY <1>2
    <3> HIDE DEF m
    <3> QED BY <1>1, <2>2, <3>1 DEF RequestOK
  <2> HIDE DEF m, op
  <2> QED BY <1>1, <1>2, <2>1, <2>2, <2>3, SendKeeps DEF Step
<1>4. CASE binding.gen = ops[o].target
  <2> DEFINE m == ResumeMsg(o, Current)
  <2>1. Send(o, "rresume", m, op)
    BY <1>4 DEF Reconcile
  <2>2. Fresh \in Deadline
    BY FreshType DEF SysInv, ControlTypeOK
  <2>3. m \in Request /\ m.kind = "resume" /\ m.route.epoch = binding.epoch /\ m.deadline = Fresh
    BY <1>1, <2>2, MessageTypes DEF ResumeMsg, RouteOf, SysInv
  <2> HIDE DEF m, op
  <2>4. RequestOK(m)
    BY <1>1, <2>2, <2>3 DEF RequestOK
  <2> QED BY <1>1, <1>2, <2>1, <2>3, <2>4, SendKeeps DEF Step
<1> QED BY <1>3, <1>4
-----------------------------------------------------------------------------
(* casSwapBinding: the operation's route is the one that the Edge has      *)
(* installed, so the binding arrives where the Edge already is.            *)
LEMMA SwapBindingKeeps ==
    ASSUME DeadlinesLast, SysInv, NEW o \in Op, NEW next \in {"resume", "rresume"},
           ops[o].step \in {"cas", "rcas"}, SwapBinding(o, next), UNCHANGED vars,
           faults' \in 0..MaxFaults
    PROVE  ControlTypeOK' /\ CanonInv' /\ Drained
<1> DEFINE g == ops[o].target
           b == [gen |-> g, epoch |-> binding.epoch + 1]
           m == ResumeMsg(o, b)
           rest == [ops[o] EXCEPT !.old = b]
<1>1. /\ ops[o] \in Operation /\ OperationOK(o) /\ SwapOK(o) /\ binding \in BindingType
      /\ binding.epoch \in Nat /\ binding.epoch \in Epoch /\ g \in Gen /\ pool \in PoolType
      /\ binding.gen \in Gen /\ ops[o].old = Current /\ Current.epoch = binding.epoch
  BY OperationKnown DEF SwapBinding, CanSwap, SysInv, ControlTypeOK, Operation, Current
<1>2. binding.epoch < MaxEpoch /\ b \in Binding
  <2>1. binding.epoch < MaxEpoch
    BY <1>1 DEF OperationOK, Committing
  <2> QED BY <1>1, <2>1, BoundAssumption DEF Binding, Epoch
<1>3. journal.route = RouteOf(o, binding.epoch + 1)
  BY <1>1 DEF SwapOK, MaySwap
<1>4. journal.route.epoch = binding.epoch + 1 /\ journal.route.gen = g
  BY <1>3 DEF RouteOf
<1>5. EdgeInv /\ Drained /\ journal.stage = "ready"
  BY <1>4 DEF SysInv, CanonInv, EdgeInv, Ahead
<1>6. Fresh \in Deadline
  BY FreshType DEF SysInv, ControlTypeOK
<1>7. m \in Request /\ m.kind = "resume" /\ m.route.epoch = binding.epoch + 1 /\ m.deadline = Fresh
  BY <1>1, <1>2, <1>6, MessageTypes DEF ResumeMsg, RouteOf, SysInv
<1>8. rest \in Operation /\ rest.old = b
  <2> HIDE DEF b
  <2> QED BY <1>1, <1>2 DEF Operation
<1>9. Send(o, next, m, rest)
  BY DEF SwapBinding
<1>10. /\ binding' = [gen |-> g, prev |-> binding.gen, epoch |-> binding.epoch + 1, resume |-> "current"]
       /\ pool' = [pool EXCEPT ![g].status = "active",
                               ![binding.gen].status = IF @ = "active" THEN "draining" ELSE @]
  BY DEF SwapBinding
<1>11. binding' \in BindingType /\ binding'.epoch = binding.epoch + 1 /\ binding'.gen = g
  BY <1>1, <1>2, <1>10, BoundAssumption DEF BindingType, Binding, Epoch
<1>12. pool' \in PoolType
  BY <1>1, <1>10 DEF PoolType
<1>13. b.epoch = binding.epoch + 1
  OBVIOUS
<1> HIDE DEF m, rest, b, g
<1>14. /\ ops' \in [Op -> Operation] /\ net' = net \cup {m} /\ net' \subseteq Request /\ IsFiniteSet(net')
       /\ ops'[o].step = next /\ ops'[o].old = b
       /\ \A p \in Op \ {o} : ops'[p] = ops[p]
  <2>1. [rest EXCEPT !.step = next, !.sent = m, !.reply = None] \in Operation
    BY <1>7, <1>8 DEF Operation, Step
  <2>2. ops \in [Op -> Operation] /\ net \subseteq Request /\ IsFiniteSet(net)
    BY DEF SysInv, ControlTypeOK
  <2>3. [rest EXCEPT !.step = next, !.sent = m, !.reply = None].step = next
    BY <1>8 DEF Operation
  <2>4. [rest EXCEPT !.step = next, !.sent = m, !.reply = None].old = b
    BY <1>8 DEF Operation
  <2> QED BY <1>7, <1>9, <2>1, <2>2, <2>3, <2>4, FS_AddElement DEF Send
<1>15. ControlTypeOK'
  BY <1>11, <1>12, <1>14 DEF SysInv, ControlTypeOK
<1>16. RequestInv'
  <2>1. PICK x : x = m
    OBVIOUS
  <2>2. net' = net \cup {x} /\ x.kind = "resume" /\ x.route.epoch = binding.epoch + 1 /\ x.deadline \in Deadline
    BY <1>6, <1>7, <1>14, <2>1
  <2>3. RequestOK(x)'
    BY <1>1, <1>11, <2>2 DEF RequestOK
  <2> QED BY <1>1, <1>11, <2>2, <2>3, RequestSent DEF SysInv, CanonInv
<1>17. OperationOK(o)' /\ SwapOK(o)'
  BY <1>1, <1>11, <1>13, <1>14 DEF OperationOK, SwapOK, MaySwap, Committing
<1>18. ASSUME NEW p \in Op \ {o} PROVE OperationOK(p)' /\ SwapOK(p)'
  <2>1. OperationOK(p) /\ ops'[p] = ops[p] /\ ops[p].old.epoch \in Nat /\ ops[p].old.epoch <= binding.epoch
    BY <1>14, OperationKnown DEF OperationOK
  <2>2. OperationOK(p)'
    BY <1>1, <1>11, <2>1 DEF OperationOK, CommitMsg, RouteOf
  <2>3. Current'.epoch = binding.epoch + 1
    BY <1>11 DEF Current
  <2>4. SwapOK(p)'
    BY <1>1, <2>1, <2>3 DEF SwapOK, MaySwap
  <2> QED BY <2>2, <2>4
<1>19. EdgeInv'
  <2>1. UNCHANGED <<journal, rstate>>
    BY DEF vars, disk, memory, router
  <2> QED BY <1>1, <1>4, <1>5, <1>11, <2>1 DEF EdgeInv, Ahead
<1> QED BY <1>5, <1>15, <1>16, <1>17, <1>18, <1>19 DEF CanonInv, OperationInv, SwapInv

(* Both swaps, with the one that finds the binding or the pool changed.    *)
LEMMA SwapKeeps ==
    ASSUME DeadlinesLast, SysInv, NEW o \in Op, Swap(o) \/ RSwap(o)
    PROVE  ControlTypeOK' /\ CanonInv' /\ (Current' # Current => Drained)
<1>1. ops[o].step \in {"cas", "rcas"} /\ UNCHANGED vars /\ binding \in BindingType
      /\ faults' \in 0..MaxFaults
  <2>1. faults' = faults \/ Fault
    BY DEF Swap, RSwap, SwapFails
  <2>2. faults \in 0..MaxFaults
    BY DEF SysInv, ControlTypeOK
  <2>3. faults' \in 0..MaxFaults
    BY <2>1, <2>2, FaultAssumption DEF Fault
  <2> QED BY <2>3 DEF Swap, RSwap, SysInv, ControlTypeOK
<1>2. CASE SwapBinding(o, "resume") \/ SwapBinding(o, "rresume")
  BY <1>1, <1>2, SwapBindingKeeps
<1>3. CASE ~(SwapBinding(o, "resume") \/ SwapBinding(o, "rresume"))
  <2>1. /\ Returns(o, "resume_pending") /\ UNCHANGED <<pool, net>>
        /\ Mark(ops[o].old, "unavailable") \/ UNCHANGED binding
    BY <1>3 DEF Swap, RSwap
  <2>2. binding' \in BindingType /\ binding'.gen = binding.gen /\ binding'.epoch = binding.epoch
    BY <1>1, <2>1, MarkTypes
  <2>3. Current' = Current
    BY <2>2 DEF Current
  <2>4. ControlTypeOK' /\ CanonInv'
    BY <1>1, <2>1, <2>2, ReturnKeeps
  <2> QED BY <2>3, <2>4
<1> QED BY <1>2, <1>3
-----------------------------------------------------------------------------
(* The Edge answers a request: only an operation that waits for this very  *)
(* request learns of it.                                                   *)
LEMMA AnswerTypes ==
    ASSUME SysInv, NEW m \in net, NEW ok \in BOOLEAN, Answer(m, ok)
    PROVE  /\ ops' \in [Op -> Operation] /\ net' \subseteq Request /\ IsFiniteSet(net') /\ net' \subseteq net
           /\ UNCHANGED <<binding, pool>>
           /\ \A o \in Op : /\ ops'[o].step = ops[o].step /\ ops'[o].old = ops[o].old
                            /\ ops'[o].sent = ops[o].sent /\ ops'[o].target = ops[o].target
                            /\ ops'[o].reply # ops[o].reply => ops[o].sent = m /\ ops'[o].reply.ok = ok
<1> DEFINE r == [ok |-> ok, pending |-> Len(inputs)]
<1>1. r \in Reply /\ r.ok = ok
  BY DEF Reply, SysInv, RouteInv, TypeOK
<1>2. ops' = [o \in Op |-> IF ops[o].sent = m /\ ops[o].reply = None
                            THEN [ops[o] EXCEPT !.reply = r] ELSE ops[o]]
  BY DEF Answer
<1> HIDE DEF r
<1>3. ASSUME NEW o \in Op
      PROVE  /\ ops'[o] \in Operation
             /\ ops'[o].step = ops[o].step /\ ops'[o].old = ops[o].old
             /\ ops'[o].sent = ops[o].sent /\ ops'[o].target = ops[o].target
             /\ ops'[o].reply # ops[o].reply => ops[o].sent = m /\ ops'[o].reply.ok = ok
  <2>1. ops[o] \in Operation
    BY DEF SysInv, ControlTypeOK
  <2>2. CASE ops'[o] = ops[o]
    BY <2>1, <2>2
  <2>3. CASE ops[o].sent = m /\ ops'[o] = [ops[o] EXCEPT !.reply = r]
    BY <1>1, <2>1, <2>3 DEF Operation
  <2> QED BY <1>2, <2>2, <2>3
<1>4. ops' \in [Op -> Operation]
  BY <1>2, <1>3
<1>5. /\ net' \subseteq Request /\ IsFiniteSet(net') /\ net' \subseteq net /\ UNCHANGED <<binding, pool>>
  BY FS_RemoveElement DEF Answer, SysInv, ControlTypeOK
<1> QED BY <1>3, <1>4, <1>5

(* A request is refused. *)
LEMMA RefuseKeeps ==
    ASSUME SysInv, NEW m \in net, Refuse(m)
    PROVE  ControlTypeOK' /\ CanonInv' /\ Current' = Current
<1>1. Answer(m, FALSE) /\ UNCHANGED vars
  BY DEF Refuse
<1>2. /\ ops' \in [Op -> Operation] /\ net' \subseteq Request /\ IsFiniteSet(net') /\ net' \subseteq net
      /\ UNCHANGED <<binding, pool>>
      /\ \A o \in Op : /\ ops'[o].step = ops[o].step /\ ops'[o].old = ops[o].old
                       /\ ops'[o].sent = ops[o].sent /\ ops'[o].target = ops[o].target
                       /\ ops'[o].reply # ops[o].reply => ops[o].sent = m /\ ops'[o].reply.ok = FALSE
  BY <1>1, AnswerTypes
<1>3. faults' \in 0..MaxFaults
  BY FaultAssumption DEF Refuse, Fault, SysInv, ControlTypeOK
<1>4. ControlTypeOK'
  BY <1>2, <1>3 DEF SysInv, ControlTypeOK
<1>5. Current' = Current /\ UNCHANGED <<journal, rstate, results, inputs>>
  BY <1>1, <1>2 DEF Current, vars, disk, memory, router
<1>6. RequestInv'
  BY <1>2, OperationKnown, RequestsStay, BoundAssumption DEF SysInv, CanonInv, ControlTypeOK, BindingType, Epoch
<1>7. ASSUME NEW o \in Op PROVE OperationOK(o)' /\ SwapOK(o)'
  <2>1. OperationOK(o) /\ SwapOK(o)
    BY OperationKnown
  <2>2. MaySwap(o)' => MaySwap(o)
    BY <1>2, <1>5 DEF MaySwap
  <2> QED BY <1>2, <1>5, <2>1, <2>2 DEF OperationOK, SwapOK, CommitMsg, RouteOf
<1>8. EdgeInv'
  BY <1>2, <1>5 DEF SysInv, CanonInv, EdgeInv, Ahead, Drained, HasBound, Bound
<1> QED BY <1>4, <1>5, <1>6, <1>7, <1>8 DEF CanonInv, OperationInv, SwapInv
-----------------------------------------------------------------------------
(* The Edge handles a request.  Of the operations, only one that waits for *)
(* this CommitRoute can come to hold an answered one.                      *)
LEMMA AnswerKeeps ==
    ASSUME SysInv, NEW m \in net, Answer(m, TRUE), UNCHANGED faults
    PROVE  /\ ControlTypeOK' /\ RequestInv' /\ OperationInv' /\ UNCHANGED <<binding, pool>>
           /\ \A o \in Op : /\ ops'[o].old = ops[o].old /\ ops'[o].target = ops[o].target
                            /\ MaySwap(o)' => \/ MaySwap(o)
                                              \/ Current = ops[o].old /\ m = CommitMsg(o, ops[o].old)
<1>1. /\ ops' \in [Op -> Operation] /\ net' \subseteq Request /\ IsFiniteSet(net') /\ net' \subseteq net
      /\ UNCHANGED <<binding, pool>>
      /\ \A o \in Op : /\ ops'[o].step = ops[o].step /\ ops'[o].old = ops[o].old
                       /\ ops'[o].sent = ops[o].sent /\ ops'[o].target = ops[o].target
                       /\ ops'[o].reply # ops[o].reply => ops[o].sent = m /\ ops'[o].reply.ok = TRUE
  BY AnswerTypes
<1>2. ControlTypeOK'
  BY <1>1 DEF SysInv, ControlTypeOK
<1>3. RequestInv'
  BY <1>1, RequestsStay, BoundAssumption DEF SysInv, CanonInv, ControlTypeOK, BindingType, Epoch
<1>4. Current' = Current
  BY <1>1 DEF Current
<1>5. ASSUME NEW o \in Op
      PROVE  /\ OperationOK(o)'
             /\ MaySwap(o)' => \/ MaySwap(o)
                               \/ Current = ops[o].old /\ m = CommitMsg(o, ops[o].old)
  <2>1. OperationOK(o)
    BY OperationKnown
  <2>2. OperationOK(o)'
    BY <1>1, <2>1 DEF OperationOK, CommitMsg, RouteOf
  <2>3. CASE ops'[o].reply = ops[o].reply
    BY <1>1, <1>4, <2>2, <2>3 DEF MaySwap
  <2>4. CASE ops'[o].reply # ops[o].reply
    BY <1>1, <1>4, <2>1, <2>2, <2>4 DEF MaySwap, OperationOK, Committing
  <2> QED BY <2>3, <2>4
<1> QED BY <1>1, <1>2, <1>3, <1>5 DEF OperationInv

(* PrepareRoute names the epoch of the Edge's route, so the Edge is not    *)
(* ahead; CommitRoute installs a route that is one epoch ahead at most,    *)
(* and behind a drain; ResumeRoute of that route comes after the swap.     *)
LEMMA DeliverKeeps ==
    ASSUME SysInv, NEW m \in net, Deliver(m)
    PROVE  ControlTypeOK' /\ CanonInv' /\ Current' = Current /\ [Next]_vars
<1>1. Answer(m, TRUE) /\ UNCHANGED faults
  BY DEF Deliver
<1>2. /\ ControlTypeOK' /\ RequestInv' /\ OperationInv' /\ UNCHANGED <<binding, pool>>
      /\ \A o \in Op : /\ ops'[o].old = ops[o].old /\ ops'[o].target = ops[o].target
                       /\ MaySwap(o)' => \/ MaySwap(o)
                                         \/ Current = ops[o].old /\ m = CommitMsg(o, ops[o].old)
  BY <1>1, AnswerKeeps
<1>3. Current' = Current
  BY <1>2 DEF Current
<1>4. /\ m \in Request /\ RequestOK(m) /\ binding.epoch \in Nat /\ EdgeInv
      /\ m.cur \in Epoch /\ m.cur \in Nat /\ m.route \in Route /\ m.route.epoch \in Epoch
      /\ m.route.epoch \in Nat
  <2>1. m \in Request /\ RequestOK(m) /\ binding.epoch \in Nat /\ EdgeInv
    BY BoundAssumption DEF SysInv, CanonInv, RequestInv, ControlTypeOK, BindingType, Epoch
  <2>2. m.cur \in Epoch /\ m.route \in Route /\ m.route.epoch \in Epoch
    BY <2>1 DEF Request, Route
  <2> QED BY <2>1, <2>2, BoundAssumption DEF Epoch
<1>5. /\ Idle /\ ~recovering => route = journal.route /\ route \in Route /\ route # None
      /\ journal.route.epoch \in Nat
  <2>1. Idle /\ ~recovering => route = journal.route
    BY DEF SysInv, RouteInv, RouterOnRoute, Idle, Up, CanonInv, EdgeInv
  <2>2. journal.route \in Route /\ journal.route # None
    BY <1>4, NoneAssumption DEF EdgeInv
  <2> QED BY <2>1, <2>2, BoundAssumption DEF Route, Epoch
<1>6. ASSUME journal'.route = journal.route, m.kind # "commit" PROVE SwapInv'
  <2>1. \A o \in Op : m # CommitMsg(o, ops[o].old)
    BY <1>6 DEF CommitMsg
  <2> QED BY <1>2, <1>6, <2>1, OperationKnown DEF SwapInv, SwapOK, RouteOf
<1>7. CASE m.kind = "prepare" /\ PrepareRoute(m.cur, m.route.epoch)
  <2>1. Idle /\ ~recovering /\ route.epoch = m.cur /\ m.cur <= binding.epoch
    BY <1>4, <1>5, <1>7 DEF PrepareRoute, CanPrepare, RequestOK
  <2>2. /\ journal' = [stage |-> "prepared", route |-> route, hs |-> committed] /\ rstate' = "draining"
        /\ UNCHANGED <<inputs, results>>
    BY <1>7 DEF PrepareRoute
  <2>3. journal'.route = journal.route /\ ~Ahead /\ ~Ahead' /\ journal' # None
    <3>1. journal' \in RouteRecord
      BY <1>5, <2>1, <2>2 DEF SysInv, RouteInv, TypeOK, RouteRecord, Stage
    <3>2. journal'.route = journal.route
      BY <1>5, <2>1, <2>2
    <3> QED BY <1>2, <1>4, <1>5, <2>1, <3>1, <3>2, NoneAssumption DEF Ahead
  <2>4. EdgeInv'
    BY <1>2, <1>4, <2>2, <2>3 DEF EdgeInv, Ahead
  <2>5. Next
    BY <1>4, <1>7, BoundAssumption DEF Next, Epoch
  <2> QED BY <1>2, <1>3, <1>6, <1>7, <2>3, <2>4, <2>5 DEF CanonInv
<1>8. CASE m.kind = "commit" /\ CommitRoute(m.route)
  <2>1. Idle /\ ~recovering /\ Drained /\ m.cur <= binding.epoch /\ m.route.epoch = m.cur + 1
    BY <1>4, <1>8 DEF CommitRoute, CanCommit, RequestOK
  <2>2. /\ journal' = [stage |-> "ready", route |-> m.route, hs |-> None] /\ rstate' = "ready"
        /\ UNCHANGED <<inputs, results>>
    BY <1>8 DEF CommitRoute
  <2>3. Drained' /\ journal' # None /\ journal'.route = m.route /\ journal'.stage = "ready"
    <3>1. journal' \in RouteRecord
      BY <1>4, <2>2 DEF RouteRecord, Stage
    <3> QED BY <2>1, <2>2, <3>1, NoneAssumption DEF Drained, HasBound, Bound
  <2>4. \/ m.route = journal.route
        \/ m.route.epoch = binding.epoch + 1 /\ ~Ahead
    <3>1. m.route = journal.route \/ m.route.epoch > journal.route.epoch
      BY <1>5, <1>8, <2>1 DEF CommitRoute, CanCommit
    <3> QED BY <1>4, <1>5, <2>1, <3>1 DEF EdgeInv, Ahead
  <2>5. EdgeInv'
    BY <1>2, <1>4, <2>2, <2>3, <2>4 DEF EdgeInv, Ahead
  <2>6. ASSUME NEW o \in Op, MaySwap(o)' PROVE journal'.route = RouteOf(o, ops[o].old.epoch + 1)'
    <3>1. CASE m = CommitMsg(o, ops[o].old)
      BY <1>2, <2>3, <3>1 DEF CommitMsg, RouteOf
    <3>2. CASE MaySwap(o)
      <4>1. journal.route = RouteOf(o, ops[o].old.epoch + 1) /\ ops[o].old.epoch = binding.epoch
        BY <3>2, OperationKnown DEF SwapOK, MaySwap, Current
      <4>2. Ahead
        BY <4>1 DEF RouteOf, Ahead
      <4> QED BY <1>2, <2>3, <2>4, <4>1, <4>2 DEF RouteOf
    <3> QED BY <1>2, <2>6, <3>1, <3>2
  <2>7. SwapInv'
    BY <2>6 DEF SwapInv, SwapOK
  <2>8. Next
    BY <1>4, <1>8 DEF Next
  <2> QED BY <1>2, <1>3, <2>5, <2>7, <2>8 DEF CanonInv
<1>9. CASE m.kind = "resume" /\ ResumeRoute(Shake(m))
  <2>1. /\ Idle /\ ~recovering /\ m.route.epoch <= binding.epoch
        /\ rstate = "active" \/ m.route = route
        /\ Shake(m) \in Handshake
    BY <1>4, <1>9 DEF ResumeRoute, CanResume, RequestOK, Shake, Handshake
  <2>2. /\ journal' = [stage |-> "active", route |-> route, hs |-> Shake(m)] /\ rstate' = "active"
        /\ UNCHANGED <<inputs, results>>
    BY <1>9 DEF ResumeRoute
  <2>3. journal' # None /\ journal'.route = journal.route /\ journal'.stage = "active"
    <3>1. journal' \in RouteRecord
      BY <1>5, <2>1, <2>2 DEF RouteRecord, Stage
    <3> QED BY <1>5, <2>1, <2>2, <3>1, NoneAssumption
  <2>4. ~Ahead
    BY <1>4, <1>5, <2>1 DEF EdgeInv, Ahead
  <2>5. EdgeInv'
    BY <1>2, <1>4, <2>2, <2>3, <2>4 DEF EdgeInv, Ahead
  <2>6. Next
    BY <1>9, <2>1 DEF Next
  <2> QED BY <1>2, <1>3, <1>6, <1>9, <2>3, <2>5, <2>6 DEF CanonInv
<1> QED BY <1>7, <1>8, <1>9 DEF Deliver
-----------------------------------------------------------------------------
(* The Edge by itself: while its journal is ahead of the binding it is not *)
(* active, so it admits route-neutral records only and stays drained.      *)
LEMMA EdgeDrained ==
    ASSUME RouteInv, EdgeStep, rstate # "active", Drained
    PROVE  Drained'
<1>1. inputs \in Seq(Input) /\ results = None /\ \A i \in 1..Len(inputs) : inputs[i].route = None
  BY DEF RouteInv, TypeOK, Drained, HasBound, Bound
<1>2. pc \notin {"ckInput", "ckResult"}
  BY <1>1 DEF RouteInv, TickHolds
<1>3. results' = None
  <2>1. ~Infer
    <3> SUFFICES ASSUME Infer PROVE FALSE
      OBVIOUS
    <3>1. inputs # <<>> /\ Bound(inputs[1])
      BY DEF Infer, CanInfer, CanProcess
    <3> QED BY <1>1, <3>1, EmptySeq DEF Bound
  <2> QED BY <1>1, <1>2, <2>1 DEF EdgeStep, FinishRouteRecovery, RouteRecoveryFails, PushSnapshot, IdleClose,
        RebindHead, RebindCheckpoint, InferDrift, CheckpointSource, CheckpointInput, CheckpointResult,
        Crash, Restart, ReplayWindow, Spawn, disk
<1>4. CASE inputs' = inputs
  BY <1>1, <1>3, <1>4 DEF Drained, HasBound, Bound
<1>5. CASE \E w : inputs' = Append(inputs, [win |-> w, route |-> None])
  <2>1. PICK w : inputs' = Append(inputs, [win |-> w, route |-> None])
    BY <1>5
  <2>2. \A i \in 1..(Len(inputs) + 1) : inputs'[i].route = None
    BY <1>1, <2>1
  <2>3. DOMAIN inputs' = 1..(Len(inputs) + 1)
    BY <1>1, <2>1
  <2> QED BY <1>3, <2>2, <2>3 DEF Drained, HasBound, Bound
<1>6. CASE inputs' = Tail(inputs) /\ inputs # <<>>
  <2>1. Len(inputs) \in Nat /\ Len(inputs) # 0
    BY <1>1, <1>6, EmptySeq
  <2>2. DOMAIN inputs' = 1..(Len(inputs) - 1) /\ \A i \in 1..(Len(inputs) - 1) : inputs'[i] = inputs[i + 1]
    BY <1>1, <1>6, <2>1
  <2> QED BY <1>1, <1>3, <2>1, <2>2 DEF Drained, HasBound, Bound
<1>7. \/ inputs' = inputs
      \/ \E w : inputs' = Append(inputs, [win |-> w, route |-> None])
      \/ inputs' = Tail(inputs) /\ inputs # <<>>
  <2>1. ASSUME NEW w, Final(w)
        PROVE  inputs' = inputs \/ \E v : inputs' = Append(inputs, [win |-> v, route |-> None])
    BY <2>1 DEF Final
  <2>2. CASE PushSnapshot \/ IdleClose
    BY <2>1, <2>2 DEF PushSnapshot, IdleClose
  <2>3. CASE RebindCheckpoint
    BY <2>3 DEF RebindCheckpoint, RouteInv, TickHolds
  <2>4. CASE ReplayWindow
    BY <2>4 DEF ReplayWindow
  <2>5. ~RebindHead
    BY DEF RebindHead
  <2> QED BY <1>2, <2>2, <2>3, <2>4, <2>5 DEF EdgeStep, FinishRouteRecovery, RouteRecoveryFails,
        Infer, InferDrift, CheckpointSource, CheckpointInput, CheckpointResult,
        Crash, Restart, Spawn, disk
<1> QED BY <1>4, <1>5, <1>6, <1>7

(* The Edge becomes active by itself only from an active journal. *)
LEMMA EdgeActive ==
    ASSUME RouteInv, EdgeStep
    PROVE  journal' = journal /\ (rstate' = "active" => rstate = "active" \/ journal.stage = "active")
<1>1. recovering => journal \in RouteRecord
  BY DEF RouteInv, RecoversFrom, TypeOK
<1>2. FinishRouteRecovery => (rstate' = "active" => journal.stage = "active")
  BY <1>1 DEF FinishRouteRecovery, RouteRecord, Stage
<1> QED BY <1>2 DEF EdgeStep, FinishRouteRecovery, RouteRecoveryFails, PushSnapshot, IdleClose,
        RebindHead, RebindCheckpoint, Infer, InferDrift, CheckpointSource, CheckpointInput, CheckpointResult,
        Crash, Restart, ReplayWindow, Spawn, disk, router, memory

(* A step that changes neither the control core nor the journal. *)
LEMMA QuietKeeps ==
    ASSUME SysInv, UNCHANGED control, faults' \in 0..MaxFaults, journal' = journal,
           Ahead => Drained', rstate' = "active" => journal.stage = "active"
    PROVE  ControlTypeOK' /\ CanonInv' /\ Current' = Current
<1>1. UNCHANGED <<binding, pool, ops, net>>
  BY DEF control
<1>2. Current' = Current
  BY <1>1 DEF Current
<1>3. ControlTypeOK'
  BY <1>1 DEF SysInv, ControlTypeOK
<1>4. RequestInv'
  BY <1>1 DEF SysInv, CanonInv, RequestInv, RequestOK
<1>5. OperationInv'
  BY <1>1 DEF SysInv, CanonInv, OperationInv, OperationOK, CommitMsg, RouteOf
<1>6. SwapInv'
  BY <1>1, <1>2 DEF SysInv, CanonInv, SwapInv, SwapOK, MaySwap, RouteOf
<1>7. EdgeInv'
  BY <1>1 DEF SysInv, CanonInv, EdgeInv, Ahead
<1> QED BY <1>2, <1>3, <1>4, <1>5, <1>6, <1>7 DEF CanonInv

LEMMA EdgeKeeps ==
    ASSUME SysInv, Edge
    PROVE  ControlTypeOK' /\ CanonInv' /\ Current' = Current /\ [Next]_vars
<1>1. RouteInv /\ EdgeInv /\ EdgeStep /\ UNCHANGED <<control, faults>> /\ faults \in 0..MaxFaults
  BY DEF SysInv, CanonInv, Edge, ControlTypeOK
<1>2. journal' = journal /\ (rstate' = "active" => journal.stage = "active")
  BY <1>1, EdgeActive DEF EdgeInv
<1>3. Ahead => Drained'
  BY <1>1, EdgeDrained DEF EdgeInv
<1> QED BY <1>1, <1>2, <1>3, QuietKeeps DEF Next

(* Results that the ingest fence lets pass are on the canonical route, so  *)
(* the Edge is not ahead.                                                  *)
LEMMA IngestKeeps ==
    ASSUME SysInv, NEW replied \in BOOLEAN, IngestBatch(replied)
    PROVE  ControlTypeOK' /\ CanonInv' /\ Current' = Current /\ [Next]_vars
<1>1. /\ EdgeInv /\ CommitResults(replied) /\ UNCHANGED control /\ results # None
      /\ UNCHANGED <<journal, rstate>> /\ faults \in 0..MaxFaults
  BY DEF SysInv, CanonInv, IngestBatch, CommitResults, memory, router, ControlTypeOK
<1>2. ~Ahead
  BY <1>1 DEF EdgeInv, Drained
<1>3. faults' \in 0..MaxFaults
  BY <1>1, FaultAssumption DEF IngestBatch, Fault
<1> QED BY <1>1, <1>2, <1>3, QuietKeeps DEF Next, EdgeInv
-----------------------------------------------------------------------------
(* A step of an operation, and of the whole system. *)
LEMMA OperationKeeps ==
    ASSUME DeadlinesLast, SysInv, NEW o \in Op,
           \/ \E g \in Gen : Start(o, g)
           \/ StageFails(o) \/ Control(o) \/ Reconcile(o) \/ GiveUp(o) \/ Abandon(o)
    PROVE  ControlTypeOK' /\ CanonInv' /\ (Current' # Current => Drained) /\ UNCHANGED vars
<1>0. binding \in BindingType
  BY DEF SysInv, ControlTypeOK
<1>1. CASE \E g \in Gen : Start(o, g)
  BY <1>1, StartKeeps DEF Start, Current
<1>2. CASE StagePool(o)
  BY <1>2, StageKeeps DEF StagePool, Current
<1>3. CASE Prepared(o)
  <2>1. Current' = Current
    <3>1. UNCHANGED binding \/ Mark(ops[o].old, "unavailable")
      BY <1>3 DEF Prepared
    <3> QED BY <1>0, <3>1, MarkTypes DEF Current
  <2> QED BY <1>3, <2>1, PreparedKeeps DEF Prepared
<1>4. CASE Committed(o) \/ RCommitted(o)
  <2>1. Current' = Current
    <3>1. UNCHANGED binding \/ Mark(ops[o].old, "unavailable")
      BY <1>4 DEF Committed, RCommitted
    <3> QED BY <1>0, <3>1, MarkTypes DEF Current
  <2> QED BY <1>4, <2>1, CommittedKeeps DEF Committed, RCommitted
<1>5. CASE Swap(o) \/ RSwap(o)
  BY <1>5, SwapKeeps DEF Swap, RSwap
<1>6. CASE Resumed(o) \/ RResumed(o) \/ StageFails(o) \/ Abandon(o)
  <2>1. Current' = Current
    <3>1. UNCHANGED binding \/ \E state \in {"current", "unavailable", "resume_pending"} : Mark(ops[o].old, state)
      BY <1>6 DEF Resumed, RResumed, StageFails, Abandon
    <3> QED BY <1>0, <3>1, MarkTypes DEF Current
  <2> QED BY <1>6, <2>1, EndKeeps DEF Resumed, RResumed, StageFails, Abandon
<1>7. CASE Reconcile(o)
  BY <1>7, ReconcileKeeps DEF Reconcile, Current
<1>8. CASE GiveUp(o)
  BY <1>8, GiveUpKeeps DEF GiveUp, Current
<1> QED BY <1>1, <1>2, <1>3, <1>4, <1>5, <1>6, <1>7, <1>8 DEF Control

LEMMA SysStep ==
    ASSUME DeadlinesLast, SysInv, [SysNext]_sysvars
    PROVE  SysInv' /\ [Next]_vars /\ (Current' # Current => Drained)
<1>1. CASE UNCHANGED sysvars
  <2>1. UNCHANGED <<vars, control, faults, journal, rstate, results, inputs>>
    BY <1>1 DEF sysvars, vars, disk, memory, router
  <2>2. Ahead => Drained'
    BY <2>1 DEF SysInv, CanonInv, EdgeInv, Drained, HasBound, Bound
  <2>3. faults' \in 0..MaxFaults /\ (rstate' = "active" => journal.stage = "active")
    BY <2>1 DEF SysInv, ControlTypeOK, CanonInv, EdgeInv
  <2>4. ControlTypeOK' /\ CanonInv' /\ Current' = Current
    BY <2>1, <2>2, <2>3, QuietKeeps
  <2>5. RouteInv'
    BY <2>1, NextRouteInv DEF SysInv
  <2> QED BY <2>1, <2>4, <2>5 DEF SysInv
<1>2. CASE SysNext
  <2>1. ControlTypeOK' /\ CanonInv' /\ [Next]_vars /\ (Current' # Current => Drained)
    <3>1. CASE Edge
      BY <3>1, EdgeKeeps
    <3>2. ASSUME NEW replied \in BOOLEAN, IngestBatch(replied)
          PROVE  ControlTypeOK' /\ CanonInv' /\ [Next]_vars /\ (Current' # Current => Drained)
      BY <3>2, IngestKeeps
    <3>3. ASSUME NEW o \in Op,
                 \/ \E g \in Gen : Start(o, g)
                 \/ StageFails(o) \/ Control(o) \/ Reconcile(o) \/ GiveUp(o) \/ Abandon(o)
          PROVE  ControlTypeOK' /\ CanonInv' /\ [Next]_vars /\ (Current' # Current => Drained)
      BY <3>3, OperationKeeps
    <3>4. ASSUME NEW m \in net, Deliver(m)
          PROVE  ControlTypeOK' /\ CanonInv' /\ [Next]_vars /\ (Current' # Current => Drained)
      BY <3>4, DeliverKeeps
    <3>5. ASSUME NEW m \in net, Refuse(m)
          PROVE  ControlTypeOK' /\ CanonInv' /\ [Next]_vars /\ (Current' # Current => Drained)
      BY <3>5, RefuseKeeps DEF Refuse
    <3> QED BY <1>2, <3>1, <3>2, <3>3, <3>4, <3>5 DEF SysNext
  <2>2. RouteInv'
    BY <2>1, NextRouteInv DEF SysInv
  <2> QED BY <2>1, <2>2 DEF SysInv
<1> QED BY <1>1, <1>2

LEMMA SysInitInv == SysInit => SysInv /\ Init
<1> SUFFICES ASSUME SysInit PROVE SysInv /\ Init
  OBVIOUS
<1>1. Init /\ RouteInv
  BY InitRouteInv DEF SysInit
<1>2. PICK h \in Handshake : /\ h.route.epoch = 1 /\ rstate = "active" /\ route = h.route
                             /\ journal = [stage |-> "active", route |-> h.route, hs |-> h]
  BY <1>1 DEF Init, SysInit
<1>3. h.route \in Route /\ route.gen = 1 /\ 1 \in Epoch
  <2>1. h.route \in Route
    BY DEF Handshake
  <2> QED BY <1>2, <2>1 DEF SysInit, Route
<1>4. /\ binding = [gen |-> 1, prev |-> None, epoch |-> 1, resume |-> "current"]
      /\ Current = [gen |-> 1, epoch |-> 1]
  BY DEF SysInit, Current
<1>5. ASSUME NEW o \in Op
      PROVE  ops[o] \in Operation /\ ops[o].step = "none" /\ ops[o].old = Current
  <2>1. ops[o] = [status |-> IF o = Boot THEN "applied" ELSE "none",
                  step |-> "none", target |-> 1, old |-> Current,
                  obs |-> None, sent |-> None, reply |-> None]
    BY DEF SysInit
  <2>2. Current \in Binding
    BY <1>3, <1>4, BootAssumption DEF Binding
  <2> HIDE DEF Current
  <2> QED BY <2>1, <2>2, BootAssumption DEF Operation, Step
<1>6. ControlTypeOK
  <2>1. binding \in BindingType
    BY <1>3, <1>4, BootAssumption DEF BindingType
  <2>2. pool \in PoolType
    BY BootAssumption DEF SysInit, PoolType
  <2>3. ops \in [Op -> Operation]
    <3>1. ops = [o \in Op |-> ops[o]]
      BY DEF SysInit
    <3> QED BY <1>5, <3>1
  <2> QED BY <2>1, <2>2, <2>3, FS_EmptySet, FaultAssumption DEF SysInit, ControlTypeOK
<1>7. RequestInv /\ OperationInv /\ SwapInv
  BY <1>4, <1>5 DEF SysInit, RequestInv, OperationInv, OperationOK, Committing, SwapInv, SwapOK, MaySwap
<1>8. EdgeInv
  <2>1. journal \in RouteRecord
    BY <1>2, <1>3 DEF RouteRecord, Stage
  <2> QED BY <1>2, <1>3, <1>4, <2>1, NoneAssumption DEF EdgeInv, Ahead
<1> QED BY <1>1, <1>6, <1>7, <1>8 DEF SysInv, CanonInv
-----------------------------------------------------------------------------
(* The composition implements the Edge: what the control core sends, and   *)
(* in whatever order it arrives, is a request that module Detection allows *)
(* (prepare_route, commit_route, resume_route), so that every property     *)
(* proved of the Edge alone holds of the Edge under a rollout.             *)
THEOREM EdgeRefined == ASSUME DeadlinesLast PROVE SysSpec => Spec
<1>1. SysInit => SysInv /\ Init
  BY SysInitInv
<1>2. SysInv /\ [SysNext]_sysvars => SysInv' /\ [Next]_vars
  BY SysStep
<1> QED BY <1>1, <1>2, PTL DEF SysSpec, Spec

(* An Edge that admits windows to a route admits them to the canonical     *)
(* one, through late, repeated and concurrent requests, callers that give  *)
(* up and crashes of the Edge (casSwapBinding, resume_route,               *)
(* finish_route_recovery); and every variable keeps its type.              *)
THEOREM RolloutIsSound == ASSUME DeadlinesLast PROVE SysSpec => []RolloutInv
<1>1. SysInit => SysInv
  BY SysInitInv
<1>2. SysInv /\ [SysNext]_sysvars => SysInv'
  BY SysStep
<1>3. SysInv => RolloutInv
  <2> SUFFICES ASSUME SysInv PROVE RolloutInv
    OBVIOUS
  <2>1. SysTypeOK
    BY DEF SysInv, ControlTypeOK, RouteInv, SysTypeOK, BindingType, PoolType
  <2>2. ActiveIsCanonical
    <3> SUFFICES ASSUME Up, rstate = "active"
                 PROVE  Current = [gen |-> route.gen, epoch |-> route.epoch]
      BY DEF ActiveIsCanonical
    <3>1. EdgeInv /\ route = journal.route
      BY DEF SysInv, CanonInv, RouteInv, ActiveRouter, RouterOnRoute
    <3>2. journal.route.epoch = binding.epoch /\ journal.route.gen = binding.gen
      BY <3>1 DEF EdgeInv
    <3> QED BY <3>1, <3>2 DEF Current
  <2> QED BY <2>1, <2>2 DEF RolloutInv
<1> QED BY <1>1, <1>2, <1>3, PTL DEF SysSpec

(* The canonical binding moves only while nothing of the route it leaves   *)
(* is pending on the Edge (Rollout, ReconcileOperation, casSwapBinding).   *)
THEOREM BindingMovesOverDrained == ASSUME DeadlinesLast PROVE SysSpec => BindingMovesDrained
<1>1. SysInit => SysInv
  BY SysInitInv
<1>2. SysInv /\ [SysNext]_sysvars => SysInv' /\ [Current' # Current => Drained]_sysvars
  BY SysStep
<1> QED BY <1>1, <1>2, PTL DEF SysSpec, BindingMovesDrained

(* Under a rollout, too, every pending record is on the route that a       *)
(* restart restores, no window behind the source checkpoint is lost, and   *)
(* a window that no crash opened again has at most one Event.              *)
THEOREM EdgeUnderRollout ==
    ASSUME DeadlinesLast PROVE SysSpec => [](RouteSound /\ NothingLost /\ OneEvent)
BY EdgeRefined, RouteIsSound, NothingIsLost, EventIsOnce, PTL
=============================================================================
