--------------------------- MODULE TelemetryProofs ---------------------------
(***************************************************************************)
(* Proofs about module Telemetry: the source WAL can always be replayed,   *)
(* no packet is lost or counted twice, and no checkpoint drops a digest    *)
(* hint that is not acknowledged, for any number of packets, flips,        *)
(* incarnations, hints and windows.                                        *)
(***************************************************************************)
EXTENDS Telemetry, SequenceTheorems, WellFoundedInduction, TLAPS

(* A non-empty set of naturals has a least element.  (The library's least- *)
(* number principle takes an operator; this one takes a set.)              *)
LEMMA LeastNat ==
    ASSUME NEW T, T \subseteq Nat, T # {}
    PROVE  \E x \in T : \A y \in T : x <= y
<1> DEFINE Less == {p \in Nat \X Nat : p[1] < p[2]}
<1>1. IsWellFoundedOn(Less, Nat)
  BY NatLessThanWellFounded DEF OpToRel
<1>2. PICK x \in T : \A y \in T : ~(<<y, x>> \in Less)
  <2> HIDE DEF Less
  <2> QED BY <1>1, WFMin
<1>3. \A y \in T : ~(y < x)
  BY <1>2
<1> QED BY <1>3

(* A non-empty set of naturals up to n has a greatest element. *)
LEMMA GreatestUpTo ==
    ASSUME NEW n \in Nat, NEW T, T \subseteq 0..n, T # {}
    PROVE  \E x \in T : \A y \in T : y <= x
<1> DEFINE D == {k \in 0..n : n - k \in T}
<1>1. D \subseteq Nat /\ D # {}
  <2>1. PICK x \in T : TRUE
    OBVIOUS
  <2>2. n - x \in D
    <3>1. n - x \in 0..n /\ n - (n - x) = x
      BY <2>1
    <3> QED BY <2>1, <3>1
  <2>3. D \subseteq Nat
    OBVIOUS
  <2> HIDE DEF D
  <2> QED BY <2>2, <2>3
<1>2. PICK d \in D : \A y \in D : d <= y
  <2> HIDE DEF D
  <2> QED BY <1>1, LeastNat
<1>3. n - d \in T /\ d \in 0..n
  BY <1>2
<1>4. ASSUME NEW y \in T PROVE y <= n - d
  <2>1. n - y \in D
    OBVIOUS
  <2> QED BY <2>1, <1>2, <1>3
<1> QED BY <1>3, <1>4
-----------------------------------------------------------------------------

-----------------------------------------------------------------------------
(* What the source WAL looks like.  Position i of l has sequence c + i.    *)

Later == FreezeStages \ {"BankFreezeStarted"}

(* An operation is named by the sequence of its first record. *)
StartsAt(c, l) ==
    \A i \in Freezes(l) : l[i].op = c + i /\ l[i].rec \in Recovery /\ l[i].rec.op = l[i].op

(* A later stage follows its operation's first record and no finalization  *)
(* of it.                                                                  *)
InOrder(c, l) ==
    \A k \in DOMAIN l : l[k].stage \in Later =>
        /\ l[k].op - c \in Freezes(l) /\ l[k].op - c < k
        /\ \A j \in DOMAIN l : (j < k /\ l[j].stage = "SnapshotFinalized") => l[j].op # l[k].op

(* An operation begins after the one before it is finalized. *)
OneAtATime(l) ==
    \A i, k \in Freezes(l) : k < i =>
        \E j \in DOMAIN l : k < j /\ j < i /\ l[j].stage = "SnapshotFinalized" /\ l[j].op = l[k].op

(* A record of stage s has one of stage t of its operation before it. *)
After(l, s, t) ==
    \A k \in DOMAIN l : l[k].stage = s =>
        \E j \in DOMAIN l : j < k /\ l[j].stage = t /\ l[j].op = l[k].op
Preceded(l) ==
    /\ After(l, "SnapshotFinalized", "ClearCompleted")
    /\ After(l, "ClearCompleted", "SnapshotDurable")
    /\ After(l, "SnapshotDurable", "BankFrozen")

(* The durable snapshot of an operation is one, however often it is taken. *)
SnapsAgree(l) ==
    /\ \A k \in DOMAIN l : l[k].stage \in {"SnapshotDurable", "SnapshotFinalized"} =>
          l[k].rec \in Recovery /\ l[k].rec.snap \in Snapshot
    /\ \A j, k \in DOMAIN l :
          (l[j].stage = "SnapshotDurable" /\ l[k].stage = "SnapshotDurable" /\ l[j].op = l[k].op)
             => l[j].rec.snap = l[k].rec.snap

Shape(c, l) ==
    StartsAt(c, l) /\ InOrder(c, l) /\ OneAtATime(l) /\ Preceded(l) /\ SnapsAgree(l)

-----------------------------------------------------------------------------
(* Sequences *)

(* l followed by one record. *)
Grown(l, r, m) ==
    /\ Len(l) \in Nat /\ DOMAIN l = 1..Len(l) /\ Len(m) = Len(l) + 1
    /\ DOMAIN m = 1..(Len(l) + 1)
    /\ \A k \in 1..Len(l) : m[k] = l[k]
    /\ m[Len(l) + 1] = r

(* l without its first p records. *)
Shifted(l, p, m) ==
    /\ Len(l) \in Nat /\ DOMAIN l = 1..Len(l) /\ p \in 1..Len(l) /\ Len(m) = Len(l) - p
    /\ DOMAIN m = 1..(Len(l) - p)
    /\ \A k \in 1..(Len(l) - p) : m[k] = l[p + k]

(* Append adds one record behind the others. *)
LEMMA AppendGrows ==
    ASSUME NEW S, NEW l \in Seq(S), NEW r \in S
    PROVE  Append(l, r) \in Seq(S) /\ Grown(l, r, Append(l, r))
BY DEF Grown

(* SubSeq to the end drops the first p records. *)
LEMMA SubSeqShifts ==
    ASSUME NEW S, NEW l \in Seq(S), NEW p \in 1..Len(l)
    PROVE  /\ SubSeq(l, p + 1, Len(l)) \in Seq(S)
           /\ Shifted(l, p, SubSeq(l, p + 1, Len(l)))
<1>1. Len(l) \in Nat /\ DOMAIN l = 1..Len(l) /\ p \in Nat
  OBVIOUS
<1> DEFINE m == SubSeq(l, p + 1, Len(l))
<1>2. m = [i \in 1..(Len(l) - p) |-> l[p + i]]
  BY <1>1
<1>3. \A i \in 1..(Len(l) - p) : l[p + i] \in S
  BY <1>1
<1>4. m \in Seq(S) /\ Len(m) = Len(l) - p
  <2> HIDE DEF m
  <2> QED BY <1>1, <1>2, <1>3
<1> HIDE DEF m
<1>5. Shifted(l, p, m)
  BY <1>1, <1>2, <1>4 DEF Shifted
<1> QED BY <1>4, <1>5 DEF m

(* A prefix keeps the records it has. *)
LEMMA PrefixKeeps ==
    ASSUME NEW S, NEW l \in Seq(S), NEW k \in 1..Len(l)
    PROVE  /\ DOMAIN SubSeq(l, 1, k - 1) = 1..(k - 1)
           /\ \A i \in 1..(k - 1) : SubSeq(l, 1, k - 1)[i] = l[i]
<1>1. Len(l) \in Nat /\ k \in Nat
  OBVIOUS
<1>2. SubSeq(l, 1, k - 1) = [i \in 1..(k - 1) |-> l[i]]
  BY <1>1
<1> QED BY <1>2

-----------------------------------------------------------------------------
(* A log of that shape can be replayed. *)

(* A log of that shape never meets an overlapping operation, a stage       *)
(* without its operation or a finalization before the clear.               *)
LEMMA ShapeReplays ==
    ASSUME NEW c \in Nat, NEW l \in Seq(Record), Shape(c, l)
    PROVE  StagesFit(l)
<1>1. DOMAIN l = 1..Len(l) /\ Len(l) \in Nat
  OBVIOUS
<1> SUFFICES ASSUME NEW k \in DOMAIN l PROVE StageFits(l, k)
  BY DEF StagesFit
<1> DEFINE l0 == SubSeq(l, 1, k - 1)
<1>2. DOMAIN l0 = 1..(k - 1) /\ (\A i \in 1..(k - 1) : l0[i] = l[i]) /\ k \in Nat
  BY <1>1, PrefixKeeps
<1> HIDE DEF l0
<1>3. ASSUME l[k].stage = "BankFreezeStarted"
      PROVE  OpenOps(l0) = {}
  <2> SUFFICES ASSUME NEW i \in Freezes(l0) PROVE Done(l0, i)
    BY DEF OpenOps
  <2>1. i \in Freezes(l) /\ k \in Freezes(l) /\ i < k /\ l0[i] = l[i] /\ k \in Nat /\ i \in Nat
    BY <1>1, <1>2, <1>3 DEF Freezes
  <2>2. PICK j \in DOMAIN l : i < j /\ j < k /\ l[j].stage = "SnapshotFinalized" /\ l[j].op = l[i].op
    BY <2>1 DEF Shape, OneAtATime
  <2>3. j \in 1..(k - 1) /\ l0[j] = l[j]
    BY <1>1, <1>2, <2>2
  <2> QED BY <1>2, <2>1, <2>2, <2>3 DEF Done
<1>4. ASSUME l[k].stage \in Later
      PROVE  \E i \in OpenOps(l0) :
                /\ l[i].op = l[k].op /\ l0[i] = l[i]
                /\ l[k].stage = "SnapshotFinalized" => HasStage(l0, i, "ClearCompleted")
  <2> DEFINE i == l[k].op - c
  <2>1. /\ i \in Freezes(l) /\ i < k
        /\ \A j \in DOMAIN l : (j < k /\ l[j].stage = "SnapshotFinalized") => l[j].op # l[k].op
    BY <1>4 DEF Shape, InOrder
  <2>2. i \in DOMAIN l /\ l[i].op = c + i /\ l[i].stage = "BankFreezeStarted"
    BY <2>1 DEF Freezes, Shape, StartsAt
  <2>3. l[k].op \in Nat
    <3>1. l[k] \in Record
      BY <1>1
    <3> QED BY <3>1 DEF Record
  <2>4. l[i].op = l[k].op
    BY <2>2, <2>3
  <2>5. i \in 1..(k - 1)
    BY <1>1, <1>2, <2>1, <2>2
  <2> HIDE DEF i
  <2>6. i \in Freezes(l0) /\ l0[i] = l[i]
    BY <1>2, <2>2, <2>5 DEF Freezes
  <2>7. ~Done(l0, i)
    <3> SUFFICES ASSUME NEW j \in DOMAIN l0, j > i, l0[j].stage = "SnapshotFinalized", l0[j].op = l0[i].op
                 PROVE  FALSE
      BY DEF Done
    <3>1. j \in DOMAIN l /\ j < k /\ l0[j] = l[j]
      BY <1>1, <1>2
    <3> QED BY <2>1, <2>4, <2>6, <3>1
  <2>8. ASSUME l[k].stage = "SnapshotFinalized" PROVE HasStage(l0, i, "ClearCompleted")
    <3>1. PICK j \in DOMAIN l : j < k /\ l[j].stage = "ClearCompleted" /\ l[j].op = l[k].op
      BY <2>8 DEF Shape, Preceded, After
    <3>2. j \in DOMAIN l0 /\ l0[j] = l[j]
      BY <1>1, <1>2, <3>1
    <3> QED BY <2>4, <2>6, <3>1, <3>2 DEF HasStage
  <2> QED BY <2>4, <2>6, <2>7, <2>8 DEF OpenOps
<1> QED BY <1>3, <1>4 DEF StageFits, Later, l0

-----------------------------------------------------------------------------
(* One more record *)

(* An operation that is open has no finalization at all. *)
LEMMA OpenIsUnfinished ==
    ASSUME NEW c \in Nat, NEW l \in Seq(Record), Shape(c, l), NEW i \in OpenOps(l)
    PROVE  /\ i \in Freezes(l) /\ i \in DOMAIN l /\ l[i].op = c + i
           /\ \A j \in DOMAIN l : l[j].stage = "SnapshotFinalized" => l[j].op # c + i
<1>1. i \in Freezes(l) /\ ~Done(l, i) /\ i \in DOMAIN l
  BY DEF OpenOps, Freezes
<1>2. l[i].op = c + i
  BY <1>1 DEF Shape, StartsAt
<1>3. ASSUME NEW j \in DOMAIN l, l[j].stage = "SnapshotFinalized", l[j].op = c + i
      PROVE  FALSE
  <2>1. l[j].op - c < j
    BY <1>3 DEF Shape, InOrder, Later, FreezeStages
  <2>2. j > i
    <3>1. DOMAIN l = 1..Len(l) /\ Len(l) \in Nat
      OBVIOUS
    <3> QED BY <1>1, <1>3, <2>1, <3>1
  <2> QED BY <1>1, <1>2, <1>3, <2>2 DEF Done
<1> QED BY <1>1, <1>2, <1>3

(* What may follow l: the first record of an operation when none is open,  *)
(* or the next stage of the open one, or a digest record.                  *)
Begins(c, l, r) ==
    /\ r.stage = "BankFreezeStarted" /\ OpenOps(l) = {}
    /\ r.op = c + Len(l) + 1 /\ r.rec \in Recovery /\ r.rec.op = r.op
Continues(c, l, r, i) ==
    /\ r.stage \in Later /\ i \in OpenOps(l) /\ r.op = c + i
    /\ r.stage = "SnapshotFinalized" => HasStage(l, i, "ClearCompleted")
    /\ r.stage = "ClearCompleted" => HasStage(l, i, "SnapshotDurable")
    /\ r.stage = "SnapshotDurable" => HasStage(l, i, "BankFrozen") /\ ~HasStage(l, i, "SnapshotDurable")
    /\ r.stage \in {"SnapshotDurable", "SnapshotFinalized"} =>
          r.rec \in Recovery /\ r.rec.snap \in Snapshot
Aside(r) == r.stage \in HintStages

(* A record that may follow keeps the shape. *)
LEMMA GrowKeepsShape ==
    ASSUME NEW c \in Nat, NEW l \in Seq(Record), NEW r \in Record, NEW m, Grown(l, r, m),
           Shape(c, l),
           Begins(c, l, r) \/ (\E i \in OpenOps(l) : Continues(c, l, r, i)) \/ Aside(r)
    PROVE  Shape(c, m)
<1> DEFINE n == Len(l) + 1
<1>1. /\ Len(l) \in Nat /\ DOMAIN l = 1..Len(l) /\ n \in Nat /\ DOMAIN m = 1..n
      /\ \A k \in DOMAIN l : k \in DOMAIN m /\ m[k] = l[k] /\ k < n /\ k \in Nat
      /\ \A k \in DOMAIN m : k \in DOMAIN l \/ k = n
      /\ n \in DOMAIN m /\ m[n] = r /\ n \notin DOMAIN l
  BY DEF Grown
<1> HIDE DEF n
<1>2. /\ \A i \in Freezes(l) : i \in Freezes(m)
      /\ \A i \in Freezes(m) : i \in Freezes(l) \/ (i = n /\ r.stage = "BankFreezeStarted")
  BY <1>1 DEF Freezes
<1>3. StartsAt(c, m)
  <2> SUFFICES ASSUME NEW i \in Freezes(m)
               PROVE  m[i].op = c + i /\ m[i].rec \in Recovery /\ m[i].rec.op = m[i].op
    BY DEF StartsAt
  <2>1. CASE i \in Freezes(l)
    <3>1. l[i].op = c + i /\ l[i].rec \in Recovery /\ l[i].rec.op = l[i].op /\ m[i] = l[i]
      BY <1>1, <2>1 DEF Shape, StartsAt, Freezes
    <3> QED BY <3>1
  <2>2. CASE i = n /\ r.stage = "BankFreezeStarted"
    <3>1. Begins(c, l, r)
      BY <2>2 DEF Continues, Aside, Later, HintStages
    <3> QED BY <1>1, <2>2, <3>1 DEF Begins, n
  <2> QED BY <1>2, <2>1, <2>2
<1>4. InOrder(c, m)
  <2> SUFFICES ASSUME NEW k \in DOMAIN m, m[k].stage \in Later
               PROVE  /\ m[k].op - c \in Freezes(m) /\ m[k].op - c < k
                      /\ \A j \in DOMAIN m : (j < k /\ m[j].stage = "SnapshotFinalized") => m[j].op # m[k].op
    BY DEF InOrder
  <2>1. CASE k \in DOMAIN l
    <3>1. m[k] = l[k] /\ l[k].stage \in Later
      BY <1>1, <2>1
    <3>2. /\ l[k].op - c \in Freezes(l) /\ l[k].op - c < k
          /\ \A j \in DOMAIN l : (j < k /\ l[j].stage = "SnapshotFinalized") => l[j].op # l[k].op
      BY <2>1, <3>1 DEF Shape, InOrder
    <3>3. \A j \in DOMAIN m : j < k => j \in DOMAIN l /\ m[j] = l[j]
      BY <1>1, <2>1
    <3> QED BY <1>2, <3>1, <3>2, <3>3
  <2>2. CASE k = n
    <3>1. PICK i \in OpenOps(l) : Continues(c, l, r, i)
      BY <1>1, <2>2 DEF Begins, Aside, Later, HintStages, FreezeStages
    <3>2. /\ i \in Freezes(l) /\ i \in DOMAIN l /\ l[i].op = c + i
          /\ \A j \in DOMAIN l : l[j].stage = "SnapshotFinalized" => l[j].op # c + i
      BY OpenIsUnfinished
    <3>3. m[k] = r /\ r.op = c + i /\ i \in Nat
      BY <1>1, <2>2, <3>1, <3>2 DEF Continues
    <3>4. r.op - c = i
      BY <3>3
    <3>5. \A j \in DOMAIN m : j < k => j \in DOMAIN l /\ m[j] = l[j]
      BY <1>1, <2>2
    <3> QED BY <1>1, <1>2, <2>2, <3>2, <3>3, <3>4, <3>5
  <2> QED BY <1>1, <2>1, <2>2
<1>5. OneAtATime(m)
  <2> SUFFICES ASSUME NEW i \in Freezes(m), NEW k \in Freezes(m), k < i
               PROVE  \E j \in DOMAIN m : k < j /\ j < i /\ m[j].stage = "SnapshotFinalized" /\ m[j].op = m[k].op
    BY DEF OneAtATime
  <2>1. k \in Freezes(l) /\ k \in DOMAIN l /\ m[k] = l[k]
    <3>1. k # n
      BY <1>1 DEF Freezes
    <3> QED BY <1>1, <1>2, <3>1 DEF Freezes
  <2>2. CASE i \in Freezes(l)
    <3>1. PICK j \in DOMAIN l : k < j /\ j < i /\ l[j].stage = "SnapshotFinalized" /\ l[j].op = l[k].op
      BY <2>1, <2>2 DEF Shape, OneAtATime
    <3> QED BY <1>1, <2>1, <3>1
  <2>3. CASE i = n /\ r.stage = "BankFreezeStarted"
    <3>1. OpenOps(l) = {}
      BY <2>3 DEF Begins, Continues, Aside, Later, HintStages
    <3>2. PICK j \in DOMAIN l : j > k /\ l[j].stage = "SnapshotFinalized" /\ l[j].op = l[k].op
      BY <2>1, <3>1 DEF OpenOps, Done
    <3> QED BY <1>1, <2>1, <2>3, <3>2
  <2> QED BY <1>2, <2>2, <2>3
<1>6. ASSUME NEW s, NEW t, After(l, s, t), r.stage = s => \E j \in DOMAIN l : l[j].stage = t /\ l[j].op = r.op
      PROVE  After(m, s, t)
  <2> SUFFICES ASSUME NEW k \in DOMAIN m, m[k].stage = s
               PROVE  \E j \in DOMAIN m : j < k /\ m[j].stage = t /\ m[j].op = m[k].op
    BY DEF After
  <2>1. CASE k \in DOMAIN l
    <3>1. PICK j \in DOMAIN l : j < k /\ l[j].stage = t /\ l[j].op = l[k].op
      BY <1>1, <1>6, <2>1 DEF After
    <3> QED BY <1>1, <2>1, <3>1
  <2>2. CASE k = n
    <3>1. PICK j \in DOMAIN l : l[j].stage = t /\ l[j].op = r.op
      BY <1>1, <1>6, <2>2
    <3> QED BY <1>1, <2>2, <3>1
  <2> QED BY <1>1, <2>1, <2>2
<1>7. Preceded(m)
  <2>1. CASE \E i \in OpenOps(l) : Continues(c, l, r, i)
    <3>1. PICK i \in OpenOps(l) : Continues(c, l, r, i)
      BY <2>1
    <3>2. l[i].op = c + i /\ r.op = c + i
      BY <3>1, OpenIsUnfinished DEF Continues
    <3>3. /\ r.stage = "SnapshotFinalized" => \E j \in DOMAIN l : l[j].stage = "ClearCompleted" /\ l[j].op = r.op
          /\ r.stage = "ClearCompleted" => \E j \in DOMAIN l : l[j].stage = "SnapshotDurable" /\ l[j].op = r.op
          /\ r.stage = "SnapshotDurable" => \E j \in DOMAIN l : l[j].stage = "BankFrozen" /\ l[j].op = r.op
      BY <3>1, <3>2 DEF Continues, HasStage
    <3>4. /\ After(l, "SnapshotFinalized", "ClearCompleted") /\ After(l, "ClearCompleted", "SnapshotDurable")
          /\ After(l, "SnapshotDurable", "BankFrozen")
      BY DEF Shape, Preceded
    <3> QED BY <1>6, <3>3, <3>4 DEF Preceded
  <2>2. CASE Begins(c, l, r) \/ Aside(r)
    <3>1. r.stage \notin {"SnapshotFinalized", "ClearCompleted", "SnapshotDurable"}
      BY <2>2 DEF Begins, Aside, HintStages
    <3>4. /\ After(l, "SnapshotFinalized", "ClearCompleted") /\ After(l, "ClearCompleted", "SnapshotDurable")
          /\ After(l, "SnapshotDurable", "BankFrozen")
      BY DEF Shape, Preceded
    <3> QED BY <1>6, <3>1, <3>4 DEF Preceded
  <2> QED BY <2>1, <2>2
<1>8. SnapsAgree(m)
  <2>1. r.stage \in {"SnapshotDurable", "SnapshotFinalized"} => r.rec \in Recovery /\ r.rec.snap \in Snapshot
    BY DEF Begins, Continues, Aside, HintStages
  <2>2. ASSUME r.stage = "SnapshotDurable", NEW j \in DOMAIN l, l[j].stage = "SnapshotDurable", l[j].op = r.op
        PROVE  FALSE
    <3>1. PICK i \in OpenOps(l) : Continues(c, l, r, i)
      BY <2>2 DEF Begins, Aside, HintStages
    <3>2. l[i].op = c + i
      BY OpenIsUnfinished
    <3> QED BY <2>2, <3>1, <3>2 DEF Continues, HasStage
  <2>3. \A k \in DOMAIN m : m[k].stage \in {"SnapshotDurable", "SnapshotFinalized"} =>
            m[k].rec \in Recovery /\ m[k].rec.snap \in Snapshot
    BY <1>1, <2>1 DEF Shape, SnapsAgree
  <2>4. ASSUME NEW j \in DOMAIN m, NEW k \in DOMAIN m, m[j].stage = "SnapshotDurable",
               m[k].stage = "SnapshotDurable", m[j].op = m[k].op
        PROVE  m[j].rec.snap = m[k].rec.snap
    <3>1. CASE j \in DOMAIN l /\ k \in DOMAIN l
      BY <1>1, <2>4, <3>1 DEF Shape, SnapsAgree
    <3>2. CASE j = n /\ k = n
      BY <3>2
    <3>3. CASE j = n /\ k \in DOMAIN l
      BY <1>1, <2>2, <2>4, <3>3
    <3>4. CASE k = n /\ j \in DOMAIN l
      BY <1>1, <2>2, <2>4, <3>4
    <3> QED BY <1>1, <3>1, <3>2, <3>3, <3>4
  <2> QED BY <2>3, <2>4 DEF SnapsAgree
<1> QED BY <1>3, <1>4, <1>5, <1>7, <1>8 DEF Shape

(* The stages of operation i once r follows. *)
LEMMA GrowStages ==
    ASSUME NEW l, NEW r, NEW m, Grown(l, r, m), NEW i \in DOMAIN l, NEW s
    PROVE  HasStage(m, i, s) <=> (HasStage(l, i, s) \/ (r.stage = s /\ r.op = l[i].op))
<1> DEFINE n == Len(l) + 1
<1>1. /\ \A k \in DOMAIN l : k \in DOMAIN m /\ m[k] = l[k]
      /\ \A k \in DOMAIN m : k \in DOMAIN l \/ k = n
      /\ n \in DOMAIN m /\ m[n] = r
  BY DEF Grown
<1> QED BY <1>1 DEF HasStage

(* The first record of an operation opens it, without any later stage. *)
LEMMA BeginOpens ==
    ASSUME NEW c \in Nat, NEW l \in Seq(Record), NEW r \in Record, NEW m, Grown(l, r, m),
           Shape(c, l), Begins(c, l, r)
    PROVE  /\ OpenOps(m) = {Len(l) + 1}
           /\ \A s \in Later : ~HasStage(m, Len(l) + 1, s)
           /\ m[Len(l) + 1] = r
<1> DEFINE n == Len(l) + 1
<1>1. /\ Len(l) \in Nat /\ DOMAIN l = 1..Len(l) /\ n \in Nat /\ DOMAIN m = 1..n
      /\ \A k \in DOMAIN l : k \in DOMAIN m /\ m[k] = l[k] /\ k < n /\ k \in Nat
      /\ \A k \in DOMAIN m : k \in DOMAIN l \/ k = n
      /\ n \in DOMAIN m /\ m[n] = r /\ n \notin DOMAIN l /\ r.op = c + n
  BY DEF Grown, Begins
<1> HIDE DEF n
<1>2. \A j \in DOMAIN m : m[j].stage \in Later => m[j].op # c + n
  <2> SUFFICES ASSUME NEW j \in DOMAIN m, m[j].stage \in Later, m[j].op = c + n PROVE FALSE
    OBVIOUS
  <2>1. j \in DOMAIN l /\ m[j] = l[j]
    <3>1. r.stage \notin Later
      BY DEF Begins, Later
    <3> QED BY <1>1, <3>1
  <2>2. l[j].op - c < j /\ j < n
    BY <1>1, <2>1 DEF Shape, InOrder
  <2> QED BY <1>1, <2>1, <2>2
<1>3. n \in OpenOps(m)
  <2>1. n \in Freezes(m)
    BY <1>1 DEF Freezes, Begins
  <2>2. ~Done(m, n)
    BY <1>1, <1>2 DEF Done, Later, FreezeStages
  <2> QED BY <2>1, <2>2 DEF OpenOps
<1>4. ASSUME NEW i \in OpenOps(m), i # n PROVE FALSE
  <2>1. i \in DOMAIN l /\ i \in Freezes(l) /\ m[i] = l[i]
    BY <1>1, <1>4 DEF OpenOps, Freezes
  <2>2. Done(l, i)
    BY <2>1 DEF Begins, OpenOps
  <2>3. Done(m, i)
    BY <1>1, <2>1, <2>2 DEF Done
  <2> QED BY <1>4, <2>3 DEF OpenOps
<1>5. \A s \in Later : ~HasStage(m, n, s)
  BY <1>1, <1>2 DEF HasStage
<1> QED BY <1>1, <1>3, <1>4, <1>5 DEF n

(* The finalization of the open operation leaves none open. *)
LEMMA FinalCloses ==
    ASSUME NEW c \in Nat, NEW l \in Seq(Record), NEW r \in Record, NEW m, Grown(l, r, m),
           Shape(c, l), NEW i, OpenOps(l) = {i}, r.stage = "SnapshotFinalized", r.op = c + i
    PROVE  OpenOps(m) = {}
<1> DEFINE n == Len(l) + 1
<1>1. /\ \A k \in DOMAIN l : k \in DOMAIN m /\ m[k] = l[k] /\ k < n
      /\ \A k \in DOMAIN m : k \in DOMAIN l \/ k = n
      /\ n \in DOMAIN m /\ m[n] = r
  BY DEF Grown
<1>2. i \in DOMAIN l /\ l[i].op = c + i
  BY OpenIsUnfinished
<1> HIDE DEF n
<1> SUFFICES ASSUME NEW k \in OpenOps(m) PROVE FALSE
  OBVIOUS
<1>3. k \in DOMAIN l /\ k \in Freezes(l) /\ m[k] = l[k]
  BY <1>1 DEF OpenOps, Freezes
<1>4. ~Done(l, k)
  BY <1>1, <1>3 DEF OpenOps, Done
<1>5. k = i
  BY <1>3, <1>4 DEF OpenOps
<1>6. Done(m, k)
  BY <1>1, <1>2, <1>3, <1>5 DEF Done
<1> QED BY <1>6 DEF OpenOps

(* Any other record leaves the open operations as they are. *)
LEMMA OtherKeepsOpen ==
    ASSUME NEW l, NEW r, NEW m, Grown(l, r, m),
           r.stage \notin {"BankFreezeStarted", "SnapshotFinalized"}
    PROVE  OpenOps(m) = OpenOps(l)
<1> DEFINE n == Len(l) + 1
<1>1. /\ \A k \in DOMAIN l : k \in DOMAIN m /\ m[k] = l[k] /\ k < n
      /\ \A k \in DOMAIN m : k \in DOMAIN l \/ k = n
      /\ n \in DOMAIN m /\ m[n] = r
  BY DEF Grown
<1> HIDE DEF n
<1>2. Freezes(m) = Freezes(l)
  BY <1>1 DEF Freezes
<1>3. \A i \in Freezes(l) : Done(m, i) <=> Done(l, i)
  BY <1>1 DEF Done, Freezes
<1> QED BY <1>2, <1>3 DEF OpenOps

-----------------------------------------------------------------------------
(* A checkpoint at a finalization *)

(* What follows the finalization at p belongs to operations that began     *)
(* behind p, and an operation that is open began behind p too.             *)
LEMMA BehindFinal ==
    ASSUME NEW c \in Nat, NEW l \in Seq(Record), Shape(c, l), NEW p \in Finals(l)
    PROVE  /\ \A k \in DOMAIN l : (k > p /\ l[k].stage \in Later) => l[k].op - c > p
           /\ \A i \in OpenOps(l) : i > p
<1>1. /\ DOMAIN l = 1..Len(l) /\ Len(l) \in Nat /\ p \in DOMAIN l /\ p \in Nat
      /\ l[p].stage = "SnapshotFinalized"
      /\ \A k \in DOMAIN l : k \in Nat /\ l[k].op \in Nat
  <2>1. DOMAIN l = 1..Len(l) /\ Len(l) \in Nat /\ \A k \in DOMAIN l : l[k] \in Record
    OBVIOUS
  <2> QED BY <2>1 DEF Finals, Record
<1> DEFINE q == l[p].op - c
<1>2. /\ q \in Freezes(l) /\ q < p /\ q \in Nat /\ l[p].op = c + q
      /\ \A j \in DOMAIN l : (j < p /\ l[j].stage = "SnapshotFinalized") => l[j].op # l[p].op
  <2>1. /\ q \in Freezes(l) /\ q < p
        /\ \A j \in DOMAIN l : (j < p /\ l[j].stage = "SnapshotFinalized") => l[j].op # l[p].op
    BY <1>1 DEF Shape, InOrder, Later, FreezeStages
  <2>2. q \in DOMAIN l
    BY <2>1 DEF Freezes
  <2> QED BY <1>1, <2>1, <2>2
<1> HIDE DEF q
<1>3. \A i \in Freezes(l) : l[i].op = c + i /\ i \in Nat /\ i # p /\ i \in DOMAIN l
  BY <1>1 DEF Shape, StartsAt, Freezes
<1>4. ASSUME NEW i \in Freezes(l), i < p
      PROVE  \E j \in DOMAIN l : i < j /\ j <= p /\ l[j].stage = "SnapshotFinalized" /\ l[j].op = c + i
  <2>1. CASE i = q
    BY <1>1, <1>2, <2>1
  <2>2. CASE i < q
    <3>1. PICK j \in DOMAIN l : i < j /\ j < q /\ l[j].stage = "SnapshotFinalized" /\ l[j].op = l[i].op
      BY <1>2, <2>2 DEF Shape, OneAtATime
    <3>2. l[i].op = c + i /\ i \in Nat
      BY <1>3
    <3>3. j \in Nat /\ j <= p
      BY <1>1, <1>2, <3>1
    <3> QED BY <3>1, <3>2, <3>3
  <2>3. CASE q < i
    <3>1. PICK j \in DOMAIN l : q < j /\ j < i /\ l[j].stage = "SnapshotFinalized" /\ l[j].op = l[q].op
      BY <1>2, <2>3 DEF Shape, OneAtATime
    <3>2. l[q].op = c + q /\ i \in Nat
      BY <1>2, <1>3
    <3>4. j \in Nat /\ j < p
      BY <1>1, <1>4, <3>1, <3>2
    <3> QED BY <1>2, <3>1, <3>2, <3>4
  <2> QED BY <1>2, <1>3, <2>1, <2>2, <2>3
<1>5. ASSUME NEW k \in DOMAIN l, k > p, l[k].stage \in Later
      PROVE  l[k].op - c > p
  <2> DEFINE i == l[k].op - c
  <2>1. /\ i \in Freezes(l) /\ l[k].op = c + i /\ i \in Nat /\ i # p
        /\ \A j \in DOMAIN l : (j < k /\ l[j].stage = "SnapshotFinalized") => l[j].op # l[k].op
    <3>1. /\ i \in Freezes(l)
          /\ \A j \in DOMAIN l : (j < k /\ l[j].stage = "SnapshotFinalized") => l[j].op # l[k].op
      BY <1>5 DEF Shape, InOrder
    <3> QED BY <1>1, <1>3, <3>1
  <2> HIDE DEF i
  <2>2. ~(i < p)
    <3> SUFFICES ASSUME i < p PROVE FALSE
      OBVIOUS
    <3>1. PICK j \in DOMAIN l : i < j /\ j <= p /\ l[j].stage = "SnapshotFinalized" /\ l[j].op = c + i
      BY <1>4, <2>1
    <3>2. j < k
      BY <1>1, <1>5, <3>1
    <3> QED BY <2>1, <3>1, <3>2
  <2>3. i > p
    BY <1>1, <2>1, <2>2
  <2> QED BY <2>3 DEF i
<1>6. ASSUME NEW i \in OpenOps(l) PROVE i > p
  <2>1. i \in Freezes(l) /\ ~Done(l, i)
    BY DEF OpenOps
  <2>2. ~(i < p)
    <3> SUFFICES ASSUME i < p PROVE FALSE
      OBVIOUS
    <3>1. PICK j \in DOMAIN l : i < j /\ j <= p /\ l[j].stage = "SnapshotFinalized" /\ l[j].op = c + i
      BY <1>4, <2>1
    <3> QED BY <1>3, <2>1, <3>1 DEF Done
  <2> QED BY <1>1, <1>3, <2>1, <2>2
<1> QED BY <1>5, <1>6

(* The records behind a finalization have the shape, and the operation     *)
(* that is open among them is the one that was, with all its stages.       *)
LEMMA CutKeepsShape ==
    ASSUME NEW c \in Nat, NEW l \in Seq(Record), Shape(c, l), NEW p \in Finals(l),
           NEW m \in Seq(Record), Shifted(l, p, m)
    PROVE  /\ Shape(c + p, m)
           /\ \A i : i \in OpenOps(m) <=> (i \in Nat /\ p + i \in OpenOps(l))
           /\ \A i \in OpenOps(m), s \in Later : HasStage(m, i, s) <=> HasStage(l, p + i, s)
           /\ \A i \in DOMAIN m : p + i \in DOMAIN l /\ m[i] = l[p + i]
<1>1. /\ DOMAIN l = 1..Len(l) /\ Len(l) \in Nat /\ p \in Nat
      /\ \A k \in DOMAIN m : k \in Nat /\ k > 0 /\ p + k \in DOMAIN l /\ m[k] = l[p + k]
      /\ \A k \in DOMAIN l : k \in Nat /\ (k > p => k - p \in DOMAIN m /\ m[k - p] = l[k])
      /\ \A k \in DOMAIN l : l[k].op \in Nat
  <2>1. DOMAIN l = 1..Len(l) /\ Len(l) \in Nat /\ \A k \in DOMAIN l : l[k] \in Record
    OBVIOUS
  <2>2. \A k \in DOMAIN l : l[k].op \in Nat
    BY <2>1 DEF Record
  <2>3. \A k \in DOMAIN l : k > p => k - p \in DOMAIN m /\ m[k - p] = l[k]
    <3> SUFFICES ASSUME NEW k \in DOMAIN l, k > p PROVE k - p \in DOMAIN m /\ m[k - p] = l[k]
      OBVIOUS
    <3>1. k - p \in 1..(Len(l) - p) /\ p + (k - p) = k
      BY <2>1 DEF Shifted
    <3> QED BY <3>1 DEF Shifted
  <2> QED BY <2>1, <2>2, <2>3 DEF Shifted
<1>2. /\ \A k \in DOMAIN l : (k > p /\ l[k].stage \in Later) => l[k].op - c > p
      /\ \A i \in OpenOps(l) : i > p
  BY BehindFinal
<1>3. /\ \A i \in Freezes(m) : p + i \in Freezes(l)
      /\ \A i \in Freezes(l) : i > p => i - p \in Freezes(m)
  BY <1>1 DEF Freezes
<1>4. StartsAt(c + p, m)
  <2> SUFFICES ASSUME NEW i \in Freezes(m)
               PROVE  m[i].op = c + p + i /\ m[i].rec \in Recovery /\ m[i].rec.op = m[i].op
    BY DEF StartsAt
  <2>1. l[p + i].op = c + (p + i) /\ l[p + i].rec \in Recovery /\ l[p + i].rec.op = l[p + i].op
    BY <1>3 DEF Shape, StartsAt
  <2>2. m[i] = l[p + i] /\ i \in Nat
    BY <1>1 DEF Freezes
  <2> QED BY <1>1, <2>1, <2>2
<1>5. InOrder(c + p, m)
  <2> SUFFICES ASSUME NEW k \in DOMAIN m, m[k].stage \in Later
               PROVE  /\ m[k].op - (c + p) \in Freezes(m) /\ m[k].op - (c + p) < k
                      /\ \A j \in DOMAIN m : (j < k /\ m[j].stage = "SnapshotFinalized") => m[j].op # m[k].op
    BY DEF InOrder
  <2>1. m[k] = l[p + k] /\ p + k \in DOMAIN l /\ k \in Nat /\ p + k > p /\ l[p + k].op \in Nat
    BY <1>1
  <2>2. /\ l[p + k].op - c \in Freezes(l) /\ l[p + k].op - c < p + k
        /\ \A j \in DOMAIN l : (j < p + k /\ l[j].stage = "SnapshotFinalized") => l[j].op # l[p + k].op
    BY <2>1 DEF Shape, InOrder
  <2>3. l[p + k].op - c > p
    BY <1>2, <2>1
  <2>4. (l[p + k].op - c) - p = m[k].op - (c + p)
    BY <1>1, <2>1
  <2>5. m[k].op - (c + p) \in Freezes(m) /\ m[k].op - (c + p) < k
    <3>1. (l[p + k].op - c) - p \in Freezes(m)
      BY <1>3, <2>2, <2>3
    <3> QED BY <1>1, <2>1, <2>2, <2>4, <3>1
  <2>6. \A j \in DOMAIN m : (j < k /\ m[j].stage = "SnapshotFinalized") => m[j].op # m[k].op
    <3> SUFFICES ASSUME NEW j \in DOMAIN m, j < k, m[j].stage = "SnapshotFinalized"
                 PROVE  m[j].op # m[k].op
      OBVIOUS
    <3>1. m[j] = l[p + j] /\ p + j \in DOMAIN l /\ j \in Nat
      BY <1>1
    <3>2. p + j < p + k
      BY <1>1, <2>1, <3>1
    <3> QED BY <2>1, <2>2, <3>1, <3>2
  <2> QED BY <2>5, <2>6
<1>6. OneAtATime(m)
  <2> SUFFICES ASSUME NEW i \in Freezes(m), NEW k \in Freezes(m), k < i
               PROVE  \E j \in DOMAIN m : k < j /\ j < i /\ m[j].stage = "SnapshotFinalized" /\ m[j].op = m[k].op
    BY DEF OneAtATime
  <2>1. p + i \in Freezes(l) /\ p + k \in Freezes(l) /\ m[k] = l[p + k] /\ i \in Nat /\ k \in Nat
    BY <1>1, <1>3 DEF Freezes
  <2>2. p + k < p + i
    BY <1>1, <2>1
  <2>3. PICK j \in DOMAIN l : p + k < j /\ j < p + i /\ l[j].stage = "SnapshotFinalized" /\ l[j].op = l[p + k].op
    BY <2>1, <2>2 DEF Shape, OneAtATime
  <2>4. j - p \in DOMAIN m /\ m[j - p] = l[j] /\ k < j - p /\ j - p < i
    BY <1>1, <2>1, <2>3
  <2> QED BY <2>1, <2>3, <2>4
<1>7. ASSUME NEW s \in Later, NEW t \in Later, After(l, s, t)
      PROVE  After(m, s, t)
  <2> SUFFICES ASSUME NEW k \in DOMAIN m, m[k].stage = s
               PROVE  \E j \in DOMAIN m : j < k /\ m[j].stage = t /\ m[j].op = m[k].op
    BY DEF After
  <2>1. m[k] = l[p + k] /\ p + k \in DOMAIN l /\ k \in Nat /\ p + k > p
    BY <1>1
  <2>2. PICK j \in DOMAIN l : j < p + k /\ l[j].stage = t /\ l[j].op = l[p + k].op
    BY <1>7, <2>1 DEF After
  <2>3. l[j].op - c < j /\ l[j].op - c > p
    BY <1>2, <1>7, <2>1, <2>2 DEF Shape, InOrder
  <2>4. j > p
    BY <1>1, <2>3
  <2>5. j - p \in DOMAIN m /\ m[j - p] = l[j] /\ j - p < k
    BY <1>1, <2>1, <2>2, <2>4
  <2> QED BY <2>1, <2>2, <2>5
<1>8. Preceded(m)
  <2>1. /\ After(l, "SnapshotFinalized", "ClearCompleted") /\ After(l, "ClearCompleted", "SnapshotDurable")
        /\ After(l, "SnapshotDurable", "BankFrozen")
    BY DEF Shape, Preceded
  <2>2. {"SnapshotFinalized", "ClearCompleted", "SnapshotDurable", "BankFrozen"} \subseteq Later
    BY DEF Later, FreezeStages
  <2> QED BY <1>7, <2>1, <2>2 DEF Preceded
<1>9. SnapsAgree(m)
  <2>1. \A k \in DOMAIN m : m[k].stage \in {"SnapshotDurable", "SnapshotFinalized"} =>
          m[k].rec \in Recovery /\ m[k].rec.snap \in Snapshot
    BY <1>1 DEF Shape, SnapsAgree
  <2>2. ASSUME NEW j \in DOMAIN m, NEW k \in DOMAIN m, m[j].stage = "SnapshotDurable",
               m[k].stage = "SnapshotDurable", m[j].op = m[k].op
        PROVE  m[j].rec.snap = m[k].rec.snap
    <3>1. p + j \in DOMAIN l /\ m[j] = l[p + j] /\ p + k \in DOMAIN l /\ m[k] = l[p + k]
      BY <1>1
    <3> QED BY <2>2, <3>1 DEF Shape, SnapsAgree
  <2> QED BY <2>1, <2>2 DEF SnapsAgree
<1>10. ASSUME NEW i \in Nat, i \in DOMAIN m
       PROVE  Done(m, i) <=> Done(l, p + i)
  <2>1. m[i] = l[p + i] /\ i \in Nat
    BY <1>1, <1>10
  <2>2. ASSUME Done(m, i) PROVE Done(l, p + i)
    <3>1. PICK j \in DOMAIN m : j > i /\ m[j].stage = "SnapshotFinalized" /\ m[j].op = m[i].op
      BY <2>2 DEF Done
    <3>2. p + j \in DOMAIN l /\ m[j] = l[p + j] /\ p + j > p + i
      BY <1>1, <2>1, <3>1
    <3> QED BY <2>1, <3>1, <3>2 DEF Done
  <2>3. ASSUME Done(l, p + i) PROVE Done(m, i)
    <3>1. PICK j \in DOMAIN l : j > p + i /\ l[j].stage = "SnapshotFinalized" /\ l[j].op = l[p + i].op
      BY <2>3 DEF Done
    <3>2. j - p \in DOMAIN m /\ m[j - p] = l[j] /\ j - p > i
      BY <1>1, <2>1, <3>1
    <3> QED BY <2>1, <3>1, <3>2 DEF Done
  <2> QED BY <2>2, <2>3
<1>11. ASSUME NEW i PROVE i \in OpenOps(m) <=> (i \in Nat /\ p + i \in OpenOps(l))
  <2>1. ASSUME i \in OpenOps(m) PROVE i \in Nat /\ p + i \in OpenOps(l)
    <3>1. i \in Freezes(m) /\ ~Done(m, i) /\ i \in DOMAIN m
      BY <2>1 DEF OpenOps, Freezes
    <3>2. i \in Nat /\ p + i \in Freezes(l)
      BY <1>1, <1>3, <3>1
    <3> QED BY <1>10, <3>1, <3>2 DEF OpenOps
  <2>2. ASSUME i \in Nat, p + i \in OpenOps(l) PROVE i \in OpenOps(m)
    <3>1. p + i \in Freezes(l) /\ ~Done(l, p + i) /\ p + i > p
      BY <1>2, <2>2 DEF OpenOps
    <3>2. (p + i) - p \in Freezes(m) /\ (p + i) - p = i
      BY <1>1, <1>3, <2>2, <3>1
    <3>3. i \in Freezes(m) /\ i \in DOMAIN m
      BY <3>2 DEF Freezes
    <3> QED BY <1>10, <2>2, <3>1, <3>3 DEF OpenOps
  <2> QED BY <2>1, <2>2
<1>12. ASSUME NEW i \in OpenOps(m), NEW s \in Later
       PROVE  HasStage(m, i, s) <=> HasStage(l, p + i, s)
  <2>1. i \in DOMAIN m /\ m[i] = l[p + i] /\ i \in Nat
    BY <1>1 DEF OpenOps, Freezes
  <2>2. p + i \in OpenOps(l) /\ l[p + i].op = c + (p + i)
    BY <1>11, OpenIsUnfinished
  <2>3. ASSUME HasStage(l, p + i, s) PROVE HasStage(m, i, s)
    <3>1. PICK j \in DOMAIN l : l[j].stage = s /\ l[j].op = l[p + i].op
      BY <2>3 DEF HasStage
    <3>2. l[j].op - c < j
      BY <3>1 DEF Shape, InOrder
    <3>3. j > p
      BY <1>1, <2>1, <2>2, <3>1, <3>2
    <3>4. j - p \in DOMAIN m /\ m[j - p] = l[j]
      BY <1>1, <3>3
    <3> QED BY <2>1, <3>1, <3>4 DEF HasStage
  <2>4. ASSUME HasStage(m, i, s) PROVE HasStage(l, p + i, s)
    BY <1>1, <2>1, <2>4 DEF HasStage
  <2> QED BY <2>3, <2>4
<1> QED BY <1>1, <1>4, <1>5, <1>6, <1>8, <1>9, <1>11, <1>12 DEF Shape

-----------------------------------------------------------------------------
(* The operation in memory *)

(* At most one operation is open. *)
LEMMA OneIsOpen ==
    ASSUME NEW c \in Nat, NEW l \in Seq(Record), Shape(c, l),
           NEW i \in OpenOps(l), NEW k \in OpenOps(l)
    PROVE  i = k
<1>1. \A x, y \in OpenOps(l) : ~(x < y)
  <2> SUFFICES ASSUME NEW x \in OpenOps(l), NEW y \in OpenOps(l), x < y PROVE FALSE
    OBVIOUS
  <2>1. x \in Freezes(l) /\ y \in Freezes(l) /\ ~Done(l, x)
    BY DEF OpenOps
  <2>2. PICK j \in DOMAIN l : x < j /\ j < y /\ l[j].stage = "SnapshotFinalized" /\ l[j].op = l[x].op
    BY <2>1 DEF Shape, OneAtATime
  <2>3. j \in Nat /\ x \in Nat
    BY <2>1 DEF Freezes
  <2> QED BY <2>1, <2>2, <2>3 DEF Done
<1>2. i \in Nat /\ k \in Nat
  BY DEF OpenOps, Freezes
<1> QED BY <1>1, <1>2

(* The recovery r is the one operation that is open in l, at the stage the *)
(* records of l say.                                                       *)
Follows(c, l, r) ==
    /\ OpenOps(l) = {r.op - c}
    /\ l[r.op - c].rec.from = r.from
    /\ r.frozen <=> HasStage(l, r.op - c, "BankFrozen")
    /\ (r.snap # None) <=> HasStage(l, r.op - c, "SnapshotDurable")
    /\ r.cleared <=> HasStage(l, r.op - c, "ClearCompleted")
    /\ \A j \in DOMAIN l :
          (l[j].stage = "SnapshotDurable" /\ l[j].op = r.op) => l[j].rec.snap = r.snap

(* An attempt has come as far as step st only with these stages behind it. *)
StepFits(r, st) ==
    /\ st \in {"flipped", "frozen"} => r.snap = None
    /\ st \in {"durable", "clearing", "cleared"} => r.snap # None
    /\ st = "cleared" => r.cleared
    /\ st = "frozen" => r.frozen

(* A restart resumes the operation that is open. *)
LEMMA ResumedFollows ==
    ASSUME NEW c \in Nat, NEW l \in Seq(Record), Shape(c, l)
    PROVE  /\ OpenOps(l) = {} => Resumed(l) = None
           /\ OpenOps(l) # {} => Resumed(l) \in Recovery /\ Follows(c, l, Resumed(l))
<1>1. OpenOps(l) = {} => Resumed(l) = None
  BY DEF Resumed
<1> SUFFICES ASSUME OpenOps(l) # {}
             PROVE  Resumed(l) \in Recovery /\ Follows(c, l, Resumed(l))
  BY <1>1
<1> DEFINE i == CHOOSE k \in OpenOps(l) : TRUE
<1>2. i \in OpenOps(l)
  OBVIOUS
<1>3. OpenOps(l) = {i}
  BY <1>2, OneIsOpen
<1> DEFINE sn == IF HasStage(l, i, "SnapshotDurable")
                 THEN (CHOOSE r \in {l[j] : j \in DOMAIN l} :
                          r.stage = "SnapshotDurable" /\ r.op = l[i].op).rec.snap
                 ELSE None
<1>4. Resumed(l) = [l[i].rec EXCEPT !.frozen  = HasStage(l, i, "BankFrozen"), !.snap = sn,
                                    !.cleared = HasStage(l, i, "ClearCompleted")]
  BY DEF Resumed
<1> HIDE DEF i
<1>5. /\ i \in Freezes(l) /\ i \in DOMAIN l /\ l[i].op = c + i
      /\ l[i].rec \in Recovery /\ l[i].rec.op = l[i].op /\ i \in Nat
  <2>1. i \in Freezes(l) /\ i \in DOMAIN l
    BY <1>2 DEF OpenOps, Freezes
  <2> QED BY <2>1 DEF Shape, StartsAt
<1>6. /\ (sn # None) <=> HasStage(l, i, "SnapshotDurable")
      /\ sn \in Snapshot \cup {None}
      /\ \A j \in DOMAIN l : (l[j].stage = "SnapshotDurable" /\ l[j].op = l[i].op) => l[j].rec.snap = sn
  <2>1. CASE HasStage(l, i, "SnapshotDurable")
    <3> DEFINE R == {l[j] : j \in DOMAIN l}
               x == CHOOSE r \in R : r.stage = "SnapshotDurable" /\ r.op = l[i].op
    <3>1. \E r \in R : r.stage = "SnapshotDurable" /\ r.op = l[i].op
      BY <2>1 DEF HasStage
    <3>2. x \in R /\ x.stage = "SnapshotDurable" /\ x.op = l[i].op
      <4> HIDE DEF R
      <4> QED BY <3>1
    <3>3. sn = x.rec.snap
      BY <2>1
    <3>4. PICK j \in DOMAIN l : x = l[j]
      <4> HIDE DEF x
      <4> QED BY <3>2
    <3> HIDE DEF x, sn
    <3>5. l[j].stage = "SnapshotDurable" /\ l[j].op = l[i].op /\ sn = l[j].rec.snap
      BY <3>2, <3>3, <3>4
    <3>6. sn \in Snapshot
      BY <3>5 DEF Shape, SnapsAgree
    <3>7. \A k \in DOMAIN l : (l[k].stage = "SnapshotDurable" /\ l[k].op = l[i].op) => l[k].rec.snap = sn
      BY <3>5 DEF Shape, SnapsAgree
    <3> QED BY <2>1, <3>6, <3>7, NoneAssumption
  <2>2. CASE ~HasStage(l, i, "SnapshotDurable")
    <3>1. sn = None
      BY <2>2
    <3> QED BY <2>2, <3>1 DEF HasStage
  <2> QED BY <2>1, <2>2
<1> HIDE DEF sn
<1>7. HasStage(l, i, "BankFrozen") \in BOOLEAN /\ HasStage(l, i, "ClearCompleted") \in BOOLEAN
  BY DEF HasStage
<1> DEFINE hf == HasStage(l, i, "BankFrozen")
           hc == HasStage(l, i, "ClearCompleted")
<1> DEFINE q == [l[i].rec EXCEPT !.frozen = hf, !.snap = sn, !.cleared = hc]
<1>8. /\ q \in Recovery /\ q.op = l[i].rec.op /\ q.from = l[i].rec.from
      /\ q.frozen = hf /\ q.snap = sn /\ q.cleared = hc
  <2>1. hf \in BOOLEAN /\ hc \in BOOLEAN
    BY <1>7
  <2> HIDE DEF hf, hc
  <2> QED BY <1>5, <1>6, <2>1 DEF Recovery
<1>9. q = Resumed(l)
  BY <1>4
<1> HIDE DEF q
<1>10. q.op = c + i /\ q.op - c = i
  BY <1>5, <1>8
<1>11. Follows(c, l, q)
  BY <1>3, <1>5, <1>6, <1>8, <1>10 DEF Follows, hf, hc
<1> QED BY <1>8, <1>9, <1>11

(* What bank b still owes, read from the log: Unread for given values. *)
Snapped(l, b) ==
    \E i \in OpenOps(l) : l[i].rec.from.bank = b /\ HasStage(l, i, "SnapshotDurable")
UnreadOf(l, cnt, b) == IF Snapped(l, b) THEN Resumed(l).snap.packets ELSE cnt[b]

(* r is the operation that is open in l, if there is one. *)
OfLog(c, l, r) ==
    /\ r \in Recovery \cup {None}
    /\ IF r = None THEN OpenOps(l) = {} ELSE Follows(c, l, r)

(* Operation r holds the durable snapshot of bank b. *)
HasSnap(r, b) == r # None /\ r.from.bank = b /\ r.snap # None

(* What a bank owes according to the log is what it owes according to the  *)
(* operation in memory.                                                    *)
LEMMA UnreadFollows ==
    ASSUME NEW c \in Nat, NEW l \in Seq(Record), Shape(c, l), NEW cnt, NEW b,
           NEW r, OfLog(c, l, r)
    PROVE  /\ Snapped(l, b) <=> HasSnap(r, b)
           /\ UnreadOf(l, cnt, b) = IF HasSnap(r, b) THEN r.snap.packets ELSE cnt[b]
<1>1. CASE r = None
  BY <1>1 DEF Snapped, UnreadOf, HasSnap, OfLog
<1>2. CASE r # None
  <2> DEFINE i == r.op - c
  <2>1. /\ OpenOps(l) = {i} /\ l[i].rec.from = r.from
        /\ (r.snap # None) <=> HasStage(l, i, "SnapshotDurable")
        /\ \A j \in DOMAIN l : (l[j].stage = "SnapshotDurable" /\ l[j].op = r.op) => l[j].rec.snap = r.snap
    BY <1>2 DEF Follows, OfLog
  <2>2. Snapped(l, b) <=> HasSnap(r, b)
    <3> HIDE DEF i
    <3> QED BY <1>2, <2>1 DEF Snapped, HasSnap
  <2>3. ASSUME HasSnap(r, b) PROVE Resumed(l).snap = r.snap
    <3>1. Resumed(l) \in Recovery /\ Follows(c, l, Resumed(l))
      <4>1. OpenOps(l) # {}
        BY <2>1
      <4> QED BY <4>1, ResumedFollows
    <3> DEFINE q == Resumed(l)
    <3> HIDE DEF q
    <3>2. q \in Recovery /\ Follows(c, l, q)
      BY <3>1 DEF q
    <3>3. q.op \in Nat /\ r.op \in Nat
      BY <1>2, <3>2 DEF Recovery, OfLog
    <3>4. q.op - c = i
      BY <2>1, <3>2 DEF Follows
    <3>5. q.op = r.op
      BY <3>3, <3>4
    <3>6. PICK j \in DOMAIN l : l[j].stage = "SnapshotDurable" /\ l[j].op = l[i].op
      BY <2>1, <2>3 DEF HasSnap, HasStage
    <3>7. l[i].op = c + i
      BY <2>1, OpenIsUnfinished
    <3>8. l[j].op = r.op
      BY <3>3, <3>6, <3>7
    <3>9. l[j].rec.snap = r.snap /\ l[j].rec.snap = q.snap
      BY <2>1, <3>2, <3>5, <3>6, <3>8 DEF Follows
    <3> QED BY <3>9 DEF q
  <2> QED BY <2>2, <2>3 DEF UnreadOf
<1> QED BY <1>1, <1>2

(* The record of the next stage, or a digest record, keeps memory and log  *)
(* together.                                                               *)
LEMMA FollowsGrown ==
    ASSUME NEW c \in Nat, NEW l \in Seq(Record), NEW x \in Record, NEW m, Grown(l, x, m),
           Shape(c, l), NEW r \in Recovery, NEW r2 \in Recovery, Follows(c, l, r),
           x.stage \in {"BankFrozen", "SnapshotDurable", "ClearCompleted"} \cup HintStages,
           x.stage \in Later => x.op = r.op,
           r2.op = r.op, r2.from = r.from,
           r2.frozen <=> (r.frozen \/ x.stage = "BankFrozen"),
           r2.cleared <=> (r.cleared \/ x.stage = "ClearCompleted"),
           x.stage # "SnapshotDurable" => r2.snap = r.snap,
           x.stage = "SnapshotDurable" => r.snap = None /\ r2.snap # None /\ x.rec = r2
    PROVE  Follows(c, m, r2)
<1> DEFINE i == r.op - c
<1>1. OpenOps(l) = {i} /\ i \in DOMAIN l /\ l[i].op = c + i /\ r.op \in Nat
  BY OpenIsUnfinished DEF Follows, Recovery
<1>2. l[i].op = r.op /\ r2.op - c = i
  BY <1>1
<1> HIDE DEF i
<1>3. OpenOps(m) = {i} /\ m[i] = l[i]
  <2>1. x.stage \notin {"BankFreezeStarted", "SnapshotFinalized"}
    BY DEF HintStages
  <2> QED BY <1>1, <2>1, OtherKeepsOpen DEF Grown
<1>4. \A s : HasStage(m, i, s) <=> (HasStage(l, i, s) \/ (x.stage = s /\ x.op = r.op))
  BY <1>1, <1>2, GrowStages
<1>5. /\ x.stage = "BankFrozen" => x.op = r.op
      /\ x.stage = "SnapshotDurable" => x.op = r.op
      /\ x.stage = "ClearCompleted" => x.op = r.op
  BY DEF Later, FreezeStages
<1>6. /\ l[i].rec.from = r.from
      /\ r.frozen <=> HasStage(l, i, "BankFrozen")
      /\ (r.snap # None) <=> HasStage(l, i, "SnapshotDurable")
      /\ r.cleared <=> HasStage(l, i, "ClearCompleted")
      /\ \A j \in DOMAIN l : (l[j].stage = "SnapshotDurable" /\ l[j].op = r.op) => l[j].rec.snap = r.snap
  BY DEF Follows, i
<1>7. r2.frozen <=> HasStage(m, i, "BankFrozen")
  BY <1>4, <1>5, <1>6
<1>8. r2.cleared <=> HasStage(m, i, "ClearCompleted")
  BY <1>4, <1>5, <1>6
<1>9. (r2.snap # None) <=> HasStage(m, i, "SnapshotDurable")
  BY <1>4, <1>5, <1>6
<1>10. ASSUME NEW j \in DOMAIN m, m[j].stage = "SnapshotDurable", m[j].op = r2.op
       PROVE  m[j].rec.snap = r2.snap
  <2>1. CASE j \in DOMAIN l
    <3>1. m[j] = l[j]
      BY <2>1 DEF Grown
    <3>2. l[j].stage = "SnapshotDurable" /\ l[j].op = r.op
      BY <1>10, <3>1
    <3>3. HasStage(l, i, "SnapshotDurable") /\ l[j].rec.snap = r.snap
      BY <1>2, <1>6, <2>1, <3>2 DEF HasStage
    <3>4. x.stage # "SnapshotDurable"
      BY <1>6, <3>3
    <3> QED BY <3>1, <3>3, <3>4
  <2>2. CASE j = Len(l) + 1
    <3>1. m[j] = x
      BY <2>2 DEF Grown
    <3> QED BY <1>10, <3>1
  <2> QED BY <2>1, <2>2 DEF Grown
<1> QED BY <1>2, <1>3, <1>6, <1>7, <1>8, <1>9, <1>10 DEF Follows

(* A checkpoint at a finalization does not touch the open operation. *)
LEMMA FollowsCut ==
    ASSUME NEW c \in Nat, NEW l \in Seq(Record), Shape(c, l), NEW p \in Finals(l),
           NEW m \in Seq(Record), Shifted(l, p, m)
    PROVE  /\ OpenOps(l) = {} => OpenOps(m) = {}
           /\ \A r \in Recovery : Follows(c, l, r) => Follows(c + p, m, r)
<1>1. /\ \A i : i \in OpenOps(m) <=> (i \in Nat /\ p + i \in OpenOps(l))
      /\ \A i \in OpenOps(m), s \in Later : HasStage(m, i, s) <=> HasStage(l, p + i, s)
      /\ \A i \in DOMAIN m : p + i \in DOMAIN l /\ m[i] = l[p + i]
  BY CutKeepsShape
<1>2. \A i \in OpenOps(l) : i > p
  BY BehindFinal
<1>3. p \in Nat
  BY DEF Finals
<1> SUFFICES ASSUME NEW r \in Recovery, Follows(c, l, r) PROVE Follows(c + p, m, r)
  BY <1>1
<1> DEFINE i == r.op - c
           k == r.op - (c + p)
<1>4. r.op \in Nat
  BY DEF Recovery
<1>5. OpenOps(l) = {i} /\ i > p
  BY <1>2 DEF Follows
<1>6. k \in Nat /\ p + k = i
  BY <1>3, <1>4, <1>5
<1>7. OpenOps(m) = {k}
  <2>1. k \in OpenOps(m)
    BY <1>1, <1>5, <1>6
  <2>2. ASSUME NEW y \in OpenOps(m) PROVE y = k
    <3>1. y \in Nat /\ p + y = i
      BY <1>1, <1>5
    <3> QED BY <1>3, <1>4, <1>6, <3>1
  <2> HIDE DEF k
  <2> QED BY <2>1, <2>2
<1>8. /\ m[k] = l[i]
      /\ \A s \in Later : HasStage(m, k, s) <=> HasStage(l, i, s)
  <2>1. k \in DOMAIN m
    BY <1>7 DEF OpenOps, Freezes
  <2> HIDE DEF k, i
  <2> QED BY <1>1, <1>6, <1>7, <2>1
<1> HIDE DEF i, k
<1>9. {"BankFrozen", "SnapshotDurable", "ClearCompleted"} \subseteq Later
  BY DEF Later, FreezeStages
<1>10. /\ l[i].rec.from = r.from
       /\ r.frozen <=> HasStage(l, i, "BankFrozen")
       /\ (r.snap # None) <=> HasStage(l, i, "SnapshotDurable")
       /\ r.cleared <=> HasStage(l, i, "ClearCompleted")
       /\ \A j \in DOMAIN l : (l[j].stage = "SnapshotDurable" /\ l[j].op = r.op) => l[j].rec.snap = r.snap
  BY DEF Follows, i
<1>11. \A j \in DOMAIN m : (m[j].stage = "SnapshotDurable" /\ m[j].op = r.op) => m[j].rec.snap = r.snap
  BY <1>1, <1>10
<1>12. /\ m[k].rec.from = r.from
       /\ r.frozen <=> HasStage(m, k, "BankFrozen")
       /\ (r.snap # None) <=> HasStage(m, k, "SnapshotDurable")
       /\ r.cleared <=> HasStage(m, k, "ClearCompleted")
  BY <1>8, <1>9, <1>10
<1> QED BY <1>7, <1>11, <1>12 DEF Follows, k

-----------------------------------------------------------------------------
(* The pending digest hints *)

(* h holds, in order, sequences up to e. *)
InSequence(h, e) ==
    /\ h \in Seq(Nat)
    /\ \A a, b \in 1..Len(h) : a < b => h[a] < h[b]
    /\ \A a \in 1..Len(h) : h[a] <= e

(* Every hint of l that is not acknowledged is in h. *)
Unacked(c, l, k) == l[k].stage = "DigestHintDurable" /\ ~HintAcked(l, c + k)
HintsKept(c, l, h) == \A k \in DOMAIN l : Unacked(c, l, k) => \E a \in 1..Len(h) : h[a] = c + k

(* Everything in h is a hint, dropped by the checkpoint or in l. *)
AreHints(c, l, h) ==
    \A a \in 1..Len(h) :
       h[a] <= c \/ \E k \in DOMAIN l : h[a] = c + k /\ l[k].stage = "DigestHintDurable"

(* A sequence in order stays so with something greater behind it. *)
LEMMA InSequenceGrows ==
    ASSUME NEW h, NEW e \in Nat, NEW x \in Nat, InSequence(h, e), e < x
    PROVE  /\ InSequence(Append(h, x), x)
           /\ \A a \in 1..Len(h) : a \in 1..Len(Append(h, x)) /\ Append(h, x)[a] = h[a]
           /\ Len(h) + 1 \in 1..Len(Append(h, x)) /\ Append(h, x)[Len(h) + 1] = x
<1> DEFINE m == Append(h, x)
<1>1. h \in Seq(Nat) /\ Len(h) \in Nat
  BY DEF InSequence
<1>2. /\ m \in Seq(Nat) /\ Len(m) = Len(h) + 1 /\ m[Len(h) + 1] = x
      /\ \A a \in 1..Len(h) : m[a] = h[a]
  BY <1>1
<1> HIDE DEF m
<1>3. \A a \in 1..Len(h) : h[a] \in Nat /\ h[a] <= e
  BY <1>1 DEF InSequence
<1>4. ASSUME NEW a \in 1..Len(m), NEW b \in 1..Len(m), a < b PROVE m[a] < m[b]
  <2>1. a \in 1..Len(h) /\ m[a] = h[a]
    BY <1>1, <1>2, <1>4
  <2>2. CASE b \in 1..Len(h)
    BY <1>2, <1>4, <2>1, <2>2 DEF InSequence
  <2>3. CASE b = Len(h) + 1
    BY <1>2, <1>3, <2>1, <2>3
  <2> QED BY <1>1, <1>2, <2>2, <2>3
<1>5. \A a \in 1..Len(m) : m[a] <= x
  <2> SUFFICES ASSUME NEW a \in 1..Len(m) PROVE m[a] <= x
    OBVIOUS
  <2>1. CASE a \in 1..Len(h)
    BY <1>2, <1>3, <2>1
  <2>2. CASE a = Len(h) + 1
    BY <1>2, <2>2
  <2> QED BY <1>1, <1>2, <2>1, <2>2
<1> QED BY <1>1, <1>2, <1>4, <1>5 DEF InSequence, m

(* recover_source_state collects the hints that are not acknowledged, in   *)
(* the order of the log.                                                   *)
LEMMA PendingIs ==
    ASSUME NEW c \in Nat, NEW l \in Seq(Record)
    PROVE  /\ InSequence(PendingHints(c, l), c + Len(l))
           /\ HintsKept(c, l, PendingHints(c, l))
           /\ AreHints(c, l, PendingHints(c, l))
<1> DEFINE n == Len(l)
           W(i) == l[i].stage = "DigestHintDurable" /\ ~HintAcked(l, c + i)
           D(f, i) == IF i = 0 THEN <<>>
                      ELSE IF W(i) THEN Append(f[i - 1], c + i) ELSE f[i - 1]
           Fits(f, k) == f = [i \in 0..k |-> D(f, i)]
<1>1. n \in Nat
  OBVIOUS
<1> HIDE DEF n, W
<1>2. \A k \in Nat : \E f : Fits(f, k)
  <2> DEFINE Bad == {k \in Nat : ~\E f : Fits(f, k)}
  <2> SUFFICES ASSUME Bad # {} PROVE FALSE
    OBVIOUS
  <2>1. PICK k \in Bad : \A y \in Bad : k <= y
    <3>1. Bad \subseteq Nat
      OBVIOUS
    <3> HIDE DEF Bad
    <3> QED BY <3>1, LeastNat
  <2>2. k \in Nat /\ ~\E f : Fits(f, k)
    BY <2>1
  <2>3. CASE k = 0
    <3> DEFINE f == [i \in 0..k |-> <<>>]
    <3>1. f = [i \in 0..k |-> D(f, i)]
      BY <2>3
    <3> QED BY <2>2, <3>1
  <2>4. CASE k # 0
    <3>1. k - 1 \in Nat /\ k - 1 \notin Bad
      <4> HIDE DEF Bad
      <4>1. k - 1 \in Nat /\ ~(k <= k - 1)
        BY <2>2, <2>4
      <4> QED BY <2>1, <4>1
    <3>2. PICK f : Fits(f, k - 1)
      BY <3>1
    <3> DEFINE g == [i \in 0..k |-> IF i = k THEN D(f, k) ELSE f[i]]
    <3>3. \A i \in 0..k : g[i] = D(g, i)
      <4> SUFFICES ASSUME NEW i \in 0..k PROVE g[i] = D(g, i)
        OBVIOUS
      <4>1. CASE i = 0
        <5>1. f[0] = D(f, 0)
          BY <2>2, <3>1, <3>2
        <5> QED BY <2>2, <2>4, <4>1, <5>1
      <4>2. CASE i # 0
        <5>1. i - 1 \in 0..k /\ i - 1 # k
          BY <2>2, <4>2
        <5>2. g[i - 1] = f[i - 1]
          BY <5>1
        <5>3. g[i] = D(f, i)
          <6>1. CASE i = k
            BY <6>1
          <6>2. CASE i # k
            <7>1. i \in 0..(k - 1)
              BY <2>2, <6>2
            <7>2. f[i] = D(f, i)
              BY <3>2, <7>1
            <7> QED BY <6>2, <7>2
          <6> QED BY <6>1, <6>2
        <5> QED BY <4>2, <5>2, <5>3
      <4> QED BY <4>1, <4>2
    <3>4. Fits(g, k)
      BY <3>3
    <3> QED BY <2>2, <3>4
  <2> QED BY <2>3, <2>4
<1> DEFINE g == CHOOSE f : Fits(f, n)
<1>3. Fits(g, n)
  BY <1>1, <1>2
<1>4. PendingHints(c, l) = g[n]
  BY DEF PendingHints, n, W
<1> HIDE DEF g
<1>5. \A i \in 0..n : g[i] = D(g, i)
  BY <1>3
<1> HIDE DEF Fits
<1> DEFINE Good(i) == /\ InSequence(g[i], c + i)
                      /\ \A k \in 1..i : W(k) => \E a \in 1..Len(g[i]) : g[i][a] = c + k
                      /\ \A a \in 1..Len(g[i]) : \E k \in 1..i : g[i][a] = c + k /\ W(k)
<1>6. \A i \in 0..n : Good(i)
  <2> DEFINE Bad == {i \in 0..n : ~Good(i)}
  <2> SUFFICES ASSUME Bad # {} PROVE FALSE
    OBVIOUS
  <2>1. PICK k \in Bad : \A y \in Bad : k <= y
    <3>1. Bad \subseteq Nat
      BY <1>1
    <3> HIDE DEF Bad
    <3> QED BY <3>1, LeastNat
  <2>2. k \in 0..n /\ ~Good(k) /\ k \in Nat
    BY <1>1, <2>1
  <2>3. CASE k = 0
    <3>1. g[0] = <<>>
      BY <1>1, <1>5
    <3>2. Good(0)
      BY <3>1 DEF InSequence
    <3> QED BY <2>2, <2>3, <3>2
  <2>4. CASE k # 0
    <3>1. k - 1 \in 0..n /\ k - 1 \notin Bad /\ k - 1 \in Nat /\ c + (k - 1) < c + k
      <4> HIDE DEF Bad, Good
      <4>1. k - 1 \in 0..n /\ k - 1 \in Nat /\ c + (k - 1) < c + k /\ ~(k <= k - 1)
        BY <1>1, <2>2, <2>4
      <4> QED BY <2>1, <4>1
    <3>2. Good(k - 1)
      BY <3>1
    <3> DEFINE h == g[k - 1]
    <3>3. /\ InSequence(h, c + (k - 1))
          /\ \A j \in 1..(k - 1) : W(j) => \E a \in 1..Len(h) : h[a] = c + j
          /\ \A a \in 1..Len(h) : \E j \in 1..(k - 1) : h[a] = c + j /\ W(j)
      BY <3>2
    <3>4. /\ \A j \in 1..k : j \in 1..(k - 1) \/ j = k
          /\ \A j \in 1..(k - 1) : j \in 1..k
          /\ k \in 1..k
      BY <2>2, <2>4
    <3>5. g[k] = IF W(k) THEN Append(h, c + k) ELSE h
      BY <1>5, <2>2, <2>4
    <3> HIDE DEF h
    <3>6. CASE W(k)
      <4>1. g[k] = Append(h, c + k)
        BY <3>5, <3>6
      <4>2. /\ InSequence(g[k], c + k)
            /\ \A a \in 1..Len(h) : a \in 1..Len(g[k]) /\ g[k][a] = h[a]
            /\ Len(h) + 1 \in 1..Len(g[k]) /\ g[k][Len(h) + 1] = c + k
        <5>1. c + (k - 1) \in Nat /\ c + k \in Nat
          BY <2>2, <3>1
        <5> QED BY <3>1, <3>3, <4>1, <5>1, InSequenceGrows
      <4>3. \A j \in 1..k : W(j) => \E a \in 1..Len(g[k]) : g[k][a] = c + j
        <5> SUFFICES ASSUME NEW j \in 1..k, W(j) PROVE \E a \in 1..Len(g[k]) : g[k][a] = c + j
          OBVIOUS
        <5>1. CASE j = k
          BY <4>2, <5>1
        <5>2. CASE j \in 1..(k - 1)
          <6>1. PICK a \in 1..Len(h) : h[a] = c + j
            BY <3>3, <5>2
          <6> QED BY <4>2, <6>1
        <5> QED BY <3>4, <5>1, <5>2
      <4>4. \A a \in 1..Len(g[k]) : \E j \in 1..k : g[k][a] = c + j /\ W(j)
        <5> SUFFICES ASSUME NEW a \in 1..Len(g[k]) PROVE \E j \in 1..k : g[k][a] = c + j /\ W(j)
          OBVIOUS
        <5>1. a \in 1..Len(h) \/ a = Len(h) + 1
          <6>1. h \in Seq(Nat) BY <3>3 DEF InSequence
          <6>2. Len(g[k]) = Len(h) + 1 /\ Len(h) \in Nat BY <4>1, <6>1
          <6> QED BY <6>2
        <5>2. CASE a \in 1..Len(h)
          <6>1. PICK j \in 1..(k - 1) : h[a] = c + j /\ W(j) BY <3>3, <5>2
          <6> QED BY <3>4, <4>2, <5>2, <6>1
        <5>3. CASE a = Len(h) + 1
          BY <3>4, <3>6, <4>2, <5>3
        <5> QED BY <5>1, <5>2, <5>3
      <4> QED BY <2>2, <4>2, <4>3, <4>4
    <3>7. CASE ~W(k)
      <4>1. g[k] = h
        BY <3>5, <3>7
      <4>2. InSequence(g[k], c + k)
        <5>0. InSequence(h, c + (k - 1))
          BY <3>3
        <5>1. h \in Seq(Nat) /\ \A a \in 1..Len(h) : h[a] <= c + (k - 1) /\ h[a] \in Nat
          BY <5>0 DEF InSequence
        <5>2. \A a \in 1..Len(h) : h[a] <= c + k
          BY <2>2, <5>1
        <5> QED BY <3>3, <4>1, <5>2 DEF InSequence
      <4>3. \A j \in 1..k : W(j) => \E a \in 1..Len(g[k]) : g[k][a] = c + j
        BY <3>3, <3>4, <3>7, <4>1
      <4>4. \A a \in 1..Len(g[k]) : \E j \in 1..k : g[k][a] = c + j /\ W(j)
        BY <3>3, <3>4, <4>1
      <4> QED BY <2>2, <4>2, <4>3, <4>4
    <3> QED BY <3>6, <3>7
  <2> QED BY <2>3, <2>4
<1>7. Good(n)
  <2> HIDE DEF Good
  <2>1. n \in 0..n BY <1>1
  <2> QED BY <1>6, <2>1
<1>8. DOMAIN l = 1..n
  BY DEF n
<1>9. HintsKept(c, l, g[n])
  BY <1>7, <1>8 DEF HintsKept, Unacked, W
<1>10. AreHints(c, l, g[n])
  BY <1>7, <1>8 DEF AreHints, W
<1> QED BY <1>4, <1>7, <1>9, <1>10 DEF n

-----------------------------------------------------------------------------
(* The inductive invariant of log and memory *)

(* While the actor runs, source_recovery is what the log says. *)
RecInv ==
    up => IF rec = None THEN OpenOps(log) = {} /\ step = "begin"
                        ELSE Follows(ckpt, log, rec) /\ StepFits(rec, step)

(* The sequence of a window, open or already an input, is that of a        *)
(* finalization, unless it is behind the checkpoint: a checkpoint only     *)
(* ever cuts the log between two operations.                               *)
InLog(c, l, s) == s <= c \/ s - c \in Finals(l)
SeqInv ==
    /\ \A s \in inputs : InLog(ckpt, log, s)
    /\ \A w \in windows : InLog(ckpt, log, w.seq)

Core == TypeOK /\ Shape(ckpt, log) /\ RecInv /\ SeqInv

(* Appending a record that may follow. *)
LEMMA AppendStep ==
    ASSUME TypeOK, Shape(ckpt, log), NEW r \in Record, log' = Append(log, r), ckpt' = ckpt,
           \/ Begins(ckpt, log, r) \/ Aside(r)
           \/ \E i \in OpenOps(log) : Continues(ckpt, log, r, i)
    PROVE  /\ log' \in Seq(Record) /\ Grown(log, r, log') /\ Shape(ckpt', log')
           /\ \A s : InLog(ckpt, log, s) => InLog(ckpt', log', s)
<1>1. ckpt \in Nat /\ log \in Seq(Record)
  BY DEF TypeOK
<1>2. log' \in Seq(Record) /\ Grown(log, r, log')
  BY <1>1, AppendGrows
<1>3. Shape(ckpt, log')
  BY <1>1, <1>2, GrowKeepsShape
<1>4. \A k \in Finals(log) : k \in Finals(log')
  BY <1>2 DEF Grown, Finals
<1> QED BY <1>2, <1>3, <1>4 DEF InLog

(* The record of a freeze stage, of the operation in memory. *)
LEMMA StageStep ==
    ASSUME Core, up, rec # None, NEW st \in Later, NEW x \in Recovery, AppendLog(st, rec.op, x),
           st = "SnapshotFinalized" => rec.cleared,
           st = "ClearCompleted" => rec.snap # None,
           st = "SnapshotDurable" => rec.frozen /\ rec.snap = None,
           st \in {"SnapshotDurable", "SnapshotFinalized"} => x.snap \in Snapshot
    PROVE  LET r == [stage |-> st, op |-> rec.op, rec |-> x]
           IN /\ r \in Record /\ log' \in Seq(Record) /\ Grown(log, r, log')
              /\ ckpt' = ckpt /\ Shape(ckpt', log')
              /\ \A s : InLog(ckpt, log, s) => InLog(ckpt', log', s)
<1> DEFINE r == [stage |-> st, op |-> rec.op, rec |-> x]
           i == rec.op - ckpt
<1>1. TypeOK /\ Shape(ckpt, log) /\ Follows(ckpt, log, rec) /\ ckpt \in Nat
  BY DEF Core, RecInv, TypeOK
<1>2. rec \in Recovery /\ rec.op \in Nat
  <2>1. rec \in Recovery
    BY <1>1 DEF TypeOK
  <2> QED BY <2>1 DEF Recovery
<1>3. r \in Record /\ r.stage = st /\ r.op = rec.op /\ r.rec = x
  BY <1>2 DEF Record, Later
<1>4. log' = Append(log, r) /\ ckpt' = ckpt
  BY DEF AppendLog
<1>5. i \in OpenOps(log) /\ rec.op = ckpt + i
  BY <1>1, <1>2 DEF Follows
<1>6. /\ rec.frozen <=> HasStage(log, i, "BankFrozen")
      /\ (rec.snap # None) <=> HasStage(log, i, "SnapshotDurable")
      /\ rec.cleared <=> HasStage(log, i, "ClearCompleted")
  BY <1>1 DEF Follows
<1> HIDE DEF r, i
<1>7. Continues(ckpt, log, r, i)
  BY <1>3, <1>5, <1>6 DEF Continues
<1>8. /\ log' \in Seq(Record) /\ Grown(log, r, log') /\ Shape(ckpt', log')
      /\ \A s : InLog(ckpt, log, s) => InLog(ckpt', log', s)
  BY <1>1, <1>3, <1>4, <1>5, <1>7, AppendStep
<1> QED BY <1>3, <1>4, <1>8 DEF r

(* A poll opens an operation in log and memory. *)
LEMMA CorePoll ==
    ASSUME Core, Poll PROVE Core'
<1> DEFINE x == [op |-> NextSeq, from |-> sel, before |-> count[sel.bank], frozen |-> FALSE,
                 snap |-> None, cleared |-> FALSE, life |-> life]
           r == [stage |-> "BankFreezeStarted", op |-> NextSeq, rec |-> x]
<1>1. TypeOK /\ Shape(ckpt, log) /\ RecInv /\ SeqInv /\ up /\ rec = None /\ step = "begin"
  BY DEF Core, Poll
<1>2. /\ sel \in Selector /\ sel.bank \in Banks /\ count \in [Banks -> Nat] /\ life \in Nat
      /\ ckpt \in Nat /\ log \in Seq(Record) /\ Len(log) \in Nat
  BY <1>1 DEF TypeOK, Selector
<1>3. NextSeq \in Nat /\ NextSeq = ckpt + Len(log) + 1 /\ NextSeq - ckpt = Len(log) + 1
  BY <1>2 DEF NextSeq
<1>4. x \in Recovery
  BY <1>2, <1>3 DEF Recovery
<1>5. r \in Record
  BY <1>3, <1>4 DEF Record, FreezeStages
<1>6. /\ rec' = x /\ log' = Append(log, r) /\ ckpt' = ckpt /\ step' = "begin"
      /\ UNCHANGED <<switch, inputs, up, life, hints, windows, through, started, now>>
  BY <1>1 DEF Poll, AppendLog
<1>7. Begins(ckpt, log, r)
  BY <1>1, <1>3, <1>4 DEF Begins, RecInv
<1>8. /\ x.op = NextSeq /\ x.from = sel /\ x.frozen = FALSE /\ x.snap = None /\ x.cleared = FALSE
      /\ r.rec = x /\ r.op = NextSeq
  OBVIOUS
<1> HIDE DEF x, r
<1>9. /\ log' \in Seq(Record) /\ Grown(log, r, log') /\ Shape(ckpt', log')
      /\ \A s : InLog(ckpt, log, s) => InLog(ckpt', log', s)
  BY <1>1, <1>5, <1>6, <1>7, AppendStep
<1>10. /\ OpenOps(log') = {Len(log) + 1} /\ log'[Len(log) + 1] = r
       /\ \A s \in Later : ~HasStage(log', Len(log) + 1, s)
  BY <1>1, <1>2, <1>5, <1>7, <1>9, BeginOpens
<1>11. TypeOK'
  BY <1>1, <1>4, <1>6, <1>9 DEF TypeOK, switch
<1>12. RecInv'
  <2>1. rec' # None
    BY <1>4, <1>6, NoneAssumption
  <2>2. rec'.op - ckpt' = Len(log) + 1
    BY <1>3, <1>6, <1>8
  <2>3. \A s \in {"BankFrozen", "SnapshotDurable", "ClearCompleted"} : ~HasStage(log', Len(log) + 1, s)
    BY <1>10 DEF Later, FreezeStages
  <2>4. \A j \in DOMAIN log' : ~(log'[j].stage = "SnapshotDurable" /\ log'[j].op = rec'.op)
    BY <1>6, <1>8, <1>10, <2>3 DEF HasStage
  <2>5. Follows(ckpt', log', rec')
    BY <1>6, <1>8, <1>10, <2>2, <2>3, <2>4 DEF Follows
  <2>6. StepFits(rec', step')
    BY <1>6 DEF StepFits
  <2> QED BY <2>1, <2>5, <2>6 DEF RecInv
<1>13. SeqInv'
  BY <1>1, <1>6, <1>9 DEF SeqInv
<1> QED BY <1>9, <1>11, <1>12, <1>13 DEF Core

(* A stage other than the finalization: memory and log take it together.   *)
LEMMA CoreStage ==
    ASSUME Core, up, rec # None, NEW st \in {"BankFrozen", "SnapshotDurable", "ClearCompleted"},
           rec' \in Recovery, AppendLog(st, rec.op, rec'),
           rec'.op = rec.op, rec'.from = rec.from,
           rec'.frozen <=> (rec.frozen \/ st = "BankFrozen"),
           rec'.cleared <=> (rec.cleared \/ st = "ClearCompleted"),
           st # "SnapshotDurable" => rec'.snap = rec.snap,
           st = "SnapshotDurable" => rec.snap = None /\ rec.frozen /\ rec'.snap \in Snapshot,
           st = "ClearCompleted" => rec.snap # None,
           step' \in {"frozen", "durable", "cleared"}, StepFits(rec', step'),
           UNCHANGED <<switch, inputs, up, life, hints, windows, through, started, now>>
    PROVE  Core'
<1> DEFINE r == [stage |-> st, op |-> rec.op, rec |-> rec']
<1>1. TypeOK /\ Shape(ckpt, log) /\ RecInv /\ SeqInv /\ Follows(ckpt, log, rec)
  BY DEF Core, RecInv
<1>2. ckpt \in Nat /\ log \in Seq(Record) /\ rec \in Recovery
  BY <1>1 DEF TypeOK
<1>3. st \in Later /\ st # "SnapshotFinalized"
  BY DEF Later, FreezeStages
<1>4. /\ r \in Record /\ log' \in Seq(Record) /\ Grown(log, r, log')
      /\ ckpt' = ckpt /\ Shape(ckpt', log')
      /\ \A s : InLog(ckpt, log, s) => InLog(ckpt', log', s)
  BY <1>3, StageStep
<1>5. r.stage = st /\ r.op = rec.op /\ r.rec = rec'
  OBVIOUS
<1> HIDE DEF r
<1>6. rec' # None
  BY NoneAssumption
<1>7. st = "SnapshotDurable" => rec'.snap # None
  BY NoneAssumption
<1>8. Follows(ckpt, log', rec')
  BY <1>1, <1>2, <1>4, <1>5, <1>7, FollowsGrown
<1>9. TypeOK'
  BY <1>1, <1>4 DEF TypeOK, switch
<1>10. RecInv'
  BY <1>4, <1>6, <1>8 DEF RecInv
<1>11. SeqInv'
  BY <1>1, <1>4 DEF SeqInv
<1> QED BY <1>4, <1>9, <1>10, <1>11 DEF Core

(* The bank is frozen. *)
LEMMA CoreFreezeBank ==
    ASSUME Core, FreezeBank PROVE Core'
<1>1. /\ up /\ rec # None /\ step = "flipped" /\ TypeOK /\ StepFits(rec, step)
      /\ rec' = [rec EXCEPT !.before = count[rec.from.bank], !.frozen = TRUE]
      /\ AppendLog("BankFrozen", rec.op, rec') /\ step' = "frozen"
      /\ UNCHANGED <<switch, inputs, up, life, hints, windows, through, started, now>>
  BY DEF Core, RecInv, FreezeBank, InAttempt, Goes
<1>2. rec \in Recovery /\ count \in [Banks -> Nat]
  BY <1>1 DEF TypeOK
<1>3. rec.from.bank \in Banks
  BY <1>2 DEF Recovery, Selector
<1>4. /\ rec' \in Recovery /\ rec'.op = rec.op /\ rec'.from = rec.from /\ rec'.frozen = TRUE
      /\ rec'.cleared = rec.cleared /\ rec'.snap = rec.snap
  BY <1>1, <1>2, <1>3 DEF Recovery
<1>5. rec.snap = None
  BY <1>1 DEF StepFits
<1>6. StepFits(rec', step')
  BY <1>1, <1>4, <1>5 DEF StepFits
<1> QED BY <1>1, <1>4, <1>6, CoreStage

(* The attempt starts over. *)
LEMMA CoreRetry ==
    ASSUME Core, up, step' = "begin",
           UNCHANGED <<sel, flight, wal, inputs, up, life, rec, hints, windows, through, started, now>>,
           count' \in [Banks -> Nat]
    PROVE  Core'
<1>1. TypeOK /\ Shape(ckpt, log) /\ RecInv /\ SeqInv
  BY DEF Core
<1>2. TypeOK' /\ Shape(ckpt', log')
  BY <1>1 DEF TypeOK, wal
<1>3. RecInv'
  BY <1>1 DEF RecInv, StepFits, wal
<1>4. SeqInv'
  BY <1>1 DEF SeqInv, wal
<1> QED BY <1>2, <1>3, <1>4 DEF Core

(* The snapshot is durable, or the aggregate moved. *)
LEMMA CoreTakeSnapshot ==
    ASSUME Core, TakeSnapshot PROVE Core'
<1>1. /\ up /\ rec # None /\ step = "frozen" /\ TypeOK /\ StepFits(rec, step)
      /\ UNCHANGED <<switch, inputs, up, life, hints, windows, through, started, now>>
  BY DEF Core, RecInv, TakeSnapshot, InAttempt, Goes
<1>2. /\ rec \in Recovery /\ count \in [Banks -> Nat] /\ now \in 0..MaxWindow /\ started \in BOOLEAN
  BY <1>1 DEF TypeOK
<1>3. rec.snap = None /\ rec.frozen
  BY <1>1 DEF StepFits
<1>4. CASE count[rec.from.bank] = rec.before
  <2> DEFINE s == [win |-> now, life |-> rec.life, packets |-> rec.before, valid |-> started]
  <2>1. /\ rec' = [rec EXCEPT !.snap = s] /\ AppendLog("SnapshotDurable", rec.op, rec')
        /\ step' = "durable"
    BY <1>4 DEF TakeSnapshot, Goes
  <2>2. s \in Snapshot
    BY <1>2 DEF Snapshot, Recovery
  <2> HIDE DEF s
  <2>3. /\ rec' \in Recovery /\ rec'.op = rec.op /\ rec'.from = rec.from /\ rec'.frozen = rec.frozen
        /\ rec'.cleared = rec.cleared /\ rec'.snap = s
    BY <1>2, <2>1, <2>2 DEF Recovery
  <2>4. StepFits(rec', step')
    BY <2>1, <2>2, <2>3, NoneAssumption DEF StepFits
  <2> QED BY <1>1, <1>3, <2>1, <2>2, <2>3, <2>4, CoreStage
<1>5. CASE count[rec.from.bank] # rec.before
  <2>1. step' = "begin" /\ UNCHANGED <<rec, wal>>
    BY <1>5 DEF TakeSnapshot, Goes
  <2> QED BY <1>1, <1>2, <2>1, CoreRetry DEF switch
<1> QED BY <1>4, <1>5

(* The bank reads zero, or the attempt starts over. *)
LEMMA CoreClearReadback ==
    ASSUME Core, ClearReadback PROVE Core'
<1>1. /\ up /\ rec # None /\ step = "clearing" /\ TypeOK /\ StepFits(rec, step)
      /\ UNCHANGED <<switch, inputs, up, life, hints, windows, through, started, now>>
  BY DEF Core, RecInv, ClearReadback, InAttempt, Goes
<1>2. /\ rec \in Recovery /\ count \in [Banks -> Nat]
  BY <1>1 DEF TypeOK
<1>3. rec.snap # None
  BY <1>1 DEF StepFits
<1>4. CASE count[rec.from.bank] = 0
  <2>1. /\ rec' = [rec EXCEPT !.cleared = TRUE] /\ AppendLog("ClearCompleted", rec.op, rec')
        /\ step' = "cleared"
    BY <1>4 DEF ClearReadback, Goes
  <2>3. /\ rec' \in Recovery /\ rec'.op = rec.op /\ rec'.from = rec.from /\ rec'.frozen = rec.frozen
        /\ rec'.cleared = TRUE /\ rec'.snap = rec.snap
    BY <1>2, <2>1 DEF Recovery
  <2>4. StepFits(rec', step')
    BY <1>3, <2>1, <2>3 DEF StepFits
  <2> QED BY <1>1, <1>3, <2>1, <2>3, <2>4, CoreStage
<1>5. CASE count[rec.from.bank] # 0
  <2>1. step' = "begin" /\ UNCHANGED <<rec, wal>>
    BY <1>5 DEF ClearReadback, Goes
  <2> QED BY <1>1, <1>2, <2>1, CoreRetry DEF switch
<1> QED BY <1>4, <1>5

(* The snapshot is finalized and its operation ends. *)
LEMMA CoreFinalize ==
    ASSUME Core, Finalize PROVE Core'
<1> DEFINE r == [stage |-> "SnapshotFinalized", op |-> rec.op, rec |-> rec]
<1>1. /\ up /\ rec # None /\ step = "cleared" /\ TypeOK /\ StepFits(rec, step)
      /\ Follows(ckpt, log, rec) /\ Shape(ckpt, log) /\ SeqInv
      /\ AppendLog("SnapshotFinalized", rec.op, rec) /\ Push(rec.snap, NextSeq)
      /\ rec' = None /\ step' = "begin" /\ started' = TRUE
      /\ UNCHANGED <<switch, inputs, up, life, hints, through, now>>
  BY DEF Core, RecInv, Finalize, InAttempt
<1>2. rec \in Recovery /\ ckpt \in Nat /\ log \in Seq(Record) /\ Len(log) \in Nat
  BY <1>1 DEF TypeOK
<1>3. rec.snap \in Snapshot /\ rec.cleared /\ rec.op \in Nat
  BY <1>1, <1>2 DEF StepFits, Recovery
<1>4. /\ r \in Record /\ log' \in Seq(Record) /\ Grown(log, r, log')
      /\ ckpt' = ckpt /\ Shape(ckpt', log')
      /\ \A s : InLog(ckpt, log, s) => InLog(ckpt', log', s)
  <2>1. "SnapshotFinalized" \in Later
    BY DEF Later, FreezeStages
  <2> DEFINE st == "SnapshotFinalized"
  <2>2. /\ st \in Later /\ AppendLog(st, rec.op, rec) /\ st # "ClearCompleted" /\ st # "SnapshotDurable"
    BY <1>1, <2>1
  <2>3. r = [stage |-> st, op |-> rec.op, rec |-> rec]
    OBVIOUS
  <2> HIDE DEF r, st
  <2> QED BY <1>1, <1>2, <1>3, <2>2, <2>3, StageStep
<1>5. r.stage = "SnapshotFinalized" /\ r.op = rec.op
  OBVIOUS
<1> HIDE DEF r
<1>6. OpenOps(log') = {}
  <2> DEFINE i == rec.op - ckpt
  <2>1. OpenOps(log) = {i} /\ r.op = ckpt + i
    BY <1>1, <1>2, <1>3, <1>5 DEF Follows
  <2> HIDE DEF i
  <2> QED BY <1>1, <1>2, <1>4, <1>5, <2>1, FinalCloses
<1>7. InLog(ckpt', log', NextSeq) /\ NextSeq \in Nat
  <2>1. NextSeq \in Nat /\ NextSeq - ckpt = Len(log) + 1
    BY <1>2 DEF NextSeq
  <2>2. Len(log) + 1 \in Finals(log')
    BY <1>4, <1>5 DEF Grown, Finals
  <2> QED BY <1>4, <2>1, <2>2 DEF InLog
<1>8. windows' \subseteq windows \cup {[seq |-> NextSeq, snap |-> rec.snap]}
  BY <1>1 DEF Push
<1>9. TypeOK'
  <2>1. \A w \in windows' : w.seq \in Nat /\ w.snap \in Snapshot
    BY <1>1, <1>3, <1>7, <1>8 DEF TypeOK
  <2> QED BY <1>1, <1>4, <2>1 DEF TypeOK, switch
<1>10. RecInv'
  BY <1>1, <1>6 DEF RecInv
<1>11. SeqInv'
  <2>1. \A w \in windows' : InLog(ckpt', log', w.seq)
    BY <1>1, <1>4, <1>7, <1>8 DEF SeqInv
  <2> QED BY <1>1, <1>4, <2>1 DEF SeqInv
<1> QED BY <1>4, <1>9, <1>10, <1>11 DEF Core

(* A step that leaves log, recovery and windows alone, and takes the       *)
(* attempt no further than its stages allow.                               *)
LEMMA CoreQuiet ==
    ASSUME Core, UNCHANGED <<wal, rec, windows, inputs, up, life, hints, through, started>>,
           sel' \in Selector, count' \in [Banks -> Nat], flight' \in Banks \cup {None},
           now' \in 0..MaxWindow,
           step' = step \/ (/\ rec # None /\ StepFits(rec, step')
                            /\ step' \in {"begin", "flipped", "frozen", "durable", "clearing", "cleared"})
    PROVE  Core'
<1>1. TypeOK /\ Shape(ckpt, log) /\ RecInv /\ SeqInv
  BY DEF Core
<1>2. TypeOK' /\ Shape(ckpt', log')
  <2>1. step' \in {"begin", "flipped", "frozen", "durable", "clearing", "cleared"}
    BY <1>1 DEF TypeOK
  <2> QED BY <1>1, <2>1 DEF TypeOK, wal
<1>3. RecInv'
  <2>1. ckpt' = ckpt /\ log' = log /\ rec' = rec /\ up' = up
    BY DEF wal
  <2> QED BY <1>1, <2>1 DEF RecInv
<1>4. SeqInv'
  BY <1>1 DEF SeqInv, wal
<1> QED BY <1>2, <1>3, <1>4 DEF Core

(* A flip changes the next bank only. *)
LEMMA FlippedIsSelector ==
    ASSUME NEW s \in Selector PROVE Flipped(s) \in Selector
BY DEF Flipped, Selector, Banks

(* The steps of the switch, of time, and the writes to the switch. *)
LEMMA CoreSwitch ==
    ASSUME Core,
           \/ PacketSelects \/ PacketCounts \/ Tick \/ FlipUnanswered \/ AttemptFails \/ FindFlipped
           \/ \E landed \in BOOLEAN : FlipSelector(landed) \/ ClearBank(landed)
    PROVE  Core'
<1>1. /\ TypeOK /\ Shape(ckpt, log) /\ RecInv /\ sel \in Selector /\ count \in [Banks -> Nat]
      /\ flight \in Banks \cup {None} /\ now \in 0..MaxWindow /\ MaxWindow \in Nat
      /\ sel.bank \in Banks /\ ckpt \in Nat /\ log \in Seq(Record)
  BY BoundsAssumption DEF Core, TypeOK, Selector
<1>2. CASE PacketSelects
  BY <1>1, <1>2, CoreQuiet DEF PacketSelects, memory
<1>3. CASE PacketCounts
  <2>1. count' \in [Banks -> Nat] /\ flight' = None
    BY <1>1, <1>3 DEF PacketCounts
  <2> QED BY <1>1, <1>3, <2>1, CoreQuiet DEF PacketCounts, memory
<1>4. CASE Tick
  <2>1. now' \in 0..MaxWindow
    BY <1>1, <1>4 DEF Tick
  <2> QED BY <1>1, <1>4, <2>1, CoreQuiet DEF Tick, memory, switch
<1>5. CASE FlipUnanswered
  <2>1. sel' \in Selector
    BY <1>1, <1>5, FlippedIsSelector DEF FlipUnanswered
  <2> QED BY <1>1, <1>5, <2>1, CoreQuiet DEF FlipUnanswered, memory
<1>6. CASE AttemptFails
  <2>1. rec # None /\ step' = "begin" /\ StepFits(rec, "begin")
    BY <1>1, <1>6 DEF AttemptFails, Goes, RecInv, StepFits
  <2> QED BY <1>1, <1>6, <2>1, CoreQuiet DEF AttemptFails, Goes, switch
<1>7. CASE FindFlipped
  <2>1. /\ up /\ rec # None /\ Follows(ckpt, log, rec) /\ rec \in Recovery
    BY <1>1, <1>7 DEF FindFlipped, InAttempt, RecInv, TypeOK
  <2>2. rec.cleared => rec.snap # None
    <3> DEFINE i == rec.op - ckpt
    <3>1. /\ (rec.snap # None) <=> HasStage(log, i, "SnapshotDurable")
          /\ rec.cleared <=> HasStage(log, i, "ClearCompleted")
      BY <2>1 DEF Follows
    <3> HIDE DEF i
    <3>2. HasStage(log, i, "ClearCompleted") => HasStage(log, i, "SnapshotDurable")
      BY <1>1 DEF HasStage, Shape, Preceded, After
    <3> QED BY <3>1, <3>2
  <2>3. step' = IF rec.cleared THEN "cleared" ELSE IF rec.snap # None THEN "durable"
                ELSE IF rec.frozen THEN "frozen" ELSE "flipped"
    BY <1>7 DEF FindFlipped, Goes
  <2>4. /\ StepFits(rec, step')
        /\ step' \in {"begin", "flipped", "frozen", "durable", "clearing", "cleared"}
    <3>1. CASE rec.cleared
      BY <2>2, <2>3, <3>1 DEF StepFits
    <3>2. CASE ~rec.cleared
      BY <2>3, <3>2 DEF StepFits
    <3> QED BY <3>1, <3>2
  <2> QED BY <1>1, <1>7, <2>1, <2>4, CoreQuiet DEF FindFlipped, Goes, switch
<1>8. ASSUME NEW landed \in BOOLEAN, FlipSelector(landed) PROVE Core'
  <2>1. sel' \in Selector
    BY <1>1, <1>8, FlippedIsSelector DEF FlipSelector
  <2>2. up /\ rec # None /\ step = "begin" /\ Follows(ckpt, log, rec) /\ ~rec.frozen
    BY <1>1, <1>8 DEF FlipSelector, InAttempt, RecInv
  <2>3. rec.snap = None
    <3> DEFINE i == rec.op - ckpt
    <3>1. /\ (rec.snap # None) <=> HasStage(log, i, "SnapshotDurable")
          /\ rec.frozen <=> HasStage(log, i, "BankFrozen")
      BY <2>2 DEF Follows
    <3> HIDE DEF i
    <3>2. HasStage(log, i, "SnapshotDurable") => HasStage(log, i, "BankFrozen")
      BY <1>1 DEF HasStage, Shape, Preceded, After
    <3> QED BY <2>2, <3>1, <3>2
  <2>4. step' \in {"begin", "flipped"} /\ StepFits(rec, step')
    BY <1>8, <2>3 DEF FlipSelector, Goes, StepFits
  <2> QED BY <1>1, <1>8, <2>1, <2>2, <2>4, CoreQuiet DEF FlipSelector, Goes
<1>9. ASSUME NEW landed \in BOOLEAN, ClearBank(landed) PROVE Core'
  <2>1. up /\ rec # None /\ step = "durable" /\ StepFits(rec, step) /\ step' = "clearing"
    BY <1>1, <1>9 DEF ClearBank, InAttempt, RecInv, Goes
  <2>2. StepFits(rec, step')
    BY <2>1 DEF StepFits
  <2>3. count' \in [Banks -> Nat]
    BY <1>1, <1>9 DEF ClearBank
  <2> QED BY <1>1, <1>9, <2>1, <2>2, <2>3, CoreQuiet DEF ClearBank, Goes
<1> QED BY <1>2, <1>3, <1>4, <1>5, <1>6, <1>7, <1>8, <1>9

(* The newest sequence of a window is that of one of its snapshots. *)
LEMMA NewestInWindow ==
    ASSUME Core, NEW w, InWindow(w) # {}
    PROVE  LET S == {x.seq : x \in InWindow(w)}
           IN (CHOOSE s \in S : \A x \in InWindow(w) : x.seq <= s) \in S
<1> DEFINE S == {x.seq : x \in InWindow(w)}
           e == ckpt + Len(log)
<1>1. TypeOK /\ SeqInv /\ ckpt \in Nat /\ Len(log) \in Nat /\ log \in Seq(Record) /\ e \in Nat
  BY DEF Core, TypeOK
<1>2. \A s \in S : s \in 0..e
  <2> SUFFICES ASSUME NEW x \in windows PROVE x.seq \in 0..e
    BY DEF InWindow
  <2>1. x.seq \in Nat /\ InLog(ckpt, log, x.seq)
    BY <1>1 DEF TypeOK, SeqInv
  <2>2. x.seq - ckpt \in Finals(log) => x.seq - ckpt <= Len(log)
    BY <1>1 DEF Finals
  <2> QED BY <1>1, <2>1, <2>2 DEF InLog
<1>3. S # {}
  OBVIOUS
<1>4. \E s \in S : \A y \in S : y <= s
  <2> HIDE DEF S, e
  <2> QED BY <1>1, <1>2, <1>3, GreatestUpTo
<1>5. \E s \in S : \A x \in InWindow(w) : x.seq <= s
  BY <1>4
<1> HIDE DEF S
<1>6. (CHOOSE s \in S : \A x \in InWindow(w) : x.seq <= s) \in S
  BY <1>5
<1> QED BY <1>6 DEF S

(* A window closes. *)
LEMMA CoreCloseWindow ==
    ASSUME Core, NEW w \in 0..MaxWindow, CloseWindow(w) PROVE Core'
<1>1. /\ TypeOK /\ Shape(ckpt, log) /\ RecInv /\ SeqInv
      /\ windows' \subseteq windows /\ through' = w + 1 /\ InWindow(w) # {}
      /\ UNCHANGED <<switch, wal, up, life, rec, step, hints, started, now>>
  BY DEF Core, CloseWindow
<1> DEFINE S == {x.seq : x \in InWindow(w)}
           t == CHOOSE s \in S : \A x \in InWindow(w) : x.seq <= s
<1>2. inputs' \subseteq inputs \cup {t}
  BY DEF CloseWindow
<1>3. t \in S
  BY <1>1, NewestInWindow
<1> HIDE DEF t
<1>4. PICK x \in windows : t = x.seq
  BY <1>3 DEF InWindow
<1>5. t \in Nat /\ InLog(ckpt, log, t)
  BY <1>1, <1>4 DEF TypeOK, SeqInv
<1>6. TypeOK'
  <2>1. through' \in Nat
    BY <1>1, BoundsAssumption
  <2>2. \A s \in inputs' : s \in Nat
    BY <1>1, <1>2, <1>5 DEF TypeOK
  <2> QED BY <1>1, <2>1, <2>2 DEF TypeOK, switch, wal
<1>7. RecInv' /\ Shape(ckpt', log')
  BY <1>1 DEF RecInv, wal
<1>8. SeqInv'
  BY <1>1, <1>2, <1>5 DEF SeqInv, wal
<1> QED BY <1>6, <1>7, <1>8 DEF Core

(* A checkpoint at s cuts the log behind a finalization. *)
LEMMA CheckpointCuts ==
    ASSUME Core, NEW s \in inputs, NEW torn \in BOOLEAN, Checkpoint(s, torn), s > ckpt
    PROVE  /\ s - ckpt \in Finals(log) /\ ckpt' = ckpt + (s - ckpt)
           /\ log' \in Seq(Record) /\ Shifted(log, s - ckpt, log')
<1>1. /\ TypeOK /\ SeqInv /\ ckpt \in Nat /\ log \in Seq(Record) /\ s \in Nat
  BY DEF Core, TypeOK
<1>2. s - ckpt \in Finals(log)
  BY <1>1 DEF SeqInv, InLog
<1>3. s - ckpt \in 1..Len(log)
  BY <1>1, <1>2 DEF Finals
<1>4. ckpt' = s /\ log' = SubSeq(log, s - ckpt + 1, Len(log))
  BY DEF Checkpoint
<1> DEFINE p == s - ckpt
<1>5. ckpt' = ckpt + p
  BY <1>1, <1>4
<1>6. log' \in Seq(Record) /\ Shifted(log, p, log')
  <2>1. p \in 1..Len(log) /\ log' = SubSeq(log, p + 1, Len(log))
    BY <1>3, <1>4
  <2> HIDE DEF p
  <2> QED BY <1>1, <2>1, SubSeqShifts
<1> QED BY <1>2, <1>5, <1>6

(* The source WAL is checkpointed. *)
LEMMA CoreCheckpoint ==
    ASSUME Core, NEW s \in inputs, NEW torn \in BOOLEAN, Checkpoint(s, torn) PROVE Core'
<1>1. /\ TypeOK /\ Shape(ckpt, log) /\ RecInv /\ SeqInv /\ ckpt \in Nat /\ log \in Seq(Record)
      /\ inputs' \subseteq inputs /\ s \in Nat
      /\ UNCHANGED <<switch, up, life, rec, step, hints, windows, through, started, now>>
  BY DEF Core, Checkpoint, memory, TypeOK
<1>2. CASE s > ckpt
  <2> DEFINE p == s - ckpt
  <2>1. p \in Finals(log) /\ ckpt' = ckpt + p /\ log' \in Seq(Record) /\ Shifted(log, p, log')
    BY <1>2, CheckpointCuts
  <2>2. p \in Nat /\ p > 0
    BY <1>1, <1>2
  <2> HIDE DEF p
  <2>3. Shape(ckpt', log')
    BY <1>1, <2>1, CutKeepsShape
  <2>4. TypeOK'
    BY <1>1, <2>1, <2>2 DEF TypeOK, switch
  <2>5. RecInv'
    <3>1. OpenOps(log) = {} => OpenOps(log') = {}
      BY <1>1, <2>1, FollowsCut
    <3>2. (rec # None /\ Follows(ckpt, log, rec)) => Follows(ckpt', log', rec)
      <4>1. rec # None => rec \in Recovery
        BY <1>1 DEF TypeOK
      <4> QED BY <1>1, <2>1, <4>1, FollowsCut
    <3> QED BY <1>1, <3>1, <3>2 DEF RecInv
  <2>6. ASSUME NEW t \in Nat, InLog(ckpt, log, t) PROVE InLog(ckpt', log', t)
    <3> SUFFICES ASSUME t > ckpt + p PROVE t - (ckpt + p) \in Finals(log')
      BY <1>1, <2>1, <2>2 DEF InLog
    <3>1. t - ckpt \in Finals(log)
      BY <1>1, <2>2, <2>6 DEF InLog
    <3> DEFINE k == t - (ckpt + p)
    <3>2. k \in Nat /\ k > 0 /\ p + k = t - ckpt /\ t - ckpt \in 1..Len(log)
      BY <1>1, <2>2, <3>1 DEF Finals
    <3>3. k \in 1..(Len(log) - p)
      BY <1>1, <2>2, <3>2
    <3>4. k \in DOMAIN log' /\ log'[k] = log[p + k]
      BY <2>1, <3>3 DEF Shifted
    <3> HIDE DEF k
    <3>5. k \in Finals(log')
      BY <3>1, <3>2, <3>4 DEF Finals
    <3> QED BY <3>5 DEF k
  <2>7. SeqInv'
    <3>1. (\A t \in inputs : t \in Nat) /\ (\A w \in windows : w.seq \in Nat)
      BY <1>1 DEF TypeOK
    <3> QED BY <1>1, <2>6, <3>1 DEF SeqInv
  <2> QED BY <2>3, <2>4, <2>5, <2>7 DEF Core
<1>3. CASE ~(s > ckpt)
  <2>1. ckpt' = ckpt /\ log' = log
    BY <1>3 DEF Checkpoint, wal
  <2>2. TypeOK' /\ Shape(ckpt', log')
    BY <1>1, <2>1 DEF TypeOK, switch
  <2>3. RecInv'
    BY <1>1, <2>1 DEF RecInv
  <2>4. SeqInv'
    BY <1>1, <2>1 DEF SeqInv
  <2> QED BY <2>2, <2>3, <2>4 DEF Core
<1> QED BY <1>2, <1>3

(* A digest hint is persisted, or its acknowledgement is. *)
LEMMA CoreHint ==
    ASSUME Core, PersistHint \/ FlushHint PROVE Core'
<1>1. /\ TypeOK /\ Shape(ckpt, log) /\ RecInv /\ SeqInv /\ up /\ step = "begin"
      /\ UNCHANGED <<switch, inputs, up, life, rec, step, windows, through, started, now>>
  BY DEF Core, PersistHint, FlushHint
<1>2. /\ ckpt \in Nat /\ log \in Seq(Record) /\ Len(log) \in Nat /\ hints \in Seq(Nat)
      /\ rec \in Recovery \cup {None} /\ NextSeq \in Nat
  BY <1>1 DEF TypeOK, NextSeq
<1>3. \E r \in Record : /\ r.stage \in HintStages /\ log' = Append(log, r) /\ ckpt' = ckpt
                        /\ hints' \in Seq(Nat)
  <2>1. CASE PersistHint
    <3> DEFINE r == [stage |-> "DigestHintDurable", op |-> 0, rec |-> None]
    <3>1. r \in Record /\ r.stage \in HintStages
      BY DEF Record, HintStages
    <3>2. log' = Append(log, r) /\ ckpt' = ckpt /\ hints' = Append(hints, NextSeq)
      BY <2>1 DEF PersistHint, AppendLog
    <3>3. hints' \in Seq(Nat)
      BY <1>2, <3>2
    <3> QED BY <3>1, <3>2, <3>3
  <2>2. CASE FlushHint
    <3> DEFINE r == [stage |-> "DigestHintAcked", op |-> Head(hints), rec |-> None]
    <3>1. hints # <<>> /\ log' = Append(log, r) /\ ckpt' = ckpt /\ hints' = Tail(hints)
      BY <2>2 DEF FlushHint, AppendLog
    <3>2. Head(hints) \in Nat /\ hints' \in Seq(Nat)
      BY <1>2, <3>1
    <3>3. r \in Record /\ r.stage \in HintStages
      BY <3>2 DEF Record, HintStages
    <3> QED BY <3>1, <3>2, <3>3
  <2> QED BY <2>1, <2>2
<1>4. PICK r \in Record : r.stage \in HintStages /\ log' = Append(log, r) /\ ckpt' = ckpt /\ hints' \in Seq(Nat)
  BY <1>3
<1>5. /\ log' \in Seq(Record) /\ Grown(log, r, log') /\ Shape(ckpt', log')
      /\ \A s : InLog(ckpt, log, s) => InLog(ckpt', log', s)
  BY <1>1, <1>4, AppendStep DEF Aside
<1>6. r.stage \notin FreezeStages
  BY <1>4 DEF HintStages, FreezeStages
<1>7. OpenOps(log') = OpenOps(log)
  BY <1>5, <1>6, OtherKeepsOpen DEF FreezeStages
<1>8. (rec # None /\ Follows(ckpt, log, rec)) => Follows(ckpt', log', rec)
  <2> SUFFICES ASSUME rec # None, Follows(ckpt, log, rec) PROVE Follows(ckpt, log', rec)
    BY <1>4
  <2>1. rec \in Recovery
    BY <1>2
  <2>2. /\ r.stage \notin Later /\ r.stage # "BankFrozen" /\ r.stage # "ClearCompleted"
        /\ r.stage # "SnapshotDurable"
    BY <1>6 DEF Later, FreezeStages
  <2> QED BY <1>1, <1>2, <1>4, <1>5, <2>1, <2>2, FollowsGrown
<1>9. RecInv'
  BY <1>1, <1>7, <1>8 DEF RecInv
<1>10. TypeOK'
  BY <1>1, <1>4, <1>5 DEF TypeOK, switch
<1>11. SeqInv'
  BY <1>1, <1>5 DEF SeqInv
<1> QED BY <1>5, <1>9, <1>10, <1>11 DEF Core

(* A restart finds in the log what it needs. *)
LEMMA CoreSpawn ==
    ASSUME Core, Spawn PROVE Core'
<1>1. /\ TypeOK /\ Shape(ckpt, log) /\ SeqInv /\ ckpt \in Nat /\ log \in Seq(Record)
      /\ up' = TRUE /\ life' = life + 1 /\ rec' = Resumed(log) /\ step' = "begin"
      /\ hints' = PendingHints(ckpt, log) /\ windows' = Admitted(ckpt, log) /\ through' = 0
      /\ started' = (Finals(log) # {}) /\ ckpt' = ckpt /\ log' = log
      /\ UNCHANGED <<sel, count, flight, inputs, now>>
  BY DEF Core, Spawn, TypeOK, switch, wal
<1>2. /\ OpenOps(log) = {} => Resumed(log) = None
      /\ OpenOps(log) # {} => Resumed(log) \in Recovery /\ Follows(ckpt, log, Resumed(log))
  BY <1>1, ResumedFollows
<1>3. hints' \in Seq(Nat)
  BY <1>1, PendingIs DEF InSequence
<1>4. \A i \in Finals(log) : SnapAt(log, i) \in Snapshot /\ ckpt + i \in Nat /\ (ckpt + i) - ckpt = i
  BY <1>1 DEF Shape, SnapsAgree, SnapAt, Finals
<1>5. \A w \in windows' : w.seq \in Nat /\ w.snap \in Snapshot /\ InLog(ckpt, log, w.seq)
  <2> SUFFICES ASSUME NEW i \in Finals(log), NEW w, w = [seq |-> ckpt + i, snap |-> SnapAt(log, i)]
               PROVE  w.seq \in Nat /\ w.snap \in Snapshot /\ InLog(ckpt, log, w.seq)
    BY <1>1 DEF Admitted
  <2> QED BY <1>4 DEF InLog
<1>6. rec' \in Recovery \cup {None}
  BY <1>1, <1>2
<1>7. started' \in BOOLEAN /\ life' \in Nat
  BY <1>1 DEF TypeOK
<1>8. TypeOK'
  BY <1>1, <1>3, <1>5, <1>6, <1>7 DEF TypeOK
<1>9. RecInv'
  <2>1. StepFits(rec', step')
    BY <1>1 DEF StepFits
  <2>2. CASE OpenOps(log) = {}
    BY <1>1, <1>2, <2>2 DEF RecInv
  <2>3. CASE OpenOps(log) # {}
    BY <1>1, <1>2, <2>1, <2>3, NoneAssumption DEF RecInv
  <2> QED BY <2>2, <2>3
<1>10. SeqInv'
  BY <1>1, <1>5 DEF SeqInv
<1> QED BY <1>1, <1>8, <1>9, <1>10 DEF Core

(* A crash leaves the disk. *)
LEMMA CoreCrash ==
    ASSUME Core, Crash PROVE Core'
<1>1. /\ TypeOK /\ Shape(ckpt, log) /\ SeqInv /\ up' = FALSE /\ rec' = None /\ step' = "begin"
      /\ hints' = <<>> /\ windows' = {} /\ through' = 0 /\ started' = FALSE
      /\ ckpt' = ckpt /\ log' = log /\ UNCHANGED <<sel, count, flight, inputs, life, now>>
  BY DEF Core, Crash, switch, wal
<1>2. hints' \in Seq(Nat) /\ through' \in Nat /\ rec' \in Recovery \cup {None}
  BY <1>1
<1>3. TypeOK' /\ Shape(ckpt', log')
  BY <1>1, <1>2 DEF TypeOK
<1>4. RecInv' /\ SeqInv'
  BY <1>1 DEF RecInv, SeqInv
<1> QED BY <1>3, <1>4 DEF Core

(* The invariant holds of an empty WAL. *)
LEMMA CoreInit ==
    ASSUME Init PROVE Core
<1>1. TypeOK
  <2>1. sel \in Selector /\ count \in [Banks -> Nat] /\ flight \in Banks \cup {None}
    BY DEF Init, Selector, Banks
  <2>2. log \in Seq(Record) /\ hints \in Seq(Nat) /\ rec \in Recovery \cup {None}
    BY DEF Init
  <2>3. now \in 0..MaxWindow
    BY BoundsAssumption DEF Init
  <2> QED BY <2>1, <2>2, <2>3 DEF Init, TypeOK
<1>2. log = <<>> /\ DOMAIN log = {}
  BY DEF Init
<1>3. Shape(ckpt, log)
  BY <1>2 DEF Shape, StartsAt, InOrder, OneAtATime, Preceded, After, SnapsAgree, Freezes
<1>4. RecInv /\ SeqInv
  BY DEF Init, RecInv, SeqInv
<1> QED BY <1>1, <1>3, <1>4 DEF Core

(* Every step keeps it. *)
LEMMA CoreStep ==
    ASSUME Core, [Next]_vars PROVE Core'
<1>1. CASE Poll
  BY <1>1, CorePoll
<1>2. CASE Attempt
  BY <1>2, CoreSwitch, CoreFreezeBank, CoreTakeSnapshot, CoreClearReadback, CoreFinalize DEF Attempt
<1>3. CASE \/ PacketSelects \/ PacketCounts \/ Tick \/ FlipUnanswered \/ AttemptFails
           \/ \E landed \in BOOLEAN : FlipSelector(landed) \/ ClearBank(landed)
  BY <1>3, CoreSwitch
<1>4. CASE \E w \in 0..MaxWindow : CloseWindow(w)
  BY <1>4, CoreCloseWindow
<1>5. CASE \E s \in inputs, torn \in BOOLEAN : Checkpoint(s, torn)
  BY <1>5, CoreCheckpoint
<1>6. CASE PersistHint \/ FlushHint
  BY <1>6, CoreHint
<1>7. CASE Crash \/ Spawn
  BY <1>7, CoreCrash, CoreSpawn
<1>8. CASE UNCHANGED vars
  <2>1. UNCHANGED <<sel, count, flight, ckpt, log, inputs, up, life, rec, step, hints, windows, through, started, now>>
    BY <1>8 DEF vars, switch, wal, memory
  <2> QED BY <2>1 DEF Core, TypeOK, RecInv, SeqInv
<1> QED BY <1>1, <1>2, <1>3, <1>4, <1>5, <1>6, <1>7, <1>8 DEF Next

(* Log, memory and windows stay together, whatever a crash, a failing read *)
(* or a checkpoint cuts short.                                             *)
THEOREM SourceIsFollowed == Spec => []Core
<1>1. Init => Core
  BY CoreInit
<1>2. Core /\ [Next]_vars => Core'
  BY CoreStep
<1> QED BY <1>1, <1>2, PTL DEF Spec

-----------------------------------------------------------------------------
(* Digest hints and checkpoints *)

(* An acknowledgement is behind its hint in the log: a checkpoint that     *)
(* drops the acknowledgement drops the hint with it.                       *)
AckBehind(c, l) == \A k \in DOMAIN l : l[k].stage = "DigestHintAcked" => l[k].op < c + k

(* While the actor runs, pending_digest_acks holds every hint in the log   *)
(* that is not acknowledged, in the order of the log, and nothing else.    *)
HintsInv ==
    /\ AckBehind(ckpt, log) /\ AcksFit(ckpt, log)
    /\ up => /\ InSequence(hints, ckpt + Len(log)) /\ HintsKept(ckpt, log, hints)
             /\ AreHints(ckpt, log, hints)

(* A record of a freeze operation changes nothing for the hints. *)
LEMMA HintsGrown ==
    ASSUME NEW c \in Nat, NEW l \in Seq(Record), NEW r, NEW m, Grown(l, r, m), r.stage \notin HintStages
    PROVE  /\ AckBehind(c, l) => AckBehind(c, m)
           /\ \A h : InSequence(h, c + Len(l)) => InSequence(h, c + Len(m))
           /\ \A h : HintsKept(c, l, h) => HintsKept(c, m, h)
           /\ AcksFit(c, l) => AcksFit(c, m)
           /\ \A h : AreHints(c, l, h) => AreHints(c, m, h)
<1> DEFINE n == Len(l) + 1
<1>1. /\ Len(l) \in Nat /\ Len(m) = Len(l) + 1
      /\ \A k \in DOMAIN l : k \in DOMAIN m /\ m[k] = l[k]
      /\ \A k \in DOMAIN m : k \in DOMAIN l \/ k = n
      /\ m[n] = r
  BY DEF Grown
<1>2. r.stage # "DigestHintAcked" /\ r.stage # "DigestHintDurable"
  BY DEF HintStages
<1> HIDE DEF n
<1>3. AckBehind(c, l) => AckBehind(c, m)
  BY <1>1, <1>2 DEF AckBehind
<1>4. ASSUME NEW h, InSequence(h, c + Len(l)) PROVE InSequence(h, c + Len(m))
  <2>1. \A a \in 1..Len(h) : h[a] \in Nat /\ h[a] <= c + Len(l)
    BY <1>4 DEF InSequence
  <2>2. \A a \in 1..Len(h) : h[a] <= c + Len(m)
    BY <1>1, <2>1
  <2> QED BY <1>4, <2>2 DEF InSequence
<1>5. \A s : HintAcked(l, s) => HintAcked(m, s)
  BY <1>1 DEF HintAcked
<1>6. \A h : HintsKept(c, l, h) => HintsKept(c, m, h)
  BY <1>1, <1>2, <1>5 DEF HintsKept, Unacked
<1>7. AcksFit(c, l) => AcksFit(c, m)
  BY <1>1, <1>2 DEF AcksFit
<1>8. \A h : AreHints(c, l, h) => AreHints(c, m, h)
  BY <1>1 DEF AreHints
<1> QED BY <1>3, <1>4, <1>6, <1>7, <1>8

(* A hint is persisted. *)
LEMMA HintsPersist ==
    ASSUME Core, HintsInv, PersistHint PROVE HintsInv'
<1> DEFINE r == [stage |-> "DigestHintDurable", op |-> 0, rec |-> None]
           n == Len(log) + 1
<1>1. /\ ckpt \in Nat /\ log \in Seq(Record) /\ Len(log) \in Nat /\ up /\ hints \in Seq(Nat)
      /\ log' = Append(log, r) /\ ckpt' = ckpt /\ hints' = Append(hints, NextSeq) /\ up' = up
      /\ AckBehind(ckpt, log) /\ InSequence(hints, ckpt + Len(log)) /\ HintsKept(ckpt, log, hints)
      /\ AcksFit(ckpt, log) /\ AreHints(ckpt, log, hints)
  BY DEF Core, TypeOK, HintsInv, PersistHint, AppendLog
<1>2. Grown(log, r, log')
  <2>1. r \in Record
    BY DEF Record, HintStages
  <2> HIDE DEF r
  <2> QED BY <1>1, <2>1, AppendGrows
<1>3. r.stage = "DigestHintDurable"
  OBVIOUS
<1> HIDE DEF r
<1>4. /\ Len(log') = n /\ NextSeq = ckpt + n /\ NextSeq \in Nat /\ ckpt + Len(log) < NextSeq
      /\ \A k \in DOMAIN log : k \in DOMAIN log' /\ log'[k] = log[k]
      /\ \A k \in DOMAIN log' : k \in DOMAIN log \/ k = n
      /\ log'[n] = r /\ ckpt + Len(log) \in Nat /\ n \in DOMAIN log'
  <2>1. NextSeq = ckpt + n /\ NextSeq \in Nat /\ ckpt + Len(log) < NextSeq /\ ckpt + Len(log) \in Nat
    BY <1>1 DEF NextSeq
  <2> QED BY <1>2, <2>1 DEF Grown
<1>5. /\ InSequence(hints', NextSeq)
      /\ \A a \in 1..Len(hints) : a \in 1..Len(hints') /\ hints'[a] = hints[a]
      /\ Len(hints) + 1 \in 1..Len(hints') /\ hints'[Len(hints) + 1] = NextSeq
  BY <1>1, <1>4, InSequenceGrows
<1> HIDE DEF n
<1>6. AckBehind(ckpt, log')
  BY <1>1, <1>3, <1>4 DEF AckBehind
<1>7. HintsKept(ckpt, log', hints')
  <2> SUFFICES ASSUME NEW k \in DOMAIN log', Unacked(ckpt, log', k)
               PROVE  \E a \in 1..Len(hints') : hints'[a] = ckpt + k
    BY DEF HintsKept
  <2>1. CASE k = n
    BY <1>4, <1>5, <2>1
  <2>2. CASE k \in DOMAIN log
    <3>1. Unacked(ckpt, log, k)
      BY <1>4, <2>2 DEF Unacked, HintAcked
    <3>2. PICK a \in 1..Len(hints) : hints[a] = ckpt + k
      BY <1>1, <2>2, <3>1 DEF HintsKept
    <3> QED BY <1>5, <3>2
  <2> QED BY <1>4, <2>1, <2>2
<1>8. AcksFit(ckpt, log')
  <2> SUFFICES ASSUME NEW k \in DOMAIN log', log'[k].stage = "DigestHintAcked"
               PROVE  \/ log'[k].op <= ckpt
                      \/ \E i \in DOMAIN log' : /\ i < k /\ log'[i].stage = "DigestHintDurable"
                                               /\ log'[k].op = ckpt + i
    BY DEF AcksFit
  <2>1. k \in DOMAIN log /\ log'[k] = log[k] BY <1>3, <1>4
  <2> QED BY <1>1, <1>4, <2>1 DEF AcksFit
<1>9. AreHints(ckpt, log', hints')
  <2> SUFFICES ASSUME NEW a \in 1..Len(hints')
               PROVE  \/ hints'[a] <= ckpt
                      \/ \E k \in DOMAIN log' : /\ hints'[a] = ckpt + k
                                               /\ log'[k].stage = "DigestHintDurable"
    BY DEF AreHints
  <2>1. a \in 1..Len(hints) \/ a = Len(hints) + 1
    <3>1. Len(hints') = Len(hints) + 1 /\ Len(hints) \in Nat BY <1>1
    <3> QED BY <3>1
  <2>2. CASE a \in 1..Len(hints)
    BY <1>1, <1>4, <1>5, <2>2 DEF AreHints
  <2>3. CASE a = Len(hints) + 1
    BY <1>3, <1>4, <1>5, <2>3
  <2> QED BY <2>1, <2>2, <2>3
<1> QED BY <1>1, <1>4, <1>5, <1>6, <1>7, <1>8, <1>9 DEF HintsInv

(* The acknowledgement of the oldest pending hint is persisted. *)
LEMMA HintsFlush ==
    ASSUME Core, HintsInv, FlushHint PROVE HintsInv'
<1> DEFINE r == [stage |-> "DigestHintAcked", op |-> Head(hints), rec |-> None]
           n == Len(log) + 1
<1>1. /\ ckpt \in Nat /\ log \in Seq(Record) /\ Len(log) \in Nat /\ up /\ hints \in Seq(Nat)
      /\ log' = Append(log, r) /\ ckpt' = ckpt /\ hints' = Tail(hints) /\ up' = up /\ hints # <<>>
      /\ AckBehind(ckpt, log) /\ InSequence(hints, ckpt + Len(log)) /\ HintsKept(ckpt, log, hints)
      /\ AcksFit(ckpt, log) /\ AreHints(ckpt, log, hints)
  BY DEF Core, TypeOK, HintsInv, FlushHint, AppendLog
<1>2. /\ Head(hints) = hints[1] /\ Head(hints) \in Nat /\ Len(hints) \in Nat /\ Len(hints) > 0
      /\ hints' \in Seq(Nat) /\ Len(hints') = Len(hints) - 1
      /\ \A a \in 1..Len(hints') : hints'[a] = hints[a + 1] /\ a + 1 \in 1..Len(hints)
  BY <1>1
<1>3. Grown(log, r, log')
  <2>1. r \in Record
    BY <1>2 DEF Record, HintStages
  <2> HIDE DEF r
  <2> QED BY <1>1, <2>1, AppendGrows
<1>4. r.stage = "DigestHintAcked" /\ r.op = hints[1]
  BY <1>2
<1> HIDE DEF r
<1>5. /\ Len(log') = n /\ n \in Nat /\ n \in DOMAIN log'
      /\ \A k \in DOMAIN log : k \in DOMAIN log' /\ log'[k] = log[k]
      /\ \A k \in DOMAIN log' : k \in DOMAIN log \/ k = n
      /\ log'[n] = r /\ ckpt + Len(log) < ckpt + n
  BY <1>1, <1>3 DEF Grown
<1>6. \A a \in 1..Len(hints) : hints[a] \in Nat /\ hints[a] <= ckpt + Len(log)
  BY <1>1 DEF InSequence
<1>7. AckBehind(ckpt, log')
  <2>1. r.op < ckpt + n
    <3>1. 1 \in 1..Len(hints)
      BY <1>2
    <3>2. hints[1] \in Nat /\ hints[1] <= ckpt + Len(log)
      BY <1>6, <3>1
    <3> QED BY <1>1, <1>4, <1>5, <3>2
  <2> HIDE DEF n
  <2> QED BY <1>1, <1>4, <1>5, <2>1 DEF AckBehind
<1>8. InSequence(hints', ckpt + Len(log'))
  <2>1. ASSUME NEW a \in 1..Len(hints'), NEW b \in 1..Len(hints'), a < b PROVE hints'[a] < hints'[b]
    <3>1. a + 1 < b + 1 /\ a + 1 \in 1..Len(hints) /\ b + 1 \in 1..Len(hints)
      BY <1>2, <2>1
    <3>2. hints[a + 1] < hints[b + 1]
      BY <1>1, <3>1 DEF InSequence
    <3> QED BY <1>2, <3>2
  <2>2. \A a \in 1..Len(hints') : hints'[a] <= ckpt + Len(log')
    <3> SUFFICES ASSUME NEW a \in 1..Len(hints') PROVE hints'[a] <= ckpt + Len(log')
      OBVIOUS
    <3>1. hints'[a] \in Nat /\ hints'[a] <= ckpt + Len(log)
      BY <1>2, <1>6
    <3> QED BY <1>1, <1>5, <3>1
  <2> QED BY <1>2, <2>1, <2>2 DEF InSequence
<1> HIDE DEF n
<1>9. HintsKept(ckpt, log', hints')
  <2> SUFFICES ASSUME NEW k \in DOMAIN log', Unacked(ckpt, log', k)
               PROVE  \E a \in 1..Len(hints') : hints'[a] = ckpt + k
    BY DEF HintsKept
  <2>1. k \in DOMAIN log /\ log'[k] = log[k]
    <3>1. log'[k].stage = "DigestHintDurable"
      BY DEF Unacked
    <3> QED BY <1>4, <1>5, <3>1
  <2>2. Unacked(ckpt, log, k) /\ hints[1] # ckpt + k
    BY <1>4, <1>5, <2>1 DEF Unacked, HintAcked
  <2>3. PICK a \in 1..Len(hints) : hints[a] = ckpt + k
    BY <1>1, <2>1, <2>2 DEF HintsKept
  <2>4. a - 1 \in 1..Len(hints') /\ (a - 1) + 1 = a
    BY <1>2, <2>2, <2>3
  <2>5. hints'[a - 1] = ckpt + k
    BY <1>2, <2>3, <2>4
  <2> QED BY <2>4, <2>5
<1>10. AcksFit(ckpt, log')
  <2>1. \/ hints[1] <= ckpt
        \/ \E k \in DOMAIN log : hints[1] = ckpt + k /\ log[k].stage = "DigestHintDurable"
    <3>1. 1 \in 1..Len(hints) BY <1>2
    <3> QED BY <1>1, <3>1 DEF AreHints
  <2>2. \A k \in DOMAIN log : k < n
    BY <1>1 DEF n
  <2> SUFFICES ASSUME NEW k \in DOMAIN log', log'[k].stage = "DigestHintAcked"
               PROVE  \/ log'[k].op <= ckpt
                      \/ \E i \in DOMAIN log' : /\ i < k /\ log'[i].stage = "DigestHintDurable"
                                               /\ log'[k].op = ckpt + i
    BY DEF AcksFit
  <2>3. CASE k = n BY <1>4, <1>5, <2>1, <2>2, <2>3
  <2>4. CASE k \in DOMAIN log
    <3>1. log'[k] = log[k] BY <1>5, <2>4
    <3> QED BY <1>1, <1>5, <2>4, <3>1 DEF AcksFit
  <2> QED BY <1>5, <2>3, <2>4
<1>11. AreHints(ckpt, log', hints')
  BY <1>1, <1>2, <1>5 DEF AreHints
<1> QED BY <1>1, <1>7, <1>8, <1>9, <1>10, <1>11 DEF HintsInv

(* A hint behind the checkpoint stays pending, and one that the checkpoint *)
(* drops is acknowledged.                                                  *)
LEMMA HintsCheckpoint ==
    ASSUME Core, HintsInv, NEW s \in inputs, NEW torn \in BOOLEAN, Checkpoint(s, torn)
    PROVE  /\ HintsInv'
           /\ \A t \in (ckpt + 1)..ckpt' :
                 log[t - ckpt].stage = "DigestHintDurable" => HintAcked(log, t)
<1>1. /\ ckpt \in Nat /\ log \in Seq(Record) /\ Len(log) \in Nat /\ up /\ hints \in Seq(Nat)
      /\ hints' = hints /\ up' = up /\ s \in Nat
      /\ AckBehind(ckpt, log) /\ InSequence(hints, ckpt + Len(log)) /\ HintsKept(ckpt, log, hints)
      /\ AcksFit(ckpt, log) /\ AreHints(ckpt, log, hints)
      /\ hints # <<>> => Head(hints) > s
  BY DEF Core, TypeOK, HintsInv, Checkpoint, memory
<1>2. CASE ~(s > ckpt)
  <2>1. ckpt' = ckpt /\ log' = log
    BY <1>2 DEF Checkpoint, wal
  <2>2. (ckpt + 1)..ckpt' = {}
    BY <1>1, <2>1
  <2> QED BY <1>1, <2>1, <2>2 DEF HintsInv
<1>3. CASE s > ckpt
  <2> DEFINE p == s - ckpt
  <2>1. p \in Finals(log) /\ ckpt' = ckpt + p /\ log' \in Seq(Record) /\ Shifted(log, p, log')
    BY <1>3, CheckpointCuts
  <2>2. p \in Nat /\ p > 0 /\ s = ckpt + p
    BY <1>1, <1>3
  <2> HIDE DEF p
  <2>3. /\ Len(log') = Len(log) - p /\ p <= Len(log) /\ DOMAIN log = 1..Len(log)
        /\ \A k \in DOMAIN log' : k \in Nat /\ k > 0 /\ p + k \in DOMAIN log /\ log'[k] = log[p + k]
        /\ \A k \in DOMAIN log : k > p => k - p \in DOMAIN log' /\ log'[k - p] = log[k]
    <3>1. \A k \in DOMAIN log : k > p => k - p \in DOMAIN log' /\ log'[k - p] = log[k]
      <4> SUFFICES ASSUME NEW k \in DOMAIN log, k > p PROVE k - p \in DOMAIN log' /\ log'[k - p] = log[k]
        OBVIOUS
      <4>1. k - p \in 1..(Len(log) - p) /\ p + (k - p) = k
        BY <1>1, <2>2
      <4> QED BY <2>1, <4>1 DEF Shifted
    <3> QED BY <1>1, <2>1, <2>2, <3>1 DEF Shifted
  <2>4. AckBehind(ckpt', log')
    <3> SUFFICES ASSUME NEW k \in DOMAIN log', log'[k].stage = "DigestHintAcked"
                 PROVE  log'[k].op < (ckpt + p) + k
      BY <2>1 DEF AckBehind
    <3>1. log'[k] = log[p + k] /\ p + k \in DOMAIN log /\ k \in Nat
      BY <2>3
    <3>2. log[p + k].op < ckpt + (p + k)
      BY <1>1, <3>1 DEF AckBehind
    <3>3. ckpt + (p + k) = (ckpt + p) + k
      BY <1>1, <2>2, <3>1
    <3> QED BY <3>1, <3>2, <3>3
  <2>5. ckpt' + Len(log') = ckpt + Len(log)
    BY <1>1, <2>1, <2>2, <2>3
  <2>6. HintsKept(ckpt', log', hints)
    <3> SUFFICES ASSUME NEW k \in DOMAIN log', Unacked(ckpt + p, log', k)
                 PROVE  \E a \in 1..Len(hints) : hints[a] = (ckpt + p) + k
      BY <2>1 DEF HintsKept
    <3>1. log'[k] = log[p + k] /\ p + k \in DOMAIN log /\ k \in Nat /\ (ckpt + p) + k = ckpt + (p + k)
      BY <1>1, <2>2, <2>3
    <3>2. ~HintAcked(log, ckpt + (p + k))
      <4> SUFFICES ASSUME NEW j \in DOMAIN log, log[j].stage = "DigestHintAcked",
                          log[j].op = ckpt + (p + k)
                   PROVE  FALSE
        BY DEF HintAcked
      <4>1. ckpt + (p + k) < ckpt + j
        BY <1>1 DEF AckBehind
      <4>2. j > p
        BY <1>1, <2>2, <2>3, <3>1, <4>1
      <4>3. j - p \in DOMAIN log' /\ log'[j - p] = log[j]
        BY <2>3, <4>2
      <4>4. HintAcked(log', (ckpt + p) + k)
        BY <3>1, <4>3 DEF HintAcked
      <4> QED BY <4>4 DEF Unacked
    <3>3. Unacked(ckpt, log, p + k)
      BY <3>1, <3>2 DEF Unacked
    <3> QED BY <1>1, <3>1, <3>3 DEF HintsKept
  <2>7. ASSUME NEW t \in (ckpt + 1)..ckpt', log[t - ckpt].stage = "DigestHintDurable"
        PROVE  HintAcked(log, t)
    <3> SUFFICES ASSUME ~HintAcked(log, t) PROVE FALSE
      OBVIOUS
    <3> DEFINE k == t - ckpt
    <3>1. k \in DOMAIN log /\ ckpt + k = t /\ t <= s /\ t \in Nat
      BY <1>1, <2>1, <2>2, <2>3
    <3>2. Unacked(ckpt, log, k)
      BY <2>7, <3>1 DEF Unacked
    <3>3. PICK a \in 1..Len(hints) : hints[a] = ckpt + k
      BY <1>1, <3>1, <3>2 DEF HintsKept
    <3>4. hints # <<>> /\ Len(hints) \in Nat /\ Head(hints) = hints[1] /\ 1 \in 1..Len(hints)
      BY <1>1, <3>3
    <3>5. hints[1] > s /\ hints[1] \in Nat
      BY <1>1, <3>4
    <3>6. hints[1] <= hints[a]
      <4>1. CASE a = 1
        BY <3>5, <4>1
      <4>2. CASE a # 1
        <5>1. hints[1] < hints[a]
          BY <1>1, <3>3, <3>4, <4>2 DEF InSequence
        <5> QED BY <1>1, <3>3, <3>5, <5>1
      <4> QED BY <4>1, <4>2
    <3> HIDE DEF k
    <3> QED BY <1>1, <3>1, <3>3, <3>5, <3>6
  <2>8. ASSUME NEW x \in Nat, NEW k \in DOMAIN log, x = ckpt + k, log[k].stage = "DigestHintDurable"
        PROVE  x <= ckpt + p \/ (k > p /\ \E i \in DOMAIN log' : /\ i = k - p /\ x = (ckpt + p) + i
                                                              /\ log'[i].stage = "DigestHintDurable")
    <3>0. k \in Nat BY <1>1, <2>3
    <3>1. CASE k <= p BY <1>1, <2>2, <2>8, <3>0, <3>1
    <3>2. CASE k > p
      <4>1. k - p \in DOMAIN log' /\ log'[k - p] = log[k] BY <2>3, <3>2
      <4>2. x = (ckpt + p) + (k - p) BY <1>1, <2>2, <2>8, <3>0
      <4> QED BY <2>8, <3>2, <4>1, <4>2
    <3> QED BY <2>2, <3>0, <3>1, <3>2
  <2>9. AreHints(ckpt', log', hints)
    <3> SUFFICES ASSUME NEW a \in 1..Len(hints)
                 PROVE  \/ hints[a] <= ckpt + p
                        \/ \E i \in DOMAIN log' : /\ hints[a] = (ckpt + p) + i
                                                 /\ log'[i].stage = "DigestHintDurable"
      BY <2>1 DEF AreHints
    <3>1. hints[a] \in Nat BY <1>1
    <3>2. CASE hints[a] <= ckpt BY <1>1, <2>2, <3>1, <3>2
    <3>3. CASE ~(hints[a] <= ckpt)
      <4>1. PICK k \in DOMAIN log : hints[a] = ckpt + k /\ log[k].stage = "DigestHintDurable"
        BY <1>1, <3>3 DEF AreHints
      <4> QED BY <2>8, <3>1, <4>1
    <3> QED BY <3>2, <3>3
  <2>10. AcksFit(ckpt', log')
    <3> SUFFICES ASSUME NEW j \in DOMAIN log', log'[j].stage = "DigestHintAcked"
                 PROVE  \/ log'[j].op <= ckpt + p
                        \/ \E i \in DOMAIN log' : /\ i < j /\ log'[i].stage = "DigestHintDurable"
                                                 /\ log'[j].op = (ckpt + p) + i
      BY <2>1 DEF AcksFit
    <3>1. log'[j] = log[p + j] /\ p + j \in DOMAIN log /\ j \in Nat BY <2>3
    <3>2. log[p + j].op \in Nat
      <4>1. log[p + j] \in Record BY <1>1, <3>1
      <4> QED BY <4>1 DEF Record
    <3>3. CASE log[p + j].op <= ckpt BY <1>1, <2>2, <3>1, <3>2, <3>3
    <3>4. CASE ~(log[p + j].op <= ckpt)
      <4>1. PICK k \in DOMAIN log : /\ k < p + j /\ log[k].stage = "DigestHintDurable"
                                    /\ log[p + j].op = ckpt + k
        BY <1>1, <3>1, <3>4 DEF AcksFit
      <4>2. k \in Nat /\ (k > p => k - p < j) BY <1>1, <2>2, <2>3, <3>1, <4>1
      <4> QED BY <2>8, <3>1, <3>2, <4>1, <4>2
    <3> QED BY <3>3, <3>4
  <2> QED BY <1>1, <2>1, <2>4, <2>5, <2>6, <2>7, <2>9, <2>10 DEF HintsInv
<1> QED BY <1>2, <1>3

(* A step of a freeze operation appends its record or leaves the log. *)
LEMMA HintsFreeze ==
    ASSUME Core, HintsInv, Poll \/ FreezeBank \/ TakeSnapshot \/ ClearReadback \/ Finalize
    PROVE  HintsInv' /\ ckpt' = ckpt
<1>1. ckpt \in Nat /\ log \in Seq(Record)
  BY DEF Core, TypeOK
<1>2. ckpt' = ckpt /\ up' = up /\ hints' = hints
  BY DEF Poll, FreezeBank, TakeSnapshot, ClearReadback, Finalize, AppendLog, Goes, wal
<1>3. CASE log' = log
  BY <1>2, <1>3 DEF HintsInv
<1>4. CASE log' # log
  <2>1. \E st \in FreezeStages : \E o, x : log' = Append(log, [stage |-> st, op |-> o, rec |-> x])
    <3>1. \/ \E o, x : AppendLog("BankFreezeStarted", o, x)
          \/ \E o, x : AppendLog("BankFrozen", o, x)
          \/ \E o, x : AppendLog("SnapshotDurable", o, x)
          \/ \E o, x : AppendLog("ClearCompleted", o, x)
          \/ \E o, x : AppendLog("SnapshotFinalized", o, x)
      BY <1>4 DEF Poll, FreezeBank, TakeSnapshot, ClearReadback, Finalize, wal
    <3> QED BY <3>1 DEF AppendLog, FreezeStages
  <2>a. PICK st \in FreezeStages : \E o, x : log' = Append(log, [stage |-> st, op |-> o, rec |-> x])
    BY <2>1
  <2>2. PICK o, x : log' = Append(log, [stage |-> st, op |-> o, rec |-> x])
    BY <2>a
  <2> DEFINE r == [stage |-> st, op |-> o, rec |-> x]
  <2>3. r.stage \notin HintStages
    BY DEF HintStages, FreezeStages
  <2>4. Grown(log, r, log')
    <3>1. log' = Append(log, r)
      BY <2>2
    <3> HIDE DEF r
    <3> QED BY <1>1, <3>1 DEF Grown
  <2> HIDE DEF r
  <2> QED BY <1>1, <1>2, <2>3, <2>4, HintsGrown DEF HintsInv
<1> QED BY <1>2, <1>3, <1>4

(* No step drops a hint that is not acknowledged or forgets a pending one. *)
LEMMA HintsStep ==
    ASSUME Core, HintsInv, [Next]_vars
    PROVE  /\ HintsInv'
           /\ \A s \in (ckpt + 1)..ckpt' :
                 log[s - ckpt].stage = "DigestHintDurable" => HintAcked(log, s)
<1>1. ckpt \in Nat /\ log \in Seq(Record)
  BY DEF Core, TypeOK
<1>2. ckpt' = ckpt => (ckpt + 1)..ckpt' = {}
  BY <1>1
<1>3. ASSUME UNCHANGED <<ckpt, log, up, hints>> PROVE HintsInv'
  BY <1>3 DEF HintsInv
<1>4. CASE Poll \/ FreezeBank \/ TakeSnapshot \/ ClearReadback \/ Finalize
  BY <1>2, <1>4, HintsFreeze
<1>5. CASE FindFlipped \/ PacketSelects \/ PacketCounts \/ Tick \/ FlipUnanswered \/ AttemptFails
  <2>1. UNCHANGED <<ckpt, log, up, hints>>
    BY <1>5 DEF FindFlipped, PacketSelects, PacketCounts, Tick, FlipUnanswered, AttemptFails, wal, memory, Goes
  <2> QED BY <1>2, <1>3, <2>1
<1>6. CASE \E landed \in BOOLEAN : FlipSelector(landed) \/ ClearBank(landed)
  <2>1. UNCHANGED <<ckpt, log, up, hints>>
    BY <1>6 DEF FlipSelector, ClearBank, wal, Goes
  <2> QED BY <1>2, <1>3, <2>1
<1>7. CASE \E w \in 0..MaxWindow : CloseWindow(w)
  <2>1. UNCHANGED <<ckpt, log, up, hints>>
    BY <1>7 DEF CloseWindow, wal
  <2> QED BY <1>2, <1>3, <2>1
<1>8. CASE \E s \in inputs, torn \in BOOLEAN : Checkpoint(s, torn)
  BY <1>8, HintsCheckpoint
<1>9. CASE PersistHint \/ FlushHint
  <2>1. ckpt' = ckpt
    BY <1>9 DEF PersistHint, FlushHint, AppendLog
  <2> QED BY <1>2, <1>9, <2>1, HintsPersist, HintsFlush
<1>10. CASE Crash
  <2>1. ckpt' = ckpt /\ log' = log /\ up' = FALSE
    BY <1>10 DEF Crash, wal
  <2> QED BY <1>2, <2>1 DEF HintsInv
<1>11. CASE Spawn
  <2>1. ckpt' = ckpt /\ log' = log /\ hints' = PendingHints(ckpt, log)
    BY <1>11 DEF Spawn, wal
  <2>2. InSequence(hints', ckpt + Len(log)) /\ HintsKept(ckpt, log, hints') /\ AreHints(ckpt, log, hints')
    BY <1>1, <2>1, PendingIs
  <2> QED BY <1>2, <2>1, <2>2 DEF HintsInv
<1>12. CASE UNCHANGED vars
  <2>1. UNCHANGED <<ckpt, log, up, hints>>
    BY <1>12 DEF vars, wal, memory
  <2> QED BY <1>2, <1>3, <2>1
<1> QED BY <1>4, <1>5, <1>6, <1>7, <1>8, <1>9, <1>10, <1>11, <1>12 DEF Next, Attempt

(* HintsOutlive: no checkpoint of the source WAL crosses a digest hint     *)
(* that is not acknowledged, although after a crash the actor knows the    *)
(* pending ones only from the records that the last checkpoint left.       *)
THEOREM HintsOutliveHolds == Spec => HintsOutlive
<1>1. Init => HintsInv
  <2> SUFFICES ASSUME Init PROVE HintsInv
    OBVIOUS
  <2>1. log = <<>> /\ up = FALSE
    BY DEF Init
  <2> QED BY <2>1 DEF HintsInv, AckBehind, AcksFit
<1>2. Core /\ HintsInv /\ [Next]_vars => HintsInv'
  BY HintsStep
<1>3. Core /\ HintsInv /\ [Next]_vars =>
        [\A s \in (ckpt + 1)..ckpt' :
            log[s - ckpt].stage = "DigestHintDurable" => HintAcked(log, s)]_vars
  BY HintsStep
<1> QED BY <1>1, <1>2, <1>3, SourceIsFollowed, PTL DEF Spec, HintsOutlive

(* TelemetryInv: the source WAL is well typed, recover_source_state can    *)
(* always read its freeze operations, and an acknowledgement record has    *)
(* lost its hint only to the checkpoint, for any number of crashes, flips, *)
(* windows and hints.                                                      *)
THEOREM SourceReplays == Spec => []TelemetryInv
<1>1. Core /\ HintsInv => TelemetryInv
  <2> SUFFICES ASSUME Core, HintsInv PROVE TelemetryInv
    OBVIOUS
  <2>1. TypeOK /\ Shape(ckpt, log) /\ ckpt \in Nat /\ log \in Seq(Record)
    BY DEF Core, TypeOK
  <2>2. StagesFit(log)
    BY <2>1, ShapeReplays
  <2>3. AcksFit(ckpt, log)
    BY DEF HintsInv
  <2> QED BY <2>1, <2>2, <2>3 DEF TelemetryInv, StagesReplay
<1>2. Init => HintsInv
  <2>1. Init => log = <<>> /\ up = FALSE
    BY DEF Init
  <2> QED BY <2>1 DEF HintsInv, AckBehind, AcksFit
<1>3. Core /\ HintsInv /\ [Next]_vars => HintsInv'
  BY HintsStep
<1> QED BY <1>1, <1>2, <1>3, SourceIsFollowed, PTL DEF Spec

-----------------------------------------------------------------------------
(* Packets *)

Ghost == [seen : Nat, final : Nat, strays : Nat]

(* Conserved is not inductive: what arrives in a bank between its clear    *)
(* and the finalization is not reported yet, and has to have room below    *)
(* the packets seen once the bank counts again.                            *)
Total == ghost.final + Unread(0) + Unread(1)
GhostInv ==
    /\ ghost \in Ghost /\ Conserved
    /\ \A i \in OpenOps(log) : HasStage(log, i, "ClearCompleted") =>
          Total + count[log[i].rec.from.bank] <= ghost.seen

(* The same of the operation r in memory or resumed from the log. *)
Owed(r, cnt, b) == IF HasSnap(r, b) THEN r.snap.packets ELSE cnt[b]
Sum(r, cnt, g) == g.final + Owed(r, cnt, 0) + Owed(r, cnt, 1)
Accounted(r, cnt, g) ==
    /\ g.seen - g.strays <= Sum(r, cnt, g) /\ Sum(r, cnt, g) <= g.seen
    /\ (r # None /\ r.cleared) => Sum(r, cnt, g) + cnt[r.from.bank] <= g.seen

(* What GhostInv says of given values. *)
TotalOf(l, cnt, g) == g.final + UnreadOf(l, cnt, 0) + UnreadOf(l, cnt, 1)
GhostOf(l, cnt, g) ==
    /\ g.seen - g.strays <= TotalOf(l, cnt, g) /\ TotalOf(l, cnt, g) <= g.seen
    /\ \A i \in OpenOps(l) : HasStage(l, i, "ClearCompleted") =>
          TotalOf(l, cnt, g) + cnt[l[i].rec.from.bank] <= g.seen

(* The log and the operation that follows it agree on the packets. *)
LEMMA GhostOfLog ==
    ASSUME NEW c \in Nat, NEW l \in Seq(Record), Shape(c, l), NEW r, OfLog(c, l, r),
           NEW cnt \in [Banks -> Nat], NEW g
    PROVE  GhostOf(l, cnt, g) <=> Accounted(r, cnt, g)
<1>1. IF r = None THEN OpenOps(l) = {} ELSE Follows(c, l, r)
  BY DEF OfLog
<1>2. UnreadOf(l, cnt, 0) = Owed(r, cnt, 0) /\ UnreadOf(l, cnt, 1) = Owed(r, cnt, 1)
  <2>1. UnreadOf(l, cnt, 0) = IF HasSnap(r, 0) THEN r.snap.packets ELSE cnt[0]
    BY UnreadFollows
  <2>2. UnreadOf(l, cnt, 1) = IF HasSnap(r, 1) THEN r.snap.packets ELSE cnt[1]
    BY UnreadFollows
  <2> QED BY <2>1, <2>2 DEF Owed
<1>3. TotalOf(l, cnt, g) = Sum(r, cnt, g)
  BY <1>2 DEF TotalOf, Sum
<1>4. CASE r = None
  BY <1>1, <1>3, <1>4 DEF GhostOf, Accounted
<1>5. CASE r # None
  <2> DEFINE i == r.op - c
  <2>1. /\ OpenOps(l) = {i} /\ l[i].rec.from = r.from
        /\ r.cleared <=> HasStage(l, i, "ClearCompleted")
    BY <1>1, <1>5 DEF Follows
  <2> HIDE DEF i
  <2>2. (\A k \in OpenOps(l) : HasStage(l, k, "ClearCompleted") =>
             TotalOf(l, cnt, g) + cnt[l[k].rec.from.bank] <= g.seen)
        <=> (r.cleared => Sum(r, cnt, g) + cnt[r.from.bank] <= g.seen)
    BY <1>3, <2>1
  <2> QED BY <1>3, <1>5, <2>2 DEF GhostOf, Accounted
<1> QED BY <1>4, <1>5

(* GhostInv in those terms, now and after a step. *)
LEMMA GhostIs ==
    /\ GhostInv <=> (ghost \in Ghost /\ GhostOf(log, count, ghost))
    /\ GhostInv' <=> (ghost' \in Ghost /\ GhostOf(log', count', ghost'))
<1>1. \A b : /\ Unread(b) = UnreadOf(log, count, b)
             /\ Unread(b)' = UnreadOf(log', count', b)
  BY DEF Unread, UnreadOf, Reported, Snapped
<1>2. Total = TotalOf(log, count, ghost) /\ Total' = TotalOf(log', count', ghost')
  BY <1>1 DEF Total, TotalOf
<1>3. /\ Conserved <=> (ghost.seen - ghost.strays <= Total /\ Total <= ghost.seen)
      /\ Conserved' <=> (ghost'.seen - ghost'.strays <= Total' /\ Total' <= ghost'.seen)
  BY DEF Conserved, Total
<1> QED BY <1>2, <1>3 DEF GhostInv, GhostOf

(* What is owed is a number of packets. *)
LEMMA OwedIsNat ==
    ASSUME NEW r \in Recovery \cup {None}, NEW cnt \in [Banks -> Nat], NEW b \in Banks
    PROVE  Owed(r, cnt, b) \in Nat
<1>1. HasSnap(r, b) => r.snap.packets \in Nat
  BY DEF HasSnap, Recovery, Snapshot
<1> QED BY <1>1 DEF Owed

(* A packet is counted into bank b. *)
LEMMA PacketAccounted ==
    ASSUME NEW r \in Recovery \cup {None}, (r # None /\ r.cleared) => r.snap # None,
           NEW cnt \in [Banks -> Nat], NEW g \in Ghost, NEW g2 \in Ghost, NEW b \in Banks,
           Accounted(r, cnt, g),
           g2.seen = g.seen + 1, g2.final = g.final,
           g2.strays = g.strays + IF HasSnap(r, b) THEN 1 ELSE 0
    PROVE  Accounted(r, [cnt EXCEPT ![b] = @ + 1], g2)
<1> DEFINE k == [cnt EXCEPT ![b] = @ + 1]
<1>1. k[b] = cnt[b] + 1 /\ k \in [Banks -> Nat] /\ \A x \in Banks : x # b => k[x] = cnt[x]
  OBVIOUS
<1> HIDE DEF k
<1>2. 0 \in Banks /\ 1 \in Banks /\ (b = 0 \/ b = 1)
  BY DEF Banks
<1>3. \A x \in Banks : Owed(r, cnt, x) \in Nat /\ Owed(r, k, x) \in Nat
  BY <1>1, OwedIsNat
<1>4. \A x \in Banks : x # b => Owed(r, k, x) = Owed(r, cnt, x)
  BY <1>1 DEF Owed
<1>5. g.seen \in Nat /\ g.final \in Nat /\ g.strays \in Nat
  BY DEF Ghost
<1>6. (r # None /\ r.cleared) => r.from.bank \in Banks /\ HasSnap(r, r.from.bank)
  BY DEF HasSnap, Recovery, Selector
<1>7. CASE HasSnap(r, b)
  <2>1. Owed(r, k, b) = Owed(r, cnt, b)
    BY <1>7 DEF Owed
  <2>2. Sum(r, k, g2) = Sum(r, cnt, g) /\ Sum(r, cnt, g) \in Nat
    BY <1>2, <1>3, <1>4, <1>5, <2>1 DEF Sum
  <2>3. g2.seen - g2.strays = g.seen - g.strays
    BY <1>5, <1>7
  <2>4. (r # None /\ r.cleared) => Sum(r, k, g2) + k[r.from.bank] <= g2.seen
    <3> SUFFICES ASSUME r # None, r.cleared PROVE Sum(r, k, g2) + k[r.from.bank] <= g2.seen
      OBVIOUS
    <3>1. Sum(r, cnt, g) + cnt[r.from.bank] <= g.seen /\ r.from.bank \in Banks
      BY <1>6 DEF Accounted
    <3>2. k[r.from.bank] = cnt[r.from.bank] \/ k[r.from.bank] = cnt[r.from.bank] + 1
      BY <1>1, <3>1
    <3>3. cnt[r.from.bank] \in Nat
      BY <3>1
    <3> QED BY <1>5, <2>2, <3>1, <3>2, <3>3
  <2> QED BY <1>5, <2>2, <2>3, <2>4 DEF Accounted, k
<1>8. CASE ~HasSnap(r, b)
  <2>1. Owed(r, k, b) = Owed(r, cnt, b) + 1
    BY <1>1, <1>8 DEF Owed
  <2>2. Sum(r, k, g2) = Sum(r, cnt, g) + 1 /\ Sum(r, cnt, g) \in Nat
    <3>1. CASE b = 0
      BY <1>2, <1>3, <1>4, <1>5, <2>1, <3>1 DEF Sum
    <3>2. CASE b = 1
      BY <1>2, <1>3, <1>4, <1>5, <2>1, <3>2 DEF Sum
    <3> QED BY <1>2, <3>1, <3>2
  <2>3. g2.strays = g.strays
    BY <1>5, <1>8
  <2>4. (r # None /\ r.cleared) => Sum(r, k, g2) + k[r.from.bank] <= g2.seen
    <3> SUFFICES ASSUME r # None, r.cleared PROVE Sum(r, k, g2) + k[r.from.bank] <= g2.seen
      OBVIOUS
    <3>1. Sum(r, cnt, g) + cnt[r.from.bank] <= g.seen /\ r.from.bank \in Banks
      BY <1>6 DEF Accounted
    <3>2. r.from.bank # b
      BY <1>6, <1>8
    <3>3. cnt[r.from.bank] \in Nat /\ k[r.from.bank] = cnt[r.from.bank]
      BY <1>1, <3>1, <3>2
    <3> QED BY <1>5, <2>2, <3>1, <3>3
  <2>5. g.seen - g.strays <= Sum(r, cnt, g) /\ Sum(r, cnt, g) <= g.seen
    BY DEF Accounted
  <2>6. g2.seen - g2.strays <= Sum(r, k, g2) /\ Sum(r, k, g2) <= g2.seen
    BY <1>5, <2>2, <2>3, <2>5
  <2> QED BY <2>4, <2>6 DEF Accounted, k
<1> QED BY <1>7, <1>8

(* A cleared operation has a durable snapshot. *)
LEMMA ClearedHasSnap ==
    ASSUME NEW c, NEW l, Shape(c, l), NEW r, r # None, Follows(c, l, r), r.cleared
    PROVE  r.snap # None
<1> DEFINE i == r.op - c
<1>1. /\ (r.snap # None) <=> HasStage(l, i, "SnapshotDurable")
      /\ r.cleared <=> HasStage(l, i, "ClearCompleted")
  BY DEF Follows
<1> HIDE DEF i
<1>2. HasStage(l, i, "ClearCompleted") => HasStage(l, i, "SnapshotDurable")
  BY DEF HasStage, Shape, Preceded, After
<1> QED BY <1>1, <1>2

(* A packet is counted, whether or not the actor runs. *)
LEMMA GhostPacket ==
    ASSUME Core, GhostInv, PacketCounts PROVE GhostInv'
<1> DEFINE q == Resumed(log)
<1>1. /\ TypeOK /\ Shape(ckpt, log) /\ ckpt \in Nat /\ log \in Seq(Record)
      /\ count \in [Banks -> Nat] /\ flight \in Banks /\ log' = log
      /\ count' = [count EXCEPT ![flight] = @ + 1]
      /\ ghost' = [ghost EXCEPT !.seen = @ + 1, !.strays = @ + IF Reported(flight) THEN 1 ELSE 0]
  BY DEF Core, TypeOK, PacketCounts, wal
<1>2. OfLog(ckpt, log, q)
  BY <1>1, ResumedFollows, NoneAssumption DEF OfLog
<1> HIDE DEF q
<1>3. ghost \in Ghost /\ GhostOf(log, count, ghost)
  BY GhostIs
<1>4. Accounted(q, count, ghost)
  BY <1>1, <1>2, <1>3, GhostOfLog
<1>5. Reported(flight) <=> HasSnap(q, flight)
  <2>1. Snapped(log, flight) <=> HasSnap(q, flight)
    BY <1>1, <1>2, UnreadFollows
  <2> QED BY <2>1 DEF Reported, Snapped
<1>6. (q # None /\ q.cleared) => q.snap # None
  BY <1>1, <1>2, ClearedHasSnap DEF OfLog
<1>7. /\ ghost' \in Ghost /\ ghost'.seen = ghost.seen + 1 /\ ghost'.final = ghost.final
      /\ ghost'.strays = ghost.strays + IF HasSnap(q, flight) THEN 1 ELSE 0
  <2> DEFINE d == IF Reported(flight) THEN 1 ELSE 0
  <2>1. d \in Nat /\ d = IF HasSnap(q, flight) THEN 1 ELSE 0
    BY <1>5
  <2>2. ghost' = [ghost EXCEPT !.seen = @ + 1, !.strays = @ + d]
    BY <1>1
  <2> HIDE DEF d
  <2>3. /\ ghost' \in Ghost /\ ghost'.seen = ghost.seen + 1 /\ ghost'.final = ghost.final
        /\ ghost'.strays = ghost.strays + d
    <3>1. ghost \in Ghost /\ d \in Nat
      BY <1>3, <2>1
    <3>2. /\ ghost = [seen |-> ghost.seen, final |-> ghost.final, strays |-> ghost.strays]
          /\ ghost.seen \in Nat /\ ghost.final \in Nat /\ ghost.strays \in Nat
      BY <3>1 DEF Ghost
    <3>3. ghost' = [seen |-> ghost.seen + 1, final |-> ghost.final, strays |-> ghost.strays + d]
      BY <2>2, <3>2
    <3> QED BY <3>1, <3>2, <3>3 DEF Ghost
  <2> QED BY <2>1, <2>3
<1>8. q \in Recovery \cup {None}
  BY <1>2 DEF OfLog
<1>9. Accounted(q, count', ghost')
  BY <1>1, <1>3, <1>4, <1>6, <1>7, <1>8, PacketAccounted
<1>10. GhostOf(log', count', ghost')
  <2>1. count' \in [Banks -> Nat]
    BY <1>1
  <2> QED BY <1>1, <1>2, <1>9, <2>1, GhostOfLog
<1> QED BY <1>7, <1>10, GhostIs

(* While the actor runs, the operation in memory accounts for the packets. *)
LEMMA GhostUp ==
    ASSUME Core, Core', up, up', GhostInv, ghost' \in Ghost,
           Accounted(rec, count, ghost) => Accounted(rec', count', ghost')
    PROVE  GhostInv'
<1>1. /\ ckpt \in Nat /\ log \in Seq(Record) /\ Shape(ckpt, log) /\ OfLog(ckpt, log, rec)
      /\ count \in [Banks -> Nat]
  BY DEF Core, TypeOK, RecInv, OfLog
<1>2. /\ ckpt' \in Nat /\ log' \in Seq(Record) /\ Shape(ckpt', log') /\ OfLog(ckpt', log', rec')
      /\ count' \in [Banks -> Nat]
  BY DEF Core, TypeOK, RecInv, OfLog
<1>3. GhostOf(log, count, ghost)
  BY GhostIs
<1>4. Accounted(rec, count, ghost)
  BY <1>1, <1>3, GhostOfLog
<1>5. GhostOf(log', count', ghost')
  BY <1>2, <1>4, GhostOfLog
<1> QED BY <1>5, GhostIs

(* A poll and the freeze of a bank report nothing. *)
LEMMA GhostFreeze ==
    ASSUME Core, Core', GhostInv, Poll \/ FreezeBank PROVE GhostInv'
<1>1. /\ up /\ up' /\ ghost' = ghost /\ count' = count /\ ghost \in Ghost
      /\ rec \in Recovery \cup {None} /\ rec' \in Recovery \cup {None}
  BY DEF Poll, FreezeBank, InAttempt, switch, Core, TypeOK, GhostInv
<1>2. CASE Poll
  <2>1. rec = None /\ rec'.snap = None /\ rec'.cleared = FALSE
    BY <1>2 DEF Poll
  <2>2. \A b : ~HasSnap(rec, b) /\ ~HasSnap(rec', b)
    BY <2>1 DEF HasSnap
  <2>3. Sum(rec', count, ghost) = Sum(rec, count, ghost)
    BY <2>2 DEF Sum, Owed
  <2>4. Accounted(rec, count, ghost) => Accounted(rec', count', ghost')
    BY <1>1, <2>1, <2>3 DEF Accounted
  <2> QED BY <1>1, <2>4, GhostUp
<1>3. CASE FreezeBank
  <2>1. rec \in Recovery /\ rec # None /\ rec' = [rec EXCEPT !.before = count[rec.from.bank], !.frozen = TRUE]
    BY <1>1, <1>3 DEF FreezeBank, InAttempt
  <2>2. rec'.snap = rec.snap /\ rec'.cleared = rec.cleared /\ rec'.from = rec.from
    BY <2>1 DEF Recovery
  <2>3. rec' # None
    <3>1. rec.from.bank \in Banks /\ count[rec.from.bank] \in Nat
      BY <2>1 DEF Core, TypeOK, Recovery, Selector
    <3>2. rec' \in Recovery
      BY <2>1, <3>1 DEF Recovery
    <3> QED BY <3>2, NoneAssumption
  <2>4. \A b : HasSnap(rec', b) <=> HasSnap(rec, b)
    BY <2>1, <2>2, <2>3 DEF HasSnap
  <2>5. Sum(rec', count, ghost) = Sum(rec, count, ghost)
    BY <2>2, <2>4 DEF Sum, Owed
  <2>6. Accounted(rec, count, ghost) => Accounted(rec', count', ghost')
    BY <1>1, <2>1, <2>2, <2>3, <2>5 DEF Accounted
  <2> QED BY <1>1, <2>6, GhostUp
<1> QED BY <1>2, <1>3

(* The snapshot reports what the bank holds. *)
LEMMA GhostTake ==
    ASSUME Core, Core', GhostInv, TakeSnapshot, log' # log PROVE GhostInv'
<1>1. /\ up /\ up' /\ ghost' = ghost /\ count' = count /\ ghost \in Ghost
      /\ rec \in Recovery /\ rec # None /\ step = "frozen" /\ StepFits(rec, step)
      /\ count[rec.from.bank] = rec.before /\ rec' # None /\ Follows(ckpt, log, rec) /\ Shape(ckpt, log)
      /\ rec' = [rec EXCEPT !.snap = [win |-> now, life |-> rec.life, packets |-> rec.before, valid |-> started]]
  <2>1. /\ up /\ up' /\ ghost' = ghost /\ count' = count /\ ghost \in Ghost /\ rec \in Recovery /\ rec # None
        /\ step = "frozen" /\ StepFits(rec, step) /\ Follows(ckpt, log, rec) /\ Shape(ckpt, log)
    BY DEF TakeSnapshot, InAttempt, switch, Core, TypeOK, RecInv, GhostInv
  <2>2. count[rec.from.bank] = rec.before
    BY DEF TakeSnapshot, wal
  <2>3. rec' = [rec EXCEPT !.snap = [win |-> now, life |-> rec.life, packets |-> rec.before, valid |-> started]]
    BY <2>2 DEF TakeSnapshot
  <2>4. step' = "durable"
    BY <2>2 DEF TakeSnapshot, Goes
  <2>5. rec' # None
    BY <2>1, <2>4 DEF Core, RecInv
  <2> QED BY <2>1, <2>2, <2>3, <2>5
<1> DEFINE s == [win |-> now, life |-> rec.life, packets |-> rec.before, valid |-> started]
<1>2. rec'.snap = s /\ rec'.from = rec.from /\ rec'.cleared = rec.cleared
  BY <1>1 DEF Recovery
<1>3. s.packets = rec.before /\ s # None
  <2>1. s \in Snapshot
    BY <1>1 DEF Core, TypeOK, Snapshot, Recovery
  <2> QED BY <2>1, NoneAssumption
<1>4. rec.snap = None /\ ~rec.cleared
  <2>1. rec.snap = None
    BY <1>1 DEF StepFits
  <2> QED BY <1>1, <2>1, ClearedHasSnap
<1> HIDE DEF s
<1>5. \A b : /\ ~HasSnap(rec, b) /\ (HasSnap(rec', b) <=> b = rec.from.bank)
  BY <1>1, <1>2, <1>3, <1>4 DEF HasSnap
<1>6. \A b : Owed(rec', count, b) = Owed(rec, count, b)
  BY <1>1, <1>2, <1>3, <1>5 DEF Owed
<1>7. Accounted(rec, count, ghost) => Accounted(rec', count', ghost')
  BY <1>1, <1>2, <1>4, <1>6 DEF Accounted, Sum
<1> QED BY <1>1, <1>7, GhostUp

(* Clearing the bank changes nothing: its snapshot is durable. *)
LEMMA GhostClear ==
    ASSUME Core, Core', GhostInv, NEW landed \in BOOLEAN, ClearBank(landed) PROVE GhostInv'
<1>1. /\ up /\ up' /\ ghost' = ghost /\ ghost \in Ghost /\ rec' = rec
      /\ rec \in Recovery /\ rec # None /\ StepFits(rec, step) /\ step = "durable"
      /\ count \in [Banks -> Nat]
      /\ count' = (IF landed THEN [count EXCEPT ![rec.from.bank] = 0] ELSE count)
  BY DEF ClearBank, InAttempt, Core, TypeOK, RecInv, GhostInv
<1>2. rec.snap # None /\ rec.from.bank \in Banks
  BY <1>1 DEF StepFits, Recovery, Selector
<1>3. HasSnap(rec, rec.from.bank)
  BY <1>1, <1>2 DEF HasSnap
<1>4. /\ \A b \in Banks : b # rec.from.bank => count'[b] = count[b]
      /\ count'[rec.from.bank] \in Nat /\ count'[rec.from.bank] <= count[rec.from.bank]
      /\ count[rec.from.bank] \in Nat /\ count' \in [Banks -> Nat]
  <2>1. CASE landed
    BY <1>1, <1>2, <2>1
  <2>2. CASE ~landed
    BY <1>1, <1>2, <2>2
  <2> QED BY <2>1, <2>2
<1>5. \A b \in Banks : Owed(rec, count', b) = Owed(rec, count, b) /\ Owed(rec, count, b) \in Nat
  <2> SUFFICES ASSUME NEW b \in Banks
               PROVE  Owed(rec, count', b) = Owed(rec, count, b) /\ Owed(rec, count, b) \in Nat
    OBVIOUS
  <2>1. Owed(rec, count, b) \in Nat
    BY <1>1, OwedIsNat
  <2>2. CASE b = rec.from.bank
    BY <1>3, <2>1, <2>2 DEF Owed
  <2>3. CASE b # rec.from.bank
    BY <1>4, <2>1, <2>3 DEF Owed
  <2> QED BY <2>2, <2>3
<1>6. Sum(rec, count', ghost) = Sum(rec, count, ghost) /\ Sum(rec, count, ghost) \in Nat
  BY <1>1, <1>5 DEF Sum, Banks, Ghost
<1>7. ASSUME Accounted(rec, count, ghost) PROVE Accounted(rec', count', ghost')
  <2>1. rec.cleared => Sum(rec, count', ghost) + count'[rec.from.bank] <= ghost.seen
    <3> SUFFICES ASSUME rec.cleared PROVE Sum(rec, count', ghost) + count'[rec.from.bank] <= ghost.seen
      OBVIOUS
    <3>1. Sum(rec, count, ghost) + count[rec.from.bank] <= ghost.seen /\ ghost.seen \in Nat
      BY <1>1, <1>7 DEF Accounted, Ghost
    <3> QED BY <1>4, <1>6, <3>1
  <2> QED BY <1>1, <1>6, <1>7, <2>1 DEF Accounted
<1> QED BY <1>1, <1>7, GhostUp

(* The bank reads zero when its clear is recorded. *)
LEMMA GhostCleared ==
    ASSUME Core, Core', GhostInv, ClearReadback, log' # log PROVE GhostInv'
<1>1. /\ up /\ up' /\ ghost' = ghost /\ count' = count /\ ghost \in Ghost
      /\ rec \in Recovery /\ rec # None /\ count[rec.from.bank] = 0
      /\ rec' = [rec EXCEPT !.cleared = TRUE] /\ step' = "cleared" /\ count \in [Banks -> Nat]
  BY DEF ClearReadback, InAttempt, switch, wal, Core, TypeOK, GhostInv, Goes
<1>2. rec'.snap = rec.snap /\ rec'.from = rec.from /\ rec' # None
  BY <1>1 DEF Recovery, Core, RecInv
<1>3. \A b : HasSnap(rec', b) <=> HasSnap(rec, b)
  BY <1>1, <1>2 DEF HasSnap
<1>4. Sum(rec', count, ghost) = Sum(rec, count, ghost) /\ Sum(rec, count, ghost) \in Nat
  <2>1. Owed(rec, count, 0) \in Nat /\ Owed(rec, count, 1) \in Nat
    BY <1>1, OwedIsNat DEF Banks
  <2>2. Owed(rec', count, 0) = Owed(rec, count, 0) /\ Owed(rec', count, 1) = Owed(rec, count, 1)
    BY <1>2, <1>3 DEF Owed
  <2>3. ghost.final \in Nat
    BY <1>1 DEF Ghost
  <2> QED BY <2>1, <2>2, <2>3 DEF Sum
<1>5. ASSUME Accounted(rec, count, ghost) PROVE Accounted(rec', count', ghost')
  <2>1. Sum(rec', count, ghost) + count[rec'.from.bank] <= ghost.seen
    <3>1. Sum(rec, count, ghost) <= ghost.seen
      BY <1>5 DEF Accounted
    <3> QED BY <1>1, <1>2, <1>4, <3>1
  <2> QED BY <1>1, <1>2, <1>4, <1>5, <2>1 DEF Accounted
<1> QED BY <1>1, <1>5, GhostUp

(* The finalized snapshot counts, and so does again what its bank holds.   *)
LEMMA GhostFinalize ==
    ASSUME Core, Core', GhostInv, Finalize PROVE GhostInv'
<1>1. /\ up /\ up' /\ count' = count /\ ghost \in Ghost
      /\ rec \in Recovery /\ rec # None /\ StepFits(rec, step) /\ step = "cleared"
      /\ ghost' = [ghost EXCEPT !.final = @ + rec.snap.packets]
      /\ rec' = None /\ count \in [Banks -> Nat]
  BY DEF Finalize, InAttempt, switch, Core, TypeOK, RecInv, GhostInv
<1>2. /\ rec.snap # None /\ rec.cleared /\ rec.from.bank \in Banks /\ rec.snap.packets \in Nat
  <2>1. rec.snap # None /\ rec.cleared
    BY <1>1 DEF StepFits
  <2> QED BY <1>1, <2>1 DEF Recovery, Selector, Snapshot
<1> DEFINE b == rec.from.bank
           o == 1 - b
           p == rec.snap.packets
<1>3. HasSnap(rec, b) /\ ~HasSnap(rec, o) /\ b \in Banks /\ o \in Banks
  BY <1>1, <1>2 DEF HasSnap, Banks
<1>4. Owed(rec, count, b) = p /\ Owed(rec, count, o) = count[o]
  BY <1>3 DEF Owed
<1>5. Owed(None, count, b) = count[b] /\ Owed(None, count, o) = count[o]
  BY DEF Owed, HasSnap
<1>6. /\ ghost' \in Ghost /\ ghost'.seen = ghost.seen /\ ghost'.strays = ghost.strays
      /\ ghost'.final = ghost.final + p
  BY <1>1, <1>2 DEF Ghost
<1>7. /\ p \in Nat /\ count[b] \in Nat /\ count[o] \in Nat /\ ghost.final \in Nat /\ ghost.seen \in Nat
      /\ ghost.strays \in Nat
  BY <1>1, <1>2, <1>3 DEF Ghost
<1> HIDE DEF p
<1>8. Sum(rec, count, ghost) = ghost.final + p + count[o]
  <2>1. CASE b = 0
    BY <1>4, <1>7, <2>1 DEF Sum
  <2>2. CASE b = 1
    BY <1>4, <1>7, <2>2 DEF Sum
  <2> QED BY <1>3, <2>1, <2>2 DEF Banks
<1>9. Sum(None, count, ghost') = (ghost.final + p) + count[b] + count[o]
  <2>1. CASE b = 0
    BY <1>5, <1>6, <1>7, <2>1 DEF Sum
  <2>2. CASE b = 1
    BY <1>5, <1>6, <1>7, <2>2 DEF Sum
  <2> QED BY <1>3, <2>1, <2>2 DEF Banks
<1>10. ASSUME Accounted(rec, count, ghost) PROVE Accounted(rec', count', ghost')
  <2>1. /\ ghost.seen - ghost.strays <= Sum(rec, count, ghost)
        /\ Sum(rec, count, ghost) + count[b] <= ghost.seen
    BY <1>1, <1>2, <1>10 DEF Accounted
  <2> HIDE DEF b, o
  <2>2. /\ ghost'.seen - ghost'.strays <= Sum(None, count, ghost')
        /\ Sum(None, count, ghost') <= ghost'.seen
    BY <1>6, <1>7, <1>8, <1>9, <2>1
  <2> QED BY <1>1, <2>2 DEF Accounted
<1> QED BY <1>1, <1>6, <1>10, GhostUp

(* Every step keeps the packets accounted for. *)
LEMMA GhostStep ==
    ASSUME Core, Core', GhostInv, [Next]_vars PROVE GhostInv'
<1>1. GhostInv <=> (ghost \in Ghost /\ GhostOf(log, count, ghost))
  BY GhostIs
<1>2. ASSUME UNCHANGED <<log, count, ghost>> PROVE GhostInv'
  BY <1>1, <1>2, GhostIs
<1>3. ASSUME up, up', UNCHANGED <<rec, count, ghost>> PROVE GhostInv'
  BY <1>1, <1>3, GhostUp
<1>4. CASE Poll \/ FreezeBank
  BY <1>4, GhostFreeze
<1>5. CASE TakeSnapshot
  <2>1. CASE log' = log
    <3>1. UNCHANGED <<log, count, ghost>>
      BY <1>5, <2>1 DEF TakeSnapshot, switch
    <3> QED BY <1>2, <3>1
  <2> QED BY <1>5, <2>1, GhostTake
<1>6. CASE ClearReadback
  <2>1. CASE log' = log
    <3>1. UNCHANGED <<log, count, ghost>>
      BY <1>6, <2>1 DEF ClearReadback, switch
    <3> QED BY <1>2, <3>1
  <2> QED BY <1>6, <2>1, GhostCleared
<1>7. CASE Finalize
  BY <1>7, GhostFinalize
<1>8. CASE PacketCounts
  BY <1>8, GhostPacket
<1>9. CASE FindFlipped \/ PacketSelects \/ Tick \/ FlipUnanswered \/ AttemptFails \/ Crash \/ Spawn
  <2>1. UNCHANGED <<log, count, ghost>>
    BY <1>9 DEF FindFlipped, PacketSelects, Tick, FlipUnanswered, AttemptFails, Crash, Spawn, wal, switch
  <2> QED BY <1>2, <2>1
<1>10. ASSUME NEW landed \in BOOLEAN, FlipSelector(landed) PROVE GhostInv'
  <2>1. UNCHANGED <<log, count, ghost>>
    BY <1>10 DEF FlipSelector, wal
  <2> QED BY <1>2, <2>1
<1>11. ASSUME NEW landed \in BOOLEAN, ClearBank(landed) PROVE GhostInv'
  BY <1>11, GhostClear
<1>12. ASSUME NEW w \in 0..MaxWindow, CloseWindow(w) PROVE GhostInv'
  <2>1. UNCHANGED <<log, count, ghost>>
    BY <1>12 DEF CloseWindow, wal, switch
  <2> QED BY <1>2, <2>1
<1>13. ASSUME NEW s \in inputs, NEW torn \in BOOLEAN, Checkpoint(s, torn) PROVE GhostInv'
  <2>1. up /\ up' /\ UNCHANGED <<rec, count, ghost>>
    BY <1>13 DEF Checkpoint, memory, switch
  <2> QED BY <1>3, <2>1
<1>14. CASE PersistHint \/ FlushHint
  <2>1. up /\ up' /\ UNCHANGED <<rec, count, ghost>>
    BY <1>14 DEF PersistHint, FlushHint, switch
  <2> QED BY <1>3, <2>1
<1>15. CASE UNCHANGED vars
  <2>1. UNCHANGED <<log, count, ghost>>
    BY <1>15 DEF vars, wal, switch
  <2> QED BY <1>2, <2>1
<1> QED BY <1>4, <1>5, <1>6, <1>7, <1>8, <1>9, <1>10, <1>11, <1>12, <1>13, <1>14, <1>15 DEF Next, Attempt

(* Conserved: every packet the switch counted is in a bank, in the durable *)
(* snapshot of the open operation or in a finalized one, and in one of     *)
(* them only, whatever stage of the freeze a crash, a lost write or a      *)
(* failing read cuts short; only a packet that was in the pipeline when    *)
(* its bank was read can be missed.                                        *)
THEOREM PacketsAreConserved == Spec => []Conserved
<1>1. Init => GhostInv
  <2> SUFFICES ASSUME Init PROVE GhostInv
    OBVIOUS
  <2>1. log = <<>> /\ count = [b \in Banks |-> 0] /\ ghost = [seen |-> 0, final |-> 0, strays |-> 0]
    BY DEF Init
  <2>2. OpenOps(log) = {}
    BY <2>1 DEF OpenOps, Freezes
  <2>3. Unread(0) = 0 /\ Unread(1) = 0
    BY <2>1, <2>2 DEF Unread, Reported, Banks
  <2> QED BY <2>1, <2>2, <2>3 DEF GhostInv, Ghost, Conserved
<1>2. Core /\ Core' /\ GhostInv /\ [Next]_vars => GhostInv'
  BY GhostStep
<1>3. GhostInv => Conserved
  BY DEF GhostInv
<1> QED BY <1>1, <1>2, <1>3, SourceIsFollowed, PTL DEF Spec

=============================================================================
