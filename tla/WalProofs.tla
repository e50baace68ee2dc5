------------------------------ MODULE WalProofs ------------------------------
(***************************************************************************)
(* Proofs about module Wal: the open index, its cached retention time and  *)
(* the segment files agree at every moment, and the segmented log          *)
(* implements the contract of module DurableLog, for every record size,    *)
(* segment size, limit and number of records, with the process crashing in *)
(* any append, rotation, checkpoint or compaction.                         *)
(***************************************************************************)
EXTENDS Wal, SequenceTheorems, WellFoundedInduction, TLAPS

(* No write or fsync fails in a process that lives on.  A failed append    *)
(* leaves in the file what it wrote: a record that a restart finds and the *)
(* index does not know, or a torn chunk that later records are written     *)
(* behind (section 3 of the README).  A failure that ends the process is a *)
(* Crash, and is covered.                                                  *)
NoLiveFault == IOFaults = 0

(* A non-empty set of naturals has a least element.  (The library's least- *)
(* number principle takes an operator; this one takes a set.)              *)
LEMMA LeastNat ==
    ASSUME NEW T, T \subseteq Nat, T # {}
    PROVE  \E x \in T : \A y \in T : x <= y
<1> DEFINE Less == {p \in Nat \X Nat : p[1] < p[2]}
<1>1. IsWellFoundedOn(Less, Nat)
  BY NatLessThanWellFounded DEF OpToRel
<1>2. PICK x \in T : \A y \in T : ~(<<y, x>> \in Less)
  <2> HIDE DEF Less
  <2> QED BY <1>1, WFMin
<1>3. \A y \in T : ~(y < x)
  BY <1>2
<1> QED BY <1>3

(* A set of numbers from 1 that holds 1 and every successor holds all.     *)
LEMMA UpTo ==
    ASSUME NEW n \in Nat, NEW T, 1 \in T, \A i \in 1..n : i \in T /\ i < n => i + 1 \in T
    PROVE  1..n \subseteq T
<1> DEFINE Bad == {i \in 1..n : i \notin T}
<1> SUFFICES ASSUME Bad # {} PROVE FALSE
  OBVIOUS
<1>1. Bad \subseteq Nat
  OBVIOUS
<1>2. PICK x \in Bad : \A y \in Bad : x <= y
  <2> HIDE DEF Bad
  <2> QED BY <1>1, LeastNat
<1>3. x \in 1..n /\ x \notin T /\ x # 1
  BY <1>2
<1>4. x - 1 \in 1..n /\ x - 1 < n /\ (x - 1) + 1 = x
  BY <1>3
<1>5. x - 1 \notin Bad
  <2> HIDE DEF Bad
  <2> QED BY <1>2, <1>3, <1>4
<1>6. x - 1 \in T
  BY <1>4, <1>5
<1>7. (x - 1) + 1 \in T
  BY <1>4, <1>6
<1> QED BY <1>3, <1>4, <1>7
-----------------------------------------------------------------------------
(* The records of several segments, one after the other.  f joins ss if    *)
(* f[i] is what the first i sequences hold.                                *)
Joins(ss, f) ==
    /\ DOMAIN f = 1..Len(ss) /\ f[1] = ss[1]
    /\ \A i \in 1..Len(ss) : i # 1 => f[i] = f[i - 1] \o ss[i]

(* FlattenSeq is such a function's last value. *)
LEMMA FlattenJoins ==
    ASSUME NEW S, NEW ss \in Seq(Seq(S)), ss # <<>>
    PROVE  \E f \in [1..Len(ss) -> Seq(S)] : Joins(ss, f) /\ FlattenSeq(ss) = f[Len(ss)]
<1> DEFINE n == Len(ss)
           D(f, i) == IF i = 1 THEN ss[i] ELSE f[i - 1] \o ss[i]
           Fits(f, k) == f = [i \in 1..k |-> D(f, i)]
           T == {k \in Nat : \E f : Fits(f, k)}
<1>1. n \in Nat \ {0}
  BY EmptySeq
<1>2. 1 \in T
  <2> DEFINE f == [i \in 1..1 |-> ss[i]]
  <2>1. f = [i \in 1..1 |-> D(f, i)]
    OBVIOUS
  <2> QED BY <2>1
<1>3. ASSUME NEW k \in 1..n, k \in T, k < n PROVE k + 1 \in T
  <2>1. PICK f : Fits(f, k)
    BY <1>3
  <2> DEFINE g == [i \in 1..(k + 1) |-> IF i = k + 1 THEN D(f, k + 1) ELSE f[i]]
  <2>2. ASSUME NEW i \in 1..(k + 1) PROVE g[i] = D(g, i)
    <3>1. CASE i = 1
      <4>1. f[1] = D(f, 1)
        BY <2>1, <1>3
      <4> QED BY <1>3, <3>1, <4>1
    <3>2. CASE i # 1
      <4>1. i - 1 \in 1..(k + 1) /\ i - 1 # k + 1
        BY <1>3, <3>2
      <4>2. g[i - 1] = f[i - 1]
        BY <4>1
      <4>3. g[i] = D(f, i)
        <5>1. CASE i = k + 1
          BY <5>1
        <5>2. CASE i # k + 1
          <6>1. i \in 1..k
            BY <5>2
          <6>2. f[i] = D(f, i)
            BY <2>1, <6>1
          <6> QED BY <5>2, <6>2
        <5> QED BY <5>1, <5>2
      <4> QED BY <3>2, <4>2, <4>3
    <3> QED BY <3>1, <3>2
  <2>3. Fits(g, k + 1)
    BY <2>2
  <2>4. k + 1 \in Nat
    BY <1>1, <1>3
  <2> HIDE DEF Fits, g
  <2> QED BY <2>3, <2>4
<1>4. n \in T
  <2> HIDE DEF T, n
  <2>1. 1..n \subseteq T
    BY <1>1, <1>2, <1>3, UpTo
  <2> QED BY <1>1, <2>1
<1> DEFINE f == CHOOSE g : Fits(g, n)
<1>5. Fits(f, n)
  BY <1>4
<1>6. FlattenSeq(ss) = f[n]
  BY <1>1 DEF FlattenSeq
<1> HIDE DEF f
<1>7. DOMAIN f = 1..n /\ \A i \in 1..n : f[i] = D(f, i)
  BY <1>5
<1>8. Joins(ss, f)
  <2>1. 1 \in 1..n /\ n = Len(ss)
    BY <1>1
  <2> HIDE DEF n
  <2> QED BY <1>7, <2>1 DEF Joins
<1>9. \A i \in 1..n : f[i] \in Seq(S)
  <2> DEFINE V == {i \in 1..n : f[i] \in Seq(S)}
  <2>1. 1 \in V
    <3>1. 1 \in 1..n /\ ss[1] \in Seq(S)
      BY <1>1
    <3>2. f[1] = ss[1]
      BY <1>7, <3>1
    <3> QED BY <3>1, <3>2
  <2>2. ASSUME NEW i \in 1..n, i \in V, i < n PROVE i + 1 \in V
    <3>1. i + 1 \in 1..n /\ i + 1 # 1 /\ (i + 1) - 1 = i /\ ss[i + 1] \in Seq(S)
      BY <1>1, <2>2
    <3>2. f[i + 1] = f[i] \o ss[i + 1]
      BY <1>7, <3>1
    <3>3. f[i] \in Seq(S)
      BY <2>2
    <3>4. f[i] \o ss[i + 1] \in Seq(S)
      BY <3>1, <3>3, ConcatProperties
    <3> QED BY <3>1, <3>2, <3>4
  <2>3. 1..n \subseteq V
    <3> HIDE DEF V, n
    <3> QED BY <1>1, <2>1, <2>2, UpTo
  <2> QED BY <2>3
<1>10. f \in [1..n -> Seq(S)]
  <2>1. f = [i \in 1..n |-> f[i]]
    BY <1>5
  <2> HIDE DEF n
  <2> QED BY <1>9, <2>1
<1> QED BY <1>6, <1>8, <1>10

(* A segment more is its records more. *)
LEMMA FlattenAppend ==
    ASSUME NEW S, NEW ss \in Seq(Seq(S)), NEW s \in Seq(S)
    PROVE  /\ FlattenSeq(Append(ss, s)) = FlattenSeq(ss) \o s
           /\ FlattenSeq(ss) \in Seq(S)
<1> DEFINE tt == Append(ss, s)
           n  == Len(ss)
<1>1. tt \in Seq(Seq(S)) /\ tt # <<>> /\ Len(tt) = n + 1 /\ n \in Nat
  BY EmptySeq
<1>2. PICK g \in [1..(n + 1) -> Seq(S)] : Joins(tt, g) /\ FlattenSeq(tt) = g[n + 1]
  <2> HIDE DEF tt, n
  <2> QED BY <1>1, FlattenJoins
<1>3. CASE ss = <<>>
  <2>1. n = 0 /\ FlattenSeq(ss) = <<>> /\ tt[1] = s
    BY <1>3, EmptySeq DEF FlattenSeq
  <2>2. FlattenSeq(tt) = s
    BY <1>2, <2>1 DEF Joins
  <2> QED BY <2>1, <2>2, ConcatEmptySeq
<1>4. CASE ss # <<>>
  <2>1. n \in Nat \ {0}
    BY <1>4, EmptySeq
  <2>2. PICK f \in [1..n -> Seq(S)] : Joins(ss, f) /\ FlattenSeq(ss) = f[n]
    BY <1>4, FlattenJoins
  <2> DEFINE T == {i \in 1..n : g[i] = f[i]}
  <2>3. 1 \in T
    BY <1>2, <2>1, <2>2 DEF Joins
  <2>4. ASSUME NEW i \in 1..n, i \in T, i < n PROVE i + 1 \in T
    <3>1. i + 1 \in 1..n /\ i + 1 # 1 /\ (i + 1) - 1 = i /\ i + 1 \in 1..Len(tt) /\ tt[i + 1] = ss[i + 1]
      BY <1>1, <2>1, <2>4
    <3>2. f[i + 1] = f[(i + 1) - 1] \o ss[i + 1]
      BY <2>2, <3>1 DEF Joins
    <3>3. g[i + 1] = g[(i + 1) - 1] \o tt[i + 1]
      BY <1>2, <3>1 DEF Joins
    <3> QED BY <2>4, <3>1, <3>2, <3>3
  <2>5. n \in T
    <3>1. 1..n \subseteq T
      <4> HIDE DEF T, n
      <4> QED BY <2>1, <2>3, <2>4, UpTo
    <3> QED BY <2>1, <3>1
  <2>6. n + 1 \in 1..Len(tt) /\ n + 1 # 1 /\ (n + 1) - 1 = n /\ tt[n + 1] = s
    BY <1>1, <2>1
  <2>7. g[n + 1] = g[(n + 1) - 1] \o tt[n + 1]
    BY <1>2, <2>6 DEF Joins
  <2> QED BY <1>2, <2>1, <2>2, <2>5, <2>6, <2>7
<1> QED BY <1>3, <1>4

(* Without the first segment its records are missing at the front. *)
LEMMA FlattenTail ==
    ASSUME NEW S
    PROVE  \A ss \in Seq(Seq(S)) : Len(ss) > 1 => FlattenSeq(ss) = ss[1] \o FlattenSeq(Tail(ss))
<1>0. \A a, b, c \in Seq(S) : (a \o b) \o c = a \o (b \o c)
  BY ConcatAssociative
<1> SUFFICES ASSUME NEW ss \in Seq(Seq(S)), Len(ss) > 1
             PROVE  FlattenSeq(ss) = ss[1] \o FlattenSeq(Tail(ss))
  OBVIOUS
<1> DEFINE tt == Tail(ss)
           n  == Len(tt)
<1>1. /\ tt \in Seq(Seq(S)) /\ tt # <<>> /\ n \in Nat \ {0} /\ Len(ss) = n + 1
      /\ ss # <<>> /\ ss[1] \in Seq(S) /\ \A i \in 1..n : tt[i] = ss[i + 1] /\ tt[i] \in Seq(S)
  <2>1. ss \in Seq(Seq(S)) /\ ss # <<>> /\ Len(ss) \in Nat
    BY EmptySeq
  <2>2. tt \in Seq(Seq(S)) /\ Len(tt) = Len(ss) - 1 /\ \A i \in 1..Len(tt) : tt[i] = ss[i + 1]
    BY <2>1
  <2>3. n = Len(tt)
    OBVIOUS
  <2> HIDE DEF n, tt
  <2>4. n \in Nat \ {0} /\ Len(ss) = n + 1
    <3>1. n = Len(ss) - 1
      BY <2>2, <2>3
    <3>2. PICK k \in Nat : k = Len(ss) /\ k > 1
      BY <2>1
    <3>3. n = k - 1 /\ Len(ss) = k
      BY <3>1, <3>2
    <3> QED BY <3>2, <3>3
  <2>5. tt # <<>> /\ ss[1] \in Seq(S)
    BY <2>1, <2>3, <2>4, EmptySeq
  <2>6. \A i \in 1..n : tt[i] = ss[i + 1] /\ tt[i] \in Seq(S)
    BY <2>2, <2>3
  <2> QED BY <2>1, <2>2, <2>4, <2>5, <2>6
<1> HIDE DEF tt
<1>2. PICK f \in [1..(n + 1) -> Seq(S)] : Joins(ss, f) /\ FlattenSeq(ss) = f[n + 1]
  BY <1>1, FlattenJoins
<1>3. PICK g \in [1..n -> Seq(S)] : Joins(tt, g) /\ FlattenSeq(tt) = g[n]
  BY <1>1, FlattenJoins
<1> DEFINE T == {i \in 1..n : f[i + 1] = ss[1] \o g[i]}
<1>4. 1 \in T
  <2>1. 1 + 1 \in 1..Len(ss) /\ 1 + 1 # 1 /\ (1 + 1) - 1 = 1 /\ 1 \in 1..n
    BY <1>1
  <2>2. f[1 + 1] = f[(1 + 1) - 1] \o ss[1 + 1]
    BY <1>2, <2>1 DEF Joins
  <2> QED BY <1>1, <1>2, <1>3, <2>1, <2>2 DEF Joins
<1>5. ASSUME NEW i \in 1..n, i \in T, i < n PROVE i + 1 \in T
  <2>1. /\ i + 1 \in 1..n /\ i + 1 # 1 /\ (i + 1) - 1 = i /\ (i + 1) + 1 \in 1..Len(ss)
        /\ (i + 1) + 1 # 1 /\ ((i + 1) + 1) - 1 = i + 1
    BY <1>1, <1>5
  <2>2. g[i + 1] = g[(i + 1) - 1] \o tt[i + 1]
    BY <1>3, <2>1 DEF Joins
  <2>3. f[(i + 1) + 1] = f[((i + 1) + 1) - 1] \o ss[(i + 1) + 1]
    BY <1>2, <2>1 DEF Joins
  <2>4. f[(i + 1) + 1] = (ss[1] \o g[i]) \o tt[i + 1]
    BY <1>1, <1>5, <2>1, <2>3
  <2>5. (ss[1] \o g[i]) \o tt[i + 1] = ss[1] \o (g[i] \o tt[i + 1])
    <3>1. ss[1] \in Seq(S) /\ g[i] \in Seq(S) /\ tt[i + 1] \in Seq(S)
      BY <1>1, <1>3, <2>1
    <3> QED BY <1>0, <3>1
  <2> QED BY <2>1, <2>2, <2>4, <2>5
<1>6. n \in T
  <2> HIDE DEF T, n
  <2>1. 1..n \subseteq T
    BY <1>1, <1>4, <1>5, UpTo
  <2> QED BY <1>1, <2>1
<1> QED BY <1>2, <1>3, <1>6 DEF tt
-----------------------------------------------------------------------------
(* Segment files.  A file is sound if no chunk but its last can be         *)
(* damaged, and whole if none is.                                          *)
File == [start : Nat \ {0}, chunks : Seq(Chunk)]
Segment == [start : Nat \ {0}, recs : Seq(Rec)]
Whole(f) == \A i \in 1..Len(f.chunks) : Good(f, i)
SoundFile == {f \in File : \A i \in 1..(Len(f.chunks) - 1) : Good(f, i)}

(* scan_segment accepts every chunk of a whole file, and all but the last  *)
(* one of any other.                                                       *)
LEMMA AcceptedIs ==
    ASSUME NEW f \in SoundFile
    PROVE  /\ Len(f.chunks) \in Nat /\ Accepted(f) \in 0..Len(f.chunks)
           /\ Whole(f) => Accepted(f) = Len(f.chunks)
           /\ ~Whole(f) => Len(f.chunks) > 0 /\ Accepted(f) = Len(f.chunks) - 1
<1> DEFINE n == Len(f.chunks)
           Stop(k) == /\ \A i \in 1..k : Good(f, i)
                      /\ k < n => ~Good(f, k + 1)
<1>1. n \in Nat /\ \A i \in 1..(n - 1) : Good(f, i)
  BY DEF SoundFile, File
<1>2. Accepted(f) = CHOOSE k \in 0..n : Stop(k)
  BY DEF Accepted
<1>3. CASE Whole(f)
  <2>1. \A i \in 1..n : Good(f, i)
    BY <1>3 DEF Whole
  <2>2. n \in 0..n /\ Stop(n)
    BY <1>1, <2>1
  <2>3. ASSUME NEW k \in 0..n, Stop(k) PROVE k = n
    BY <1>1, <2>1, <2>3
  <2> HIDE DEF n, Stop
  <2>4. Accepted(f) = n
    BY <1>2, <2>2, <2>3
  <2> QED BY <1>1, <1>3, <2>4 DEF n
<1>4. CASE ~Whole(f)
  <2>1. n > 0 /\ ~Good(f, n)
    <3>1. PICK i \in 1..n : ~Good(f, i)
      BY <1>4 DEF Whole
    <3> HIDE DEF n
    <3>2. i = n
      BY <1>1, <3>1
    <3> QED BY <1>1, <3>1, <3>2
  <2> HIDE DEF n
  <2>2. n - 1 \in 0..n /\ Stop(n - 1)
    <3>1. n - 1 \in 0..n /\ (n - 1) + 1 = n
      BY <1>1, <2>1
    <3> QED BY <1>1, <2>1, <3>1
  <2>3. ASSUME NEW k \in 0..n, Stop(k) PROVE k = n - 1
    <3>1. k # n
      BY <1>1, <2>1, <2>3
    <3>2. ~(k < n - 1)
      <4> SUFFICES ASSUME k < n - 1 PROVE FALSE
        OBVIOUS
      <4>1. k + 1 \in 1..(n - 1) /\ k < n
        BY <1>1, <2>1
      <4> QED BY <1>1, <2>3, <4>1
    <3> QED BY <1>1, <3>1, <3>2
  <2> HIDE DEF Stop
  <2>4. Accepted(f) = n - 1
    BY <1>2, <2>2, <2>3
  <2> QED BY <1>1, <1>4, <2>1, <2>4 DEF n
<1> QED BY <1>3, <1>4

(* The records of a file. *)
LEMMA RecordsIs ==
    ASSUME NEW f \in SoundFile
    PROVE  /\ Records(f) \in Seq(Rec) /\ Len(Records(f)) = Accepted(f) /\ f.start \in Nat \ {0}
           /\ FileEnd(f) = f.start + Len(Records(f)) - 1 /\ FileEnd(f) \in Nat
           /\ Loaded(f) \in Segment /\ End(Loaded(f)) = FileEnd(f)
<1> DEFINE n == Accepted(f)
<1>1. n \in Nat /\ n <= Len(f.chunks) /\ f \in File /\ f.chunks \in Seq(Chunk)
  BY AcceptedIs DEF SoundFile, File
<1>2. f.start \in Nat \ {0}
  BY <1>1 DEF File
<1> HIDE DEF n
<1>3. ASSUME NEW i \in 1..n
      PROVE  [at |-> f.chunks[i].at, bytes |-> f.chunks[i].bytes] \in Rec
  <2>1. f.chunks[i] \in Chunk
    BY <1>1
  <2> QED BY <2>1 DEF Chunk, Rec
<1>4. Records(f) = [i \in 1..n |-> [at |-> f.chunks[i].at, bytes |-> f.chunks[i].bytes]]
  BY DEF Records, n
<1>5. Records(f) \in Seq(Rec) /\ Len(Records(f)) = n
  BY <1>1, <1>3, <1>4
<1>6. FileEnd(f) = f.start + n - 1
  BY DEF FileEnd, n
<1>7. FileEnd(f) = f.start + Len(Records(f)) - 1 /\ FileEnd(f) \in Nat
  BY <1>1, <1>2, <1>5, <1>6
<1>8. Loaded(f) \in Segment /\ End(Loaded(f)) = FileEnd(f)
  BY <1>2, <1>5, <1>7 DEF Loaded, Segment, End
<1> QED BY <1>2, <1>5, <1>7, <1>8 DEF n

(* The records of a row of files. *)
Parts(fs) == [i \in DOMAIN fs |-> Records(fs[i])]
RecordsOf(fs) == FlattenSeq(Parts(fs))

LEMMA PartsIs ==
    ASSUME NEW fs \in Seq(SoundFile)
    PROVE  Parts(fs) \in Seq(Seq(Rec)) /\ Len(Parts(fs)) = Len(fs) /\ RecordsOf(fs) \in Seq(Rec)
<1>1. \A i \in 1..Len(fs) : Records(fs[i]) \in Seq(Rec)
  BY RecordsIs
<1>2. Parts(fs) = [i \in 1..Len(fs) |-> Records(fs[i])]
  BY DEF Parts
<1>3. Parts(fs) \in Seq(Seq(Rec)) /\ Len(Parts(fs)) = Len(fs)
  BY <1>1, <1>2
<1>4. <<>> \in Seq(Rec)
  BY EmptySeq
<1>5. RecordsOf(fs) \in Seq(Rec)
  BY <1>3, <1>4, FlattenAppend DEF RecordsOf
<1> QED BY <1>3, <1>5

(* A file more. *)
LEMMA RecordsAppend ==
    ASSUME NEW fs \in Seq(SoundFile), NEW f \in SoundFile
    PROVE  RecordsOf(Append(fs, f)) = RecordsOf(fs) \o Records(f)
<1>1. Parts(Append(fs, f)) = Append(Parts(fs), Records(f))
  <2> DEFINE n == Len(fs)
             a == Parts(Append(fs, f))
             b == Append(Parts(fs), Records(f))
  <2>1. Append(fs, f) \in Seq(SoundFile) /\ Len(Append(fs, f)) = n + 1 /\ n \in Nat
    OBVIOUS
  <2>2. a \in Seq(Seq(Rec)) /\ Len(a) = n + 1
    BY <2>1, PartsIs
  <2>3. b \in Seq(Seq(Rec)) /\ Len(b) = n + 1
    BY PartsIs, RecordsIs
  <2>4. ASSUME NEW i \in 1..(n + 1) PROVE a[i] = b[i]
    <3>1. a[i] = Records(Append(fs, f)[i])
      BY <2>1 DEF Parts
    <3>2. CASE i = n + 1
      BY <3>1, <3>2, PartsIs
    <3>3. CASE i # n + 1
      <4>1. i \in 1..n /\ Append(fs, f)[i] = fs[i] /\ b[i] = Parts(fs)[i]
        BY <3>3, PartsIs
      <4> QED BY <3>1, <4>1 DEF Parts
    <3> QED BY <3>2, <3>3
  <2> HIDE DEF a, b, n
  <2> QED BY <2>2, <2>3, <2>4, SeqEqual DEF a, b
<1>2. Parts(fs) \in Seq(Seq(Rec)) /\ Records(f) \in Seq(Rec)
  BY PartsIs, RecordsIs
<1> QED BY <1>1, <1>2, FlattenAppend DEF RecordsOf

(* The first file less. *)
LEMMA RecordsTail ==
    ASSUME NEW fs \in Seq(SoundFile), Len(fs) > 1
    PROVE  RecordsOf(fs) = Records(fs[1]) \o RecordsOf(Tail(fs))
<1>1. Parts(fs) \in Seq(Seq(Rec)) /\ Len(Parts(fs)) = Len(fs) /\ Parts(fs)[1] = Records(fs[1])
  BY PartsIs DEF Parts
<1>2. Parts(Tail(fs)) = Tail(Parts(fs))
  <2> DEFINE n == Len(fs)
             a == Parts(Tail(fs))
             b == Tail(Parts(fs))
  <2>1. Tail(fs) \in Seq(SoundFile) /\ Len(Tail(fs)) = n - 1 /\ n \in Nat /\ n > 1
    BY EmptySeq
  <2>2. a \in Seq(Seq(Rec)) /\ Len(a) = n - 1
    BY <2>1, PartsIs
  <2>3. b \in Seq(Seq(Rec)) /\ Len(b) = n - 1
    BY <1>1, <2>1, EmptySeq
  <2>4. ASSUME NEW i \in 1..(n - 1) PROVE a[i] = b[i]
    <3>1. a[i] = Records(Tail(fs)[i]) /\ Tail(fs)[i] = fs[i + 1] /\ i + 1 \in 1..n
      BY <2>1 DEF Parts
    <3>2. b[i] = Parts(fs)[i + 1]
      BY <1>1, <2>1
    <3>3. Parts(fs)[i + 1] = Records(fs[i + 1])
      BY <3>1 DEF Parts
    <3> QED BY <3>1, <3>2, <3>3
  <2> HIDE DEF a, b, n
  <2> QED BY <2>2, <2>3, <2>4, SeqEqual DEF a, b
<1>3. FlattenSeq(Parts(fs)) = Parts(fs)[1] \o FlattenSeq(Tail(Parts(fs)))
  BY <1>1, FlattenTail
<1> QED BY <1>1, <1>2, <1>3 DEF RecordsOf

(* Another last file: what comes before it stays. *)
LEMMA RecordsLast ==
    ASSUME NEW fs \in Seq(SoundFile), fs # <<>>, NEW g \in SoundFile
    PROVE  \E r \in Seq(Rec) : /\ RecordsOf(fs) = r \o Records(fs[Len(fs)])
                               /\ RecordsOf([fs EXCEPT ![Len(fs)] = g]) = r \o Records(g)
                               /\ [fs EXCEPT ![Len(fs)] = g] \in Seq(SoundFile)
<1> DEFINE n == Len(fs)
           front == SubSeq(fs, 1, n - 1)
           gs == [fs EXCEPT ![n] = g]
<1>1. n \in Nat \ {0}
  BY EmptySeq
<1>2. front \in Seq(SoundFile) /\ Len(front) = n - 1 /\ \A i \in 1..(n - 1) : front[i] = fs[i]
  BY <1>1, SubSeqProperties
<1>3. gs \in Seq(SoundFile) /\ Len(gs) = n /\ gs[n] = g /\ \A i \in 1..(n - 1) : gs[i] = fs[i]
  BY <1>1
<1>4. fs[n] \in SoundFile
  BY <1>1
<1>5. fs = Append(front, fs[n])
  <2> HIDE DEF front
  <2>1. Append(front, fs[n]) \in Seq(SoundFile) /\ Len(Append(front, fs[n])) = n
    BY <1>1, <1>2, <1>4
  <2>2. ASSUME NEW i \in 1..n PROVE Append(front, fs[n])[i] = fs[i]
    BY <1>1, <1>2, <1>4
  <2> QED BY <2>1, <2>2, SeqEqual
<1>6. gs = Append(front, g)
  <2> HIDE DEF front, gs, n
  <2>1. Append(front, g) \in Seq(SoundFile) /\ Len(Append(front, g)) = n
    BY <1>1, <1>2
  <2>2. ASSUME NEW i \in 1..n PROVE Append(front, g)[i] = gs[i]
    BY <1>1, <1>2, <1>3
  <2> QED BY <1>3, <2>1, <2>2, SeqEqual
<1> HIDE DEF front, gs
<1>7. RecordsOf(fs) = RecordsOf(front) \o Records(fs[n])
  <2>1. RecordsOf(Append(front, fs[n])) = RecordsOf(front) \o Records(fs[n])
    BY <1>2, <1>4, RecordsAppend
  <2> QED BY <1>5, <2>1
<1>8. RecordsOf(gs) = RecordsOf(front) \o Records(g)
  <2>1. RecordsOf(Append(front, g)) = RecordsOf(front) \o Records(g)
    BY <1>2, RecordsAppend
  <2> QED BY <1>6, <2>1
<1>9. RecordsOf(front) \in Seq(Rec)
  BY <1>2, PartsIs
<1> QED BY <1>3, <1>7, <1>8, <1>9 DEF gs

(* One record more in the last file is one record more in all. *)
LEMMA RecordsGrow ==
    ASSUME NEW fs \in Seq(SoundFile), fs # <<>>, NEW g \in SoundFile, NEW x \in Rec,
           Records(g) = Append(Records(fs[Len(fs)]), x)
    PROVE  /\ RecordsOf([fs EXCEPT ![Len(fs)] = g]) = Append(RecordsOf(fs), x)
           /\ [fs EXCEPT ![Len(fs)] = g] \in Seq(SoundFile)
<1>1. fs[Len(fs)] \in SoundFile
  BY EmptySeq
<1>2. PICK r \in Seq(Rec) : /\ RecordsOf(fs) = r \o Records(fs[Len(fs)])
                            /\ RecordsOf([fs EXCEPT ![Len(fs)] = g]) = r \o Records(g)
                            /\ [fs EXCEPT ![Len(fs)] = g] \in Seq(SoundFile)
  BY RecordsLast
<1>3. PICK s \in Seq(Rec) : s = Records(fs[Len(fs)])
  BY <1>1, RecordsIs
<1>4. r \o Append(s, x) = Append(r \o s, x)
  <2> DEFINE a == r \o Append(s, x)
             b == Append(r \o s, x)
             n == Len(r) + Len(s) + 1
  <2>1. Len(r) \in Nat /\ Len(s) \in Nat
    OBVIOUS
  <2>2. Append(s, x) \in Seq(Rec) /\ Len(Append(s, x)) = Len(s) + 1
    OBVIOUS
  <2>3. a \in Seq(Rec) /\ Len(a) = n
    BY <2>1, <2>2
  <2>4. r \o s \in Seq(Rec) /\ Len(r \o s) = Len(r) + Len(s)
    OBVIOUS
  <2>5. b \in Seq(Rec) /\ Len(b) = n
    BY <2>1, <2>4
  <2>6. ASSUME NEW i \in 1..n PROVE a[i] = b[i]
    BY <2>1
  <2> HIDE DEF a, b, n
  <2>7. a = b
    BY <2>3, <2>5, <2>6, SeqEqual
  <2> QED BY <2>7 DEF a, b
<1> QED BY <1>2, <1>3, <1>4

(* The records after the checkpoint. *)
LEMMA AboveIs ==
    ASSUME NEW recs \in Seq(Rec), NEW first \in Nat, NEW n \in Nat, first <= n + 1
    PROVE  Above(recs, first, n) = SubSeq(recs, n - first + 2, Len(recs))
<1> DEFINE k == n - first + 2
<1>1. k \in Nat \ {0}
  OBVIOUS
<1> HIDE DEF k
<1>2. Max({1, k}) = k
  <2>1. k \in {1, k} /\ \A y \in {1, k} : k >= y
    BY <1>1
  <2>2. \A x \in {1, k} : (\A y \in {1, k} : x >= y) => x = k
    BY <1>1
  <2> QED BY <2>1, <2>2 DEF Max
<1> QED BY <1>2 DEF Above, k
-----------------------------------------------------------------------------
(* The inductive invariant.  Disk: every file but the last is whole, and   *)
(* so is the last one of an open log; the files are contiguous, and the    *)
(* checkpoint lies between the first record and the last.                  *)
Open == {"ready", "append", "compact"}
LastFile == files[Len(files)]
FilesOK ==
    /\ files \in Seq(SoundFile)
    /\ \A i \in 1..Len(files) : i # Len(files) \/ pc \in Open => Whole(files[i])
    /\ SegmentsContiguous
    /\ files = <<>> => ckpt = 0 /\ pc \notin Open
RangeOK ==
    files # <<>> => /\ files[1].start <= ckpt + 1 /\ ckpt <= FileEnd(LastFile)
                    /\ Len(DiskRecords) = FileEnd(LastFile) - files[1].start + 1
(* Memory: the index of an open log is the scan of its files.  The first   *)
(* time of a segment is that of its first record, in all segments but one, *)
(* and the cached time is that of the first pending record or of the       *)
(* segment that begins with it.                                            *)
TimeMark == Times \cup {NoTime}
FirstsOK ==
    /\ firstAt \in Seq(TimeMark) /\ Len(firstAt) = Len(segs)
    /\ \A i \in 1..Len(segs) : segs[i].recs # <<>> => firstAt[i] # NoTime
    /\ \E k \in Int : \A i \in 1..Len(segs) : i # k => firstAt[i] = FirstTime(segs[i].recs)
CacheOK ==
    \/ oldest = FirstTime(DiskTail)
    \/ \E i \in 1..Len(segs) : /\ segs[i].recs # <<>> /\ segs[i].start = ckpt + 1
                               /\ oldest = firstAt[i]
MemoryOK ==
    /\ pc \in Open => segs = [i \in DOMAIN files |-> Loaded(files[i])] /\ FirstsOK
    /\ pc \in {"ready", "append"} => CacheOK
    /\ pc = "append" => want \in RecordSizes
    /\ pc \notin Open => segs = <<>>
WalInv == TypeOK /\ FilesOK /\ RangeOK /\ MemoryOK

(* What a step may do to the contract's variables. *)
LogStep ==
    \/ ckpt' = ckpt /\ DiskTail' = DiskTail
    \/ ckpt' = ckpt /\ \E r \in Rec : DiskTail' = Append(DiskTail, r)
    \/ \E k \in 1..Len(DiskTail) : /\ ckpt' = ckpt + k
                                   /\ DiskTail' = SubSeq(DiskTail, k + 1, Len(DiskTail))

(* What is known of the files of a log that has some. *)
LEMMA FilesKnown ==
    ASSUME WalInv, files # <<>>
    PROVE  /\ Len(files) \in Nat \ {0} /\ files[1] \in SoundFile /\ LastFile \in SoundFile
           /\ files[1].start \in Nat \ {0} /\ ckpt \in Nat /\ FileEnd(LastFile) \in Nat
           /\ files[1].start <= ckpt + 1 /\ ckpt <= FileEnd(LastFile)
           /\ DiskRecords = RecordsOf(files) /\ DiskRecords \in Seq(Rec)
           /\ Len(DiskRecords) = FileEnd(LastFile) - files[1].start + 1
           /\ DiskTail = SubSeq(DiskRecords, ckpt - files[1].start + 2, Len(DiskRecords))
           /\ DiskTail \in Seq(Rec) /\ Len(DiskTail) = FileEnd(LastFile) - ckpt
<1>1. files \in Seq(SoundFile) /\ RangeOK /\ ckpt \in Nat
  BY DEF WalInv, FilesOK, TypeOK
<1>2. Len(files) \in Nat \ {0}
  BY <1>1, EmptySeq
<1>3. files[1] \in SoundFile /\ LastFile \in SoundFile
  BY <1>1, <1>2 DEF LastFile
<1>4. files[1].start \in Nat \ {0} /\ FileEnd(LastFile) \in Nat
  BY <1>3, RecordsIs
<1>5. DiskRecords = RecordsOf(files) /\ DiskRecords \in Seq(Rec)
  BY <1>1, PartsIs DEF DiskRecords, RecordsOf, Parts
<1>6. /\ files[1].start <= ckpt + 1 /\ ckpt <= FileEnd(LastFile)
      /\ Len(DiskRecords) = FileEnd(LastFile) - files[1].start + 1
  BY <1>1 DEF RangeOK
<1>7. DiskTail = SubSeq(DiskRecords, ckpt - files[1].start + 2, Len(DiskRecords))
  <2>1. DiskTail = Above(DiskRecords, files[1].start, ckpt)
    BY DEF DiskTail
  <2> QED BY <1>1, <1>4, <1>5, <1>6, <2>1, AboveIs
<1>8. DiskTail \in Seq(Rec) /\ Len(DiskTail) = FileEnd(LastFile) - ckpt
  <2> DEFINE a == ckpt - files[1].start + 2
             b == Len(DiskRecords)
  <2>1. a \in 1..(b + 1) /\ b \in Nat /\ b - a + 1 = FileEnd(LastFile) - ckpt
    <3>1. PICK s \in Nat \ {0}, e \in Nat, c \in Nat : s = files[1].start /\ e = FileEnd(LastFile) /\ c = ckpt
      BY <1>1, <1>4
    <3>2. s <= c + 1 /\ c <= e /\ a = c - s + 2 /\ b = e - s + 1
      BY <1>6, <3>1
    <3> HIDE DEF a, b
    <3>3. a \in 1..(b + 1) /\ b \in Nat /\ b - a + 1 = e - c
      BY <3>2
    <3> QED BY <3>1, <3>3
  <2> HIDE DEF a, b
  <2>2. DiskTail = SubSeq(DiskRecords, a, b)
    BY <1>7 DEF a, b
  <2> QED BY <1>5, <2>1, <2>2, SubSeqProperties DEF b
<1> QED BY <1>1, <1>2, <1>3, <1>4, <1>5, <1>6, <1>7, <1>8

(* What is known of an open log. *)
LEMMA OpenKnown ==
    ASSUME WalInv, pc \in Open
    PROVE  /\ files # <<>> /\ Len(segs) = Len(files) /\ segs[1].start = files[1].start
           /\ segs = [i \in 1..Len(files) |-> Loaded(files[i])]
           /\ Current = Loaded(LastFile) /\ LastSequence = FileEnd(LastFile)
           /\ Whole(LastFile) /\ IndexedAbove(ckpt) = DiskTail /\ FirstsOK
<1>1. files # <<>> /\ files \in Seq(SoundFile)
  BY DEF WalInv, FilesOK
<1>2. Len(files) \in Nat \ {0} /\ LastFile \in SoundFile /\ DOMAIN files = 1..Len(files)
  BY <1>1, FilesKnown
<1>3. segs = [i \in 1..Len(files) |-> Loaded(files[i])]
  BY <1>2 DEF WalInv, MemoryOK
<1>4. Len(segs) = Len(files) /\ DOMAIN segs = 1..Len(files)
  BY <1>2, <1>3
<1>5. segs[1].start = files[1].start /\ Current = Loaded(LastFile)
  BY <1>2, <1>3, <1>4 DEF Current, Loaded, LastFile
<1>6. LastSequence = FileEnd(LastFile)
  BY <1>2, <1>5, RecordsIs DEF LastSequence
<1>7. Whole(LastFile)
  <2>1. Len(files) \in 1..Len(files)
    BY <1>2
  <2>2. Whole(files[Len(files)])
    BY <2>1 DEF WalInv, FilesOK
  <2> QED BY <2>2 DEF LastFile
<1>8. AllRecords(segs) = DiskRecords
  <2>1. \A i \in 1..Len(files) : segs[i].recs = Records(files[i])
    BY <1>3 DEF Loaded
  <2>2. [i \in DOMAIN segs |-> segs[i].recs] = [i \in DOMAIN files |-> Records(files[i])]
    BY <1>2, <1>4, <2>1
  <2> QED BY <2>2 DEF AllRecords, DiskRecords
<1>9. IndexedAbove(ckpt) = DiskTail
  BY <1>1, <1>5, <1>8 DEF IndexedAbove, DiskTail
<1> QED BY <1>1, <1>3, <1>4, <1>5, <1>6, <1>7, <1>9 DEF WalInv, MemoryOK

(* A step that leaves the disk alone. *)
LEMMA QuietDisk ==
    ASSUME WalInv, UNCHANGED <<files, ckpt>>, pc' \in Open => pc \in Open
    PROVE  FilesOK' /\ RangeOK' /\ DiskTail' = DiskTail /\ LogStep
<1>1. DiskRecords' = DiskRecords /\ LastFile' = LastFile
  BY DEF DiskRecords, LastFile
<1>2. DiskTail' = DiskTail
  BY <1>1 DEF DiskTail
<1>3. FilesOK'
  BY DEF WalInv, FilesOK, SegmentsContiguous
<1>4. RangeOK'
  BY <1>1 DEF WalInv, RangeOK
<1> QED BY <1>2, <1>3, <1>4 DEF LogStep

(* The last file of a scan loses its incomplete tail, and no record.       *)
LEMMA TruncatedIs ==
    ASSUME NEW f \in SoundFile
    PROVE  /\ Truncated(f) \in SoundFile /\ Whole(Truncated(f)) /\ Truncated(f).start = f.start
           /\ Records(Truncated(f)) = Records(f) /\ FileEnd(Truncated(f)) = FileEnd(f)
<1> DEFINE n == Accepted(f)
           g == Truncated(f)
           cs == SubSeq(f.chunks, 1, n)
<1>1. f \in File /\ f.chunks \in Seq(Chunk) /\ n \in 0..Len(f.chunks) /\ Len(f.chunks) \in Nat
  BY AcceptedIs DEF SoundFile, File
<1>2. cs \in Seq(Chunk) /\ Len(cs) = n /\ \A i \in 1..n : cs[i] = f.chunks[i]
  <2> HIDE DEF n
  <2> QED BY <1>1, SubSeqProperties
<1>3. g = [f EXCEPT !.chunks = cs]
  BY <1>1 DEF Truncated, File
<1>4. g \in File /\ g.start = f.start /\ g.chunks = cs
  <2> HIDE DEF cs, g
  <2> QED BY <1>1, <1>2, <1>3 DEF File
<1>5. \A i \in 1..n : Good(f, i)
  <2>1. CASE Whole(f)
    BY <2>1, AcceptedIs DEF Whole
  <2>2. CASE ~Whole(f)
    BY <2>2, AcceptedIs DEF SoundFile
  <2> QED BY <2>1, <2>2
<1> HIDE DEF cs, g, n
<1>6. Whole(g)
  BY <1>1, <1>2, <1>4, <1>5 DEF Whole, Good
<1>7. g \in SoundFile
  BY <1>1, <1>2, <1>4, <1>6 DEF SoundFile, Whole
<1>8. Accepted(g) = n
  BY <1>2, <1>4, <1>6, <1>7, AcceptedIs
<1>9. Records(g) = Records(f)
  BY <1>2, <1>4, <1>8 DEF Records, n
<1>10. FileEnd(g) = FileEnd(f)
  BY <1>4, <1>8 DEF FileEnd, n
<1> QED BY <1>4, <1>6, <1>7, <1>9, <1>10 DEF g

(* A chunk behind a whole file: a record more when all of it is there, and *)
(* nothing new otherwise.                                                  *)
LEMMA WrittenIs ==
    ASSUME NEW f \in SoundFile, Whole(f), NEW c \in Chunk, c.seq = FileEnd(f) + 1,
           NEW g, g = [f EXCEPT !.chunks = Append(@, c)]
    PROVE  /\ g \in SoundFile /\ g.start = f.start
           /\ c.have = c.bytes => /\ Whole(g) /\ FileEnd(g) = FileEnd(f) + 1
                                  /\ Records(g) = Append(Records(f), [at |-> c.at, bytes |-> c.bytes])
           /\ c.have # c.bytes => FileEnd(g) = FileEnd(f) /\ Records(g) = Records(f)
<1> DEFINE n == Len(f.chunks)
           x == [at |-> c.at, bytes |-> c.bytes]
<1>1. f \in File /\ f.chunks \in Seq(Chunk) /\ n \in Nat /\ Accepted(f) = n /\ f.start \in Nat
  BY AcceptedIs DEF SoundFile, File
<1>2. g \in File /\ g.start = f.start /\ g.chunks = Append(f.chunks, c)
  <2>1. PICK cs \in Seq(Chunk) : cs = Append(f.chunks, c)
    <3>1. Append(f.chunks, c) \in Seq(Chunk)
      BY <1>1, AppendProperties
    <3> QED BY <3>1
  <2>2. g = [f EXCEPT !.chunks = cs]
    BY <2>1
  <2> QED BY <1>1, <2>1, <2>2 DEF File
<1>3. /\ g.chunks \in Seq(Chunk) /\ Len(g.chunks) = n + 1 /\ g.chunks[n + 1] = c
      /\ \A i \in 1..n : g.chunks[i] = f.chunks[i]
  BY <1>1, <1>2
<1>4. c.seq = g.start + (n + 1) - 1
  BY <1>1, <1>2 DEF FileEnd
<1> HIDE DEF n, x
<1>5. \A i \in 1..n : Good(g, i)
  BY <1>1, <1>2, <1>3 DEF Whole, Good, n
<1>6. g \in SoundFile
  <2>1. Len(g.chunks) - 1 = n
    BY <1>1, <1>3
  <2> QED BY <1>2, <1>5, <2>1 DEF SoundFile
<1>7. Good(g, n + 1) <=> c.have = c.bytes
  BY <1>3, <1>4 DEF Good
<1>8. CASE c.have = c.bytes
  <2>1. Whole(g)
    <3>1. \A i \in 1..(n + 1) : i \in 1..n \/ i = n + 1
      BY <1>1
    <3> QED BY <1>3, <1>5, <1>7, <1>8, <3>1 DEF Whole
  <2>2. Accepted(g) = n + 1
    BY <1>3, <1>6, <2>1, AcceptedIs
  <2>3. Records(g) = Append(Records(f), x)
    <3> DEFINE a == Records(g)
               b == Append(Records(f), x)
    <3>1. a \in Seq(Rec) /\ Len(a) = n + 1 /\ Records(f) \in Seq(Rec) /\ Len(Records(f)) = n
      BY <1>1, <1>6, <2>2, RecordsIs
    <3>2. x \in Rec
      BY DEF Chunk, Rec, x
    <3>3. b \in Seq(Rec) /\ Len(b) = n + 1
      BY <1>1, <3>1, <3>2
    <3>4. ASSUME NEW i \in 1..(n + 1) PROVE a[i] = b[i]
      <4>1. a[i] = [at |-> g.chunks[i].at, bytes |-> g.chunks[i].bytes]
        BY <2>2 DEF Records
      <4>2. CASE i = n + 1
        BY <1>3, <3>1, <4>1, <4>2 DEF x
      <4>3. CASE i # n + 1
        <5>1. i \in 1..n /\ b[i] = Records(f)[i]
          BY <1>1, <3>1, <4>3
        <5>2. Records(f)[i] = [at |-> f.chunks[i].at, bytes |-> f.chunks[i].bytes]
          BY <1>1, <5>1 DEF Records
        <5> QED BY <1>3, <4>1, <5>1, <5>2
      <4> QED BY <4>2, <4>3
    <3> HIDE DEF a, b
    <3> QED BY <3>1, <3>3, <3>4, SeqEqual DEF a, b
  <2>4. FileEnd(g) = FileEnd(f) + 1
    BY <1>1, <1>2, <2>2 DEF FileEnd
  <2> QED BY <1>2, <1>6, <1>8, <2>1, <2>3, <2>4 DEF x
<1>9. CASE c.have # c.bytes
  <2>1. ~Whole(g)
    BY <1>1, <1>3, <1>7, <1>9 DEF Whole
  <2>2. Accepted(g) = n
    <3>1. Accepted(g) = Len(g.chunks) - 1
      BY <1>6, <2>1, AcceptedIs
    <3> QED BY <1>1, <1>3, <3>1
  <2>3. Records(g) = Records(f)
    BY <1>1, <1>3, <2>2 DEF Records
  <2>4. FileEnd(g) = FileEnd(f)
    BY <1>1, <1>2, <2>2 DEF FileEnd
  <2> QED BY <1>2, <1>6, <1>9, <2>3, <2>4
<1> QED BY <1>8, <1>9
-----------------------------------------------------------------------------
(* The last file is replaced by one of the same start. *)
LEMMA LastReplaced ==
    ASSUME WalInv, files # <<>>, NEW g \in SoundFile, g.start = LastFile.start,
           files' = [files EXCEPT ![Len(files)] = g], ckpt' = ckpt, pc' \in Open => Whole(g)
    PROVE  /\ FilesOK' /\ files' # <<>> /\ Len(files') = Len(files) /\ LastFile' = g
           /\ files'[1].start = files[1].start
           /\ \A i \in 1..Len(files) : i # Len(files) => files'[i] = files[i]
<1> DEFINE n == Len(files)
<1>1. n \in Nat \ {0} /\ files \in Seq(SoundFile)
  BY FilesKnown DEF WalInv, FilesOK
<1>2. /\ files' \in Seq(SoundFile) /\ Len(files') = n /\ files'[n] = g
      /\ \A i \in 1..n : i # n => files'[i] = files[i]
  BY <1>1
<1>3. files' # <<>>
  BY <1>1, <1>2, EmptySeq
<1>4. LastFile' = g
  BY <1>2 DEF LastFile
<1>5. \A i \in 1..n : files'[i].start = files[i].start
  BY <1>2 DEF LastFile
<1>6. SegmentsContiguous'
  <2> SUFFICES ASSUME NEW i \in 2..n PROVE files'[i].start = FileEnd(files'[i - 1]) + 1
    BY <1>2 DEF SegmentsContiguous
  <2>1. i \in 1..n /\ i - 1 \in 1..n /\ i - 1 # n
    BY <1>1
  <2>2. files'[i - 1] = files[i - 1] /\ files'[i].start = files[i].start
    BY <1>2, <1>5, <2>1
  <2>3. files[i].start = FileEnd(files[i - 1]) + 1
    BY DEF WalInv, FilesOK, SegmentsContiguous
  <2> QED BY <2>2, <2>3
<1>7. ASSUME NEW i \in 1..n, i # n \/ pc' \in Open PROVE Whole(files'[i])
  <2>1. CASE i = n
    BY <1>2, <1>7, <2>1
  <2>2. CASE i # n
    <3>1. Whole(files[i])
      BY <2>2 DEF WalInv, FilesOK
    <3> QED BY <1>2, <2>2, <3>1
  <2> QED BY <2>1, <2>2
<1>8. FilesOK'
  BY <1>2, <1>3, <1>6, <1>7 DEF FilesOK
<1>9. 1 \in 1..n
  BY <1>1
<1> QED BY <1>2, <1>3, <1>4, <1>5, <1>8, <1>9

(* It has the same records: nothing changes for the owner. *)
LEMMA SameRecords ==
    ASSUME WalInv, files # <<>>, NEW g \in SoundFile, g.start = LastFile.start,
           files' = [files EXCEPT ![Len(files)] = g], ckpt' = ckpt, pc' \in Open => Whole(g),
           Records(g) = Records(LastFile), FileEnd(g) = FileEnd(LastFile)
    PROVE  RangeOK' /\ DiskTail' = DiskTail /\ DiskRecords' = DiskRecords
<1>1. /\ files' # <<>> /\ LastFile' = g /\ files'[1].start = files[1].start /\ Len(files') = Len(files)
      /\ \A i \in 1..Len(files) : i # Len(files) => files'[i] = files[i]
  BY LastReplaced
<1>2. files \in Seq(SoundFile) /\ Len(files) \in Nat \ {0}
  BY FilesKnown DEF WalInv, FilesOK
<1>3. DiskRecords' = DiskRecords
  <2>1. \A i \in 1..Len(files) : Records(files'[i]) = Records(files[i])
    BY <1>1, <1>2 DEF LastFile
  <2>2. DOMAIN files' = 1..Len(files) /\ DOMAIN files = 1..Len(files)
    BY <1>2
  <2>3. [i \in DOMAIN files' |-> Records(files'[i])] = [i \in DOMAIN files |-> Records(files[i])]
    BY <2>1, <2>2
  <2> QED BY <2>3 DEF DiskRecords
<1>4. DiskTail' = DiskTail
  <2>1. DiskTail' = Above(DiskRecords', files'[1].start, ckpt')
    BY <1>1 DEF DiskTail
  <2>2. DiskTail = Above(DiskRecords, files[1].start, ckpt)
    BY DEF DiskTail
  <2> QED BY <1>1, <1>3, <2>1, <2>2
<1>5. RangeOK'
  BY <1>1, <1>3, FilesKnown DEF RangeOK
<1> QED BY <1>3, <1>4, <1>5

(* A suffix of a sequence grows with the sequence. *)
LEMMA SuffixGrows ==
    ASSUME NEW s \in Seq(Rec), NEW x \in Rec, NEW a \in 1..(Len(s) + 1)
    PROVE  SubSeq(Append(s, x), a, Len(Append(s, x))) = Append(SubSeq(s, a, Len(s)), x)
<1> DEFINE n == Len(s)
           l == SubSeq(Append(s, x), a, n + 1)
           t == SubSeq(s, a, n)
           r == Append(t, x)
           k == n - a + 2
<1>1. n \in Nat /\ Append(s, x) \in Seq(Rec) /\ Len(Append(s, x)) = n + 1 /\ k \in Nat \ {0}
  OBVIOUS
<1>2. l \in Seq(Rec) /\ Len(l) = k /\ \A i \in 1..k : l[i] = Append(s, x)[a + i - 1]
  BY <1>1, SubSeqProperties
<1>3. t \in Seq(Rec) /\ Len(t) = k - 1 /\ \A i \in 1..(k - 1) : t[i] = s[a + i - 1]
  BY <1>1, SubSeqProperties
<1>4. r \in Seq(Rec) /\ Len(r) = k /\ r[k] = x /\ \A i \in 1..(k - 1) : r[i] = t[i]
  <2> HIDE DEF t, k
  <2> QED BY <1>1, <1>3
<1>5. ASSUME NEW i \in 1..k PROVE l[i] = r[i]
  <2>1. CASE i = k
    <3>1. a + i - 1 = n + 1
      BY <1>1, <2>1
    <3>2. Append(s, x)[n + 1] = x
      OBVIOUS
    <3> QED BY <1>2, <1>4, <2>1, <3>1, <3>2
  <2>2. CASE i # k
    <3>1. i \in 1..(k - 1) /\ a + i - 1 \in 1..n
      BY <1>1, <2>2
    <3>2. Append(s, x)[a + i - 1] = s[a + i - 1]
      BY <3>1
    <3> HIDE DEF l, r, t
    <3> QED BY <1>2, <1>3, <1>4, <3>1, <3>2
  <2> QED BY <2>1, <2>2
<1> HIDE DEF l, r, k
<1>6. l = r
  BY <1>2, <1>4, <1>5, SeqEqual
<1> QED BY <1>1, <1>6 DEF l, r

(* It has one record more: the owner has appended it. *)
LEMMA OneRecordMore ==
    ASSUME WalInv, files # <<>>, NEW g \in SoundFile, g.start = LastFile.start,
           files' = [files EXCEPT ![Len(files)] = g], ckpt' = ckpt, pc' \in Open => Whole(g),
           NEW x \in Rec, Records(g) = Append(Records(LastFile), x), FileEnd(g) = FileEnd(LastFile) + 1
    PROVE  RangeOK' /\ DiskTail' = Append(DiskTail, x)
<1>1. /\ files' # <<>> /\ LastFile' = g /\ files'[1].start = files[1].start
  BY LastReplaced
<1>2. files \in Seq(SoundFile)
  BY DEF WalInv, FilesOK
<1>3. PICK s \in Nat \ {0}, e \in Nat, c \in Nat, d \in Seq(Rec) :
         /\ s = files[1].start /\ e = FileEnd(LastFile) /\ c = ckpt /\ d = DiskRecords
         /\ s <= c + 1 /\ c <= e /\ Len(d) = e - s + 1
         /\ DiskTail = SubSeq(d, c - s + 2, Len(d)) /\ d = RecordsOf(files)
  BY FilesKnown
<1>4. DiskRecords' = Append(d, x)
  <2>1. RecordsOf([files EXCEPT ![Len(files)] = g]) = Append(RecordsOf(files), x)
    BY <1>2, RecordsGrow DEF LastFile
  <2>2. DiskRecords' = RecordsOf(files')
    BY DEF DiskRecords, RecordsOf, Parts
  <2> QED BY <1>3, <2>1, <2>2
<1>5. RangeOK'
  <2>1. Len(DiskRecords') = e + 1 - s + 1
    <3>1. Len(Append(d, x)) = Len(d) + 1
      OBVIOUS
    <3>2. Len(d) = e - s + 1
      BY <1>3
    <3> QED BY <1>4, <3>1, <3>2
  <2>2. FileEnd(LastFile') = e + 1 /\ files'[1].start = s /\ ckpt' = c
    BY <1>1, <1>3
  <2>3. s <= c + 1 /\ c <= e + 1
    BY <1>3
  <2> QED BY <2>1, <2>2, <2>3 DEF RangeOK
<1>6. DiskTail' = Append(DiskTail, x)
  <2>1. c - s + 2 \in 1..(Len(d) + 1)
    <3>1. PICK k \in Int : k = Len(d) /\ k = e - s + 1 /\ s <= c + 1 /\ c <= e
      BY <1>3
    <3>2. c - s + 2 \in 1..(k + 1)
      BY <3>1
    <3> QED BY <3>1, <3>2
  <2>2. DiskTail' = Above(Append(d, x), s, c)
    BY <1>1, <1>3, <1>4 DEF DiskTail
  <2>3. Append(d, x) \in Seq(Rec)
    OBVIOUS
  <2>4. DiskTail' = SubSeq(Append(d, x), c - s + 2, Len(Append(d, x)))
    BY <1>3, <2>2, <2>3, AboveIs
  <2> QED BY <1>3, <2>1, <2>4, SuffixGrows
<1> QED BY <1>5, <1>6
-----------------------------------------------------------------------------
(* Types of what a scan of the files gives. *)
LEMMA ScanTypes ==
    ASSUME NEW fs \in Seq(SoundFile)
    PROVE  fs \in Seq(File) /\ [i \in DOMAIN fs |-> Loaded(fs[i])] \in Seq(Segment)
<1>1. ASSUME NEW i \in 1..Len(fs)
      PROVE  fs[i] \in File /\ Loaded(fs[i]) \in Segment
  <2>1. fs[i] \in SoundFile
    OBVIOUS
  <2>2. fs[i] \in File
    BY <2>1 DEF SoundFile
  <2> QED BY <2>1, <2>2, RecordsIs
<1>2. fs \in Seq(File)
  <2>1. SoundFile \subseteq File
    BY DEF SoundFile
  <2> QED BY <2>1
<1>3. [i \in 1..Len(fs) |-> Loaded(fs[i])] \in Seq(Segment)
  BY <1>1
<1> QED BY <1>2, <1>3

LEMMA FirstTimeType ==
    ASSUME NEW s \in Seq(Rec)
    PROVE  FirstTime(s) \in Times \cup {NoTime} /\ (FirstTime(s) = NoTime <=> s = <<>>)
<1>1. CASE s = <<>>
  BY <1>1 DEF FirstTime
<1>2. CASE s # <<>>
  <2>1. s[1] \in Rec
    BY <1>2, EmptySeq
  <2>2. s[1].at \in Times
    BY <2>1 DEF Rec
  <2>3. s[1].at # NoTime
    BY <2>2, WalAssumption DEF Times, NoTime
  <2> QED BY <1>2, <2>2, <2>3 DEF FirstTime
<1> QED BY <1>1, <1>2

(* A file that was just created holds nothing. *)
LEMMA EmptyFileIs ==
    ASSUME NEW s \in Nat \ {0}
    PROVE  /\ EmptyFile(s) \in SoundFile /\ Whole(EmptyFile(s)) /\ Records(EmptyFile(s)) = <<>>
           /\ FileEnd(EmptyFile(s)) = s - 1 /\ EmptyFile(s).start = s
           /\ Loaded(EmptyFile(s)) = EmptySegment(s)
<1> DEFINE f == EmptyFile(s)
<1>1. f.start = s /\ f.chunks = <<>> /\ Len(f.chunks) = 0
  BY DEF EmptyFile
<1>2. f \in File
  <2>1. <<>> \in Seq(Chunk)
    BY EmptySeq
  <2> QED BY <2>1 DEF File, EmptyFile
<1> HIDE DEF f
<1>3. Whole(f) /\ f \in SoundFile
  BY <1>1, <1>2 DEF Whole, SoundFile
<1>4. Accepted(f) = 0
  BY <1>1, <1>3, AcceptedIs
<1>5. Records(f) = <<>>
  <2>1. Records(f) \in Seq(Rec) /\ Len(Records(f)) = 0
    BY <1>3, <1>4, RecordsIs
  <2> QED BY <2>1, EmptySeq
<1>6. FileEnd(f) = s - 1
  BY <1>1, <1>4 DEF FileEnd
<1>7. Loaded(f) = EmptySegment(s)
  BY <1>1, <1>5 DEF Loaded, EmptySegment
<1> QED BY <1>1, <1>3, <1>5, <1>6, <1>7 DEF f

(* The whole invariant from its parts, for a step of an open log. *)
LEMMA StepTypes ==
    ASSUME FilesOK', RangeOK', MemoryOK', ckpt' \in Nat, segs' \in Seq(Segment),
           firstAt' \in Seq(TimeMark), oldest' \in TimeMark, lastAt' \in Times,
           pc' \in {"closed", "refused", "ready", "append", "compact"},
           want' \in RecordSizes \cup {0}, now' \in Times, faults' \in 0..IOFaults
    PROVE  WalInv'
<1>1. files' \in Seq(File)
  BY ScanTypes DEF FilesOK
<1> QED BY <1>1 DEF WalInv, TypeOK, File, Segment, TimeMark

(* Init, *)
LEMMA InitInv == Init => WalInv /\ ckpt = 0 /\ DiskTail = <<>>
<1> SUFFICES ASSUME Init PROVE WalInv /\ ckpt = 0 /\ DiskTail = <<>>
  OBVIOUS
<1>1. /\ files = <<>> /\ ckpt = 0 /\ segs = <<>> /\ firstAt = <<>> /\ oldest = NoTime /\ lastAt = 0
      /\ pc = "closed" /\ want = 0 /\ now = 0 /\ faults = 0
  BY DEF Init
<1>2. \A S : <<>> \in Seq(S)
  BY EmptySeq
<1>3. 0 \in Times /\ 0 \in 0..IOFaults
  BY WalAssumption DEF Times
<1>4. TypeOK
  BY <1>1, <1>2, <1>3 DEF TypeOK
<1>5. FilesOK
  <2>1. Len(files) = 0
    BY <1>1
  <2> QED BY <1>1, <1>2, <2>1 DEF FilesOK, SegmentsContiguous, Open
<1>6. RangeOK /\ MemoryOK
  BY <1>1 DEF RangeOK, MemoryOK, Open
<1> QED BY <1>1, <1>4, <1>5, <1>6 DEF WalInv, DiskTail

(* a first open, *)
LEMMA OpenEmptyKeeps ==
    ASSUME WalInv, OpenEmpty
    PROVE  WalInv' /\ LogStep
<1> DEFINE f == EmptyFile(1)
<1>1. /\ files = <<>> /\ files' = <<f>> /\ segs' = <<EmptySegment(1)>> /\ oldest' = NoTime /\ lastAt' = 0
      /\ firstAt' = <<NoTime>> /\ pc' = "ready" /\ UNCHANGED <<ckpt, want, now, faults>>
  BY DEF OpenEmpty
<1>2. ckpt = 0 /\ ckpt' = 0
  BY <1>1 DEF WalInv, FilesOK
<1>3. /\ f \in SoundFile /\ Whole(f) /\ Records(f) = <<>> /\ FileEnd(f) = 0 /\ f.start = 1
      /\ Loaded(f) = EmptySegment(1)
  BY EmptyFileIs
<1> HIDE DEF f
<1>4. files' \in Seq(SoundFile) /\ Len(files') = 1 /\ files'[1] = f /\ LastFile' = f /\ files' # <<>>
  BY <1>1, <1>3 DEF LastFile
<1>5. DiskRecords' = <<>>
  <2>1. <<>> \in Seq(SoundFile) /\ <<f>> = Append(<<>>, f)
    BY EmptySeq
  <2>2. RecordsOf(<<>>) = <<>>
    <3>1. Parts(<<>>) \in Seq(Seq(Rec)) /\ Len(Parts(<<>>)) = 0
      BY <2>1, PartsIs
    <3>2. Parts(<<>>) = <<>>
      BY <3>1, EmptySeq
    <3> QED BY <3>1, <3>2 DEF RecordsOf, FlattenSeq
  <2>3. RecordsOf(<<f>>) = RecordsOf(<<>>) \o Records(f)
    BY <1>3, <2>1, RecordsAppend
  <2>4. DiskRecords' = RecordsOf(files')
    BY DEF DiskRecords, RecordsOf, Parts
  <2>5. <<>> \o <<>> = <<>>
    OBVIOUS
  <2> QED BY <1>1, <1>3, <2>2, <2>3, <2>4, <2>5
<1>6. DiskTail' = <<>> /\ DiskTail = <<>>
  <2>1. PICK e \in Seq(Rec) : e = <<>>
    BY EmptySeq
  <2>2. DiskTail' = Above(e, 1, 0)
    BY <1>2, <1>3, <1>4, <1>5, <2>1 DEF DiskTail
  <2>3. Above(e, 1, 0) = SubSeq(e, 0 - 1 + 2, Len(e))
    BY AboveIs
  <2>4. SubSeq(e, 0 - 1 + 2, Len(e)) = <<>>
    BY <2>1
  <2> QED BY <1>1, <2>2, <2>3, <2>4 DEF DiskTail
<1>7. FilesOK'
  <2>1. SegmentsContiguous'
    BY <1>4 DEF SegmentsContiguous
  <2>2. \A i \in 1..Len(files') : Whole(files'[i])
    BY <1>3, <1>4
  <2> QED BY <1>4, <2>1, <2>2 DEF FilesOK
<1>8. RangeOK'
  BY <1>2, <1>3, <1>4, <1>5 DEF RangeOK
<1>9. MemoryOK'
  <2>1. segs' = [i \in DOMAIN files' |-> Loaded(files'[i])]
    BY <1>1, <1>3, <1>4
  <2>2. FirstsOK'
    <3>1. /\ firstAt' \in Seq(TimeMark) /\ Len(firstAt') = 1 /\ Len(segs') = 1 /\ firstAt'[1] = NoTime
          /\ segs'[1].recs = <<>>
      BY <1>1 DEF TimeMark, EmptySegment
    <3>2. \A i \in 1..1 : firstAt'[i] = FirstTime(segs'[i].recs) /\ segs'[i].recs = <<>>
      BY <3>1 DEF FirstTime
    <3> QED BY <3>1, <3>2 DEF FirstsOK
  <2>3. CacheOK'
    BY <1>1, <1>6 DEF CacheOK, FirstTime
  <2> QED BY <1>1, <2>1, <2>2, <2>3 DEF MemoryOK, Open
<1>10. segs' \in Seq(Segment)
  <2>1. EmptySegment(1) \in Segment
    BY <1>3, RecordsIs
  <2> QED BY <1>1, <2>1
<1>11. WalInv'
  <2>1. 0 \in Times
    BY WalAssumption DEF Times
  <2>2. firstAt' \in Seq(TimeMark)
    BY <1>1 DEF TimeMark
  <2> QED BY <1>1, <1>2, <1>7, <1>8, <1>9, <1>10, <2>1, <2>2, StepTypes DEF WalInv, TypeOK, TimeMark
<1> QED BY <1>1, <1>6, <1>11 DEF LogStep

(* The times that a scan takes from the headers. *)
LEMMA HeadersIs ==
    ASSUME NEW f \in SoundFile
    PROVE  /\ FirstHeader(f) \in TimeMark
           /\ Accepted(f) > 0 => LastHeader(f) \in Times
           /\ Records(f) # <<>> => FirstHeader(f) # NoTime
           /\ Whole(f) \/ Records(f) # <<>> => FirstHeader(f) = FirstTime(Records(f))
<1>1. PICK n \in Nat, l \in Nat : n = Accepted(f) /\ l = Len(f.chunks) /\ n <= l
  BY AcceptedIs
<1>2. PICK m \in Nat : m \in {n, n + 1} /\ m <= l /\ Headers(f) = SubSeq(f.chunks, 1, m)
                     /\ (n = l => m = n)
  <2>1. CASE n < l /\ f.chunks[n + 1].have >= HeaderBytes
    <3>1. Headers(f) = SubSeq(f.chunks, 1, n + 1)
      BY <1>1, <2>1 DEF Headers
    <3>2. n + 1 \in Nat /\ n + 1 <= l /\ n # l
      BY <2>1
    <3> QED BY <3>1, <3>2
  <2>2. CASE ~(n < l /\ f.chunks[n + 1].have >= HeaderBytes)
    BY <1>1, <2>2 DEF Headers
  <2> QED BY <2>1, <2>2
<1>3. f.chunks \in Seq(Chunk)
  BY DEF SoundFile, File
<1>4. PICK h \in Seq(Chunk) : h = Headers(f) /\ Len(h) = m /\ \A i \in 1..m : h[i] = f.chunks[i]
  <2>1. SubSeq(f.chunks, 1, m) \in Seq(Chunk) /\ Len(SubSeq(f.chunks, 1, m)) = m
        /\ \A i \in 1..m : SubSeq(f.chunks, 1, m)[i] = f.chunks[i]
    BY <1>1, <1>2, <1>3, SubSeqProperties
  <2> QED BY <1>2, <2>1
<1>5. /\ Records(f) \in Seq(Rec) /\ Len(Records(f)) = n
      /\ Records(f) = [i \in 1..n |-> [at |-> f.chunks[i].at, bytes |-> f.chunks[i].bytes]]
  BY <1>1, RecordsIs DEF Records
<1>6. \A i \in 1..m : h[i].at \in Times
  <2>1. \A i \in 1..m : h[i] \in Chunk
    BY <1>4
  <2> QED BY <2>1 DEF Chunk
<1>7. FirstHeader(f) = (IF m = 0 THEN NoTime ELSE h[1].at)
  <2>1. h = <<>> <=> m = 0
    BY <1>4, EmptySeq
  <2> QED BY <1>4, <2>1 DEF FirstHeader
<1>8. NoTime \notin Times
  BY WalAssumption DEF NoTime, Times
<1>9. CASE n = 0
  <2>1. Records(f) = <<>>
    BY <1>5, <1>9, EmptySeq
  <2>2. FirstHeader(f) \in TimeMark
    BY <1>6, <1>7 DEF TimeMark
  <2>3. Whole(f) => m = 0
    BY <1>1, <1>2, <1>9, AcceptedIs
  <2> QED BY <1>1, <1>7, <1>9, <2>1, <2>2, <2>3 DEF FirstTime
<1>10. CASE n # 0
  <2>1. 1 \in 1..n /\ 1 \in 1..m /\ m \in 1..m /\ m # 0
    BY <1>2, <1>10
  <2>2. Records(f) # <<>> /\ Records(f)[1].at = f.chunks[1].at
    <3>1. Records(f) # <<>>
      BY <1>5, <1>10, EmptySeq
    <3>2. Records(f)[1] = [at |-> f.chunks[1].at, bytes |-> f.chunks[1].bytes]
      BY <1>5, <2>1
    <3> QED BY <3>1, <3>2
  <2>3. FirstHeader(f) = Records(f)[1].at /\ FirstHeader(f) \in Times
    BY <1>4, <1>6, <1>7, <2>1, <2>2
  <2>4. LastHeader(f) \in Times
    BY <1>4, <1>6, <2>1 DEF LastHeader
  <2> QED BY <1>8, <2>2, <2>3, <2>4 DEF FirstTime, TimeMark
<1> QED BY <1>9, <1>10

(* oldest_pending_timestamp: the time of the first pending record, or that *)
(* of the segment that begins with it.                                     *)
LEMMA OldestIs ==
    ASSUME NEW ss \in Seq(Segment), NEW fs \in Seq(TimeMark), Len(fs) = Len(ss), NEW c \in Nat,
           ss # <<>>, ss[1].start <= c + 1,
           \A i \in 2..Len(ss) : ss[i].start = End(ss[i - 1]) + 1,
           NEW tail \in Seq(Rec), tail = Above(AllRecords(ss), ss[1].start, c),
           NEW o, o = OldestPending(ss, fs, c)
    PROVE  /\ o \in TimeMark
           /\ \/ o = FirstTime(tail)
              \/ \E i \in 1..Len(ss) : ss[i].recs # <<>> /\ ss[i].start = c + 1 /\ o = fs[i]
<1> DEFINE P == Pending(ss, c)
<1>1. FirstTime(tail) \in TimeMark
  BY FirstTimeType DEF TimeMark
<1>2. CASE ~(P # {} /\ c < ss[Min(P)].start)
  BY <1>1, <1>2 DEF OldestPending
<1>3. CASE P # {} /\ c < ss[Min(P)].start
  <2>1. P \subseteq 1..Len(ss) /\ \A i \in P : ss[i].recs # <<>>
    BY DEF Pending
  <2>2. o = fs[Min(P)]
    BY <1>3 DEF OldestPending
  <2>3. PICK i \in P : i = Min(P) /\ \A j \in P : i <= j
    <3>1. P \subseteq Nat
      BY <2>1
    <3> HIDE DEF P
    <3>2. \E x \in P : \A y \in P : x <= y
      BY <1>3, <3>1, LeastNat
    <3>3. Min(P) \in P /\ \A y \in P : Min(P) <= y
      BY <3>2 DEF Min
    <3> QED BY <3>3
  <2> DEFINE T == {j \in 1..Len(ss) : j <= i /\ ss[j].start = ss[i].start}
  <2>4. i \in 1..Len(ss) /\ i \in T /\ T \subseteq Nat
    BY <2>1
  <2>5. PICK j \in T : \A k \in T : j <= k
    <3> HIDE DEF T
    <3> QED BY <2>4, LeastNat
  <2>6. ss[i].start <= c + 1
    <3>1. CASE j = 1
      BY <2>5, <3>1
    <3>2. CASE j # 1
      <4>1. j \in 2..Len(ss) /\ j - 1 \in 1..Len(ss) /\ j - 1 < j /\ j - 1 < i /\ j - 1 <= i
        BY <2>4, <2>5, <3>2
      <4>2. PICK q \in Segment : q = ss[j - 1]
        BY <4>1
      <4>3. PICK a \in Nat, r \in Seq(Rec) : a = q.start /\ r = q.recs
        BY DEF Segment
      <4>4. ss[j].start = a + Len(r) - 1 + 1 /\ End(q) = a + Len(r) - 1
        BY <4>1, <4>2, <4>3 DEF End
      <4>5. j - 1 \notin T
        <5> HIDE DEF T
        <5>1. ASSUME j - 1 \in T PROVE FALSE
          <6>1. j <= j - 1 /\ j \in Nat
            BY <2>4, <2>5, <5>1
          <6> QED BY ONLY <6>1
        <5> QED BY <5>1
      <4>6. r # <<>>
        <5>1. ASSUME r = <<>> PROVE FALSE
          <6>1. Len(r) = 0
            BY <5>1
          <6>2. ss[j].start = a
            BY <4>4, <6>1
          <6>3. ss[j - 1].start = ss[i].start
            BY <2>5, <4>2, <4>3, <6>2
          <6> QED BY <4>1, <4>5, <6>3
        <5> QED BY <5>1
      <4>7. ~(End(q) > c)
        <5>1. j - 1 \notin P
          <6> HIDE DEF P
          <6>1. ASSUME j - 1 \in P PROVE FALSE
            <7>1. i <= j - 1 /\ i \in Nat /\ j \in Nat
              BY <2>3, <2>4, <2>5, <6>1
            <7> QED BY <4>1, <7>1
          <6> QED BY <6>1
        <5> QED BY <4>1, <4>2, <4>3, <4>6, <5>1 DEF Pending
      <4>8. Len(r) \in Nat
        OBVIOUS
      <4> QED BY <2>5, <4>4, <4>7, <4>8
    <3> QED BY <3>1, <3>2
  <2>7. ss[i].start = c + 1
    <3>1. ss[i].start \in Nat /\ c < ss[i].start
      <4>1. PICK q \in Segment : q = ss[i]
        BY <2>4
      <4>2. q.start \in Nat
        BY DEF Segment
      <4> HIDE DEF P
      <4> QED BY <1>3, <2>3, <4>1, <4>2
    <3> QED BY <2>6, <3>1
  <2>8. o \in TimeMark /\ o = fs[i]
    BY <2>2, <2>3, <2>4
  <2> HIDE DEF P
  <2> QED BY <2>1, <2>3, <2>4, <2>7, <2>8
<1> QED BY <1>2, <1>3

(* an open that recovers: the index is the scan of the truncated files,    *)
LEMMA OpenRecoverKeeps ==
    ASSUME WalInv, OpenRecover
    PROVE  WalInv' /\ LogStep
<1> DEFINE n == Len(files)
           g == Truncated(LastFile)
<1>1. /\ files # <<>> /\ files' = [files EXCEPT ![n] = g]
      /\ segs' = [i \in DOMAIN files |-> Loaded(files[i])]
      /\ firstAt' = [i \in DOMAIN files |-> FirstHeader(files[i])]
      /\ oldest' = OldestPending(segs', firstAt', ckpt)
      /\ lastAt' = (IF HasRecords = {} THEN 0 ELSE LastHeader(files[Max(HasRecords)]))
      /\ pc' = "compact" /\ UNCHANGED <<ckpt, want, now, faults>>
  BY DEF OpenRecover, LastFile
<1>2. /\ n \in Nat \ {0} /\ LastFile \in SoundFile /\ DiskRecords \in Seq(Rec) /\ DiskTail \in Seq(Rec)
      /\ files \in Seq(SoundFile)
  BY <1>1, FilesKnown DEF WalInv, FilesOK
<1>3. PICK h \in SoundFile : /\ h = g /\ Whole(h) /\ h.start = LastFile.start
                             /\ Records(h) = Records(LastFile) /\ FileEnd(h) = FileEnd(LastFile)
  BY <1>2, TruncatedIs
<1>4. files' = [files EXCEPT ![Len(files)] = h]
  BY <1>1, <1>3
<1> HIDE DEF g, n
<1>5. /\ FilesOK' /\ Len(files') = Len(files) /\ LastFile' = h
      /\ \A i \in 1..Len(files) : i # Len(files) => files'[i] = files[i]
  BY <1>1, <1>3, <1>4, LastReplaced
<1>6. RangeOK' /\ DiskTail' = DiskTail
  BY <1>1, <1>3, <1>4, SameRecords
<1>7. segs' = [i \in DOMAIN files' |-> Loaded(files'[i])]
  <2>1. ASSUME NEW i \in 1..Len(files) PROVE Loaded(files'[i]) = Loaded(files[i])
    <3>1. CASE i = Len(files)
      <4>1. files'[i] = h
        BY <1>5, <3>1 DEF LastFile
      <4>2. Loaded(h) = Loaded(LastFile)
        BY <1>3 DEF Loaded
      <4> QED BY <3>1, <4>1, <4>2 DEF LastFile
    <3>2. CASE i # Len(files)
      BY <1>5, <3>2
    <3> QED BY <3>1, <3>2
  <2>2. DOMAIN files = 1..Len(files) /\ DOMAIN files' = 1..Len(files)
    BY <1>2, <1>4
  <2> QED BY <1>1, <2>1, <2>2
<1>8. /\ segs' \in Seq(Segment) /\ firstAt' \in Seq(TimeMark) /\ Len(segs') = Len(files)
      /\ Len(firstAt') = Len(files) /\ DOMAIN files = 1..Len(files)
      /\ \A i \in 1..Len(files) : /\ segs'[i] = Loaded(files[i]) /\ segs'[i].recs = Records(files[i])
                                  /\ segs'[i].start = files[i].start
                                  /\ firstAt'[i] = FirstHeader(files[i]) /\ files[i] \in SoundFile
  <2>1. DOMAIN files = 1..Len(files) /\ Len(files) \in Nat /\ \A i \in 1..Len(files) : files[i] \in SoundFile
    BY <1>2 DEF n
  <2>2. ASSUME NEW i \in 1..Len(files) PROVE FirstHeader(files[i]) \in TimeMark
    <3>1. files[i] \in SoundFile
      BY <2>1
    <3> QED BY <3>1, HeadersIs
  <2>3. segs' = [i \in 1..Len(files) |-> Loaded(files[i])] /\ firstAt' = [i \in 1..Len(files) |-> FirstHeader(files[i])]
    BY <1>1, <2>1
  <2>4. segs' \in Seq(Segment)
    BY <1>1, <1>2, ScanTypes
  <2>5. firstAt' \in Seq(TimeMark) /\ Len(firstAt') = Len(files) /\ Len(segs') = Len(files)
    BY <2>1, <2>2, <2>3
  <2>6. ASSUME NEW i \in 1..Len(files) PROVE Loaded(files[i]).recs = Records(files[i]) /\ Loaded(files[i]).start = files[i].start
    BY DEF Loaded
  <2> QED BY <2>1, <2>3, <2>4, <2>5, <2>6
<1>9. FirstsOK'
  <2>1. ASSUME NEW i \in 1..Len(files) PROVE segs'[i].recs # <<>> => firstAt'[i] # NoTime
    BY <1>8, HeadersIs
  <2>2. ASSUME NEW i \in 1..Len(files), i # n PROVE firstAt'[i] = FirstTime(segs'[i].recs)
    <3>1. Whole(files[i])
      BY <2>2 DEF WalInv, FilesOK, n
    <3> QED BY <1>8, <3>1, HeadersIs
  <2>3. n \in Int
    BY <1>2
  <2> QED BY <1>8, <2>1, <2>2, <2>3 DEF FirstsOK
<1>10. lastAt' \in Times
  <2>1. CASE HasRecords = {}
    BY <1>1, <2>1, WalAssumption DEF Times
  <2>2. CASE HasRecords # {}
    <3>1. HasRecords \subseteq 1..Len(files) /\ Len(files) \in Nat /\ \A i \in HasRecords : Accepted(files[i]) > 0
      BY <1>2, <1>8 DEF HasRecords, n
    <3> DEFINE T == {m \in 0..Len(files) : Len(files) - m \in HasRecords}
    <3>2. PICK a \in HasRecords : TRUE
      BY <2>2
    <3>3. Len(files) - a \in T /\ T \subseteq Nat
      BY <3>1, <3>2
    <3>4. PICK m \in T : \A k \in T : m <= k
      <4> HIDE DEF T
      <4> QED BY <3>3, LeastNat
    <3> DEFINE x == Len(files) - m
    <3>5. x \in HasRecords /\ \A y \in HasRecords : x >= y
      <4>1. x \in HasRecords
        BY <3>4
      <4>2. ASSUME NEW y \in HasRecords PROVE x >= y
        <5>1. Len(files) - y \in T
          BY <3>1
        <5>2. m <= Len(files) - y
          BY <3>4, <5>1
        <5> QED BY <3>1, <3>4, <5>2
      <4> QED BY <4>1, <4>2
    <3>6. PICK z \in HasRecords : z = Max(HasRecords)
      <4> HIDE DEF x
      <4> QED BY <3>5 DEF Max
    <3>7. LastHeader(files[z]) \in Times
      BY <1>8, <3>1, <3>6, HeadersIs
    <3> QED BY <1>1, <2>2, <3>6, <3>7
  <2> QED BY <2>1, <2>2
<1>11. oldest' \in TimeMark
  <2>1. \A i \in 2..Len(segs') : segs'[i].start = End(segs'[i - 1]) + 1
    <3> SUFFICES ASSUME NEW i \in 2..Len(files) PROVE segs'[i].start = End(segs'[i - 1]) + 1
      BY <1>8
    <3>1. i \in 1..Len(files) /\ i - 1 \in 1..Len(files)
      BY <1>2 DEF n
    <3>2. files[i].start = FileEnd(files[i - 1]) + 1
      BY DEF WalInv, FilesOK, SegmentsContiguous
    <3>3. End(Loaded(files[i - 1])) = FileEnd(files[i - 1])
      BY <1>8, <3>1, RecordsIs
    <3> QED BY <1>8, <3>1, <3>2, <3>3
  <2>2. segs' # <<>> /\ segs'[1].start <= ckpt + 1 /\ segs'[1].start = files[1].start /\ ckpt \in Nat
    <3>1. 1 \in 1..Len(files) /\ Len(files) # 0
      BY <1>2 DEF n
    <3> QED BY <1>1, <1>8, <3>1, FilesKnown, EmptySeq
  <2>3. AllRecords(segs') = DiskRecords
    <3>1. DOMAIN segs' = 1..Len(files)
      BY <1>8
    <3>2. [i \in DOMAIN segs' |-> segs'[i].recs] = [i \in DOMAIN files |-> Records(files[i])]
      BY <1>8, <3>1
    <3> QED BY <3>2 DEF AllRecords, DiskRecords
  <2>4. DiskTail = Above(AllRecords(segs'), segs'[1].start, ckpt)
    BY <1>1, <2>2, <2>3 DEF DiskTail
  <2>5. PICK ss \in Seq(Segment), fs \in Seq(TimeMark), c \in Nat : ss = segs' /\ fs = firstAt' /\ c = ckpt
    BY <1>8, <2>2
  <2>6. /\ Len(fs) = Len(ss) /\ ss # <<>> /\ ss[1].start <= c + 1
        /\ \A i \in 2..Len(ss) : ss[i].start = End(ss[i - 1]) + 1
        /\ DiskTail = Above(AllRecords(ss), ss[1].start, c) /\ oldest' = OldestPending(ss, fs, c)
    BY <1>1, <1>8, <2>1, <2>2, <2>4, <2>5
  <2> QED BY <1>2, <2>6, OldestIs
<1>12. MemoryOK'
  BY <1>1, <1>7, <1>9 DEF MemoryOK, Open
<1>13. WalInv'
  BY <1>1, <1>5, <1>6, <1>8, <1>10, <1>11, <1>12, StepTypes DEF WalInv, TypeOK
<1> QED BY <1>1, <1>6, <1>13 DEF LogStep

(* the steps that leave the disk alone,                                    *)
LEMMA QuietKeeps ==
    ASSUME NoLiveFault, WalInv, OpenRefused \/ FailAppend \/ CompactDone \/ ClockStep \/ UNCHANGED vars
    PROVE  WalInv' /\ LogStep
<1>1. UNCHANGED <<files, ckpt, segs, firstAt, want>> /\ (pc' \in Open <=> pc \in Open)
  <2>1. FailAppend => UNCHANGED files
    BY DEF FailAppend, NoLiveFault, WalInv, TypeOK
  <2> QED BY <2>1 DEF OpenRefused, FailAppend, CompactDone, ClockStep, mem, vars, Open
<1>2. FilesOK' /\ RangeOK' /\ DiskTail' = DiskTail /\ LogStep
  BY <1>1, QuietDisk
<1>3. /\ pc' \in {"closed", "refused", "ready", "append", "compact"} /\ lastAt' \in Times
      /\ now' \in Times /\ faults' \in 0..IOFaults
  <2>1. FailAppend => faults' = faults
    BY DEF FailAppend, NoLiveFault, WalInv, TypeOK
  <2> QED BY <2>1 DEF OpenRefused, FailAppend, CompactDone, ClockStep, mem, vars, WalInv, TypeOK
<1>4. \/ oldest' = oldest /\ (pc' \in {"ready", "append"} => pc \in {"ready", "append"})
      \/ pc \in Open /\ oldest' = OldestPending(segs, firstAt, ckpt)
  BY DEF OpenRefused, FailAppend, CompactDone, ClockStep, mem, vars, Open
<1>5. oldest' \in TimeMark /\ (pc' \in {"ready", "append"} => CacheOK')
  <2>1. CASE oldest' = oldest /\ (pc' \in {"ready", "append"} => pc \in {"ready", "append"})
    BY <1>1, <1>2, <2>1 DEF WalInv, TypeOK, MemoryOK, CacheOK, TimeMark
  <2>2. CASE pc \in Open /\ oldest' = OldestPending(segs, firstAt, ckpt)
    <3>1. /\ files # <<>> /\ Len(segs) = Len(files) /\ segs[1].start = files[1].start
          /\ segs = [i \in 1..Len(files) |-> Loaded(files[i])] /\ IndexedAbove(ckpt) = DiskTail /\ FirstsOK
      BY <2>2, OpenKnown
    <3>2. Len(files) \in Nat \ {0} /\ files[1].start <= ckpt + 1 /\ DiskTail \in Seq(Rec) /\ ckpt \in Nat
      BY <3>1, FilesKnown
    <3>3. segs \in Seq(Segment) /\ segs # <<>> /\ firstAt \in Seq(TimeMark) /\ Len(firstAt) = Len(segs)
      BY <3>1, <3>2, EmptySeq DEF WalInv, TypeOK, Segment, FirstsOK
    <3>4. \A i \in 2..Len(segs) : segs[i].start = End(segs[i - 1]) + 1
      <4> SUFFICES ASSUME NEW i \in 2..Len(files) PROVE segs[i].start = End(segs[i - 1]) + 1
        BY <3>1
      <4>1. i \in 1..Len(files) /\ i - 1 \in 1..Len(files)
        BY <3>2
      <4>2. files[i].start = FileEnd(files[i - 1]) + 1
        BY DEF WalInv, FilesOK, SegmentsContiguous
      <4>3. files[i - 1] \in SoundFile
        BY <4>1 DEF WalInv, FilesOK
      <4>4. End(Loaded(files[i - 1])) = FileEnd(files[i - 1])
        BY <4>3, RecordsIs
      <4>5. Loaded(files[i]).start = files[i].start
        BY DEF Loaded
      <4> QED BY <3>1, <4>1, <4>2, <4>4, <4>5
    <3>5. DiskTail = Above(AllRecords(segs), segs[1].start, ckpt)
      BY <3>1 DEF IndexedAbove
    <3>6. /\ oldest' \in TimeMark
          /\ \/ oldest' = FirstTime(DiskTail)
             \/ \E i \in 1..Len(segs) : /\ segs[i].recs # <<>> /\ segs[i].start = ckpt + 1
                                        /\ oldest' = firstAt[i]
      <4>1. PICK ss \in Seq(Segment), fs \in Seq(TimeMark), c \in Nat : ss = segs /\ fs = firstAt /\ c = ckpt
        BY <3>2, <3>3
      <4>2. /\ Len(fs) = Len(ss) /\ ss # <<>> /\ ss[1].start <= c + 1
            /\ \A i \in 2..Len(ss) : ss[i].start = End(ss[i - 1]) + 1
            /\ DiskTail = Above(AllRecords(ss), ss[1].start, c) /\ oldest' = OldestPending(ss, fs, c)
        BY <2>2, <3>1, <3>2, <3>3, <3>4, <3>5, <4>1
      <4>3. /\ oldest' \in TimeMark
            /\ \/ oldest' = FirstTime(DiskTail)
               \/ \E i \in 1..Len(ss) : ss[i].recs # <<>> /\ ss[i].start = c + 1 /\ oldest' = fs[i]
        BY <3>2, <4>2, OldestIs
      <4> QED BY <4>1, <4>3
    <3> QED BY <1>1, <1>2, <3>6 DEF CacheOK
  <2> QED BY <1>4, <2>1, <2>2
<1>6. pc' = "append" => pc = "append"
  BY DEF OpenRefused, FailAppend, CompactDone, ClockStep, vars
<1>7. MemoryOK'
  BY <1>1, <1>2, <1>5, <1>6 DEF WalInv, MemoryOK, FirstsOK
<1>8. WalInv'
  BY <1>1, <1>2, <1>3, <1>5, <1>7, StepTypes DEF WalInv, TypeOK, Segment, TimeMark
<1> QED BY <1>2, <1>8

(* The elements of a suffix. *)
LEMMA SuffixIs ==
    ASSUME NEW S, NEW d \in Seq(S), NEW a \in 1..(Len(d) + 1)
    PROVE  /\ SubSeq(d, a, Len(d)) \in Seq(S) /\ Len(SubSeq(d, a, Len(d))) = Len(d) - a + 1
           /\ \A i \in 1..(Len(d) - a + 1) : SubSeq(d, a, Len(d))[i] = d[a + i - 1]
<1>1. PICK m \in Nat : m = Len(d)
  OBVIOUS
<1>2. a \in Int /\ a \in 1..(m + 1)
  BY <1>1
<1>3. \A i \in a..m : d[i] \in S
  BY <1>1, <1>2
<1> DEFINE t == SubSeq(d, a, m)
<1>4. t \in Seq(S) /\ Len(t) = (IF a <= m THEN m - a + 1 ELSE 0) /\ \A i \in 1..(m - a + 1) : t[i] = d[a + i - 1]
  BY <1>2, <1>3, SubSeqProperties
<1> HIDE DEF t
<1>5. (IF a <= m THEN m - a + 1 ELSE 0) = m - a + 1
  BY <1>2
<1>6. t \in Seq(S) /\ Len(t) = m - a + 1 /\ \A i \in 1..(m - a + 1) : t[i] = d[a + i - 1]
  BY <1>4, <1>5
<1> QED BY <1>1, <1>6 DEF t

(* A suffix of a suffix. *)
LEMMA SuffixOfSuffix ==
    ASSUME NEW d \in Seq(Rec), NEW a \in 1..(Len(d) + 1), NEW k \in Nat, a + k <= Len(d) + 1
    PROVE  SubSeq(d, a + k, Len(d)) = SubSeq(SubSeq(d, a, Len(d)), k + 1, Len(SubSeq(d, a, Len(d))))
<1> DEFINE t == SubSeq(d, a, Len(d))
           x == SubSeq(d, a + k, Len(d))
<1>1. PICK m \in Nat : m = Len(d)
  OBVIOUS
<1>2. PICK l \in Nat, b \in Nat, j \in Nat : l = m - a + 1 /\ b = a + k /\ j = m - b + 1
  <2>1. m - a + 1 \in Nat /\ a + k \in Nat /\ m - (a + k) + 1 \in Nat
    BY <1>1
  <2> QED BY <2>1
<1>3. a \in 1..(m + 1) /\ b \in 1..(m + 1) /\ j = l - k /\ k <= l
  BY <1>1, <1>2
<1>4. t \in Seq(Rec) /\ Len(t) = l /\ \A i \in 1..l : t[i] = d[a + i - 1]
  BY <1>1, <1>2, SuffixIs
<1>5. x \in Seq(Rec) /\ Len(x) = j /\ \A i \in 1..j : x[i] = d[b + i - 1]
  BY <1>1, <1>2, <1>3, SuffixIs
<1> HIDE DEF t, x
<1> DEFINE y == SubSeq(t, k + 1, Len(t))
<1>6. k + 1 \in 1..(l + 1) /\ l - (k + 1) + 1 = j
  BY <1>3
<1>7. y \in Seq(Rec) /\ Len(y) = j /\ \A i \in 1..j : y[i] = t[(k + 1) + i - 1]
  BY <1>4, <1>6, SuffixIs
<1>8. ASSUME NEW i \in 1..j PROVE x[i] = y[i]
  <2>1. (k + 1) + i - 1 \in 1..l /\ a + ((k + 1) + i - 1) - 1 = b + i - 1
    BY <1>2, <1>3
  <2>2. t[(k + 1) + i - 1] = d[a + ((k + 1) + i - 1) - 1]
    BY <1>4, <2>1
  <2> HIDE DEF y
  <2> QED BY <1>5, <1>7, <2>1, <2>2
<1> HIDE DEF y
<1>9. x = y
  BY <1>5, <1>7, <1>8, SeqEqual
<1> QED BY <1>9 DEF x, y, t

(* a checkpoint,                                                           *)
LEMMA CheckpointKeeps ==
    ASSUME WalInv, NEW n \in 1..MaxSequence, Checkpoint(n)
    PROVE  WalInv' /\ LogStep
<1>1. /\ pc = "ready" /\ n > ckpt /\ n <= LastSequence /\ ckpt' = n /\ pc' = "compact"
      /\ UNCHANGED <<files, segs, firstAt, oldest, lastAt, want, now, faults>>
  BY DEF Checkpoint, mem
<1>2. pc \in Open /\ pc' \in Open
  BY <1>1 DEF Open
<1>3. files # <<>> /\ LastSequence = FileEnd(LastFile)
  BY <1>2, OpenKnown
<1>4. PICK s \in Nat \ {0}, e \in Nat, c \in Nat, d \in Seq(Rec) :
         /\ s = files[1].start /\ e = FileEnd(LastFile) /\ c = ckpt /\ d = DiskRecords
         /\ s <= c + 1 /\ c <= e /\ Len(d) = e - s + 1
         /\ DiskTail = SubSeq(d, c - s + 2, Len(d)) /\ Len(DiskTail) = e - c
  BY <1>3, FilesKnown
<1>5. n \in Nat /\ n > c /\ n <= e
  BY <1>1, <1>3, <1>4, WalAssumption
<1>6. LastFile' = LastFile /\ DiskRecords' = d
  BY <1>1, <1>4 DEF LastFile, DiskRecords
<1>7. RangeOK'
  <2>1. s <= n + 1
    BY <1>4, <1>5
  <2> QED BY <1>1, <1>4, <1>5, <1>6, <2>1 DEF RangeOK
<1>8. FilesOK'
  BY <1>1, <1>2, <1>3 DEF WalInv, FilesOK, SegmentsContiguous
<1>9. DiskTail' = SubSeq(d, n - s + 2, Len(d))
  <2>1. DiskTail' = Above(d, s, n)
    BY <1>1, <1>3, <1>4, <1>6 DEF DiskTail
  <2>2. s <= n + 1
    BY <1>4, <1>5
  <2> QED BY <1>5, <2>1, <2>2, AboveIs
<1>10. LogStep
  <2> DEFINE k == n - c
             a == c - s + 2
             b == n - s + 2
             t == SubSeq(d, a, Len(d))
  <2>1. PICK m \in Nat : m = Len(d)
    OBVIOUS
  <2>2. s <= c + 1 /\ c <= e /\ m = e - s + 1
    BY <1>4, <2>1
  <2>3. k \in 1..(e - c) /\ a \in 1..(m + 1) /\ b = a + k /\ a + k <= m + 1 /\ k \in Nat
    BY <1>5, <2>2
  <2> HIDE DEF k, a, b
  <2>4. SubSeq(d, b, m) = SubSeq(t, k + 1, Len(t))
    BY <2>1, <2>3, SuffixOfSuffix
  <2>5. DiskTail = t /\ DiskTail' = SubSeq(d, b, m) /\ Len(DiskTail) = e - c
    BY <1>4, <1>9, <2>1 DEF a, b
  <2>6. ckpt' = ckpt + k
    BY <1>1, <1>4, <1>5 DEF k
  <2>7. k \in 1..Len(DiskTail) /\ DiskTail' = SubSeq(DiskTail, k + 1, Len(DiskTail))
    BY <2>3, <2>4, <2>5
  <2> QED BY <2>6, <2>7 DEF LogStep
<1>11. MemoryOK'
  BY <1>1, <1>2 DEF WalInv, MemoryOK, FirstsOK
<1>12. WalInv'
  BY <1>1, <1>5, <1>7, <1>8, <1>11, StepTypes DEF WalInv, TypeOK, Segment, TimeMark
<1> QED BY <1>10, <1>12

(* the begin of an append, which may rotate to an empty file,              *)
LEMMA BeginAppendKeeps ==
    ASSUME WalInv, NEW b \in RecordSizes, BeginAppend(b)
    PROVE  WalInv' /\ LogStep
<1>1. /\ pc = "ready" /\ pc' = "append" /\ want' = b /\ UNCHANGED <<ckpt, oldest, lastAt, now, faults>>
      /\ \/ UNCHANGED <<files, segs, firstAt>>
         \/ /\ files' = Append(files, EmptyFile(LastSequence + 1))
            /\ segs' = Append(segs, EmptySegment(LastSequence + 1)) /\ firstAt' = Append(firstAt, NoTime)
  BY DEF BeginAppend
<1>2. pc \in Open /\ pc' \in Open
  BY <1>1 DEF Open
<1>3. /\ files # <<>> /\ LastSequence = FileEnd(LastFile) /\ Len(segs) = Len(files)
      /\ segs = [i \in 1..Len(files) |-> Loaded(files[i])] /\ FirstsOK
  BY <1>2, OpenKnown
<1>4. CASE UNCHANGED <<files, segs, firstAt>>
  <2>1. FilesOK' /\ RangeOK' /\ DiskTail' = DiskTail /\ LogStep
    BY <1>1, <1>2, <1>4, QuietDisk
  <2>2. MemoryOK'
    BY <1>1, <1>2, <1>4, <2>1 DEF WalInv, MemoryOK, FirstsOK, CacheOK
  <2>3. WalInv'
    BY <1>1, <1>4, <2>1, <2>2, StepTypes DEF WalInv, TypeOK, Segment, TimeMark
  <2> QED BY <2>1, <2>3
<1>5. CASE /\ files' = Append(files, EmptyFile(LastSequence + 1))
           /\ segs' = Append(segs, EmptySegment(LastSequence + 1)) /\ firstAt' = Append(firstAt, NoTime)
  <2>1. /\ files \in Seq(SoundFile) /\ Len(files) \in Nat \ {0} /\ files[1].start \in Nat
        /\ DiskRecords = RecordsOf(files) /\ DiskRecords \in Seq(Rec) /\ LastFile \in SoundFile
        /\ FileEnd(LastFile) \in Nat
    BY <1>3, FilesKnown DEF WalInv, FilesOK
  <2>2. PICK n \in Nat \ {0}, e \in Nat : n = Len(files) /\ e = FileEnd(LastFile)
    BY <2>1
  <2>3. PICK g \in SoundFile : /\ g = EmptyFile(e + 1) /\ Whole(g) /\ Records(g) = <<>>
                               /\ FileEnd(g) = e + 1 - 1 /\ g.start = e + 1
                               /\ Loaded(g) = EmptySegment(e + 1)
    <3>1. e + 1 \in Nat \ {0}
      OBVIOUS
    <3> QED BY <3>1, EmptyFileIs
  <2>4. files' = Append(files, g) /\ segs' = Append(segs, Loaded(g))
    BY <1>3, <1>5, <2>2, <2>3
  <2>5. /\ files' \in Seq(SoundFile) /\ Len(files') = n + 1 /\ files'[n + 1] = g
        /\ \A i \in 1..n : files'[i] = files[i]
    BY <2>1, <2>2, <2>4
  <2>6. files' # <<>> /\ LastFile' = g /\ files'[1] = files[1]
    BY <2>2, <2>5, EmptySeq DEF LastFile
  <2>7. DiskRecords' = DiskRecords
    <3>1. RecordsOf(Append(files, g)) = RecordsOf(files) \o Records(g)
      BY <2>1, RecordsAppend
    <3>2. DiskRecords' = RecordsOf(files')
      BY DEF DiskRecords, RecordsOf, Parts
    <3>3. DiskRecords \o <<>> = DiskRecords
      BY <2>1, ConcatEmptySeq
    <3> QED BY <2>1, <2>3, <2>4, <3>1, <3>2, <3>3
  <2>8. DiskTail' = DiskTail
    <3>1. DiskTail' = Above(DiskRecords', files'[1].start, ckpt')
      BY <2>6 DEF DiskTail
    <3>2. DiskTail = Above(DiskRecords, files[1].start, ckpt)
      BY <1>3 DEF DiskTail
    <3> QED BY <1>1, <2>6, <2>7, <3>1, <3>2
  <2>9. SegmentsContiguous'
    <3> SUFFICES ASSUME NEW i \in 2..(n + 1) PROVE files'[i].start = FileEnd(files'[i - 1]) + 1
      BY <2>5 DEF SegmentsContiguous
    <3>1. CASE i = n + 1
      <4>1. i - 1 = n /\ n \in 1..n
        BY <3>1
      <4>2. files'[i - 1] = LastFile
        BY <2>2, <2>5, <4>1 DEF LastFile
      <4> QED BY <2>2, <2>3, <2>5, <3>1, <4>2
    <3>2. CASE i # n + 1
      <4>1. i \in 1..n /\ i - 1 \in 1..n /\ i \in 2..n
        BY <3>2
      <4>2. files[i].start = FileEnd(files[i - 1]) + 1
        BY <2>2, <4>1 DEF WalInv, FilesOK, SegmentsContiguous
      <4> QED BY <2>5, <4>1, <4>2
    <3> QED BY <3>1, <3>2
  <2>10. \A i \in 1..(n + 1) : Whole(files'[i])
    <3>1. \A i \in 1..n : Whole(files[i])
      BY <1>2, <2>2 DEF WalInv, FilesOK
    <3>2. \A i \in 1..(n + 1) : i \in 1..n \/ i = n + 1
      OBVIOUS
    <3> QED BY <2>3, <2>5, <3>1, <3>2
  <2>11. FilesOK'
    BY <2>5, <2>6, <2>9, <2>10 DEF FilesOK
  <2>12. RangeOK'
    <3>1. FileEnd(LastFile') = FileEnd(LastFile)
      BY <2>2, <2>3, <2>6
    <3> QED BY <1>1, <1>3, <2>6, <2>7, <3>1 DEF WalInv, RangeOK
  <2>13. segs' = [i \in DOMAIN files' |-> Loaded(files'[i])]
    <3> DEFINE idx == [i \in DOMAIN files' |-> Loaded(files'[i])]
    <3>1. idx \in Seq(Segment)
      BY <2>5, ScanTypes
    <3>2. DOMAIN files' = 1..(n + 1)
      BY <2>5
    <3>3. Len(idx) = n + 1
      BY <3>2
    <3>4. segs \in Seq(Segment) /\ Len(segs) = n /\ Loaded(g) \in Segment
      BY <1>3, <2>2, RecordsIs DEF WalInv, TypeOK, Segment
    <3>5. segs' \in Seq(Segment) /\ Len(segs') = n + 1
      BY <2>4, <3>4
    <3>6. ASSUME NEW i \in 1..(n + 1) PROVE segs'[i] = idx[i]
      <4>1. idx[i] = Loaded(files'[i])
        BY <3>2
      <4>2. CASE i = n + 1
        BY <2>4, <2>5, <3>4, <4>1, <4>2
      <4>3. CASE i # n + 1
        <5>1. i \in 1..n
          BY <4>3
        <5>2. segs'[i] = segs[i] /\ segs[i] = Loaded(files[i])
          BY <1>3, <2>2, <2>4, <3>4, <5>1
        <5> QED BY <2>5, <4>1, <5>1, <5>2
      <4> QED BY <4>2, <4>3
    <3> HIDE DEF idx
    <3>7. segs' = idx
      BY <3>1, <3>3, <3>5, <3>6, SeqEqual
    <3> QED BY <3>7 DEF idx
  <2>14. segs' \in Seq(Segment)
    BY <2>5, <2>13, ScanTypes
  <2>15. /\ Len(segs') = n + 1 /\ segs'[n + 1].recs = <<>> /\ \A i \in 1..n : segs'[i] = segs[i]
         /\ firstAt' \in Seq(TimeMark) /\ Len(firstAt') = n + 1 /\ firstAt'[n + 1] = NoTime
         /\ \A i \in 1..n : firstAt'[i] = firstAt[i]
    <3>1. segs \in Seq(Segment) /\ Len(segs) = n /\ firstAt \in Seq(TimeMark) /\ Len(firstAt) = n /\ NoTime \in TimeMark
      BY <1>3, <2>2 DEF WalInv, TypeOK, Segment, FirstsOK, TimeMark
    <3>2. Loaded(g) \in Segment /\ Loaded(g).recs = <<>>
      BY <2>3, RecordsIs DEF Loaded
    <3>3. Len(segs') = n + 1 /\ segs'[n + 1] = Loaded(g) /\ \A i \in 1..n : segs'[i] = segs[i]
      BY <2>4, <3>1, <3>2
    <3>4. /\ firstAt' \in Seq(TimeMark) /\ Len(firstAt') = n + 1 /\ firstAt'[n + 1] = NoTime
          /\ \A i \in 1..n : firstAt'[i] = firstAt[i]
      BY <1>5, <3>1
    <3> QED BY <3>2, <3>3, <3>4
  <2>16. FirstsOK' /\ Len(segs) = n
    <3>1. PICK k \in Int : \A i \in 1..n : i # k => firstAt[i] = FirstTime(segs[i].recs)
      BY <1>3, <2>2 DEF FirstsOK
    <3>2. Len(segs) = n /\ \A i \in 1..n : segs[i].recs # <<>> => firstAt[i] # NoTime
      BY <1>3, <2>2 DEF FirstsOK
    <3>3. \A i \in 1..(n + 1) : i \in 1..n \/ i = n + 1
      OBVIOUS
    <3>4. FirstTime(segs'[n + 1].recs) = NoTime
      BY <2>15 DEF FirstTime
    <3>5. \A i \in 1..(n + 1) : i # k => firstAt'[i] = FirstTime(segs'[i].recs)
      BY <2>15, <3>1, <3>3, <3>4
    <3>6. \A i \in 1..(n + 1) : segs'[i].recs # <<>> => firstAt'[i] # NoTime
      BY <2>15, <3>2, <3>3
    <3> QED BY <2>15, <3>2, <3>5, <3>6 DEF FirstsOK
  <2>17. CacheOK'
    <3>1. CacheOK
      BY <1>1 DEF WalInv, MemoryOK
    <3>2. CASE oldest = FirstTime(DiskTail)
      BY <1>1, <2>8, <3>2 DEF CacheOK
    <3>3. CASE \E i \in 1..Len(segs) : segs[i].recs # <<>> /\ segs[i].start = ckpt + 1 /\ oldest = firstAt[i]
      <4>1. PICK i \in 1..n : segs[i].recs # <<>> /\ segs[i].start = ckpt + 1 /\ oldest = firstAt[i]
        BY <2>16, <3>3
      <4>2. i \in 1..(n + 1) /\ segs'[i] = segs[i] /\ firstAt'[i] = firstAt[i]
        BY <2>15
      <4> QED BY <1>1, <2>15, <4>1, <4>2 DEF CacheOK
    <3> QED BY <3>1, <3>2, <3>3 DEF CacheOK
  <2>18. MemoryOK'
    BY <1>1, <1>2, <2>13, <2>16, <2>17 DEF WalInv, MemoryOK
  <2>19. WalInv'
    BY <1>1, <2>11, <2>12, <2>14, <2>15, <2>18, StepTypes DEF WalInv, TypeOK, TimeMark
  <2> QED BY <1>1, <2>8, <2>19 DEF LogStep
<1> QED BY <1>1, <1>4, <1>5

(* the write of a record, or of a prefix of it,                            *)
LEMMA WriteIs ==
    ASSUME WalInv, pc = "append", NEW k \in 0..want, Write(k), ckpt' = ckpt, pc' \in Open => k = want
    PROVE  /\ FilesOK' /\ RangeOK' /\ LogStep
           /\ k = want => /\ DiskTail' = Append(DiskTail, [at |-> now, bytes |-> want])
                          /\ files' # <<>> /\ Len(files') = Len(files)
                          /\ LastFile'.start = LastFile.start
                          /\ Records(LastFile') = Append(Records(LastFile), [at |-> now, bytes |-> want])
                          /\ \A i \in 1..Len(files) : i # Len(files) => files'[i] = files[i]
<1> DEFINE c == [seq |-> LastSequence + 1, at |-> now, bytes |-> want, have |-> k]
           x == [at |-> now, bytes |-> want]
<1>1. pc \in Open /\ want \in RecordSizes /\ want \in Nat \ {0} /\ k \in Nat /\ now \in Times
  <2>1. want \in RecordSizes /\ now \in Times
    BY DEF WalInv, MemoryOK, TypeOK
  <2>2. want \in Nat \ {0}
    BY <2>1, WalAssumption
  <2> QED BY <2>1, <2>2 DEF Open
<1>2. files # <<>> /\ LastSequence = FileEnd(LastFile) /\ Whole(LastFile)
  BY <1>1, OpenKnown
<1>3. LastFile \in SoundFile /\ FileEnd(LastFile) \in Nat /\ Len(files) \in Nat \ {0}
  BY <1>2, FilesKnown
<1>4. CASE k = 0
  BY <1>1, <1>4, QuietDisk DEF Write
<1>5. CASE k # 0
  <2>1. c \in Chunk /\ c.seq = FileEnd(LastFile) + 1 /\ c.have = k /\ c.bytes = want /\ c.at = now
    BY <1>1, <1>2, <1>3 DEF Chunk
  <2>2. x \in Rec
    BY <1>1 DEF Rec
  <2>3. files' = [files EXCEPT ![Len(files)] = [LastFile EXCEPT !.chunks = Append(@, c)]]
    <3>1. files' = [files EXCEPT ![Len(files)].chunks = Append(@, c)]
      BY <1>5 DEF Write
    <3>2. files \in Seq(SoundFile)
      BY DEF WalInv, FilesOK
    <3> QED BY <1>3, <3>1, <3>2 DEF LastFile
  <2> HIDE DEF c, x
  <2>4. PICK g : g = [LastFile EXCEPT !.chunks = Append(@, c)]
    OBVIOUS
  <2>5. /\ g \in SoundFile /\ g.start = LastFile.start
        /\ k = want => /\ Whole(g) /\ FileEnd(g) = FileEnd(LastFile) + 1
                       /\ Records(g) = Append(Records(LastFile), x)
        /\ k # want => FileEnd(g) = FileEnd(LastFile) /\ Records(g) = Records(LastFile)
    <3>1. [at |-> c.at, bytes |-> c.bytes] = x
      BY <2>1 DEF x
    <3> QED BY <1>2, <1>3, <2>1, <2>4, <3>1, WrittenIs
  <2>6. files' = [files EXCEPT ![Len(files)] = g]
    BY <2>3, <2>4
  <2>7. /\ FilesOK' /\ files' # <<>> /\ Len(files') = Len(files) /\ LastFile' = g
        /\ \A i \in 1..Len(files) : i # Len(files) => files'[i] = files[i]
    BY <1>2, <2>5, <2>6, LastReplaced
  <2>8. CASE k = want
    <3>1. RangeOK' /\ DiskTail' = Append(DiskTail, x)
      BY <1>2, <2>2, <2>5, <2>6, <2>8, OneRecordMore
    <3>2. LogStep
      BY <2>2, <3>1 DEF LogStep
    <3> QED BY <2>5, <2>7, <2>8, <3>1, <3>2 DEF x
  <2>9. CASE k # want
    <3>1. RangeOK' /\ DiskTail' = DiskTail
      BY <1>2, <2>5, <2>6, <2>9, SameRecords
    <3> QED BY <2>7, <2>9, <3>1 DEF LogStep
  <2> QED BY <2>8, <2>9
<1> QED BY <1>4, <1>5

(* a finished append,                                                      *)
LEMMA FinishAppendKeeps ==
    ASSUME WalInv, FinishAppend
    PROVE  WalInv' /\ LogStep
<1> DEFINE x == [at |-> now, bytes |-> want]
<1>1. /\ pc = "append" /\ Write(want) /\ lastAt' = now /\ pc' = "ready"
      /\ segs' = [segs EXCEPT ![Len(segs)].recs = Append(@, x)]
      /\ firstAt' = [firstAt EXCEPT ![Len(segs)] = IF @ = NoTime THEN now ELSE @]
      /\ oldest' = (IF oldest = NoTime THEN now ELSE oldest)
      /\ UNCHANGED <<ckpt, want, now, faults>>
  BY DEF FinishAppend
<1>2. pc \in Open /\ want \in RecordSizes /\ now \in Times /\ want \in 0..want /\ x \in Rec
  <2>1. want \in RecordSizes /\ now \in Times
    BY <1>1 DEF WalInv, MemoryOK, TypeOK
  <2> QED BY <1>1, <2>1, WalAssumption DEF Open, Rec
<1> HIDE DEF x
<1>3. /\ files # <<>> /\ Len(segs) = Len(files)
      /\ segs = [i \in 1..Len(files) |-> Loaded(files[i])] /\ FirstsOK
  BY <1>2, OpenKnown
<1>4. /\ FilesOK' /\ RangeOK' /\ LogStep
      /\ DiskTail' = Append(DiskTail, x)
      /\ files' # <<>> /\ Len(files') = Len(files) /\ LastFile'.start = LastFile.start
      /\ Records(LastFile') = Append(Records(LastFile), x)
      /\ \A i \in 1..Len(files) : i # Len(files) => files'[i] = files[i]
  BY <1>1, <1>2, WriteIs DEF x
<1>5. PICK n \in Nat \ {0} : n = Len(files)
  BY <1>3, FilesKnown
<1>6. segs' = [i \in DOMAIN files' |-> Loaded(files'[i])]
  <2>1. DOMAIN files' = 1..n
    BY <1>4, <1>5 DEF FilesOK
  <2>2. segs' = [segs EXCEPT ![n].recs = Append(@, x)]
    BY <1>1, <1>3, <1>5
  <2>3. Loaded(files'[n]) = [Loaded(files[n]) EXCEPT !.recs = Append(@, x)]
    <3>1. files'[n].start = files[n].start /\ Records(files'[n]) = Append(Records(files[n]), x)
      BY <1>4, <1>5 DEF LastFile
    <3>2. PICK a, q, l : a = files[n].start /\ q = Records(files[n]) /\ l = Loaded(files[n])
      OBVIOUS
    <3>3. l = [start |-> a, recs |-> q]
      BY <3>2 DEF Loaded
    <3>4. [l EXCEPT !.recs = Append(@, x)] = [start |-> a, recs |-> Append(q, x)]
      BY ONLY <3>3
    <3>5. Loaded(files'[n]) = [start |-> a, recs |-> Append(q, x)]
      BY <3>1, <3>2 DEF Loaded
    <3> QED BY <3>2, <3>4, <3>5
  <2>4. ASSUME NEW i \in 1..n PROVE segs'[i] = Loaded(files'[i])
    <3>1. segs[i] = Loaded(files[i]) /\ DOMAIN segs = 1..n
      BY <1>3, <1>5
    <3>2. CASE i = n
      BY <2>2, <2>3, <3>1, <3>2
    <3>3. CASE i # n
      BY <1>4, <1>5, <2>2, <3>1, <3>3
    <3> QED BY <3>2, <3>3
  <2>5. segs' = [i \in 1..n |-> segs'[i]]
    BY <1>3, <1>5, <2>2
  <2> QED BY <2>1, <2>4, <2>5
<1>7. segs' \in Seq(Segment)
  BY <1>4, <1>6, ScanTypes DEF FilesOK
<1>8. /\ Len(segs') = n /\ Len(segs) = n
      /\ \A i \in 1..n : i # n => segs'[i] = segs[i] /\ firstAt'[i] = firstAt[i]
      /\ segs'[n].start = segs[n].start /\ segs'[n].recs = Append(segs[n].recs, x)
      /\ firstAt \in Seq(TimeMark) /\ firstAt' \in Seq(TimeMark) /\ Len(firstAt') = n
      /\ firstAt'[n] = (IF firstAt[n] = NoTime THEN now ELSE firstAt[n]) /\ segs[n].recs \in Seq(Rec)
  <2>1. Len(segs) = n /\ segs \in Seq(Segment) /\ firstAt \in Seq(TimeMark) /\ Len(firstAt) = n /\ n \in 1..n
    BY <1>3, <1>5 DEF WalInv, TypeOK, Segment, FirstsOK
  <2>2. PICK q \in Segment : q = segs[n]
    BY <2>1
  <2>3. segs' = [segs EXCEPT ![n] = [q EXCEPT !.recs = Append(@, x)]]
    BY <1>1, <2>1, <2>2
  <2>4. PICK w : w = [q EXCEPT !.recs = Append(@, x)] /\ w.start = q.start /\ w.recs = Append(q.recs, x)
    <3>1. PICK rs : rs = Append(q.recs, x)
      OBVIOUS
    <3>2. PICK w : w = [q EXCEPT !.recs = rs]
      OBVIOUS
    <3>3. w.start = q.start /\ w.recs = rs
      BY <3>2 DEF Segment
    <3> QED BY <3>1, <3>2, <3>3
  <2>5. segs' = [segs EXCEPT ![n] = w]
    BY <2>3, <2>4
  <2>6. Len(segs') = n /\ segs'[n] = w /\ \A i \in 1..n : i # n => segs'[i] = segs[i]
    BY <2>1, <2>5
  <2>7. PICK t \in TimeMark : t = (IF firstAt[n] = NoTime THEN now ELSE firstAt[n])
    BY <1>2, <2>1 DEF TimeMark
  <2>8. firstAt' = [firstAt EXCEPT ![n] = t]
    BY <1>1, <2>1, <2>7
  <2>9. firstAt' \in Seq(TimeMark) /\ Len(firstAt') = n /\ firstAt'[n] = t /\ \A i \in 1..n : i # n => firstAt'[i] = firstAt[i]
    BY <2>1, <2>8
  <2>10. q.recs \in Seq(Rec)
    BY DEF Segment
  <2> QED BY <2>1, <2>2, <2>4, <2>6, <2>7, <2>9, <2>10
<1>9. x.at = now /\ NoTime \notin Times
  BY WalAssumption DEF x, NoTime, Times
<1>10. FirstsOK'
  <2>1. PICK k \in Int : \A i \in 1..n : i # k => firstAt[i] = FirstTime(segs[i].recs)
    BY <1>3, <1>8 DEF FirstsOK
  <2>2. \A i \in 1..n : segs[i].recs # <<>> => firstAt[i] # NoTime
    BY <1>3, <1>8 DEF FirstsOK
  <2>3. firstAt'[n] # NoTime
    BY <1>2, <1>8, <1>9
  <2>4. \A i \in 1..n : segs'[i].recs # <<>> => firstAt'[i] # NoTime
    BY <1>8, <2>2, <2>3
  <2>5. n # k => firstAt'[n] = FirstTime(segs'[n].recs)
    <3> SUFFICES ASSUME n # k PROVE firstAt'[n] = FirstTime(segs'[n].recs)
      OBVIOUS
    <3>1. firstAt[n] = FirstTime(segs[n].recs)
      BY <2>1
    <3>2. CASE segs[n].recs = <<>>
      <4>1. Append(<<>>, x) = <<x>> /\ <<x>>[1] = x /\ <<x>> # <<>>
        OBVIOUS
      <4> QED BY <1>8, <1>9, <3>1, <3>2, <4>1 DEF FirstTime
    <3>3. CASE segs[n].recs # <<>>
      <4>1. Append(segs[n].recs, x)[1] = segs[n].recs[1] /\ Append(segs[n].recs, x) # <<>>
        BY <1>2, <1>8, <3>3, EmptySeq
      <4>2. firstAt[n] # NoTime
        BY <2>2, <3>3
      <4> QED BY <1>8, <3>1, <3>3, <4>1, <4>2 DEF FirstTime
    <3> QED BY <3>2, <3>3
  <2>6. \A i \in 1..n : i # k => firstAt'[i] = FirstTime(segs'[i].recs)
    BY <1>8, <2>1, <2>5
  <2> QED BY <1>8, <2>4, <2>6 DEF FirstsOK
<1>11. CacheOK' /\ oldest' \in TimeMark
  <2>1. CacheOK /\ DiskTail \in Seq(Rec) /\ oldest \in TimeMark
    BY <1>1, <1>3, FilesKnown DEF WalInv, MemoryOK, TypeOK, TimeMark
  <2>2. oldest' \in TimeMark
    BY <1>1, <1>2, <2>1 DEF TimeMark
  <2>3. CASE oldest = FirstTime(DiskTail)
    <3>1. CASE DiskTail = <<>>
      <4>1. DiskTail' = <<x>> /\ oldest = NoTime
        <5>1. oldest = NoTime
          BY <2>3, <3>1 DEF FirstTime
        <5>2. Append(<<>>, x) = <<x>>
          OBVIOUS
        <5> QED BY <1>4, <3>1, <5>1, <5>2
      <4>2. <<x>> # <<>> /\ <<x>>[1] = x
        OBVIOUS
      <4> QED BY <1>1, <1>9, <2>2, <4>1, <4>2 DEF FirstTime, CacheOK
    <3>2. CASE DiskTail # <<>>
      <4>1. oldest # NoTime
        BY <2>1, <2>3, <3>2, FirstTimeType
      <4>2. Append(DiskTail, x)[1] = DiskTail[1] /\ Append(DiskTail, x) # <<>>
        BY <1>2, <2>1, <3>2, EmptySeq
      <4> QED BY <1>1, <1>4, <2>2, <2>3, <3>2, <4>1, <4>2 DEF FirstTime, CacheOK
    <3> QED BY <3>1, <3>2
  <2>4. CASE \E i \in 1..Len(segs) : segs[i].recs # <<>> /\ segs[i].start = ckpt + 1 /\ oldest = firstAt[i]
    <3>1. PICK i \in 1..n : segs[i].recs # <<>> /\ segs[i].start = ckpt + 1 /\ oldest = firstAt[i]
      BY <1>8, <2>4
    <3>2. firstAt[i] # NoTime
      BY <1>3, <1>8, <3>1 DEF FirstsOK
    <3>3. oldest' = oldest /\ firstAt'[i] = firstAt[i]
      BY <1>1, <1>8, <3>1, <3>2
    <3>4. segs'[i].recs # <<>> /\ segs'[i].start = segs[i].start
      <4>1. Append(segs[n].recs, x) # <<>>
        <5>1. PICK q \in Seq(Rec) : q = segs[n].recs
          BY <1>8
        <5>2. Append(q, x) \in Seq(Rec) /\ Len(Append(q, x)) = Len(q) + 1 /\ Len(q) \in Nat
          BY <1>2
        <5>3. Append(q, x) # <<>>
          BY <5>2, EmptySeq
        <5> QED BY <5>1, <5>3
      <4> QED BY <1>8, <3>1, <4>1
    <3> QED BY <1>1, <1>8, <2>2, <3>1, <3>3, <3>4 DEF CacheOK
  <2> QED BY <2>1, <2>3, <2>4 DEF CacheOK
<1>12. MemoryOK'
  BY <1>1, <1>6, <1>10, <1>11 DEF MemoryOK, Open
<1>13. WalInv'
  BY <1>1, <1>2, <1>4, <1>7, <1>8, <1>11, <1>12, StepTypes DEF WalInv, TypeOK
<1> QED BY <1>4, <1>13

(* a crash, which may leave a prefix of a record, or all of it,            *)
LEMMA CrashKeeps ==
    ASSUME WalInv, Crash
    PROVE  WalInv' /\ LogStep
<1>1. /\ pc' = "closed" /\ segs' = <<>> /\ firstAt' = <<>> /\ oldest' = NoTime /\ lastAt' = 0 /\ want' = 0
      /\ UNCHANGED <<ckpt, now, faults>>
      /\ UNCHANGED files \/ (pc = "append" /\ \E k \in 0..want : Write(k))
  BY DEF Crash
<1>2. pc' \notin Open
  BY <1>1 DEF Open
<1>3. FilesOK' /\ RangeOK' /\ LogStep
  <2>1. CASE UNCHANGED files
    BY <1>1, <1>2, <2>1, QuietDisk
  <2>2. CASE pc = "append" /\ \E k \in 0..want : Write(k)
    BY <1>1, <1>2, <2>2, WriteIs
  <2> QED BY <1>1, <2>1, <2>2
<1>4. MemoryOK'
  BY <1>1, <1>2 DEF MemoryOK
<1>5. segs' \in Seq(Segment) /\ firstAt' \in Seq(TimeMark) /\ 0 \in Times
  <2>1. <<>> \in Seq(Segment) /\ <<>> \in Seq(TimeMark)
    BY EmptySeq
  <2> QED BY <1>1, <2>1, WalAssumption DEF Times
<1> QED BY <1>1, <1>3, <1>4, <1>5, StepTypes DEF WalInv, TypeOK, TimeMark

(* A suffix that begins behind the first part. *)
LEMMA SuffixOfConcat ==
    ASSUME NEW r \in Seq(Rec), NEW d \in Seq(Rec), NEW a \in 1..(Len(d) + 1)
    PROVE  SubSeq(r \o d, Len(r) + a, Len(r \o d)) = SubSeq(d, a, Len(d))
<1> DEFINE q == r \o d
           x == SubSeq(q, Len(r) + a, Len(q))
           y == SubSeq(d, a, Len(d))
<1>1. PICK l \in Nat, m \in Nat : l = Len(r) /\ m = Len(d)
  OBVIOUS
<1>2. q \in Seq(Rec) /\ Len(q) = l + m /\ \A i \in 1..m : q[l + i] = d[i]
  BY <1>1
<1> HIDE DEF q
<1>3. PICK j \in Nat : j = m - a + 1 /\ j = (l + m) - (l + a) + 1
  <2>1. m - a + 1 \in Nat /\ m - a + 1 = (l + m) - (l + a) + 1
    BY <1>1
  <2> QED BY <2>1
<1>4. l + a \in 1..((l + m) + 1) /\ a \in 1..(m + 1)
  BY <1>1
<1>5. x \in Seq(Rec) /\ Len(x) = j /\ \A i \in 1..j : x[i] = q[(l + a) + i - 1]
  BY <1>1, <1>2, <1>3, <1>4, SubSeqProperties
<1>6. y \in Seq(Rec) /\ Len(y) = j /\ \A i \in 1..j : y[i] = d[a + i - 1]
  BY <1>1, <1>3, <1>4, SubSeqProperties
<1> HIDE DEF x, y
<1>7. ASSUME NEW i \in 1..j PROVE x[i] = y[i]
  <2>1. a + i - 1 \in 1..m /\ (l + a) + i - 1 = l + (a + i - 1)
    BY <1>3, <1>4
  <2>2. q[l + (a + i - 1)] = d[a + i - 1]
    BY <1>2, <2>1
  <2> QED BY <1>5, <1>6, <2>1, <2>2
<1>8. x = y
  BY <1>5, <1>6, <1>7, SeqEqual
<1> QED BY <1>8 DEF x, y, q

(* and the removal of a leading segment.                                   *)
LEMMA CompactKeeps ==
    ASSUME WalInv, CompactSegment
    PROVE  WalInv' /\ LogStep
<1>1. /\ pc = "compact" /\ Removable /\ files' = Tail(files) /\ segs' = Tail(segs) /\ firstAt' = Tail(firstAt)
      /\ UNCHANGED <<ckpt, oldest, lastAt, pc, want, now, faults>>
  BY DEF CompactSegment
<1>2. pc \in Open
  BY <1>1 DEF Open
<1>3. /\ files # <<>> /\ Len(segs) = Len(files) /\ files \in Seq(SoundFile)
      /\ segs = [i \in 1..Len(files) |-> Loaded(files[i])] /\ FirstsOK
  BY <1>2, OpenKnown DEF WalInv, FilesOK
<1>4. PICK n \in Nat : n = Len(files) /\ n > 1
  BY <1>1, <1>3 DEF Removable
<1>5. PICK s \in Nat \ {0}, e \in Nat, c \in Nat, d \in Seq(Rec) :
         /\ s = files[1].start /\ e = FileEnd(LastFile) /\ c = ckpt /\ d = DiskRecords
         /\ s <= c + 1 /\ c <= e /\ Len(d) = e - s + 1
         /\ DiskTail = SubSeq(d, c - s + 2, Len(d)) /\ d = RecordsOf(files)
  BY <1>3, FilesKnown
<1>6. files[1] \in SoundFile /\ files[2] \in SoundFile /\ segs[1] = Loaded(files[1]) /\ 2 \in 2..n
  BY <1>3, <1>4
<1>7. PICK r \in Seq(Rec), f \in Nat : /\ r = Records(files[1]) /\ f = FileEnd(files[1])
                                       /\ f = s + Len(r) - 1
  BY <1>5, <1>6, RecordsIs
<1>8. files[2].start = f + 1 /\ f <= c
  <2>1. files[2].start = FileEnd(files[2 - 1]) + 1
    BY <1>4, <1>6 DEF WalInv, FilesOK, SegmentsContiguous
  <2>2. segs[1].recs = r /\ End(segs[1]) = f
    <3>1. segs[1].recs = r
      BY <1>6, <1>7 DEF Loaded
    <3>2. End(Loaded(files[1])) = FileEnd(files[1])
      BY <1>6, RecordsIs
    <3> QED BY <1>6, <1>7, <3>1, <3>2
  <2>3. r = <<>> \/ f <= c
    BY <1>1, <1>5, <2>2 DEF Removable
  <2>4. r = <<>> => f = s - 1
    BY <1>7
  <2>5. f <= c
    BY <1>5, <2>3, <2>4
  <2>6. 2 - 1 = 1
    OBVIOUS
  <2>7. files[2].start = f + 1
    BY <1>7, <2>1, <2>6
  <2> QED BY <2>5, <2>7
<1>9. /\ files' \in Seq(SoundFile) /\ Len(files') = n - 1 /\ \A i \in 1..(n - 1) : files'[i] = files[i + 1]
      /\ files' # <<>>
  <2>1. files' \in Seq(SoundFile) /\ Len(files') = n - 1 /\ \A i \in 1..(n - 1) : files'[i] = files[i + 1]
    BY <1>1, <1>3, <1>4
  <2>2. n - 1 # 0
    <3>1. n \in Nat /\ n > 1
      BY <1>4
    <3> QED BY ONLY <3>1
  <2> QED BY <2>1, <2>2, EmptySeq
<1>10. files'[1] = files[2] /\ LastFile' = LastFile
  <2>1. 1 \in 1..(n - 1) /\ n - 1 \in 1..(n - 1) /\ (n - 1) + 1 = n /\ 1 + 1 = 2
    BY <1>4
  <2> QED BY <1>4, <1>9, <2>1 DEF LastFile
<1>11. PICK t \in Seq(Rec) : t = DiskRecords' /\ d = r \o t
  <2>1. RecordsOf(files) = Records(files[1]) \o RecordsOf(Tail(files))
    BY <1>3, <1>4, RecordsTail
  <2>2. DiskRecords' = RecordsOf(files')
    BY DEF DiskRecords, RecordsOf, Parts
  <2>3. RecordsOf(files') \in Seq(Rec)
    BY <1>9, PartsIs
  <2> QED BY <1>1, <1>5, <1>7, <2>1, <2>2, <2>3
<1>12. PICK l \in Nat, m \in Nat : /\ l = Len(r) /\ m = Len(t) /\ l + m = e - s + 1 /\ f = s + l - 1
  <2>1. Len(d) = Len(r) + Len(t)
    BY <1>11
  <2>2. Len(r) \in Nat /\ Len(t) \in Nat /\ Len(r) + Len(t) = e - s + 1 /\ f = s + Len(r) - 1
    <3>1. Len(r) \in Nat /\ Len(t) \in Nat
      OBVIOUS
    <3>2. Len(r) + Len(t) = e - s + 1
      BY <1>5, <2>1
    <3> QED BY <1>7, <3>1, <3>2
  <2> QED BY ONLY <2>2
<1>13. m = e - (f + 1) + 1 /\ f + 1 <= c + 1 /\ c - (f + 1) + 2 \in 1..(m + 1)
       /\ c - s + 2 = l + (c - (f + 1) + 2) /\ c <= e
  <2>1. c <= e /\ f <= c
    BY <1>5, <1>8
  <2> QED BY <1>12, <2>1
<1>14. RangeOK'
  <2>1. Len(DiskRecords') = FileEnd(LastFile') - files'[1].start + 1
    BY <1>5, <1>8, <1>10, <1>11, <1>12, <1>13
  <2> QED BY <1>1, <1>5, <1>8, <1>10, <1>13, <2>1 DEF RangeOK
<1>15. DiskTail' = DiskTail
  <2>1. DiskTail' = Above(t, f + 1, c)
    BY <1>1, <1>5, <1>8, <1>9, <1>10, <1>11 DEF DiskTail
  <2>2. Above(t, f + 1, c) = SubSeq(t, c - (f + 1) + 2, Len(t))
    <3>1. f + 1 \in Nat /\ f + 1 <= c + 1
      BY <1>13
    <3> QED BY <3>1, AboveIs
  <2>3. PICK a \in 1..(Len(t) + 1) : a = c - (f + 1) + 2
    BY <1>12, <1>13
  <2>4. SubSeq(r \o t, Len(r) + a, Len(r \o t)) = SubSeq(t, a, Len(t))
    BY SuffixOfConcat
  <2>5. c - s + 2 = Len(r) + a
    BY <1>12, <1>13, <2>3
  <2> QED BY <1>5, <1>11, <2>1, <2>2, <2>3, <2>4, <2>5
<1>16. FilesOK'
  <2>1. SegmentsContiguous'
    <3> SUFFICES ASSUME NEW i \in 2..(n - 1) PROVE files'[i].start = FileEnd(files'[i - 1]) + 1
      BY <1>9 DEF SegmentsContiguous
    <3>1. i \in 1..(n - 1) /\ i - 1 \in 1..(n - 1) /\ (i - 1) + 1 = i /\ i + 1 \in 2..n /\ (i + 1) - 1 = i
      BY <1>4
    <3>2. files[i + 1].start = FileEnd(files[(i + 1) - 1]) + 1
      BY <1>4, <3>1 DEF WalInv, FilesOK, SegmentsContiguous
    <3> QED BY <1>9, <3>1, <3>2
  <2>2. ASSUME NEW i \in 1..(n - 1) PROVE Whole(files'[i])
    <3>1. i + 1 \in 1..n
      BY <1>4
    <3>2. Whole(files[i + 1])
      BY <1>2, <1>4, <3>1 DEF WalInv, FilesOK
    <3> QED BY <1>9, <3>2
  <2> QED BY <1>9, <2>1, <2>2 DEF FilesOK
<1>17. segs' = [i \in DOMAIN files' |-> Loaded(files'[i])]
  <2> DEFINE idx == [i \in DOMAIN files' |-> Loaded(files'[i])]
  <2>1. idx \in Seq(Segment) /\ DOMAIN files' = 1..(n - 1)
    BY <1>9, ScanTypes
  <2>2. n - 1 \in Nat
    BY <1>4
  <2>3. Len(idx) = n - 1
    BY <2>1, <2>2
  <2>4. segs \in Seq(Segment) /\ Len(segs) = n
    BY <1>3, <1>4 DEF WalInv, TypeOK, Segment
  <2>5. segs' \in Seq(Segment) /\ Len(segs') = n - 1 /\ \A i \in 1..(n - 1) : segs'[i] = segs[i + 1]
    BY <1>1, <1>4, <2>4
  <2>6. ASSUME NEW i \in 1..(n - 1) PROVE segs'[i] = idx[i]
    <3>1. i + 1 \in 1..n
      BY <1>4
    <3>2. segs[i + 1] = Loaded(files[i + 1])
      BY <1>3, <1>4, <3>1
    <3> QED BY <1>9, <2>1, <2>5, <3>2
  <2> HIDE DEF idx
  <2>7. segs' = idx
    BY <2>1, <2>3, <2>5, <2>6, SeqEqual
  <2> QED BY <2>7 DEF idx
<1>18. segs' \in Seq(Segment) /\ firstAt' \in Seq(TimeMark) /\ FirstsOK'
  <2>1. segs \in Seq(Segment) /\ Len(segs) = n /\ firstAt \in Seq(TimeMark) /\ Len(firstAt) = n
    BY <1>3, <1>4 DEF WalInv, TypeOK, Segment, FirstsOK
  <2>2. /\ segs' \in Seq(Segment) /\ Len(segs') = n - 1 /\ \A i \in 1..(n - 1) : segs'[i] = segs[i + 1]
        /\ firstAt' \in Seq(TimeMark) /\ Len(firstAt') = n - 1 /\ \A i \in 1..(n - 1) : firstAt'[i] = firstAt[i + 1]
    BY <1>1, <1>4, <2>1
  <2>3. PICK k \in Int : \A i \in 1..n : i # k => firstAt[i] = FirstTime(segs[i].recs)
    BY <1>3, <2>1 DEF FirstsOK
  <2>4. \A i \in 1..n : segs[i].recs # <<>> => firstAt[i] # NoTime
    BY <1>3, <2>1 DEF FirstsOK
  <2>5. \A i \in 1..(n - 1) : i + 1 \in 1..n /\ (i # k - 1 => i + 1 # k)
    BY <1>4
  <2>6. \A i \in 1..(n - 1) : i # k - 1 => firstAt'[i] = FirstTime(segs'[i].recs)
    BY <2>2, <2>3, <2>5
  <2>7. \A i \in 1..(n - 1) : segs'[i].recs # <<>> => firstAt'[i] # NoTime
    BY <2>2, <2>4, <2>5
  <2>8. k - 1 \in Int
    OBVIOUS
  <2> QED BY <2>2, <2>6, <2>7, <2>8 DEF FirstsOK
<1>19. MemoryOK'
  BY <1>1, <1>2, <1>17, <1>18 DEF MemoryOK
<1>20. WalInv'
  BY <1>1, <1>14, <1>16, <1>18, <1>19, StepTypes DEF WalInv, TypeOK, TimeMark
<1> QED BY <1>1, <1>15, <1>20 DEF LogStep
-----------------------------------------------------------------------------
LEMMA NextInv ==
    ASSUME NoLiveFault, WalInv, [Next]_vars
    PROVE  WalInv' /\ LogStep
<1>1. CASE OpenEmpty
  BY <1>1, OpenEmptyKeeps
<1>2. CASE OpenRecover
  BY <1>2, OpenRecoverKeeps
<1>3. ASSUME NEW b \in RecordSizes, BeginAppend(b) PROVE WalInv' /\ LogStep
  BY <1>3, BeginAppendKeeps
<1>4. CASE FinishAppend
  BY <1>4, FinishAppendKeeps
<1>5. ASSUME NEW n \in 1..MaxSequence, Checkpoint(n) PROVE WalInv' /\ LogStep
  BY <1>5, CheckpointKeeps
<1>6. CASE CompactSegment
  BY <1>6, CompactKeeps
<1>7. CASE Crash
  BY <1>7, CrashKeeps
<1>8. CASE OpenRefused \/ FailAppend \/ CompactDone \/ ClockStep \/ UNCHANGED vars
  BY <1>8, QuietKeeps
<1> QED BY <1>1, <1>2, <1>3, <1>4, <1>5, <1>6, <1>7, <1>8 DEF Next

(* The first pending record of an open log, when it begins a segment. *)
LEMMA FirstOfSegment ==
    ASSUME WalInv, pc \in Open, NEW i \in 1..Len(files), Records(files[i]) # <<>>, files[i].start = ckpt + 1
    PROVE  FirstTime(DiskTail) = Records(files[i])[1].at
<1>1. files # <<>> /\ files \in Seq(SoundFile)
  BY OpenKnown DEF WalInv, FilesOK
<1>2. PICK n \in Nat \ {0}, s \in Nat \ {0}, e \in Nat, c \in Nat, d \in Seq(Rec) :
         /\ n = Len(files) /\ s = files[1].start /\ e = FileEnd(LastFile) /\ c = ckpt /\ d = DiskRecords
         /\ s <= c + 1 /\ c <= e /\ Len(d) = e - s + 1
         /\ DiskTail = SubSeq(d, c - s + 2, Len(d)) /\ d = RecordsOf(files)
  BY <1>1, FilesKnown
<1>3. PICK ps \in Seq(Seq(Rec)) : /\ ps = Parts(files) /\ Len(ps) = n /\ ps # <<>>
                                 /\ \A j \in 1..n : ps[j] = Records(files[j])
  <2>1. Parts(files) \in Seq(Seq(Rec)) /\ Len(Parts(files)) = n
    BY <1>1, <1>2, PartsIs
  <2>2. Parts(files) # <<>>
    BY <1>2, <2>1, EmptySeq
  <2>3. DOMAIN files = 1..n
    BY <1>1, <1>2
  <2>4. \A j \in 1..n : Parts(files)[j] = Records(files[j])
    BY <2>3 DEF Parts
  <2> QED BY <2>1, <2>2, <2>4
<1>4. PICK f \in [1..n -> Seq(Rec)] : Joins(ps, f) /\ d = f[n]
  <2>1. PICK f \in [1..Len(ps) -> Seq(Rec)] : Joins(ps, f) /\ FlattenSeq(ps) = f[Len(ps)]
    BY <1>3, FlattenJoins
  <2>2. d = FlattenSeq(ps)
    BY <1>2, <1>3 DEF RecordsOf
  <2> QED BY <1>3, <2>1, <2>2
<1>5. f[1] = Records(files[1]) /\ \A j \in 1..n : j # 1 => f[j] = f[j - 1] \o Records(files[j])
  <2>1. 1 \in 1..n
    BY <1>2
  <2> QED BY <1>3, <1>4, <2>1 DEF Joins
<1>6. \A j \in 1..n : /\ Records(files[j]) \in Seq(Rec) /\ files[j].start \in Nat /\ FileEnd(files[j]) \in Nat
                      /\ FileEnd(files[j]) = files[j].start + Len(Records(files[j])) - 1
  <2> SUFFICES ASSUME NEW j \in 1..n
               PROVE  /\ Records(files[j]) \in Seq(Rec) /\ files[j].start \in Nat /\ FileEnd(files[j]) \in Nat
                      /\ FileEnd(files[j]) = files[j].start + Len(Records(files[j])) - 1
    OBVIOUS
  <2>1. files[j] \in SoundFile
    BY <1>1, <1>2
  <2> QED BY <2>1, RecordsIs
<1>7. \A j \in 1..n : j # 1 => files[j].start = FileEnd(files[j - 1]) + 1
  <2>1. \A j \in 1..n : j # 1 => j \in 2..n
    OBVIOUS
  <2> QED BY <1>2, <2>1 DEF WalInv, FilesOK, SegmentsContiguous
<1> DEFINE L == {j \in 1..n : Len(f[j]) = FileEnd(files[j]) - s + 1}
<1>8. \A j \in 1..n : j \in L
  <2>1. 1 \in L
    <3>1. 1 \in 1..n
      BY <1>2
    <3>2. PICK r \in Seq(Rec) : r = Records(files[1]) /\ FileEnd(files[1]) = s + Len(r) - 1
      BY <1>2, <1>6, <3>1
    <3>3. Len(r) \in Nat
      OBVIOUS
    <3> QED BY <1>5, <3>1, <3>2, <3>3
  <2>2. ASSUME NEW j \in 1..n, j \in L, j < n PROVE j + 1 \in L
    <3>1. j + 1 \in 1..n /\ j + 1 # 1 /\ (j + 1) - 1 = j
      BY <1>2, <2>2
    <3>2. PICK r \in Seq(Rec), q \in Seq(Rec) : r = Records(files[j + 1]) /\ q = f[j]
      BY <1>4, <1>6, <3>1
    <3>3. f[j + 1] = q \o r
      BY <1>5, <3>1, <3>2
    <3>4. Len(q \o r) = Len(q) + Len(r) /\ Len(q) \in Nat /\ Len(r) \in Nat
      OBVIOUS
    <3>5. PICK a \in Nat, b \in Nat : a = FileEnd(files[j]) /\ b = FileEnd(files[j + 1]) /\ b = (a + 1) + Len(r) - 1
      BY <1>6, <1>7, <3>1, <3>2
    <3>6. Len(q) = a - s + 1
      BY <2>2, <3>2, <3>5
    <3>7. Len(f[j + 1]) = b - s + 1
      <4>1. PICK u \in Nat, v \in Nat, w \in Nat : u = Len(q) /\ v = Len(r) /\ w = Len(f[j + 1]) /\ w = u + v
        BY <3>3, <3>4
      <4>2. u = a - s + 1 /\ b = (a + 1) + v - 1 /\ w = u + v
        BY <3>5, <3>6, <4>1
      <4>3. w = b - s + 1
        BY ONLY <4>2, a \in Nat, b \in Nat, s \in Nat, u \in Nat, v \in Nat, w \in Nat
      <4> QED BY <4>1, <4>3
    <3> QED BY <3>1, <3>5, <3>7
  <2>3. 1..n \subseteq L
    <3> HIDE DEF L
    <3> QED BY <1>2, <2>1, <2>2, UpTo
  <2> QED BY <2>3
<1> DEFINE p == c - s + 2
           x == Records(files[i])[1]
           T == {j \in 1..n : j >= i => p \in 1..Len(f[j]) /\ f[j][p] = x}
<1>9. i \in 1..n /\ files[i].start = c + 1 /\ p \in Nat \ {0}
  <2>1. s <= c + 1
    BY <1>2
  <2>2. p \in Nat \ {0}
    BY ONLY <2>1, c \in Nat, s \in Nat
  <2> QED BY <1>2, <2>2
<1>10. PICK y \in Seq(Rec) : y = Records(files[i]) /\ Len(y) \in Nat \ {0} /\ x = y[1]
  BY <1>6, <1>9, EmptySeq
<1> HIDE DEF p, x
<1>11. ASSUME NEW j \in 1..n, j = i PROVE p \in 1..Len(f[j]) /\ f[j][p] = x
  <2>1. CASE j = 1
    <3>1. f[j] = y /\ p = 1
      BY <1>2, <1>5, <1>9, <1>10, <1>11, <2>1 DEF p
    <3> QED BY <1>10, <3>1
  <2>2. CASE j # 1
    <3>1. j - 1 \in 1..n
      BY <2>2
    <3>2. PICK q \in Seq(Rec) : q = f[j - 1] /\ Len(q) = FileEnd(files[j - 1]) - s + 1
      BY <1>4, <1>8, <3>1
    <3>3. f[j] = q \o y
      BY <1>5, <1>10, <1>11, <2>2, <3>2
    <3>4. FileEnd(files[j - 1]) = c
      <4>1. PICK a \in Nat : a = FileEnd(files[j - 1])
        BY <1>6, <3>1
      <4>2. c + 1 = a + 1
        BY <1>7, <1>9, <1>11, <2>2, <4>1
      <4> QED BY <4>1, <4>2
    <3>5. p = Len(q) + 1 /\ Len(q) \in Nat
      <4>1. PICK u \in Nat : u = Len(q) /\ u = c - s + 1
        BY <3>2, <3>4
      <4>2. p = u + 1
        BY ONLY <4>1, c \in Nat, s \in Nat, u \in Nat DEF p
      <4> QED BY <4>1, <4>2
    <3>6. Len(q \o y) = Len(q) + Len(y) /\ (q \o y)[Len(q) + 1] = y[1]
      BY <1>10, <3>5
    <3> QED BY <1>10, <3>3, <3>5, <3>6
  <2> QED BY <2>1, <2>2
<1>12. n \in T
  <2>1. 1 \in T
    <3>1. 1 \in 1..n
      BY <1>2
    <3>2. 1 >= i => 1 = i
      BY <1>9
    <3> QED BY <1>11, <3>1, <3>2
  <2>2. ASSUME NEW j \in 1..n, j \in T, j < n PROVE j + 1 \in T
    <3>1. j + 1 \in 1..n /\ j + 1 # 1 /\ (j + 1) - 1 = j
      BY <1>2, <2>2
    <3>2. CASE j >= i
      <4>1. PICK r \in Seq(Rec), q \in Seq(Rec) : r = Records(files[j + 1]) /\ q = f[j]
        BY <1>4, <1>6, <3>1
      <4>2. f[j + 1] = q \o r /\ p \in 1..Len(q) /\ q[p] = x
        BY <1>5, <2>2, <3>1, <3>2, <4>1
      <4>3. p \in 1..Len(q \o r) /\ (q \o r)[p] = q[p]
        BY <4>2
      <4> QED BY <3>1, <4>2, <4>3
    <3>3. CASE ~(j >= i)
      <4>1. j + 1 >= i => j + 1 = i
        BY <1>9, <3>3
      <4> QED BY <1>11, <3>1, <4>1
    <3> QED BY <3>2, <3>3
  <2>3. 1..n \subseteq T
    <3> HIDE DEF T
    <3> QED BY <1>2, <2>1, <2>2, UpTo
  <2>4. n \in 1..n
    BY <1>2
  <2> QED BY <2>3, <2>4
<1>13. p \in 1..Len(d) /\ d[p] = x
  BY <1>2, <1>4, <1>9, <1>12
<1>14. PICK t \in Seq(Rec) : t = SubSeq(d, p, Len(d)) /\ Len(t) # 0 /\ t[1] = d[p]
  <2>1. PICK m \in Nat : m = Len(d)
    OBVIOUS
  <2>2. p \in 1..(m + 1) /\ m - p + 1 \in Nat \ {0} /\ 1 \in 1..(m - p + 1) /\ p + 1 - 1 = p
    BY <1>13, <2>1
  <2>3. /\ SubSeq(d, p, Len(d)) \in Seq(Rec) /\ Len(SubSeq(d, p, Len(d))) = Len(d) - p + 1
        /\ \A k \in 1..(Len(d) - p + 1) : SubSeq(d, p, Len(d))[k] = d[p + k - 1]
    BY <2>1, <2>2, SuffixIs
  <2> QED BY <2>1, <2>2, <2>3
<1>15. DiskTail = t
  BY <1>2, <1>14 DEF p
<1>16. t # <<>>
  BY <1>14, EmptySeq
<1> QED BY <1>13, <1>14, <1>15, <1>16 DEF FirstTime, x

(* The cache of a log that is ready. *)
LEMMA CacheIsFresh ==
    ASSUME WalInv
    PROVE  RetentionCacheFresh
<1>1. ASSUME pc = "ready"
      PROVE  \/ oldest = FirstTime(IndexedAbove(ckpt))
             \/ \E i \in DOMAIN segs : TornStart(i) /\ segs[i].start = ckpt + 1 /\ oldest = firstAt[i]
  <2>1. pc \in Open /\ CacheOK
    BY <1>1 DEF WalInv, MemoryOK, Open
  <2>2. /\ IndexedAbove(ckpt) = DiskTail /\ Len(segs) = Len(files) /\ FirstsOK
        /\ segs = [i \in 1..Len(files) |-> Loaded(files[i])]
    BY <2>1, OpenKnown
  <2>3. CASE oldest = FirstTime(DiskTail)
    BY <2>2, <2>3
  <2>4. CASE \E i \in 1..Len(segs) : segs[i].recs # <<>> /\ segs[i].start = ckpt + 1 /\ oldest = firstAt[i]
    <3>1. PICK i \in 1..Len(files) : segs[i].recs # <<>> /\ segs[i].start = ckpt + 1 /\ oldest = firstAt[i]
      BY <2>2, <2>4
    <3>2. segs[i].recs = Records(files[i]) /\ segs[i].start = files[i].start /\ i \in DOMAIN segs
      BY <2>2 DEF Loaded
    <3>3. FirstTime(DiskTail) = segs[i].recs[1].at
      BY <2>1, <3>1, <3>2, FirstOfSegment
    <3> QED BY <2>2, <3>1, <3>2, <3>3 DEF TornStart
  <2> QED BY <2>1, <2>3, <2>4 DEF CacheOK
<1>2. ASSUME NEW i \in DOMAIN segs, NEW j \in DOMAIN segs, TornStart(i), TornStart(j) PROVE i = j
  <2>1. CASE pc \in Open
    <3>1. FirstsOK /\ DOMAIN segs = 1..Len(segs)
      BY <2>1, OpenKnown DEF WalInv, TypeOK
    <3>2. PICK k \in Int : \A m \in 1..Len(segs) : m # k => firstAt[m] = FirstTime(segs[m].recs)
      BY <3>1 DEF FirstsOK
    <3>3. i = k /\ j = k
      BY <1>2, <3>1, <3>2 DEF TornStart, FirstTime
    <3> QED BY <3>3
  <2>2. CASE pc \notin Open
    <3>1. segs = <<>>
      BY <2>2 DEF WalInv, MemoryOK
    <3> QED BY <3>1
  <2> QED BY <2>1, <2>2
<1> QED BY <1>1, <1>2 DEF RetentionCacheFresh

(* At every moment, also in the middle of an append, a rotation or a       *)
(* compaction and after a crash there, the index of an open log would      *)
(* replay what a restart would, the cached retention time is that of the   *)
(* first pending record or of the torn attempt at it that the scan of      *)
(* this open met, the segment files are contiguous and every variable has  *)
(* its type (DurableWal::open, append, checkpoint, compact, scan_segment). *)
THEOREM LogStaysConsistent == ASSUME NoLiveFault PROVE Spec => []LogConsistent
<1>1. Init => WalInv
  BY InitInv
<1>2. WalInv /\ [Next]_vars => WalInv'
  BY NextInv
<1>3. WalInv => LogConsistent
  <2> SUFFICES ASSUME WalInv PROVE LogConsistent
    OBVIOUS
  <2>1. ReplaySurvivesRestart
    BY OpenKnown DEF ReplaySurvivesRestart, Open
  <2>2. RetentionCacheFresh
    BY CacheIsFresh
  <2> QED BY <2>1, <2>2 DEF LogConsistent, WalInv, FilesOK
<1> QED BY <1>1, <1>2, <1>3, PTL DEF Spec

(* The segmented log implements the contract its owner relies on: a record *)
(* becomes durable at the end of the log or not at all, a checkpoint drops *)
(* a prefix of the pending records, and no crash, recovery, rotation or    *)
(* compaction changes what a replay returns (append, open, checkpoint).    *)
THEOREM LogIsDurable == ASSUME NoLiveFault PROVE Spec => ImplementsDurableLog
<1>1. Init => WalInv /\ Contract!LogInit
  BY InitInv DEF Contract!LogInit
<1>2. WalInv /\ [Next]_vars => WalInv'
  BY NextInv
<1>3. WalInv /\ [Next]_vars => [Contract!LogNext]_(Contract!logVars)
  <2>1. LogStep => [Contract!LogNext]_(Contract!logVars)
    BY DEF LogStep, Contract!LogNext, Contract!LogAppend, Contract!LogCheckpoint, Contract!logVars
  <2> QED BY <2>1, NextInv
<1> QED BY <1>1, <1>2, <1>3, PTL DEF Spec, ImplementsDurableLog, Contract!LogSpec
=============================================================================
