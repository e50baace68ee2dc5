-------------------------------- MODULE Wal --------------------------------
(***************************************************************************)
(* The segmented write-ahead log of the Edge agent, edge-rs/src/wal.rs     *)
(* (struct DurableWal).  Five of these hold everything an Edge target must *)
(* not forget: source snapshots, inference inputs, inference results, the  *)
(* effect journal and the route journal.                                   *)
(*                                                                         *)
(* A file is a sequence of chunks.  A chunk is the image of one append:    *)
(* `bytes` is the length of header and payload, `have` how much of it      *)
(* reached the file, so have < bytes is a torn write.  Payload contents,   *)
(* checksums and names are abstracted: a complete chunk is one whose       *)
(* checksum matches.  The process may crash at every step that touches the *)
(* disk.                                                                   *)
(***************************************************************************)
EXTENDS Integers, Sequences, SequencesExt, Functions

CONSTANTS
    HeaderBytes,     \* HEADER_BYTES
    RecordSizes,     \* header + payload sizes the owner appends
    SegmentBytes,    \* WalLimits.segment_bytes
    MaxBytes,        \* WalLimits.max_bytes
    MaxRecords,      \* WalLimits.max_records
    MaxAge,          \* WalLimits.max_age_seconds
    IOFaults,        \* model bound: write_all or sync_data failures in a live process
    MaxSequence,     \* model bound: sequence numbers
    MaxClock         \* model bound: wall-clock readings

(* validate_limits, and what the sizes of a record mean. *)
ASSUME WalAssumption ==
    /\ HeaderBytes \in Nat \ {0}
    /\ RecordSizes \subseteq Nat
    /\ \A b \in RecordSizes : b >= HeaderBytes /\ b <= SegmentBytes
    /\ SegmentBytes \in Nat /\ MaxBytes \in Nat /\ MaxBytes >= SegmentBytes
    /\ MaxRecords \in Nat \ {0} /\ MaxAge \in Nat \ {0}
    /\ IOFaults \in Nat
    /\ MaxSequence \in Nat /\ MaxClock \in Nat

VARIABLES
    files,     \* disk: the segment files in name order, [start, chunks]
    ckpt,      \* disk: checkpoint.bin (replaced atomically by rename)
    segs,      \* memory: DurableWal.segments with the records they index
    firstAt,   \* memory: Segment.first_recorded_at_unix_ms, one for each of segs
    oldest,    \* memory: oldest_pending_recorded_at_unix_ms, NoTime for None
    lastAt,    \* memory: last_recorded_at_unix_ms
    pc,        \* memory: what the single writer is doing
    want,      \* memory: size of the record being appended
    now,       \* the system clock, which may be set back
    faults     \* how many writes have failed so far

vars == <<files, ckpt, segs, firstAt, oldest, lastAt, pc, want, now, faults>>
mem  == <<segs, firstAt, oldest, lastAt, want>>

NoTime == -1
Times  == 0..MaxClock

Chunk   == [seq : Nat, at : Times, bytes : RecordSizes, have : Nat]
Rec     == [at : Times, bytes : RecordSizes]

-----------------------------------------------------------------------------
(* Segments *)

End(s)        == s.start + Len(s.recs) - 1
BytesOf(recs) == SumFunction([i \in DOMAIN recs |-> recs[i].bytes])
Current       == segs[Len(segs)]
LastSequence  == End(Current)
TotalRecords  == SumFunction([i \in DOMAIN segs |-> Len(segs[i].recs)])
TotalBytes    == SumFunction([i \in DOMAIN segs |-> BytesOf(segs[i].recs)])

(* All records that memory indexes, in order, and those above n. *)
AllRecords(ss) == FlattenSeq([i \in DOMAIN ss |-> ss[i].recs])
Above(recs, first, n) == SubSeq(recs, Max({1, n - first + 2}), Len(recs))
IndexedAbove(n) == Above(AllRecords(segs), segs[1].start, n)

(* oldest_pending_timestamp: a segment that is pending from its first      *)
(* record on answers with its cached first time, one that is pending in    *)
(* part with the header of the record after the checkpoint.                *)
FirstTime(recs) == IF recs = <<>> THEN NoTime ELSE recs[1].at
Pending(ss, c)  == {i \in DOMAIN ss : ss[i].recs # <<>> /\ End(ss[i]) > c}
OldestPending(ss, firsts, c) ==
    IF Pending(ss, c) # {} /\ c < ss[Min(Pending(ss, c))].start
    THEN firsts[Min(Pending(ss, c))]
    ELSE FirstTime(Above(AllRecords(ss), ss[1].start, c))

(* check_retention *)
RetentionOk == /\ now >= lastAt
               /\ oldest # NoTime => now - oldest <= MaxAge

-----------------------------------------------------------------------------
(* Reading a file back: scan_segment *)

Good(file, i) == /\ file.chunks[i].have = file.chunks[i].bytes
                 /\ file.chunks[i].seq = file.start + i - 1

(* How many records a scan accepts before it meets the end or a bad chunk. *)
Accepted(file) ==
    CHOOSE n \in 0..Len(file.chunks) :
        /\ \A i \in 1..n : Good(file, i)
        /\ n < Len(file.chunks) => ~Good(file, n + 1)

Remaining(file) == LET rest == SubSeq(file.chunks, Accepted(file) + 1, Len(file.chunks))
                   IN  SumFunction([i \in DOMAIN rest |-> rest[i].have])

(* scan_segment: "clean", an incomplete tail, or a fail-closed error.  A   *)
(* tail is incomplete when fewer bytes are left than the header, or than   *)
(* the length the header announces.                                        *)
Scan(file) ==
    LET n == Accepted(file) IN
    IF n = Len(file.chunks) THEN "clean"
    ELSE LET bad == file.chunks[n + 1] IN
         IF Remaining(file) < HeaderBytes THEN "torn"
         ELSE IF bad.have < HeaderBytes \/ bad.seq # file.start + n THEN "corrupt"
         ELSE IF Remaining(file) < bad.bytes THEN "torn" ELSE "corrupt"

(* Mutant: an incomplete tail is skipped but stays in the file. *)
TruncatedNot(file) == file

Records(file) == [i \in 1..Accepted(file) |-> [at    |-> file.chunks[i].at,
                                               bytes |-> file.chunks[i].bytes]]
Truncated(file) == [file EXCEPT !.chunks = SubSeq(@, 1, Accepted(file))]
Loaded(file) == [start |-> file.start, recs |-> Records(file)]
FileEnd(file) == file.start + Accepted(file) - 1

(* The headers that scan_segment has read when it stops.  It takes the     *)
(* first and the last time of a segment from them before it knows whether  *)
(* the payload is complete, so a torn record with a whole header counts.   *)
Headers(file) ==
    LET n == Accepted(file)
        torn == n < Len(file.chunks) /\ file.chunks[n + 1].have >= HeaderBytes
    IN  SubSeq(file.chunks, 1, IF torn THEN n + 1 ELSE n)
FirstHeader(file) == IF Headers(file) = <<>> THEN NoTime ELSE Headers(file)[1].at
LastHeader(file)  == Headers(file)[Len(Headers(file))].at
HasRecords        == {i \in DOMAIN files : Accepted(files[i]) > 0}

(* Every record the files hold, in order, and those after the checkpoint: *)
(* what open followed by replay would return.                              *)
DiskRecords == FlattenSeq([i \in DOMAIN files |-> Records(files[i])])
DiskTail    == IF files = <<>> THEN <<>>
               ELSE Above(DiskRecords, files[1].start, ckpt)

(* DurableWal::open, the checks of the loop over the segment paths: the    *)
(* first segment is expected to start at sequence 1 and each next one      *)
(* right after its predecessor; only the final one may end in a torn tail; *)
(* the times of the headers, a torn one included, do not go back.          *)
Openable ==
    /\ \A i \in DOMAIN files :
          /\ files[i].start = IF i = 1 THEN 1 ELSE FileEnd(files[i - 1]) + 1
          /\ Scan(files[i]) \in IF i = Len(files) THEN {"clean", "torn"} ELSE {"clean"}
    /\ ckpt <= IF files = <<>> THEN 0 ELSE FileEnd(files[Len(files)])
    /\ \A i \in DOMAIN files : LET h == Headers(files[i]) IN
          \A j, k \in DOMAIN h : j < k => h[j].at <= h[k].at
    /\ \A i, j \in HasRecords : i < j => LastHeader(files[i]) <= FirstHeader(files[j])
    /\ BytesOf(DiskRecords) <= MaxBytes /\ Len(DiskRecords) <= MaxRecords

-----------------------------------------------------------------------------
(* Actions *)

Init == /\ files = <<>> /\ ckpt = 0
        /\ segs = <<>> /\ firstAt = <<>> /\ oldest = NoTime /\ lastAt = 0
        /\ pc = "closed" /\ want = 0
        /\ now = 0 /\ faults = 0

EmptySegment(s) == [start |-> s, recs |-> <<>>]
EmptyFile(s)    == [start |-> s, chunks |-> <<>>]

(* DurableWal::open on a directory without segments creates the first. *)
OpenEmpty ==
    /\ pc = "closed" /\ files = <<>> /\ Openable
    /\ files' = <<EmptyFile(1)>>
    /\ segs' = <<EmptySegment(1)>> /\ firstAt' = <<NoTime>>
    /\ oldest' = NoTime /\ lastAt' = 0
    /\ pc' = "ready"
    /\ UNCHANGED <<ckpt, want, now, faults>>

(* DurableWal::open recovers: it truncates an incomplete tail of the final *)
(* segment, indexes the records, and goes on to compact.                   *)
OpenRecover ==
    /\ pc = "closed" /\ files # <<>> /\ Openable
    /\ files' = [files EXCEPT ![Len(files)] = Truncated(@)]
    /\ segs' = [i \in DOMAIN files |-> Loaded(files[i])]
    /\ firstAt' = [i \in DOMAIN files |-> FirstHeader(files[i])]
    /\ lastAt' = IF HasRecords = {} THEN 0 ELSE LastHeader(files[Max(HasRecords)])
    /\ oldest' = OldestPending(segs', firstAt', ckpt)
    /\ pc' = "compact"
    /\ UNCHANGED <<ckpt, want, now, faults>>

(* DurableWal::open returns an error; the directory is left as it is. *)
OpenRefused ==
    /\ pc \in {"closed", "refused"} /\ ~Openable
    /\ pc' = "refused"
    /\ UNCHANGED <<files, ckpt, mem, now, faults>>

(* append, up to the write: retention, capacity, rotation to a new file. *)
CapacityOk(b) == TotalBytes + b <= MaxBytes /\ TotalRecords + 1 <= MaxRecords
MustRotate(b) == /\ BytesOf(Current.recs) > 0
                 /\ BytesOf(Current.recs) + b > SegmentBytes

BeginAppend(b) ==
    /\ pc = "ready" /\ RetentionOk /\ CapacityOk(b)
    /\ LastSequence < MaxSequence
    /\ IF MustRotate(b)
       THEN /\ files' = Append(files, EmptyFile(LastSequence + 1))
            /\ segs' = Append(segs, EmptySegment(LastSequence + 1))
            /\ firstAt' = Append(firstAt, NoTime)
       ELSE UNCHANGED <<files, segs, firstAt>>
    /\ want' = b
    /\ pc' = "append"
    /\ UNCHANGED <<ckpt, oldest, lastAt, now, faults>>

(* The first k bytes of the record reach the current file. *)
Write(k) ==
    files' = IF k = 0 THEN files
             ELSE [files EXCEPT ![Len(files)].chunks =
                      Append(@, [seq |-> LastSequence + 1, at |-> now,
                                 bytes |-> want, have |-> k])]

(* append returns Ok(sequence): the record was written and fsynced. *)
FinishAppend ==
    /\ pc = "append" /\ now >= lastAt
    /\ Write(want)
    /\ segs' = [segs EXCEPT ![Len(segs)].recs = Append(@, [at |-> now, bytes |-> want])]
    /\ firstAt' = [firstAt EXCEPT ![Len(segs)] = IF @ = NoTime THEN now ELSE @]
    /\ oldest' = IF oldest = NoTime THEN now ELSE oldest
    /\ lastAt' = now
    /\ pc' = "ready"
    /\ UNCHANGED <<ckpt, want, now, faults>>

(* append returns an error after the rotation: the clock went back, or     *)
(* the write or the fsync failed and left k bytes behind.                  *)
FailAppend ==
    /\ pc = "append"
    /\ \/ now < lastAt /\ UNCHANGED files
       \/ now >= lastAt /\ faults < IOFaults /\ \E k \in 0..want : Write(k)
    /\ faults' = IF now < lastAt THEN faults ELSE faults + 1
    /\ pc' = "ready"
    /\ UNCHANGED <<ckpt, mem, now>>

(* checkpoint(n) replaces checkpoint.bin, then compacts. *)
Checkpoint(n) ==
    /\ pc = "ready" /\ RetentionOk
    /\ n > ckpt /\ n <= LastSequence
    /\ ckpt' = n
    /\ pc' = "compact"
    /\ UNCHANGED <<files, mem, now, faults>>

(* Mutant: a segment goes as soon as its first record is checkpointed. *)
RemovableStarted == Len(segs) > 1 /\ segs[1].start <= ckpt

(* compact: whole leading segments whose records are all checkpointed. *)
Removable == /\ Len(segs) > 1
             /\ segs[1].recs = <<>> \/ End(segs[1]) <= ckpt

CompactSegment ==
    /\ pc = "compact" /\ Removable
    /\ files' = Tail(files) /\ segs' = Tail(segs) /\ firstAt' = Tail(firstAt)
    /\ UNCHANGED <<ckpt, oldest, lastAt, pc, want, now, faults>>

CompactDone ==
    /\ pc = "compact" /\ ~Removable
    /\ oldest' = OldestPending(segs, firstAt, ckpt)
    /\ pc' = "ready"
    /\ UNCHANGED <<files, ckpt, segs, firstAt, lastAt, want, now, faults>>

(* The process dies; a write under way leaves a prefix of the record. *)
Crash ==
    /\ pc \in {"ready", "append", "compact"}
    /\ IF pc = "append" /\ now >= lastAt THEN \E k \in 0..want : Write(k)
                                         ELSE UNCHANGED files
    /\ pc' = "closed"
    /\ segs' = <<>> /\ firstAt' = <<>> /\ oldest' = NoTime /\ lastAt' = 0 /\ want' = 0
    /\ UNCHANGED <<ckpt, now, faults>>

(* The wall clock advances, or is set back. *)
ClockStep == /\ now' \in Times /\ now' \in {now - 1, now + 1}
             /\ UNCHANGED <<files, ckpt, mem, pc, faults>>

Next == \/ OpenEmpty \/ OpenRecover \/ OpenRefused
        \/ \E b \in RecordSizes : BeginAppend(b)
        \/ FinishAppend \/ FailAppend
        \/ \E n \in 1..MaxSequence : Checkpoint(n)
        \/ CompactSegment \/ CompactDone
        \/ Crash
        \/ ClockStep

Spec == Init /\ [][Next]_vars

-----------------------------------------------------------------------------
(* Properties *)

TypeOK ==
    /\ files \in Seq([start : Nat \ {0}, chunks : Seq(Chunk)])
    /\ ckpt \in Nat
    /\ segs \in Seq([start : Nat \ {0}, recs : Seq(Rec)])
    /\ firstAt \in Seq(Times \cup {NoTime})
    /\ oldest \in Times \cup {NoTime}
    /\ lastAt \in Times
    /\ pc \in {"closed", "refused", "ready", "append", "compact"}
    /\ want \in RecordSizes \cup {0}
    /\ now \in Times
    /\ faults \in 0..IOFaults

(* What the open log would replay is what a restart at this very moment    *)
(* would replay: rotation, compaction and tail truncation never make the   *)
(* index and the files disagree on an uncheckpointed record.               *)
ReplaySurvivesRestart ==
    pc \in {"ready", "append", "compact"} => IndexedAbove(ckpt) = DiskTail

(* The first append to segment i was torn behind its header by a crash     *)
(* before this open: scan_segment kept the time of the lost attempt and    *)
(* append, which only fills an empty field, did not replace it.            *)
TornStart(i) == segs[i].recs # <<>> /\ firstAt[i] # segs[i].recs[1].at

(* The retention fence looks at a cached time.  The cache is the time of   *)
(* the first uncheckpointed record, or nothing when there is none.  The    *)
(* one exception: that record begins a segment whose first append a crash  *)
(* tore, and the cache is the time of the lost attempt at this same        *)
(* record.  One segment of an open log at most can be such a segment.      *)
RetentionCacheFresh ==
    /\ pc = "ready" =>
          \/ oldest = FirstTime(IndexedAbove(ckpt))
          \/ \E i \in DOMAIN segs : /\ TornStart(i) /\ segs[i].start = ckpt + 1
                                    /\ oldest = firstAt[i]
    /\ \A i, j \in DOMAIN segs : TornStart(i) /\ TornStart(j) => i = j

(* What the name of the field says, without the exception: a stale time    *)
(* holds a healthy target or lets an expired record pass.  TLC refutes it. *)
RetentionCacheExact == pc = "ready" => oldest = FirstTime(IndexedAbove(ckpt))

(* The segment files stay contiguous: whatever crash hits rotation,        *)
(* compaction or an append, each file begins right after its predecessor.  *)
SegmentsContiguous ==
    \A i \in 2..Len(files) : files[i].start = FileEnd(files[i - 1]) + 1

(* The open index, its cached retention time and the segment files tell    *)
(* one story at every moment, a crash in append, rotation or compaction    *)
(* included: what DurableWal::open would find is what the process holds.   *)
LogConsistent ==
    TypeOK /\ ReplaySurvivesRestart /\ RetentionCacheFresh /\ SegmentsContiguous

(* The log implements the contract its owner relies on. *)
Contract == INSTANCE DurableLog WITH Record <- Rec, base <- ckpt, tail <- DiskTail
ImplementsDurableLog == Contract!LogSpec

(* The comment of open (wal.rs:116): recovery truncates only an incomplete *)
(* final tail, so what a crash leaves behind can be opened again.          *)
AlwaysReopens == pc # "refused"
=============================================================================
