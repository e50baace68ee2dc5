----------------------------- MODULE DurableLog -----------------------------
(***************************************************************************)
(* What a single-writer log of the Edge agent promises its owner (the      *)
(* actor): records come back after a crash in the order they were          *)
(* appended, nothing the owner has not checkpointed is ever lost, and a    *)
(* checkpoint drops a prefix and nothing else.  The segmented, checksummed *)
(* WAL of edge-rs/src/wal.rs is shown to implement this specification, and *)
(* the effect journal of module EdgeEffect is used through it.             *)
(***************************************************************************)
EXTENDS Naturals, Sequences

CONSTANT Record          \* what may be appended

VARIABLES base,          \* the externally committed sequence number
          tail           \* the records base+1, base+2, ... that replay returns

logVars == <<base, tail>>

LogInit == base = 0 /\ tail = <<>>

(* One record becomes durable.  The owner may or may not learn of it: a    *)
(* crash after the bytes reached the disk loses only the answer.           *)
LogAppend == /\ \E r \in Record : tail' = Append(tail, r)
             /\ base' = base

(* The owner commits the first k pending records. *)
LogCheckpoint == \E k \in 1..Len(tail) :
                    /\ base' = base + k
                    /\ tail' = SubSeq(tail, k + 1, Len(tail))

LogNext == LogAppend \/ LogCheckpoint

LogSpec == LogInit /\ [][LogNext]_logVars
=============================================================================
