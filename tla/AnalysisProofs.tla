--------------------------- MODULE AnalysisProofs ---------------------------
(***************************************************************************)
(* Proofs about the analysis service, modules AnalysisService and          *)
(* AnalysisGraph.                                                          *)
(*                                                                         *)
(* The tasks: the store, the queue and the workers agree on who owns a     *)
(* task, and no step undoes an outcome, stores an artifact under a foreign *)
(* binding or takes the generation back, for every set of requests,        *)
(* workers, generations and every limit.                                   *)
(*                                                                         *)
(* The run of one task: the graph keeps to the budget of its task and      *)
(* gives its session back, and its artifact claims no more than the run    *)
(* was told, for every set of budgets and of provider answers, whatever    *)
(* number of tools and peers they ask for, with the clocks, failures and   *)
(* abandoned calls falling anywhere.                                       *)
(***************************************************************************)
EXTENDS AnalysisService, AnalysisGraph, SequenceTheorems, FiniteSetTheorems, TLAPS

(* The row of an owned request. *)
OwnedRow(r, s, n) ==
    rows[r.id] # None /\ rows[r.id].req = r /\ rows[r.id].state = s /\ rows[r.id].traces = n

(* The queue holds submitted tasks, each once, and the workers hold        *)
(* started ones, each once; a process that is down holds neither.          *)
QueueInv ==
    /\ \A k \in 1..Len(queue) : OwnedRow(queue[k], "SUBMITTED", 1)
    /\ \A k, l \in 1..Len(queue) : queue[k].id = queue[l].id => k = l
WorkerInv ==
    /\ \A w \in Workers : worker[w] # None => OwnedRow(worker[w], "WORKING", 2)
    /\ \A v, w \in Workers :
          worker[v] # None /\ worker[w] # None /\ worker[v].id = worker[w].id => v = w
DownInv == proc = "down" => queue = <<>> /\ worker = Idle
OwnerInv == TypeOK /\ QueueInv /\ WorkerInv /\ DownInv

(* The trace limit leaves room for admission, start and the codes of any   *)
(* graph.  Without it append_trace refuses both the outcome and the error, *)
(* and a task stays WORKING until the next start.                          *)
TraceRoom == MaxTrace > 2 /\ \A n \in GraphCodes : n + 2 <= MaxTrace

Owned(i) == \/ \E k \in 1..Len(queue) : queue[k].id = i
            \/ \E w \in Workers : worker[w] # None /\ worker[w].id = i
NoneForgotten == proc # "down" => \A i \in Ids : i \in Stored /\ ~Ended(i) => Owned(i)
-----------------------------------------------------------------------------
(* What the first item of a queue and the rest of it are (asyncio.Queue:   *)
(* get takes the oldest item).                                             *)
LEMMA TakeFirst ==
    ASSUME NEW S, NEW q \in Seq(S), q # <<>>
    PROVE  /\ Len(q) \in Nat \ {0} /\ Head(q) = q[1] /\ q[1] \in S
           /\ Tail(q) \in Seq(S) /\ Len(Tail(q)) = Len(q) - 1
           /\ \A k \in 1..Len(Tail(q)) : k + 1 \in 2..Len(q) /\ Tail(q)[k] = q[k + 1]
BY HeadTailProperties, EmptySeq, LenProperties

(* A put item is the last of the queue (asyncio.Queue: put_nowait). *)
LEMMA PutLast ==
    ASSUME NEW S, NEW q \in Seq(S), NEW x \in S
    PROVE  /\ Append(q, x) \in Seq(S) /\ Len(Append(q, x)) = Len(q) + 1 /\ Len(q) \in Nat
           /\ Append(q, x)[Len(q) + 1] = x
           /\ \A k \in 1..Len(q) : Append(q, x)[k] = q[k]
BY AppendProperties, LenProperties

(* The rows that the worker and the store write are rows (Settle, complete *)
(* and append_trace keep the trace count within its limit).                *)
LEMMA SettledRow ==
    ASSUME NEW row \in Row, NEW s \in State
    PROVE  /\ Settle(row, s) \in Row /\ Settle(row, s).req = row.req
           /\ row.traces < MaxTrace => Settle(row, s).state = s
           /\ Settle(row, s).state \in {s, row.state}
<1>1. row.traces \in 0..MaxTrace /\ MaxTrace \in Nat
  BY LimitAssumption DEF Row
<1>2. CASE row.traces < MaxTrace
  <2>1. Settle(row, s) = [row EXCEPT !.state = s, !.traces = @ + 1, !.old = FALSE]
    BY <1>2 DEF Settle
  <2>2. row.traces + 1 \in 0..MaxTrace
    BY <1>1, <1>2
  <2> QED BY <1>1, <2>1, <2>2 DEF Row
<1>3. CASE ~(row.traces < MaxTrace)
  BY <1>3 DEF Settle
<1> QED BY <1>2, <1>3

(* What completing a task makes of its row: with room for its traces it is *)
(* COMPLETED, without it stays WORKING.                                    *)
LEMMA CompletedRow ==
    ASSUME NEW row \in Row, NEW n \in GraphCodes, row.state = "WORKING"
    PROVE  /\ Completed(row, n) \in Row /\ Completed(row, n).req = row.req
           /\ Completed(row, n).state \in {"WORKING", "COMPLETED"}
           /\ row.traces = 2 /\ TraceRoom => Completed(row, n).state = "COMPLETED"
<1>1. row.traces \in 0..MaxTrace /\ n \in Nat /\ MaxTrace \in Nat /\ row.state \notin Terminal
  BY LimitAssumption DEF Row, Terminal
<1>2. CASE row.traces + n > MaxTrace
  <2>1. Completed(row, n) = [row EXCEPT !.traces = MaxTrace]
    BY <1>1, <1>2 DEF Completed
  <2> QED BY <1>1, <1>2, <2>1 DEF Row, State, TraceRoom
<1>3. CASE ~(row.traces + n > MaxTrace)
  <2>1. Completed(row, n) = [row EXCEPT !.state = "COMPLETED", !.traces = @ + n, !.old = FALSE]
    BY <1>1, <1>3 DEF Completed
  <2>2. row.traces + n \in 0..MaxTrace
    BY <1>1, <1>3
  <2> QED BY <1>1, <2>1, <2>2 DEF Row, State, Terminal
<1> QED BY <1>2, <1>3
-----------------------------------------------------------------------------
(* The owners hold before the first start. *)
LEMMA InitOwner == Init => OwnerInv
<1> SUFFICES ASSUME Init PROVE OwnerInv
  OBVIOUS
<1>1. TypeOK
  <2>1. queue \in Seq(Requests) /\ Len(queue) <= QueueDepth
    BY LimitAssumption, EmptySeq DEF Init
  <2>2. stops \in 0..MaxCrash
    BY LimitAssumption DEF Init
  <2> QED BY <2>1, <2>2 DEF Init, TypeOK, Idle
<1>2. Len(queue) = 0
  BY EmptySeq DEF Init
<1> QED BY <1>1, <1>2 DEF Init, OwnerInv, QueueInv, WorkerInv, DownInv, Idle

(* The actions that change neither a row nor an owner. *)
LEMMA QuietOwner ==
    ASSUME OwnerInv, TypeOK', UNCHANGED <<rows, queue, worker>>, proc' = "down" => proc = "down"
    PROVE  OwnerInv'
BY DEF OwnerInv, QueueInv, WorkerInv, DownInv, OwnedRow, Idle

(* A start requeues what a stopped process left unfinished.                *)
LEMMA StartOwner == ASSUME OwnerInv, NEW b \in Binding, Start(b) PROVE OwnerInv'
<1>1. TypeOK /\ queue = <<>> /\ worker = Idle /\ queue' = queue /\ worker' = worker
  BY DEF OwnerInv, DownInv, Start
<1>2. rows' \in [Ids -> Row \cup {None}]
  <2>1. ASSUME NEW i \in Ids PROVE RecoverIncomplete[i] \in Row \cup {None}
    BY <1>1 DEF RecoverIncomplete, TypeOK, Row, Stored, State, Terminal
  <2> QED BY <2>1 DEF Start, RecoverIncomplete
<1>3. TypeOK'
  BY <1>1, <1>2, NoneAssumption DEF TypeOK, Start
<1>4. Len(queue') = 0
  BY <1>1, EmptySeq
<1> QED BY <1>1, <1>3, <1>4 DEF OwnerInv, QueueInv, WorkerInv, DownInv, Idle

(* Admission purges only finished tasks: the owned ones keep their rows. *)
LEMMA PurgeKeeps ==
    ASSUME OwnerInv
    PROVE  /\ Kept \in [Ids -> Row \cup {None}]
           /\ \A i \in Ids : rows[i] # None /\ ~Ended(i) => ~Purged(i) /\ Kept[i] = rows[i]
BY DEF OwnerInv, TypeOK, Kept, Purged, Ended, Row

(* A new task is stored and queued together.                               *)
LEMMA SubmitNewOwner == ASSUME OwnerInv, NEW r \in Requests, SubmitNew(r) PROVE OwnerInv'
<1> DEFINE new == [req |-> r, state |-> IF Full THEN "REJECTED" ELSE "SUBMITTED",
                   traces |-> IF Full THEN 2 ELSE 1, old |-> FALSE]
<1>1. TypeOK /\ QueueInv /\ WorkerInv /\ DownInv /\ proc = "up"
  BY DEF OwnerInv, SubmitNew, Admits
<1>2. r.id \in Ids /\ new \in Row /\ new # None
  <2>1. new.traces \in 0..MaxTrace /\ new.state \in State
    BY LimitAssumption DEF State, Terminal
  <2>2. r.id \in Ids
    BY DEF Ids
  <2>3. new \in Row
    BY <2>1 DEF Row
  <2> QED BY <2>2, <2>3, NoneAssumption
<1>3. /\ rows' = [Kept EXCEPT ![r.id] = new]
      /\ queue' = IF Full THEN queue ELSE Append(queue, r)
      /\ UNCHANGED <<proc, worker, binding, lapsed, draining, stops>>
  BY DEF SubmitNew, Insert
<1>4. /\ rows' \in [Ids -> Row \cup {None}] /\ rows'[r.id] = new
      /\ \A i \in Ids : i # r.id => rows'[i] = Kept[i]
  <2> HIDE DEF new
  <2> QED BY <1>2, <1>3, PurgeKeeps
<1>5. \A i \in Ids : rows[i] # None /\ ~Ended(i) => i # r.id /\ rows'[i] = rows[i]
  <2> SUFFICES ASSUME NEW i \in Ids, rows[i] # None, ~Ended(i)
               PROVE  i # r.id /\ rows'[i] = rows[i]
    OBVIOUS
  <2>1. ~Purged(i) /\ Kept[i] = rows[i]
    BY PurgeKeeps
  <2>2. i # r.id
    BY <2>1 DEF SubmitNew, Hits
  <2> QED BY <2>1, <2>2, <1>4
<1>6. \A q \in Requests, s \in {"SUBMITTED", "WORKING"}, n \in {1, 2} :
         OwnedRow(q, s, n) => q.id # r.id /\ OwnedRow(q, s, n)'
  <2> SUFFICES ASSUME NEW q \in Requests, NEW s \in {"SUBMITTED", "WORKING"}, NEW n \in {1, 2},
                      OwnedRow(q, s, n)
               PROVE  q.id # r.id /\ OwnedRow(q, s, n)'
    OBVIOUS
  <2>1. q.id \in Ids /\ rows[q.id] # None /\ ~Ended(q.id)
    BY DEF OwnedRow, Ended, Terminal, Ids
  <2> QED BY <2>1, <1>5 DEF OwnedRow
<1>7. WorkerInv'
  BY <1>1, <1>3, <1>6 DEF WorkerInv, TypeOK
<1>8. CASE Full
  <2>1. queue' = queue
    BY <1>3, <1>8
  <2>2. TypeOK'
    BY <1>1, <1>3, <1>4, <2>1 DEF TypeOK
  <2>3. QueueInv'
    BY <1>1, <1>6, <2>1 DEF QueueInv, TypeOK
  <2> QED BY <1>1, <1>3, <1>7, <2>2, <2>3 DEF OwnerInv, DownInv
<1>9. CASE ~Full
  <2>1. queue' = Append(queue, r) /\ Len(queue) < QueueDepth
    BY <1>1, <1>3, <1>9, LimitAssumption, LenProperties DEF TypeOK, Full
  <2>2. /\ queue' \in Seq(Requests) /\ Len(queue') = Len(queue) + 1 /\ Len(queue) \in Nat
        /\ queue'[Len(queue) + 1] = r /\ \A k \in 1..Len(queue) : queue'[k] = queue[k]
    BY <1>1, <2>1, PutLast DEF TypeOK
  <2>3. TypeOK'
    BY <1>1, <1>3, <1>4, <2>1, <2>2, LimitAssumption DEF TypeOK
  <2>4. \A k \in 1..Len(queue') : k \in 1..Len(queue) \/ k = Len(queue) + 1
    BY <2>2
  <2>5. OwnedRow(r, "SUBMITTED", 1)'
    BY <1>2, <1>4, <1>9 DEF OwnedRow
  <2>6. QueueInv'
    <3>1. \A k \in 1..Len(queue) :
             queue[k].id # r.id /\ \E q \in Requests : q = queue'[k] /\ OwnedRow(q, "SUBMITTED", 1)'
      BY <1>1, <1>6, <2>2 DEF QueueInv, TypeOK
    <3> QED BY <1>1, <3>1, <2>2, <2>4, <2>5 DEF QueueInv
  <2> QED BY <1>1, <1>3, <1>7, <2>3, <2>6 DEF OwnerInv, DownInv
<1> QED BY <1>8, <1>9

(* A repeated submission changes no owner.                                 *)
LEMMA SubmitAgainOwner == ASSUME OwnerInv, NEW r \in Requests, SubmitAgain(r) PROVE OwnerInv'
<1>1. TypeOK /\ rows' = Kept /\ UNCHANGED <<proc, queue, worker, binding, lapsed, draining, stops>>
  BY DEF OwnerInv, SubmitAgain
<1>2. \A q \in Requests, s \in {"SUBMITTED", "WORKING"}, n \in {1, 2} :
         OwnedRow(q, s, n) => OwnedRow(q, s, n)'
  <2> SUFFICES ASSUME NEW q \in Requests, NEW s \in {"SUBMITTED", "WORKING"}, NEW n \in {1, 2},
                      OwnedRow(q, s, n)
               PROVE  OwnedRow(q, s, n)'
    OBVIOUS
  <2>1. q.id \in Ids /\ rows[q.id] # None /\ ~Ended(q.id)
    BY DEF OwnedRow, Ended, Terminal, Ids
  <2> QED BY <2>1, <1>1, PurgeKeeps DEF OwnedRow
<1>3. TypeOK'
  BY <1>1, PurgeKeeps DEF TypeOK
<1> QED BY <1>1, <1>2, <1>3 DEF OwnerInv, QueueInv, WorkerInv, DownInv, TypeOK

(* A step that writes one row leaves the owners of the other rows alone. *)
LEMMA OneRow ==
    ASSUME TypeOK, NEW j \in Ids, NEW row \in Row, rows' = [rows EXCEPT ![j] = row]
    PROVE  /\ rows' \in [Ids -> Row \cup {None}] /\ rows'[j] = row
           /\ \A q \in Requests, s \in {"SUBMITTED", "WORKING"}, n \in {1, 2} :
                 q.id # j /\ OwnedRow(q, s, n) => OwnedRow(q, s, n)'
BY DEF TypeOK, OwnedRow, Ids

(* The passage of time changes no owner.                                   *)
LEMMA AgeOwner == ASSUME OwnerInv, NEW i \in Ids, Age(i) PROVE OwnerInv'
<1> DEFINE row == [rows[i] EXCEPT !.old = TRUE]
<1>1. TypeOK /\ rows[i] \in Row /\ Ended(i)
  BY DEF OwnerInv, Age, Stored, TypeOK
<1>2. row \in Row /\ rows' = [rows EXCEPT ![i] = row]
  BY <1>1 DEF Age, Row, TypeOK
<1>3. /\ rows' \in [Ids -> Row \cup {None}]
      /\ \A q \in Requests, s \in {"SUBMITTED", "WORKING"}, n \in {1, 2} :
            q.id # i /\ OwnedRow(q, s, n) => OwnedRow(q, s, n)'
  <2> HIDE DEF row
  <2> QED BY <1>1, <1>2, OneRow
<1>4. \A q \in Requests, s \in {"SUBMITTED", "WORKING"}, n \in {1, 2} :
         OwnedRow(q, s, n) => q.id # i
  BY <1>1 DEF OwnedRow, Ended, Terminal
<1>5. UNCHANGED <<proc, queue, worker, binding, lapsed, draining, stops>>
  BY DEF Age
<1>6. TypeOK'
  BY <1>1, <1>3, <1>5 DEF TypeOK
<1> QED BY <1>1, <1>3, <1>4, <1>5, <1>6 DEF OwnerInv, QueueInv, WorkerInv, DownInv, TypeOK

(* The item that a worker takes is a submitted task, and no other owner    *)
(* has it.                                                                 *)
LEMMA TakenItem ==
    ASSUME OwnerInv, queue # <<>>
    PROVE  /\ Head(queue) = queue[1] /\ queue[1] \in Requests /\ queue[1].id \in Ids
           /\ rows[queue[1].id] \in Row /\ OwnedRow(queue[1], "SUBMITTED", 1)
           /\ \A w \in Workers : worker[w] # None => worker[w].id # queue[1].id
           /\ Tail(queue) \in Seq(Requests) /\ Len(Tail(queue)) = Len(queue) - 1
           /\ Len(queue) \in Nat \ {0}
           /\ \A k \in 1..Len(Tail(queue)) :
                 k + 1 \in 2..Len(queue) /\ Tail(queue)[k] = queue[k + 1] /\ queue[k + 1].id # queue[1].id
<1>1. TypeOK /\ QueueInv /\ WorkerInv /\ queue \in Seq(Requests)
  BY DEF OwnerInv, TypeOK
<1>2. /\ Len(queue) \in Nat \ {0} /\ Head(queue) = queue[1] /\ queue[1] \in Requests
      /\ Tail(queue) \in Seq(Requests) /\ Len(Tail(queue)) = Len(queue) - 1
      /\ \A k \in 1..Len(Tail(queue)) : k + 1 \in 2..Len(queue) /\ Tail(queue)[k] = queue[k + 1]
  BY <1>1, TakeFirst
<1>3. queue[1].id \in Ids /\ OwnedRow(queue[1], "SUBMITTED", 1)
  BY <1>1, <1>2 DEF Ids, QueueInv
<1>4. rows[queue[1].id] \in Row
  BY <1>1, <1>3 DEF TypeOK, OwnedRow
<1>5. \A w \in Workers : worker[w] # None => worker[w].id # queue[1].id
  BY <1>1, <1>3 DEF WorkerInv, OwnedRow
<1>6. \A k \in 2..Len(queue) : queue[k].id # queue[1].id
  BY <1>1, <1>2 DEF QueueInv
<1> QED BY <1>2, <1>3, <1>4, <1>5, <1>6

(* The row that a taken item leaves behind: finished, or working with its  *)
(* second trace event.                                                     *)
LEMMA TakeRow ==
    ASSUME OwnerInv, NEW w \in Workers, Take(w)
    PROVE  \E row \in Row :
             /\ rows' = [rows EXCEPT ![queue[1].id] = row] /\ row.req = queue[1]
             /\ \/ worker' = worker /\ row.state = "REJECTED"
                \/ /\ worker' = [worker EXCEPT ![w] = queue[1]]
                   /\ row.state = "WORKING" /\ row.traces = 2
<1> DEFINE r == queue[1]
           old == rows[r.id]
<1>1. TypeOK /\ queue # <<>>
  BY DEF OwnerInv, Take
<1>2. /\ Head(queue) = r /\ r.id \in Ids /\ old \in Row /\ old.req = r
      /\ old.state = "SUBMITTED" /\ old.traces = 1
  BY <1>1, TakenItem DEF OwnedRow
<1>3. rows \in [Ids -> Row \cup {None}] /\ MaxTrace \in Nat /\ MaxTrace >= 2
  BY <1>1, LimitAssumption DEF TypeOK
<1>4. CASE proc = "drain"
  <2> DEFINE row == [old EXCEPT !.state = "REJECTED", !.old = FALSE]
  <2>1. rows' = [rows EXCEPT ![r.id] = row] /\ worker' = worker
    BY <1>2, <1>3, <1>4 DEF Take
  <2>2. row \in Row /\ row.req = r /\ row.state = "REJECTED"
    BY <1>2 DEF Row, State, Terminal
  <2> HIDE DEF row
  <2> QED BY <2>1, <2>2
<1>5. CASE proc # "drain" /\ ~Matches(r)
  <2> DEFINE row == Settle(old, "REJECTED")
  <2>1. rows' = [rows EXCEPT ![r.id] = row] /\ worker' = worker
    BY <1>2, <1>5 DEF Take
  <2>2. row \in Row /\ row.req = r /\ row.state = "REJECTED"
    <3>1. "REJECTED" \in State /\ old.traces < MaxTrace
      BY <1>2, <1>3 DEF State, Terminal
    <3> HIDE DEF r, old
    <3> QED BY <1>2, <3>1, SettledRow
  <2> HIDE DEF row
  <2> QED BY <2>1, <2>2
<1>6. CASE proc # "drain" /\ Matches(r)
  <2> DEFINE row == [old EXCEPT !.state = "WORKING", !.traces = @ + 1]
  <2>1. rows' = [rows EXCEPT ![r.id] = row] /\ worker' = [worker EXCEPT ![w] = r]
    BY <1>2, <1>3, <1>6 DEF Take
  <2>2. old.traces + 1 = 2 /\ 2 \in 0..MaxTrace
    BY <1>2, <1>3
  <2>3. row \in Row /\ row.req = r /\ row.state = "WORKING" /\ row.traces = 2
    BY <1>2, <2>2 DEF Row, State
  <2> HIDE DEF row
  <2> QED BY <2>1, <2>3
<1> QED BY <1>4, <1>5, <1>6

(* A worker takes a task off the queue.                                    *)
LEMMA TakeOwner == ASSUME OwnerInv, NEW w \in Workers, Take(w) PROVE OwnerInv'
<1>1. /\ TypeOK /\ QueueInv /\ WorkerInv /\ queue # <<>> /\ proc # "down" /\ worker[w] = None
      /\ queue' = Tail(queue) /\ UNCHANGED <<proc, binding, lapsed, draining, stops>>
  BY DEF OwnerInv, Take
<1>2. PICK row \in Row :
         /\ rows' = [rows EXCEPT ![queue[1].id] = row] /\ row.req = queue[1]
         /\ \/ worker' = worker /\ row.state = "REJECTED"
            \/ /\ worker' = [worker EXCEPT ![w] = queue[1]]
               /\ row.state = "WORKING" /\ row.traces = 2
  BY TakeRow
<1>3. /\ queue[1] \in Requests /\ queue[1].id \in Ids
      /\ \A v \in Workers : worker[v] # None => worker[v].id # queue[1].id
      /\ queue' \in Seq(Requests) /\ Len(queue') = Len(queue) - 1 /\ Len(queue) \in Nat \ {0}
      /\ \A k \in 1..Len(queue') :
            k + 1 \in 2..Len(queue) /\ queue'[k] = queue[k + 1] /\ queue[k + 1].id # queue[1].id
  BY <1>1, TakenItem
<1>4. /\ rows' \in [Ids -> Row \cup {None}] /\ rows'[queue[1].id] = row
      /\ \A q \in Requests, s \in {"SUBMITTED", "WORKING"}, n \in {1, 2} :
            q.id # queue[1].id /\ OwnedRow(q, s, n) => OwnedRow(q, s, n)'
  BY <1>1, <1>2, <1>3, OneRow
<1>5. worker' \in [Workers -> Requests \cup {None}]
  BY <1>1, <1>2, <1>3 DEF TypeOK
<1>6. TypeOK'
  BY <1>1, <1>3, <1>4, <1>5, LimitAssumption DEF TypeOK
<1>7. QueueInv'
  <2>1. \A k \in 1..Len(queue') :
           \E q \in Requests : q = queue'[k] /\ q = queue[k + 1] /\ OwnedRow(q, "SUBMITTED", 1)'
    BY <1>1, <1>3, <1>4 DEF QueueInv, TypeOK
  <2>2. \A k, l \in 1..Len(queue') : queue'[k].id = queue'[l].id => k = l
    BY <1>1, <1>3 DEF QueueInv
  <2> QED BY <2>1, <2>2 DEF QueueInv
<1>8. WorkerInv'
  <2>1. \A v \in Workers : worker[v] # None =>
           \E q \in Requests : q = worker[v] /\ q.id # queue[1].id /\ OwnedRow(q, "WORKING", 2)'
    BY <1>1, <1>3, <1>4 DEF WorkerInv, TypeOK
  <2>2. CASE worker' = worker
    BY <1>1, <2>1, <2>2 DEF WorkerInv
  <2>3. CASE worker' = [worker EXCEPT ![w] = queue[1]] /\ row.state = "WORKING" /\ row.traces = 2
    <3>1. \A v \in Workers : worker'[v] = IF v = w THEN queue[1] ELSE worker[v]
      BY <1>1, <2>3 DEF TypeOK
    <3>2. queue[1] # None /\ rows'[queue[1].id] # None
      BY <1>2, <1>3, <1>4, NoneAssumption
    <3>3. \A v \in Workers : worker'[v] # None =>
             \E q \in Requests : q = worker'[v] /\ OwnedRow(q, "WORKING", 2)'
      BY <1>2, <1>3, <1>4, <2>1, <2>3, <3>1, <3>2 DEF OwnedRow
    <3>4. \A u, v \in Workers :
             worker'[u] # None /\ worker'[v] # None /\ worker'[u].id = worker'[v].id => u = v
      BY <1>1, <1>3, <3>1 DEF WorkerInv
    <3> QED BY <3>3, <3>4 DEF WorkerInv
  <2> QED BY <1>2, <2>2, <2>3
<1> QED BY <1>1, <1>6, <1>7, <1>8 DEF OwnerInv, DownInv

(* A worker that is done with its graph has written one row of its own. *)
LEMMA FreeOwner ==
    ASSUME OwnerInv, NEW w \in Workers, worker[w] # None, proc # "down",
           NEW row \in Row, rows' = [rows EXCEPT ![worker[w].id] = row],
           worker' = [worker EXCEPT ![w] = None],
           UNCHANGED <<proc, queue, binding, lapsed, draining, stops>>
    PROVE  OwnerInv'
<1>1. TypeOK /\ QueueInv /\ WorkerInv /\ worker[w] \in Requests /\ worker[w].id \in Ids
  BY DEF OwnerInv, TypeOK, Ids
<1>2. /\ rows' \in [Ids -> Row \cup {None}]
      /\ \A q \in Requests, s \in {"SUBMITTED", "WORKING"}, n \in {1, 2} :
            q.id # worker[w].id /\ OwnedRow(q, s, n) => OwnedRow(q, s, n)'
  BY <1>1, OneRow
<1>3. \A v \in Workers : worker'[v] = IF v = w THEN None ELSE worker[v]
  BY <1>1 DEF TypeOK
<1>4. TypeOK'
  BY <1>1, <1>2 DEF TypeOK
<1>5. QueueInv'
  <2>1. \A k \in 1..Len(queue) : queue[k].id # worker[w].id
    BY <1>1 DEF QueueInv, WorkerInv, OwnedRow
  <2> QED BY <1>1, <1>2, <2>1 DEF QueueInv, TypeOK
<1>6. WorkerInv'
  <2>1. \A v \in Workers : worker'[v] # None => worker'[v] = worker[v] /\ worker[v].id # worker[w].id
    BY <1>1, <1>3 DEF WorkerInv
  <2>2. \A v \in Workers : worker'[v] # None =>
           \E q \in Requests : q = worker'[v] /\ OwnedRow(q, "WORKING", 2)'
    BY <1>1, <1>2, <2>1 DEF WorkerInv, TypeOK
  <2> QED BY <1>1, <2>1, <2>2 DEF WorkerInv
<1> QED BY <1>4, <1>5, <1>6 DEF OwnerInv, DownInv

(* What a graph leaves behind: a row of the same request, an artifact only *)
(* under the binding of its input, and an outcome if the trace has room    *)
(* for it (_worker, complete).                                             *)
LEMMA GraphRow ==
    ASSUME OwnerInv, NEW w \in Workers, GraphFails(w) \/ \E n \in GraphCodes : GraphEnds(w, n)
    PROVE  /\ proc # "down" /\ worker[w] # None /\ worker' = [worker EXCEPT ![w] = None]
           /\ UNCHANGED <<proc, queue, binding, lapsed, draining, stops>>
           /\ \E row \in Row :
                /\ rows' = [rows EXCEPT ![worker[w].id] = row] /\ row.req = worker[w]
                /\ row.state = "COMPLETED" => Matches(worker[w])
                /\ TraceRoom => row.state \in Terminal
<1> DEFINE r == worker[w]
           old == rows[r.id]
<1>1. TypeOK /\ WorkerInv /\ MaxTrace \in Nat
  BY LimitAssumption DEF OwnerInv
<1>2. /\ proc # "down" /\ r # None /\ worker' = [worker EXCEPT ![w] = None]
      /\ UNCHANGED <<proc, queue, binding, lapsed, draining, stops>>
  BY DEF GraphFails, GraphEnds
<1>3. /\ r.id \in Ids /\ old \in Row /\ old.req = r /\ old.state = "WORKING" /\ old.traces = 2
  BY <1>1, <1>2 DEF WorkerInv, OwnedRow, TypeOK, Ids
<1>4. ASSUME NEW s \in {"FAILED", "REJECTED"}
      PROVE  /\ Settle(old, s) \in Row /\ Settle(old, s).req = r
             /\ Settle(old, s).state # "COMPLETED"
             /\ TraceRoom => Settle(old, s).state \in Terminal
  <2>1. s \in State /\ s \in Terminal /\ s # "COMPLETED"
    BY DEF State, Terminal
  <2> HIDE DEF r, old
  <2>2. TraceRoom => old.traces < MaxTrace
    BY <1>1, <1>3 DEF TraceRoom
  <2> QED BY <1>3, <2>1, <2>2, SettledRow
<1>5. CASE GraphFails(w)
  <2>1. PICK s \in {"FAILED", "REJECTED"} : rows' = [rows EXCEPT ![r.id] = Settle(old, s)]
    BY <1>5 DEF GraphFails
  <2>2. /\ Settle(old, s) \in Row /\ Settle(old, s).req = r
        /\ Settle(old, s).state # "COMPLETED"
        /\ TraceRoom => Settle(old, s).state \in Terminal
    BY <1>4
  <2> QED BY <1>2, <2>1, <2>2
<1>6. ASSUME NEW n \in GraphCodes, GraphEnds(w, n), Matches(r)
      PROVE  \E row \in Row :
                /\ rows' = [rows EXCEPT ![r.id] = row] /\ row.req = r
                /\ row.state = "COMPLETED" => Matches(r)
                /\ TraceRoom => row.state \in Terminal
  <2>1. rows' = [rows EXCEPT ![r.id] = Completed(old, n)]
    BY <1>6 DEF GraphEnds
  <2>2. /\ Completed(old, n) \in Row /\ Completed(old, n).req = r
        /\ TraceRoom => Completed(old, n).state \in Terminal
    <3> HIDE DEF r, old
    <3> QED BY <1>3, CompletedRow DEF Terminal
  <2> QED BY <1>6, <2>1, <2>2
<1>7. ASSUME NEW n \in GraphCodes, GraphEnds(w, n), ~Matches(r)
      PROVE  \E row \in Row :
                /\ rows' = [rows EXCEPT ![r.id] = row] /\ row.req = r
                /\ row.state = "COMPLETED" => Matches(r)
                /\ TraceRoom => row.state \in Terminal
  <2>1. rows' = [rows EXCEPT ![r.id] = Settle(old, "REJECTED")]
    BY <1>7 DEF GraphEnds
  <2> QED BY <1>4, <2>1
<1> QED BY <1>2, <1>5, <1>6, <1>7

(* The end of the graph, and its failure, free the worker.                 *)
LEMMA GraphOwner ==
    ASSUME OwnerInv, NEW w \in Workers, GraphFails(w) \/ \E n \in GraphCodes : GraphEnds(w, n)
    PROVE  OwnerInv'
<1>1. /\ proc # "down" /\ worker[w] # None /\ worker' = [worker EXCEPT ![w] = None]
      /\ UNCHANGED <<proc, queue, binding, lapsed, draining, stops>>
      /\ \E row \in Row : rows' = [rows EXCEPT ![worker[w].id] = row]
  BY GraphRow
<1> QED BY <1>1, FreeOwner

(* Reload and Lapse touch neither a row nor an owner. *)
LEMMA BindingOwner ==
    ASSUME OwnerInv, (\E b \in Binding \cup {None} : Reload(b)) \/ (\E g \in Gens : Lapse(g))
    PROVE  OwnerInv'
<1>1. TypeOK
  BY DEF OwnerInv
<1>2. ASSUME NEW b \in Binding \cup {None}, Reload(b) PROVE OwnerInv'
  <2>1. binding' \in Binding \cup {None} /\ binding' # None /\ draining' \in BOOLEAN
    BY <1>1, <1>2 DEF TypeOK, Reload, Loads
  <2>2. UNCHANGED <<rows, proc, queue, worker, lapsed, stops>>
    BY <1>2 DEF Reload
  <2>3. TypeOK'
    BY <1>1, <2>1, <2>2 DEF TypeOK
  <2> QED BY <2>2, <2>3, QuietOwner
<1>3. ASSUME NEW g \in Gens, Lapse(g) PROVE OwnerInv'
  <2>1. UNCHANGED <<rows, proc, queue, worker, binding, draining, stops>> /\ lapsed' = lapsed \cup {g}
    BY <1>3 DEF Lapse
  <2>2. TypeOK'
    BY <1>1, <2>1 DEF TypeOK
  <2> QED BY <2>1, <2>2, QuietOwner
<1> QED BY <1>2, <1>3

(* A stop, a drain and a crash leave no owner behind. *)
LEMMA StopOwner ==
    ASSUME OwnerInv, RequestStop \/ SiteStopped \/ Joined \/ GraceEnds \/ Crash
    PROVE  OwnerInv'
<1>1. TypeOK
  BY DEF OwnerInv
<1>2. CASE RequestStop \/ SiteStopped
  <2>1. UNCHANGED <<rows, queue, worker, binding, lapsed>> /\ proc' \in {"stop", "drain"}
        /\ proc # "down" /\ draining' \in BOOLEAN
    BY <1>2 DEF RequestStop, SiteStopped
  <2>2. stops' \in 0..MaxCrash
    BY <1>1, <1>2, LimitAssumption DEF RequestStop, SiteStopped, TypeOK
  <2>3. TypeOK'
    BY <1>1, <2>1, <2>2 DEF TypeOK
  <2> QED BY <2>1, <2>3, QuietOwner
<1>3. CASE Joined \/ GraceEnds \/ Crash
  <2>1. /\ proc' = "down" /\ queue' = <<>> /\ worker' = Idle /\ binding' = None
        /\ draining' = FALSE /\ UNCHANGED lapsed
    BY <1>3 DEF Joined, GraceEnds, Crash
  <2>2. stops' \in 0..MaxCrash
    <3>1. stops' = stops \/ (stops < MaxCrash /\ stops' = stops + 1)
      BY <1>3 DEF Joined, GraceEnds, Crash
    <3>2. stops \in 0..MaxCrash /\ MaxCrash \in Nat
      BY <1>1, LimitAssumption DEF TypeOK
    <3> QED BY <3>1, <3>2
  <2>3. rows' \in [Ids -> Row \cup {None}]
    <3>1. CASE Joined \/ Crash
      BY <1>1, <3>1 DEF Joined, Crash, TypeOK
    <3>2. CASE GraceEnds
      <4> DEFINE settled(i) == IF InQueue(i)
                               THEN [rows[i] EXCEPT !.state = "REJECTED", !.old = FALSE]
                               ELSE rows[i]
      <4>1. ASSUME NEW i \in Ids PROVE settled(i) \in Row \cup {None}
        <5>1. CASE InQueue(i)
          <6>1. rows[i] \in Row
            BY <1>1, <5>1 DEF InQueue, OwnerInv, QueueInv, OwnedRow, TypeOK
          <6> QED BY <5>1, <6>1 DEF Row, State, Terminal
        <5> QED BY <1>1, <5>1 DEF TypeOK
      <4>2. rows' = [i \in Ids |-> settled(i)]
        BY <3>2 DEF GraceEnds
      <4> QED BY <4>1, <4>2
    <3> QED BY <1>3, <3>1, <3>2
  <2>4. queue' \in Seq(Requests) /\ Len(queue') = 0 /\ Len(queue') <= QueueDepth
    BY <2>1, EmptySeq, LimitAssumption
  <2>5. TypeOK'
    BY <1>1, <2>1, <2>2, <2>3, <2>4 DEF TypeOK, Idle
  <2> QED BY <2>1, <2>4, <2>5 DEF OwnerInv, QueueInv, WorkerInv, DownInv, Idle
<1> QED BY <1>2, <1>3

(* Every step keeps the ownership invariant.                               *)
LEMMA NextOwner == ASSUME OwnerInv, [Next]_vars PROVE OwnerInv'
<1>1. CASE UNCHANGED vars
  <2>1. TypeOK'
    BY <1>1 DEF OwnerInv, TypeOK, vars
  <2> QED BY <1>1, <2>1, QuietOwner DEF vars
<1>2. CASE Next
  BY <1>2, StartOwner, SubmitNewOwner, SubmitAgainOwner, AgeOwner, TakeOwner, GraphOwner,
     BindingOwner, StopOwner DEF Next, StartStep, WorkerStep
<1> QED BY <1>1, <1>2

(* The variables keep their types, the queue its bound, and every owner    *)
(* holds the stored request of an unfinished task that nobody else holds,  *)
(* whatever the trace limit (AnalysisService.submit, _worker).             *)
THEOREM Ownership == Spec => []OwnerInv
<1>1. Init => OwnerInv
  BY InitOwner
<1>2. OwnerInv /\ [Next]_vars => OwnerInv'
  BY NextOwner
<1> QED BY <1>1, <1>2, PTL DEF Spec
-----------------------------------------------------------------------------
(* An unfinished row keeps an owner: what Next does to it.  Each lemma is  *)
(* about the rows that are unfinished after the step.                      *)
Unfinished(i) == i \in Stored /\ ~Ended(i)

(* Initially nothing is stored.                                            *)
LEMMA InitForgotten == Init => NoneForgotten
BY DEF Init, NoneForgotten

(* A start leaves no unfinished row (_recover_incomplete). *)
LEMMA StartForgotten == ASSUME OwnerInv, NEW b \in Binding, Start(b) PROVE NoneForgotten'
<1>1. ASSUME NEW i \in Ids PROVE rows'[i] = None \/ rows'[i].state \in Terminal
  <2>1. rows'[i] = IF i \in Stored /\ ~Ended(i)
                   THEN [rows[i] EXCEPT !.state = "FAILED", !.old = FALSE] ELSE rows[i]
    BY DEF Start, RecoverIncomplete
  <2>2. rows[i] \in Row \cup {None}
    BY DEF OwnerInv, TypeOK
  <2> QED BY <2>1, <2>2 DEF Stored, Ended, Row, Terminal
<1> QED BY <1>1 DEF NoneForgotten, Stored, Ended

(* A submission queues what it stores.                                     *)
LEMMA SubmitForgotten ==
    ASSUME OwnerInv, NoneForgotten, NEW r \in Requests, SubmitNew(r) \/ SubmitAgain(r)
    PROVE  NoneForgotten'
<1> SUFFICES ASSUME NEW i \in Ids, Unfinished(i)' PROVE Owned(i)'
  BY DEF NoneForgotten, Unfinished
<1>1. proc = "up" /\ queue \in Seq(Requests) /\ UNCHANGED <<proc, worker>>
  BY DEF SubmitNew, SubmitAgain, Admits, Insert, OwnerInv, TypeOK
<1>2. r.id \in Ids /\ Kept \in [Ids -> Row \cup {None}]
  BY PurgeKeeps DEF Ids
<1>3. /\ Len(queue) \in Nat /\ Len(Append(queue, r)) = Len(queue) + 1
      /\ Append(queue, r)[Len(queue) + 1] = r
      /\ \A k \in 1..Len(queue) : Append(queue, r)[k] = queue[k]
  BY <1>1, PutLast
<1>4. CASE rows'[i] = Kept[i] /\ queue' \in {queue, Append(queue, r)}
  <2>1. Unfinished(i)
    BY <1>4 DEF Unfinished, Stored, Ended, Kept
  <2>2. CASE \E w \in Workers : worker[w] # None /\ worker[w].id = i
    BY <1>1, <2>2 DEF Owned
  <2>3. CASE \E k \in 1..Len(queue) : queue[k].id = i
    <3>1. PICK k \in 1..Len(queue) : queue[k].id = i
      BY <2>3
    <3>2. k \in 1..Len(queue') /\ queue'[k] = queue[k]
      BY <1>3, <1>4, <3>1
    <3> QED BY <3>1, <3>2 DEF Owned
  <2> QED BY <1>1, <2>1, <2>2, <2>3 DEF NoneForgotten, Unfinished, Owned
<1>5. CASE SubmitAgain(r)
  BY <1>4, <1>5 DEF SubmitAgain
<1>6. CASE SubmitNew(r) /\ i # r.id
  BY <1>2, <1>4, <1>6 DEF SubmitNew, Insert
<1>7. CASE SubmitNew(r) /\ i = r.id
  <2>1. rows'[i] = [req |-> r, state |-> IF Full THEN "REJECTED" ELSE "SUBMITTED",
                    traces |-> IF Full THEN 2 ELSE 1, old |-> FALSE]
    BY <1>2, <1>7 DEF SubmitNew, Insert
  <2>2. ~Full
    BY <2>1 DEF Unfinished, Ended, Terminal
  <2>3. queue' = Append(queue, r)
    BY <1>7, <2>2 DEF SubmitNew, Insert
  <2>4. Len(queue') = Len(queue) + 1 /\ queue'[Len(queue) + 1] = r /\ Len(queue) + 1 \in 1..Len(queue')
    BY <1>3, <2>3
  <2> QED BY <1>7, <2>4 DEF Owned
<1> QED BY <1>5, <1>6, <1>7

(* Retention, reloads and expiries leave unfinished rows and owners alone. *)
LEMMA QuietForgotten ==
    ASSUME OwnerInv, NoneForgotten, UNCHANGED <<queue, worker>>, proc # "down",
           \A i \in Ids : Unfinished(i)' => Unfinished(i)
    PROVE  NoneForgotten'
BY DEF NoneForgotten, Unfinished, Owned

(* The passage of time forgets nothing.                                    *)
LEMMA AgeForgotten == ASSUME OwnerInv, NoneForgotten, NEW i \in Ids, Age(i) PROVE NoneForgotten'
<1>1. rows \in [Ids -> Row \cup {None}] /\ rows[i] \in Row /\ Ended(i)
  BY DEF OwnerInv, TypeOK, Age, Stored
<1>2. rows' = [rows EXCEPT ![i].old = TRUE] /\ UNCHANGED <<proc, queue, worker>>
  BY DEF Age
<1>3. \A j \in Ids : Unfinished(j)' => Unfinished(j)
  <2> SUFFICES ASSUME NEW j \in Ids, Unfinished(j)' PROVE Unfinished(j)
    OBVIOUS
  <2>1. j # i => rows'[j] = rows[j]
    BY <1>1, <1>2
  <2>2. rows'[i].state = rows[i].state
    BY <1>1, <1>2 DEF Row
  <2> QED BY <1>1, <2>1, <2>2 DEF Unfinished, Stored, Ended
<1> QED BY <1>2, <1>3, QuietForgotten DEF NoneForgotten

(* A taken item is finished or the worker's. *)
LEMMA TakeForgotten ==
    ASSUME OwnerInv, NoneForgotten, NEW w \in Workers, Take(w) PROVE NoneForgotten'
<1>1. /\ TypeOK /\ queue # <<>> /\ proc # "down" /\ worker[w] = None /\ queue' = Tail(queue)
  BY DEF OwnerInv, Take
<1>2. PICK row \in Row :
         /\ rows' = [rows EXCEPT ![queue[1].id] = row] /\ row.req = queue[1]
         /\ \/ worker' = worker /\ row.state = "REJECTED"
            \/ /\ worker' = [worker EXCEPT ![w] = queue[1]]
               /\ row.state = "WORKING" /\ row.traces = 2
  BY TakeRow
<1>3. /\ queue[1] \in Requests /\ queue[1].id \in Ids /\ Len(queue) \in Nat \ {0}
      /\ Len(queue') = Len(queue) - 1 /\ \A k \in 1..Len(queue') : queue'[k] = queue[k + 1]
  BY <1>1, TakenItem
<1>4. queue[1] # None
  BY <1>3, NoneAssumption
<1> SUFFICES ASSUME NEW i \in Ids, Unfinished(i)' PROVE Owned(i)'
  BY DEF NoneForgotten, Unfinished
<1>5. CASE i = queue[1].id
  <2>1. rows'[i] = row
    BY <1>1, <1>2, <1>3, <1>5 DEF TypeOK
  <2>2. worker' = [worker EXCEPT ![w] = queue[1]]
    BY <1>2, <2>1 DEF Unfinished, Ended, Terminal
  <2>3. worker'[w] = queue[1]
    BY <1>1, <2>2 DEF TypeOK
  <2> QED BY <1>4, <1>5, <2>3 DEF Owned
<1>6. CASE i # queue[1].id
  <2>1. rows'[i] = rows[i]
    BY <1>1, <1>2, <1>3, <1>6 DEF TypeOK
  <2>2. Owned(i)
    BY <1>1, <2>1 DEF Unfinished, Stored, Ended, NoneForgotten
  <2>3. CASE \E v \in Workers : worker[v] # None /\ worker[v].id = i
    <3>1. PICK v \in Workers : worker[v] # None /\ worker[v].id = i
      BY <2>3
    <3>2. worker'[v] = worker[v]
      BY <1>1, <1>2, <3>1 DEF TypeOK
    <3> QED BY <3>1, <3>2 DEF Owned
  <2>4. CASE \E k \in 1..Len(queue) : queue[k].id = i
    <3>1. PICK k \in 1..Len(queue) : queue[k].id = i
      BY <2>4
    <3>2. k # 1 /\ k - 1 \in 1..Len(queue') /\ (k - 1) + 1 = k
      BY <1>3, <1>6, <3>1
    <3>3. queue'[k - 1].id = i
      BY <1>3, <3>1, <3>2
    <3> QED BY <3>2, <3>3 DEF Owned
  <2> QED BY <2>2, <2>3, <2>4 DEF Owned
<1> QED BY <1>5, <1>6

(* With room in the trace the row of a graph that is over is finished. *)
LEMMA GraphForgotten ==
    ASSUME OwnerInv, NoneForgotten, TraceRoom, NEW w \in Workers,
           GraphFails(w) \/ \E n \in GraphCodes : GraphEnds(w, n)
    PROVE  NoneForgotten'
<1>1. /\ proc # "down" /\ worker[w] # None /\ worker' = [worker EXCEPT ![w] = None]
      /\ UNCHANGED <<proc, queue>>
  BY GraphRow
<1>2. PICK row \in Row : rows' = [rows EXCEPT ![worker[w].id] = row] /\ row.state \in Terminal
  BY GraphRow
<1>3. TypeOK /\ worker[w].id \in Ids
  BY <1>1 DEF OwnerInv, TypeOK, Ids
<1> SUFFICES ASSUME NEW i \in Ids, Unfinished(i)' PROVE Owned(i)'
  BY DEF NoneForgotten, Unfinished
<1>4. i # worker[w].id
  BY <1>2, <1>3 DEF Unfinished, Ended, TypeOK
<1>5. rows'[i] = rows[i]
  BY <1>2, <1>3, <1>4 DEF TypeOK
<1>6. Owned(i)
  BY <1>1, <1>5 DEF Unfinished, Stored, Ended, NoneForgotten
<1>7. \A v \in Workers : v # w => worker'[v] = worker[v]
  BY <1>1, <1>3 DEF TypeOK
<1> QED BY <1>1, <1>4, <1>6, <1>7 DEF Owned

(* No step forgets an unfinished task.                                     *)
LEMMA NextForgotten ==
    ASSUME OwnerInv, NoneForgotten, TraceRoom, [Next]_vars PROVE NoneForgotten'
<1>1. CASE \/ UNCHANGED vars \/ RequestStop \/ SiteStopped
           \/ \E b \in Binding \cup {None} : Reload(b)
           \/ \E g \in Gens : Lapse(g)
  <2>1. UNCHANGED <<rows, queue, worker>> /\ (proc' # "down" => proc # "down")
    BY <1>1 DEF vars, Reload, Lapse, RequestStop, SiteStopped
  <2> QED BY <2>1 DEF NoneForgotten, Stored, Ended, Owned
<1>2. CASE Joined \/ GraceEnds \/ Crash
  BY <1>2 DEF Joined, GraceEnds, Crash, NoneForgotten
<1>3. ASSUME NEW i \in Ids, Age(i) PROVE NoneForgotten'
  BY <1>3, AgeForgotten
<1>4. ASSUME NEW w \in Workers, WorkerStep(w) PROVE NoneForgotten'
  BY <1>4, TakeForgotten, GraphForgotten DEF WorkerStep
<1>5. ASSUME NEW r \in Requests, SubmitNew(r) \/ SubmitAgain(r) PROVE NoneForgotten'
  BY <1>5, SubmitForgotten
<1>6. CASE StartStep
  BY <1>6, StartForgotten DEF StartStep
<1> QED BY <1>1, <1>2, <1>3, <1>4, <1>5, <1>6 DEF Next

(* The counts of OneOwner from the distinct owners. *)
LEMMA OwnersCount == ASSUME OwnerInv, NoneForgotten PROVE OneOwner
<1> SUFFICES ASSUME proc # "down", NEW i \in Ids
             PROVE  LET q  == {k \in DOMAIN queue : queue[k].id = i}
                        ws == {w \in Workers : worker[w] # None /\ worker[w].id = i}
                    IN /\ (i \in Stored /\ ~Ended(i)) <=> (Cardinality(q) + Cardinality(ws) = 1)
                       /\ Cardinality(q) + Cardinality(ws) <= 1
                       /\ \A k \in q : rows[i].req = queue[k] /\ rows[i].state = "SUBMITTED"
                       /\ \A w \in ws : rows[i].req = worker[w] /\ rows[i].state = "WORKING"
  BY DEF OneOwner
<1> DEFINE q  == {k \in DOMAIN queue : queue[k].id = i}
           ws == {w \in Workers : worker[w] # None /\ worker[w].id = i}
<1>1. TypeOK /\ QueueInv /\ WorkerInv /\ DOMAIN queue = 1..Len(queue)
  BY LenProperties DEF OwnerInv, TypeOK
<1>2. \A k \in q : rows[i] # None /\ rows[i].req = queue[k] /\ rows[i].state = "SUBMITTED"
  BY <1>1 DEF QueueInv, OwnedRow
<1>3. \A w \in ws : rows[i] # None /\ rows[i].req = worker[w] /\ rows[i].state = "WORKING"
  BY <1>1 DEF WorkerInv, OwnedRow
<1>4. q = {} \/ \E k \in q : q = {k}
  BY <1>1 DEF QueueInv
<1>5. ws = {} \/ \E w \in ws : ws = {w}
  BY <1>1 DEF WorkerInv
<1>6. (i \in Stored /\ ~Ended(i)) <=> (q # {} \/ ws # {})
  <2>1. i \in Stored /\ ~Ended(i) => q # {} \/ ws # {}
    BY <1>1 DEF NoneForgotten, Owned
  <2>2. q # {} \/ ws # {} => i \in Stored /\ ~Ended(i)
    BY <1>2, <1>3 DEF Stored, Ended, Terminal
  <2> QED BY <2>1, <2>2
<1>7. ~(q # {} /\ ws # {})
  BY <1>2, <1>3
<1>8. Cardinality({}) = 0 /\ \A x : Cardinality({x}) = 1
  BY FS_EmptySet, FS_Singleton
<1> HIDE DEF q, ws
<1>9. /\ q = {} => Cardinality(q) = 0
      /\ q # {} => Cardinality(q) = 1
      /\ ws = {} => Cardinality(ws) = 0
      /\ ws # {} => Cardinality(ws) = 1
  BY <1>4, <1>5, <1>8
<1>10. /\ (i \in Stored /\ ~Ended(i)) <=> (Cardinality(q) + Cardinality(ws) = 1)
       /\ Cardinality(q) + Cardinality(ws) <= 1
  BY <1>6, <1>7, <1>9
<1> QED BY <1>2, <1>3, <1>10 DEF q, ws

(* With room in the trace for a full graph, every unfinished task of a     *)
(* running service has exactly one owner, the queue or a worker, and the   *)
(* owner's request is the stored one: no task is run twice and none is     *)
(* forgotten (AnalysisService.submit, _worker, drain_and_close).           *)
THEOREM EveryTaskOwned == ASSUME TraceRoom PROVE Spec => []TaskInv
<1>1. Init => OwnerInv /\ NoneForgotten
  BY InitOwner, InitForgotten
<1>2. OwnerInv /\ NoneForgotten /\ [Next]_vars => OwnerInv' /\ NoneForgotten'
  BY NextOwner, NextForgotten
<1>3. OwnerInv /\ NoneForgotten => TaskInv
  BY OwnersCount DEF TaskInv, OwnerInv
<1> QED BY <1>1, <1>2, <1>3, PTL DEF Spec
-----------------------------------------------------------------------------
(* What a step may do to the row of task i: nothing, purge or replace it   *)
(* once it is finished and old, age it, move it on while it is unfinished; *)
(* and an artifact appears only under the binding of its request.          *)
RowStep(i) ==
    \/ rows'[i] = rows[i]
    \/ /\ rows[i] = None \/ (Ended(i) /\ rows[i].old)
       /\ rows'[i] = None \/ rows'[i].state # "COMPLETED"
    \/ /\ rows[i] # None /\ Ended(i) /\ rows'[i] # None
       /\ rows'[i].req = rows[i].req /\ rows'[i].state = rows[i].state
    \/ /\ rows[i] # None /\ ~Ended(i) /\ rows'[i] # None
       /\ rows'[i].state = "COMPLETED" => Matches(rows'[i].req)

(* Every step moves a row as RowStep allows.                               *)
LEMMA NextRowStep == ASSUME OwnerInv, Next, NEW i \in Ids PROVE RowStep(i)
<1>1. TypeOK /\ rows[i] \in Row \cup {None} /\ rows \in [Ids -> Row \cup {None}]
  BY DEF OwnerInv, TypeOK
<1>2. CASE UNCHANGED rows
  BY <1>2 DEF RowStep
<1>3. CASE StartStep
  <2>1. rows'[i] = IF i \in Stored /\ ~Ended(i)
                   THEN [rows[i] EXCEPT !.state = "FAILED", !.old = FALSE] ELSE rows[i]
    BY <1>3 DEF StartStep, Start, RecoverIncomplete
  <2>2. CASE i \in Stored /\ ~Ended(i)
    <3>1. rows[i] \in Row /\ rows[i] # None
      BY <1>1, <2>2 DEF Stored
    <3>2. rows'[i] \in Row /\ rows'[i].state = "FAILED"
      BY <2>1, <2>2, <3>1 DEF Row, State, Terminal
    <3> QED BY <2>2, <3>1, <3>2, NoneAssumption DEF RowStep
  <2> QED BY <2>1, <2>2 DEF RowStep
<1>4. ASSUME NEW r \in Requests, SubmitNew(r) \/ SubmitAgain(r) PROVE RowStep(i)
  <2>1. (Kept[i] = None /\ Purged(i)) \/ Kept[i] = rows[i]
    BY DEF Kept
  <2>2. r.id \in Ids /\ Kept \in [Ids -> Row \cup {None}]
    BY PurgeKeeps DEF Ids
  <2>3. CASE rows'[i] = Kept[i]
    BY <2>1, <2>3 DEF Purged, RowStep
  <2>4. CASE SubmitNew(r) /\ i = r.id
    <3>1. rows'[i].state # "COMPLETED"
      BY <2>2, <2>4 DEF SubmitNew, Insert
    <3>2. Purged(i)
      BY <2>4 DEF SubmitNew, Hits
    <3> QED BY <3>1, <3>2 DEF Purged, RowStep
  <2> QED BY <1>4, <2>2, <2>3, <2>4 DEF SubmitNew, SubmitAgain, Insert
<1>5. ASSUME NEW j \in Ids, Age(j) PROVE RowStep(i)
  <2>1. rows[j] \in Row /\ Ended(j) /\ rows[j] # None /\ rows' = [rows EXCEPT ![j].old = TRUE]
    BY <1>1, <1>5 DEF Age, Stored
  <2>2. CASE i # j
    BY <1>1, <2>1, <2>2 DEF RowStep
  <2>3. CASE i = j
    <3>1. rows'[i] \in Row /\ rows'[i].req = rows[i].req /\ rows'[i].state = rows[i].state
      BY <1>1, <2>1, <2>3 DEF Row
    <3> QED BY <2>1, <2>3, <3>1, NoneAssumption DEF RowStep
  <2> QED BY <2>2, <2>3
<1>6. ASSUME NEW w \in Workers, Take(w) PROVE RowStep(i)
  <2>1. PICK row \in Row :
           rows' = [rows EXCEPT ![queue[1].id] = row] /\ row.state \in {"REJECTED", "WORKING"}
    BY <1>6, TakeRow
  <2>2. queue[1].id \in Ids /\ OwnedRow(queue[1], "SUBMITTED", 1)
    BY <1>6, TakenItem DEF Take
  <2>3. i # queue[1].id => rows'[i] = rows[i]
    BY <1>1, <2>1, <2>2
  <2>4. i = queue[1].id => rows'[i] = row
    BY <1>1, <2>1, <2>2
  <2> QED BY <2>1, <2>2, <2>3, <2>4, NoneAssumption DEF RowStep, OwnedRow, Ended, Terminal
<1>7. ASSUME NEW w \in Workers, GraphFails(w) \/ \E n \in GraphCodes : GraphEnds(w, n)
      PROVE  RowStep(i)
  <2>1. worker[w] # None
    BY <1>7, GraphRow
  <2>2. PICK row \in Row :
           /\ rows' = [rows EXCEPT ![worker[w].id] = row] /\ row.req = worker[w]
           /\ row.state = "COMPLETED" => Matches(worker[w])
    BY <1>7, GraphRow
  <2>3. worker[w].id \in Ids /\ OwnedRow(worker[w], "WORKING", 2)
    BY <1>1, <2>1 DEF OwnerInv, WorkerInv, TypeOK, Ids
  <2>4. i # worker[w].id => rows'[i] = rows[i]
    BY <1>1, <2>2, <2>3
  <2>5. i = worker[w].id => rows'[i] = row
    BY <1>1, <2>2, <2>3
  <2> QED BY <2>2, <2>3, <2>4, <2>5, NoneAssumption DEF RowStep, OwnedRow, Ended, Terminal
<1>8. CASE GraceEnds
  <2>1. rows'[i] = IF InQueue(i) THEN [rows[i] EXCEPT !.state = "REJECTED", !.old = FALSE]
                   ELSE rows[i]
    BY <1>8 DEF GraceEnds
  <2>2. CASE InQueue(i)
    <3>1. rows[i] # None /\ rows[i].state = "SUBMITTED"
      BY <2>2 DEF InQueue, OwnerInv, QueueInv, OwnedRow, TypeOK
    <3>2. rows'[i] \in Row /\ rows'[i].state = "REJECTED"
      BY <1>1, <2>1, <2>2, <3>1 DEF Row, State, Terminal
    <3> QED BY <3>1, <3>2, NoneAssumption DEF RowStep, Ended, Terminal
  <2> QED BY <2>1, <2>2 DEF RowStep
<1>9. \/ StartStep \/ GraceEnds \/ UNCHANGED rows
      \/ \E r \in Requests : SubmitNew(r) \/ SubmitAgain(r)
      \/ \E j \in Ids : Age(j)
      \/ \E w \in Workers : Take(w) \/ GraphFails(w) \/ \E n \in GraphCodes : GraphEnds(w, n)
  BY DEF Next, RequestStop, SiteStopped, Joined, Crash, Reload, Lapse, WorkerStep
<1> QED BY <1>2, <1>3, <1>4, <1>5, <1>6, <1>7, <1>8, <1>9

(* Every step keeps or advances the generation.                            *)
LEMMA NextGeneration == ASSUME OwnerInv, Next PROVE GenerationAdvances
<1> SUFFICES ASSUME proc # "down", proc' # "down" PROVE binding'.gen >= binding.gen
  BY DEF GenerationAdvances
<1>1. binding \in Binding /\ binding.gen \in Nat
  BY LimitAssumption DEF OwnerInv, TypeOK, Binding
<1>2. ASSUME NEW b \in Binding \cup {None}, Reload(b) PROVE binding'.gen >= binding.gen
  BY <1>1, <1>2 DEF Reload, Accepts
<1>3. UNCHANGED binding \/ \E b \in Binding \cup {None} : Reload(b)
  BY DEF Next, StartStep, Start, RequestStop, SiteStopped, Joined, GraceEnds, Crash, SubmitNew,
         Insert, SubmitAgain, Age, WorkerStep, Take, GraphFails, GraphEnds, Lapse
<1> QED BY <1>1, <1>2, <1>3

(* No step undoes the outcome of a task within its retention, stores an    *)
(* artifact under a binding its input was not frozen for, or takes the     *)
(* generation of the process back, whatever the trace limit (TaskStore,    *)
(* _worker, BindingState.reload).                                          *)
THEOREM TaskStepsHold == Spec => TaskSteps
<1>1. ASSUME OwnerInv, Next PROVE OutcomeIsFinal
  <2>1. ASSUME NEW i \in Ids, i \in Stored, Ended(i), ~rows[i].old
        PROVE  rows'[i] # None /\ rows'[i].req = rows[i].req /\ rows'[i].state = rows[i].state
    BY <1>1, <2>1, NextRowStep DEF RowStep, Stored
  <2> QED BY <2>1 DEF OutcomeIsFinal
<1>2. ASSUME OwnerInv, Next PROVE LateArtifactFenced
  <2>1. ASSUME NEW i \in Ids, rows'[i] # None, rows'[i].state = "COMPLETED", rows'[i] # rows[i]
        PROVE  \/ rows[i] # None /\ rows[i].state = "COMPLETED"
               \/ Active(binding) /\ binding.gen = rows'[i].req.gen
    BY <1>2, <2>1, NextRowStep DEF RowStep, Matches
  <2> QED BY <2>1 DEF LateArtifactFenced
<1>3. OwnerInv /\ [Next]_vars => [OutcomeIsFinal /\ LateArtifactFenced /\ GenerationAdvances]_vars
  BY <1>1, <1>2, NextGeneration
<1> QED BY <1>3, Ownership, PTL DEF Spec, TaskSteps
-----------------------------------------------------------------------------
(* The graph of one task.                                                  *)

(* The calls.  A session is open between its initialisation and the end of *)
(* its DELETE; tools are asked only behind the notification; a result of   *)
(* execute or of delegate is one without a call that failed, was dropped   *)
(* or is under way.  What has been asked for has a number in the budget.   *)
McpInv ==
    /\ session = "open" => mcp \in {"notify", "calls", "delete", "undo"}
    /\ session = "cut" => cut # "no"
    /\ budget.rounds = 0 => session = "none" /\ mcp \notin InFlight
ToolInv ==
    /\ mcp \in {"off", "init", "notify"} => \A t \in Tools : tool[t] = "none"
    /\ mcp = "calls" => \A t \in Tools : tool[t] # "dropped"
    /\ mcp \in {"delete", "ok"} => \A t \in Tools : tool[t] \in {"none"} \cup Returned
    /\ \A t \in Tools : tool[t] # "none" => t <= budget.tools
    /\ ParallelismHolds
PeerInv ==
    /\ deleg = "off" => \A p \in Peers : peer[p].at = "none"
    /\ deleg = "run" => \A p \in Peers : peer[p].at # "dropped"
    /\ deleg = "ok"  => \A p \in Peers : peer[p].at \in {"none", "result"}
    /\ \A p \in Peers : peer[p].at # "none" => p <= budget.peers
    /\ \A p \in Peers : peer[p].polls <= budget.polls

(* The nodes.  Calls are under way only inside bounded_evidence, which has *)
(* an answer of the provider; before it there is no call, and behind it    *)
(* either an error is recorded or both kinds of calls ended well.          *)
FlowInv ==
    /\ mcp \in InFlight => node = "evidence"
    /\ deleg = "run" => node = "evidence"
    /\ mcp = "off" => deleg = "off"
    /\ node \in {"context", "hypothesis"} => mcp = "off"
    /\ node = "evidence" => resp \in Responses
    /\ keep.tools \/ keep.peers => node \in {"synthesis", "grounding", "artifact"} \cup RunOver
    /\ keep.tools => cut = "no"
    /\ artifact # NoValue => node = "done"
    /\ node \in {"synthesis", "grounding", "artifact", "done"} /\ ~errors =>
          mcp \in {"off", "ok"} /\ deleg \in {"off", "ok"}
LlmInv ==
    /\ llm <= budget.llm
    /\ node = "context" \/ (node = "hypothesis" /\ ~asking) => llm = 0
    /\ node \in {"hypothesis", "evidence"} \/ (node = "synthesis" /\ ~asking) => llm <= 1

RunInv == /\ RunTypeOK /\ McpInv /\ ToolInv /\ PeerInv /\ FlowInv /\ LlmInv
          /\ SucceededIsEarned /\ ExplanationsQualified
-----------------------------------------------------------------------------
(* Facts that every step uses.                                             *)

LEMMA BudgetTypes ==
    ASSUME NEW b \in Budgets
    PROVE  /\ b.llm \in Nat /\ b.rounds \in Nat /\ b.tools \in Nat /\ b.peers \in Nat
           /\ b.polls \in Nat /\ b.parallel \in Nat /\ b.parallel > 0 /\ b.llm <= 2
  BY GraphAssumption

LEMMA ResponseTypes ==
    ASSUME NEW r \in Responses
    PROVE  /\ r.tools \in 0..MaxTools /\ r.peers \in Seq(STRING) /\ Len(r.peers) <= MaxPeers
           /\ r.claims \subseteq Statement /\ r.hint \in Hint
  BY GraphAssumption

LEMMA Bounds == MaxTools \in Nat /\ MaxPeers \in Nat
  BY GraphAssumption

LEMMA InFinite ==
    ASSUME NEW S
    PROVE  In(S) \subseteq Tools /\ IsFiniteSet(In(S)) /\ Cardinality(In(S)) \in Nat
<1>1. IsFiniteSet(Tools)
  BY Bounds, FS_Interval DEF Tools
<1>2. In(S) \in SUBSET Tools
  BY DEF In
<1> QED BY <1>1, <1>2, FS_Subset, FS_CardinalityType

(* Fewer calls in flight are not more. *)
LEMMA FewerInFlight ==
    ASSUME RunInv, UNCHANGED budget,
           \A t \in Tools : tool'[t] = "flight" => tool[t] = "flight"
    PROVE  ParallelismHolds'
<1>1. In({"flight"})' \in SUBSET In({"flight"})
  BY DEF In
<1>2. Cardinality(In({"flight"})') <= Cardinality(In({"flight"}))
  BY <1>1, InFinite, FS_Subset
<1>3. Cardinality(In({"flight"})') \in Nat
  BY <1>1, InFinite, FS_Subset, FS_CardinalityType
<1>4. budget \in Budgets /\ ParallelismHolds
  BY DEF RunInv, RunTypeOK, ToolInv
<1>5. budget.parallel \in Nat
  BY <1>4, BudgetTypes
<1> QED BY <1>2, <1>3, <1>4, <1>5, InFinite DEF ParallelismHolds

(* A step that leaves the calls alone. *)
LEMMA CallsStand ==
    ASSUME RunInv, UNCHANGED <<budget, mcp, session, tool, deleg, peer, cut>>
    PROVE  McpInv' /\ ToolInv' /\ PeerInv'
<1>1. McpInv' /\ PeerInv'
  BY DEF RunInv, McpInv, PeerInv, InFlight
<1>2. ParallelismHolds'
  BY FewerInFlight
<1> QED BY <1>1, <1>2 DEF RunInv, ToolInv, Returned

(* Before the end there is no artifact; *)
LEMMA NoArtifactYet ==
    ASSUME RunInv, node # "done", UNCHANGED artifact
    PROVE  SucceededIsEarned' /\ ExplanationsQualified'
  BY DEF RunInv, FlowInv, SucceededIsEarned, ExplanationsQualified

(* and behind it what the artifact rests on stays: a call that has ended.  *)
LEMMA ArtifactStands ==
    ASSUME RunInv, UNCHANGED <<input, resp, cut, artifact>>,
           \A t \in Tools : tool[t] \in {"none"} \cup Returned => tool'[t] = tool[t],
           \A p \in Peers : peer[p].at \in {"none", "result"} => peer'[p].at = peer[p].at
    PROVE  SucceededIsEarned' /\ ExplanationsQualified'
<1>1. SucceededIsEarned'
  BY DEF RunInv, SucceededIsEarned
<1>2. ExplanationsQualified'
  BY DEF RunInv, ExplanationsQualified, In, Returned, IsError, Explained
<1> QED BY <1>1, <1>2
-----------------------------------------------------------------------------
LEMMA InitInv == RunInit => RunInv
<1> SUFFICES ASSUME RunInit PROVE RunInv
  OBVIOUS
<1>1. budget \in Budgets /\ budget.llm \in Nat /\ budget.polls \in Nat /\ budget.parallel \in Nat
  BY BudgetTypes DEF RunInit
<1>2. RunTypeOK
  <2>1. asking \in BOOLEAN /\ ~asking
    BY DEF RunInit
  <2>2. tool \in [Tools -> ToolState] /\ peer \in [Peers -> [at : PeerState, polls : Nat]]
    BY DEF RunInit, NoTools, NoPeers, ToolState, PeerState
  <2>3. keep \in [tools : BOOLEAN, peers : BOOLEAN]
    BY DEF RunInit
  <2>4. errors \in BOOLEAN /\ bound \in BOOLEAN /\ input \in Input
    BY DEF RunInit
  <2>5. /\ resp \in Responses \cup {NoValue} /\ llm \in 0..2
        /\ artifact \in [outcome : Hint, kept : SUBSET Statement] \cup {NoValue}
    BY DEF RunInit
  <2>6. /\ node = "context" /\ time = "fresh" /\ mcp = "off" /\ session = "none" /\ deleg = "off" /\ cut = "no"
    BY DEF RunInit
  <2> QED BY <1>1, <2>1, <2>2, <2>3, <2>4, <2>5, <2>6 DEF RunTypeOK, Sessions
<1>3. McpInv /\ PeerInv /\ FlowInv /\ LlmInv
  BY <1>1 DEF RunInit, McpInv, PeerInv, FlowInv, LlmInv, InFlight, NoPeers, RunOver
<1>4. ParallelismHolds
  <2>1. In({"flight"}) = {}
    BY DEF RunInit, In, NoTools
  <2> QED BY <1>1, <2>1, FS_EmptySet DEF ParallelismHolds
<1>5. ToolInv
  BY <1>4 DEF RunInit, ToolInv, NoTools
<1>6. SucceededIsEarned /\ ExplanationsQualified
  BY DEF RunInit, SucceededIsEarned, ExplanationsQualified
<1> QED BY <1>2, <1>3, <1>5, <1>6 DEF RunInv

(* The nodes, as long as they leave the calls alone. *)
LEMMA NodeMoves ==
    ASSUME RunInv, UNCHANGED <<Fixed, Calls>>, node # "done", UNCHANGED artifact,
           RunTypeOK', FlowInv', LlmInv'
    PROVE  RunInv'
<1>1. McpInv' /\ ToolInv' /\ PeerInv'
  BY CallsStand DEF Fixed, Calls
<1>2. SucceededIsEarned' /\ ExplanationsQualified'
  BY NoArtifactYet
<1> QED BY <1>1, <1>2 DEF RunInv

LEMMA ContextKeeps ==
    ASSUME RunInv, Context
    PROVE  RunInv'
<1>1. RunTypeOK'
  BY DEF RunInv, Context, RunTypeOK, Fixed, Around, Calls, RunOver
<1>2. FlowInv' /\ LlmInv'
  BY DEF RunInv, Context, RunTypeOK, FlowInv, LlmInv, Fixed, Around, Calls, InFlight, RunOver
<1> QED BY <1>1, <1>2, NodeMoves DEF Context

LEMMA AskKeeps ==
    ASSUME RunInv, Ask, ~asking,
           \/ node = "hypothesis" /\ budget.llm > 0
           \/ node = "synthesis" /\ budget.llm >= 2
    PROVE  RunInv'
<1>1. budget \in Budgets /\ budget.llm \in Nat /\ budget.llm <= 2 /\ llm \in Nat
  BY BudgetTypes DEF RunInv, RunTypeOK
<1>2. llm + 1 <= budget.llm /\ (node = "hypothesis" => llm + 1 <= 1)
  BY <1>1 DEF RunInv, LlmInv
<1>3. LlmInv'
  BY <1>1, <1>2 DEF Ask, LlmInv, Fixed
<1>4. llm' \in 0..2
  BY <1>1, <1>2 DEF Ask
<1>5. RunTypeOK'
  BY <1>4 DEF RunInv, Ask, RunTypeOK, Fixed, Around, Calls, RunOver
<1>6. FlowInv'
  BY DEF RunInv, Ask, FlowInv, Fixed, Around, Calls, InFlight, RunOver
<1> QED BY <1>3, <1>5, <1>6, NodeMoves DEF Ask

LEMMA LimitedKeeps ==
    ASSUME RunInv, NEW n \in {"synthesis", "grounding"}, Limited(n),
           \/ node \in {"hypothesis", "synthesis"} /\ n = "grounding"
           \/ node = "evidence" /\ mcp = "off" /\ n = "synthesis"
    PROVE  RunInv'
<1>1. RunTypeOK'
  <2>1. asking' \in BOOLEAN /\ ~asking'
    BY DEF Limited
  <2> QED BY <2>1 DEF RunInv, Limited, RunTypeOK, Fixed, Around, Calls, RunOver
<1>2. LlmInv'
  BY DEF RunInv, Limited, LlmInv, Fixed
<1>3. FlowInv'
  BY DEF RunInv, Limited, FlowInv, Fixed, Around, Calls, InFlight, RunOver
<1> QED BY <1>1, <1>2, <1>3, NodeMoves DEF Limited, RunOver

LEMMA RaiseKeeps ==
    ASSUME RunInv, Raise, node # "done", mcp \notin InFlight, deleg # "run"
    PROVE  RunInv'
<1>1. RunTypeOK'
  <2>1. asking' \in BOOLEAN /\ ~asking'
    BY DEF Raise
  <2> QED BY <2>1 DEF RunInv, Raise, RunTypeOK, Fixed, Around, Calls, RunOver
<1>2. LlmInv'
  BY DEF RunInv, Raise, LlmInv, Fixed
<1>3. FlowInv'
  BY DEF RunInv, Raise, FlowInv, Fixed, Around, Calls, InFlight, RunOver
<1> QED BY <1>1, <1>2, <1>3, NodeMoves DEF Raise

LEMMA HypothesisKeeps ==
    ASSUME RunInv, Hypothesis
    PROVE  RunInv'
<1>1. node = "hypothesis" /\ ~asking /\ mcp = "off" /\ deleg = "off" /\ budget \in Budgets
  BY DEF Hypothesis, RunInv, FlowInv, RunTypeOK
<1>2. budget.llm \in Nat
  BY <1>1, BudgetTypes
<1>3. CASE budget.llm = 0 \/ time # "fresh"
  BY <1>1, <1>3, LimitedKeeps DEF Hypothesis
<1>4. CASE budget.llm > 0 /\ time = "fresh" /\ input.longId
  <2>1. Raise
    BY <1>2, <1>4 DEF Hypothesis
  <2> QED BY <1>1, <2>1, RaiseKeeps DEF InFlight
<1>5. CASE ~(budget.llm = 0 \/ time # "fresh") /\ ~(budget.llm > 0 /\ time = "fresh" /\ input.longId)
  <2>1. Ask /\ budget.llm > 0
    BY <1>2, <1>5 DEF Hypothesis
  <2> QED BY <1>1, <2>1, AskKeeps
<1> QED BY <1>3, <1>4, <1>5

(* An answer: the second one leaves no room for calls. *)
LEMMA AnswerKeeps ==
    ASSUME RunInv, NEW r \in Responses, ProviderAnswers(r)
    PROVE  RunInv'
<1>1. node \in {"hypothesis", "synthesis"} /\ asking
  BY DEF RunInv, RunTypeOK, ProviderAnswers
<1>2. /\ asking' = FALSE /\ resp' = r /\ UNCHANGED <<Fixed, Around, Calls, artifact, llm>>
      /\ node = "hypothesis" => node' \in {"evidence", "grounding"} /\ UNCHANGED errors
      /\ node = "synthesis" => node' = "grounding" /\ errors' = (errors \/ Route(r) = "evidence")
  BY <1>1 DEF ProviderAnswers, Route
<1>3. asking' \in BOOLEAN /\ ~asking' /\ errors' \in BOOLEAN /\ (~errors' => ~errors)
  <2>1. asking' \in BOOLEAN /\ ~asking'
    BY <1>2
  <2>2. errors \in BOOLEAN
    BY DEF RunInv, RunTypeOK
  <2>3. CASE node = "hypothesis"
    BY <1>2, <2>1, <2>2, <2>3
  <2>4. CASE node = "synthesis"
    <3>1. errors' = (errors \/ Route(r) = "evidence")
      BY <1>2, <2>4
    <3> QED BY <2>1, <2>2, <3>1
  <2> QED BY <1>1, <2>3, <2>4
<1>4. RunTypeOK'
  BY <1>1, <1>2, <1>3 DEF RunInv, RunTypeOK, Fixed, Around, Calls, RunOver
<1>5. LlmInv'
  BY <1>1, <1>2, <1>3 DEF RunInv, LlmInv, Fixed
<1>6. FlowInv'
  <2>1. CASE node = "hypothesis"
    BY <1>2, <1>3, <2>1 DEF RunInv, FlowInv, Fixed, Around, Calls, InFlight, RunOver
  <2>2. CASE node = "synthesis"
    BY <1>2, <1>3, <2>2 DEF RunInv, FlowInv, Fixed, Around, Calls, InFlight, RunOver
  <2> QED BY <1>1, <2>1, <2>2
<1> QED BY <1>1, <1>2, <1>4, <1>5, <1>6, NodeMoves

LEMMA ProviderFailsKeeps ==
    ASSUME RunInv, ProviderFails
    PROVE  RunInv'
<1>1. node \in {"hypothesis", "synthesis"} /\ Limited("grounding")
  BY DEF RunInv, RunTypeOK, ProviderFails
<1> QED BY <1>1, LimitedKeeps

LEMMA SynthesisKeeps ==
    ASSUME RunInv, Synthesis
    PROVE  RunInv'
<1>1. node = "synthesis" /\ ~asking /\ budget \in Budgets
  BY DEF Synthesis, RunInv, RunTypeOK
<1>2. budget.llm \in Nat
  BY <1>1, BudgetTypes
<1>3. \/ node' = "grounding" /\ UNCHANGED <<Fixed, asking, resp, errors, Around, Calls, artifact, llm>>
      \/ Limited("grounding")
      \/ Ask /\ budget.llm >= 2
  BY <1>2 DEF Synthesis
<1>4. CASE node' = "grounding" /\ UNCHANGED <<Fixed, asking, resp, errors, Around, Calls, artifact, llm>>
  <2>1. RunTypeOK'
    BY <1>1, <1>4 DEF RunInv, RunTypeOK, Fixed, Around, Calls, RunOver
  <2>2. LlmInv'
    BY <1>1, <1>4 DEF RunInv, LlmInv, Fixed
  <2>3. FlowInv'
    BY <1>1, <1>4 DEF RunInv, FlowInv, Fixed, Around, Calls, InFlight, RunOver
  <2> QED BY <1>1, <1>4, <2>1, <2>2, <2>3, NodeMoves
<1> QED BY <1>1, <1>3, <1>4, LimitedKeeps, AskKeeps

LEMMA GroundingKeeps ==
    ASSUME RunInv, Grounding
    PROVE  RunInv'
<1>1. RunTypeOK'
  BY DEF RunInv, Grounding, RunTypeOK, Fixed, Around, Calls, RunOver
<1>2. LlmInv'
  BY DEF RunInv, Grounding, LlmInv, Fixed
<1>3. FlowInv'
  BY DEF RunInv, Grounding, FlowInv, Fixed, Around, Calls, InFlight, RunOver
<1> QED BY <1>1, <1>2, <1>3, NodeMoves DEF Grounding

(* The hard deadline outside of bounded_evidence. *)
LEMMA DeadlineKeeps ==
    ASSUME RunInv, Deadline
    PROVE  RunInv'
<1>1. node \notin RunOver /\ ~Open /\ Raise
  BY DEF Deadline
<1>2. node # "done" /\ mcp \notin InFlight /\ deleg # "run"
  BY <1>1 DEF RunInv, FlowInv, Open, RunOver, InFlight
<1> QED BY <1>1, <1>2, RaiseKeeps

(* The clock and the fence. *)
LEMMA OutsideKeeps ==
    ASSUME RunInv, TimePasses \/ Fence
    PROVE  RunInv'
<1>1. /\ node \notin RunOver /\ time' \in {"fresh", "spent", "over"} /\ bound' \in BOOLEAN
      /\ UNCHANGED <<Fixed, node, asking, resp, errors, Calls, artifact, llm>>
  BY DEF TimePasses, Fence, RunInv, RunTypeOK
<1>2. RunTypeOK'
  BY <1>1 DEF RunInv, RunTypeOK, Fixed, Calls
<1>3. FlowInv' /\ LlmInv'
  BY <1>1 DEF RunInv, FlowInv, LlmInv, Fixed, Calls, InFlight
<1> QED BY <1>1, <1>2, <1>3, NodeMoves DEF RunOver
-----------------------------------------------------------------------------
(* The artifact.  What it calls succeeded has no error behind it, so that  *)
(* both kinds of calls ended well; an explanation has the metadata of a    *)
(* result that was kept.                                                   *)
LEMMA ArtifactKeeps ==
    ASSUME RunInv, Artifact
    PROVE  RunInv'
<1>1. CASE Raise
  <2>1. node = "artifact"
    BY DEF Artifact
  <2>2. mcp \notin InFlight /\ deleg # "run"
    BY <2>1 DEF RunInv, FlowInv
  <2> QED BY <1>1, <2>1, <2>2, RaiseKeeps
<1>2. CASE /\ node = "artifact" /\ node' = "done" /\ artifact' = [outcome |-> Outcome, kept |-> KeptClaims]
           /\ UNCHANGED <<Fixed, asking, resp, errors, Around, Calls, llm>>
  <2>1. Claims \subseteq Statement
    BY ResponseTypes DEF Claims, RunInv, RunTypeOK
  <2>2. KeptClaims \in SUBSET Statement
    BY <2>1 DEF KeptClaims, Statement
  <2>3. input.quality \in {"valid", "low"} /\ input.evidence \in BOOLEAN /\ errors \in BOOLEAN
    BY DEF RunInv, RunTypeOK, Input
  <2>4. /\ Outcome \in Hint
        /\ Outcome = "succeeded" =>
             input.evidence /\ input.quality = "valid" /\ ~errors /\ ~Rejected /\ resp # NoValue
    <3>1. CASE ~input.evidence
      BY <3>1 DEF Outcome, Hint
    <3>2. CASE input.evidence /\ (input.quality = "low" \/ errors \/ Rejected)
      BY <3>2 DEF Outcome, Hint
    <3>3. CASE input.evidence /\ input.quality # "low" /\ ~errors /\ ~Rejected /\ resp = NoValue
      BY <3>3 DEF Outcome, Hint
    <3>4. CASE input.evidence /\ input.quality # "low" /\ ~errors /\ ~Rejected /\ resp # NoValue
      <4>1. Outcome = resp.hint
        BY <3>4 DEF Outcome
      <4>2. resp.hint \in Hint
        BY <3>4, ResponseTypes DEF RunInv, RunTypeOK
      <4> QED BY <2>3, <3>4, <4>1, <4>2
    <3> QED BY <3>1, <3>2, <3>3, <3>4
  <2>5. artifact' \in [outcome : Hint, kept : SUBSET Statement]
    BY <1>2, <2>2, <2>4
  <2>6. RunTypeOK'
    BY <1>2, <2>5 DEF RunInv, RunTypeOK, Fixed, Around, Calls, RunOver
  <2>7. LlmInv'
    BY <1>2 DEF RunInv, LlmInv, Fixed
  <2>8. FlowInv'
    BY <1>2 DEF RunInv, FlowInv, Fixed, Around, Calls, InFlight, RunOver
  <2>9. McpInv' /\ ToolInv' /\ PeerInv'
    BY <1>2, CallsStand DEF Fixed, Calls
  <2>10. SucceededIsEarned'
    <3> SUFFICES ASSUME Outcome = "succeeded"
                 PROVE  /\ input.evidence /\ input.quality = "valid" /\ resp # NoValue
                        /\ \A t \in Tools : tool[t] \in {"none"} \cup Returned
                        /\ \A p \in Peers : peer[p].at \in {"none", "result"}
                        /\ resp.claims \ {"unsafe_advice"} \subseteq KeptClaims
      BY <1>2 DEF SucceededIsEarned, Fixed, Calls
    <3>1. mcp \in {"off", "ok"} /\ deleg \in {"off", "ok"}
      BY <1>2, <2>4 DEF RunInv, FlowInv
    <3>2. \A t \in Tools : tool[t] \in {"none"} \cup Returned
      BY <3>1 DEF RunInv, ToolInv
    <3>3. \A p \in Peers : peer[p].at \in {"none", "result"}
      BY <3>1 DEF RunInv, PeerInv
    <3>4. resp.claims \ {"unsafe_advice"} \subseteq KeptClaims
      BY <2>4 DEF Rejected, KeptClaims, Claims
    <3> QED BY <2>4, <3>2, <3>3, <3>4
  <2>11. ExplanationsQualified'
    <3> SUFFICES ASSUME "explanation" \in KeptClaims
                 PROVE  input.evidence /\ cut = "no" /\ In(Explained) # {}
      BY <1>2 DEF ExplanationsQualified, Fixed, Calls, In
    <3>1. input.evidence /\ Metadata
      BY DEF KeptClaims, Grounds
    <3> QED BY <3>1 DEF Metadata, RunInv, FlowInv
  <2> QED BY <2>6, <2>7, <2>8, <2>9, <2>10, <2>11 DEF RunInv
<1> QED BY <1>1, <1>2 DEF Artifact
-----------------------------------------------------------------------------
(* bounded_evidence.  The gathering starts: the calls that it will make    *)
(* are within the budget.                                                  *)
LEMMA DelegatedLen ==
    ASSUME NEW r \in Responses, NEW b \in Budgets
    PROVE  /\ Len(SubSeq(r.peers, 1, Least(b.peers, Len(r.peers)))) \in Nat
           /\ Len(SubSeq(r.peers, 1, Least(b.peers, Len(r.peers)))) <= b.peers
<1>1. PICK q \in Seq(STRING), n \in Nat : q = r.peers /\ n = b.peers
  BY ResponseTypes, BudgetTypes
<1>2. PICK k \in Nat : k = Least(n, Len(q)) /\ k <= n /\ k <= Len(q)
  BY DEF Least
<1>3. Len(SubSeq(q, 1, k)) = k
  BY <1>2
<1> QED BY <1>1, <1>2, <1>3

LEMMA GatherStartsKeeps ==
    ASSUME RunInv, node = "evidence", mcp = "off", GatherStarts
    PROVE  RunInv'
<1>1. /\ resp \in Responses /\ budget \in Budgets /\ deleg = "off"
      /\ (\A t \in Tools : tool[t] = "none") /\ (\A p \in Peers : peer[p].at = "none")
  BY DEF RunInv, RunTypeOK, FlowInv, ToolInv, PeerInv
<1>2. /\ resp.tools \in Nat /\ budget.rounds \in Nat /\ budget.peers \in Nat /\ budget.polls \in Nat
  BY <1>1, ResponseTypes, BudgetTypes
<1>3. mcp' \in {"ok", "error", "init"} /\ (mcp' = "init" => budget.rounds # 0)
  <2>1. CASE resp.tools = 0
    BY <2>1 DEF GatherStarts
  <2>2. CASE resp.tools > 0 /\ budget.rounds < 1
    BY <2>2 DEF GatherStarts
  <2>3. CASE resp.tools > 0 /\ ~(budget.rounds < 1)
    BY <1>2, <2>3 DEF GatherStarts
  <2> QED BY <1>2, <2>1, <2>2, <2>3
<1>4. deleg' \in {"ok", "error", "run"}
  <2>1. CASE resp.peers = <<>>
    BY <2>1 DEF GatherStarts
  <2>2. CASE resp.peers # <<>> /\ Refuses
    BY <2>2 DEF GatherStarts
  <2>3. CASE resp.peers # <<>> /\ ~Refuses /\ Delegated = <<>>
    BY <2>3 DEF GatherStarts
  <2>4. CASE resp.peers # <<>> /\ ~Refuses /\ Delegated # <<>>
    BY <2>4 DEF GatherStarts
  <2> QED BY <2>1, <2>2, <2>3, <2>4
<1>5. PICK k \in Nat : k = Len(Delegated) /\ k <= budget.peers
  BY <1>1, DelegatedLen DEF Delegated
<1>6. peer \in [Peers -> [at : PeerState, polls : Nat]] /\ \A p \in Peers : peer[p].polls <= budget.polls
  BY DEF RunInv, RunTypeOK, PeerInv
<1>7. /\ peer' \in [Peers -> [at : PeerState, polls : Nat]]
      /\ \A p \in Peers : peer'[p] = peer[p] \/ (peer'[p] = [at |-> "flight", polls |-> 0] /\ p <= k)
      /\ deleg' # "run" => peer' = peer
  <2>1. CASE deleg' = "run"
    <3>1. peer' = [p \in Peers |-> IF p <= k THEN [at |-> "flight", polls |-> 0] ELSE peer[p]]
      BY <1>5, <2>1 DEF GatherStarts
    <3> QED BY <1>6, <2>1, <3>1 DEF PeerState
  <2>2. CASE deleg' # "run"
    BY <1>6, <2>2 DEF GatherStarts
  <2> QED BY <2>1, <2>2
<1>8. UNCHANGED <<Fixed, node, asking, resp, errors, Around, session, tool, keep, cut, artifact, llm>>
  BY DEF GatherStarts
<1>9. RunTypeOK'
  BY <1>3, <1>4, <1>7, <1>8 DEF RunInv, RunTypeOK, Fixed, Around
<1>10. McpInv'
  <2>1. session # "open"
    BY DEF RunInv, McpInv
  <2> QED BY <1>3, <1>8, <2>1 DEF RunInv, McpInv, Fixed, InFlight
<1>11. ToolInv'
  <2>1. ParallelismHolds'
    BY <1>8, FewerInFlight DEF Fixed
  <2> QED BY <1>1, <1>3, <1>8, <2>1 DEF ToolInv, Fixed
<1>12. PeerInv'
  <2>1. \A p \in Peers : p \in Nat
    BY Bounds DEF Peers
  <2>2. \A p \in Peers : peer'[p].at # "none" => p <= budget.peers
    BY <1>1, <1>2, <1>5, <1>7, <2>1
  <2>3. \A p \in Peers : peer'[p].polls <= budget.polls /\ peer'[p].at # "dropped"
    BY <1>1, <1>2, <1>6, <1>7
  <2>4. deleg' # "run" => \A p \in Peers : peer'[p].at = "none"
    BY <1>1, <1>7
  <2> QED BY <1>4, <1>8, <2>2, <2>3, <2>4 DEF PeerInv, Fixed
<1>13. FlowInv'
  BY <1>3, <1>4, <1>8 DEF RunInv, FlowInv, InFlight, RunOver
<1>14. LlmInv'
  BY <1>8 DEF RunInv, LlmInv, Fixed
<1>15. SucceededIsEarned' /\ ExplanationsQualified'
  BY <1>8, NoArtifactYet
<1> QED BY <1>9, <1>10, <1>11, <1>12, <1>13, <1>14, <1>15 DEF RunInv

LEMMA EvidenceKeeps ==
    ASSUME RunInv, Evidence
    PROVE  RunInv'
<1>1. node = "evidence" /\ mcp = "off" /\ (Raise \/ Limited("synthesis") \/ GatherStarts)
  BY DEF Evidence
<1>2. mcp \notin InFlight /\ deleg # "run"
  BY <1>1 DEF RunInv, FlowInv, InFlight
<1> QED BY <1>1, <1>2, RaiseKeeps, LimitedKeeps, GatherStartsKeeps

(* A step of the gathering leaves the nodes alone. *)
LEMMA GatheringKeeps ==
    ASSUME RunInv, Gathering, McpInv', ToolInv', PeerInv',
           mcp' \in {"off", "init", "notify", "calls", "delete", "undo", "ok", "error"},
           session' \in Sessions, tool' \in [Tools -> ToolState],
           deleg' \in {"off", "run", "ok", "error"}, peer' \in [Peers -> [at : PeerState, polls : Nat]],
           mcp' # mcp => mcp \in InFlight /\ mcp' # "off",
           deleg' # deleg => deleg = "run" /\ deleg' # "off",
           \A t \in Tools : tool[t] \in {"none"} \cup Returned => tool'[t] = tool[t] \/ mcp \in InFlight,
           \A p \in Peers : peer[p].at \in {"none", "result"} => peer'[p].at = peer[p].at
    PROVE  RunInv'
<1>1. RunTypeOK'
  BY DEF RunInv, RunTypeOK, Gathering, Fixed, Around
<1>2. FlowInv'
  BY DEF RunInv, FlowInv, RunTypeOK, Gathering, Fixed, Around, InFlight, RunOver
<1>3. LlmInv'
  BY DEF RunInv, LlmInv, Gathering, Fixed
<1>4. SucceededIsEarned' /\ ExplanationsQualified'
  <2>1. CASE mcp \in InFlight
    <3>1. node # "done" /\ UNCHANGED artifact
      BY <2>1 DEF RunInv, FlowInv, Gathering
    <3> QED BY <3>1, NoArtifactYet
  <2>2. CASE mcp \notin InFlight
    BY <2>2, ArtifactStands DEF Gathering, Fixed
  <2> QED BY <2>1, <2>2
<1> QED BY <1>1, <1>2, <1>3, <1>4 DEF RunInv

(* MCPClient.execute: initialize, the notification, DELETE. *)
LEMMA McpKeeps ==
    ASSUME RunInv, Gathering, UNCHANGED <<tool, deleg, peer>>, mcp \in InFlight,
           mcp' \in {"notify", "delete", "undo", "ok", "error"},
           session' \in Sessions,
           session' = "open" => mcp' \in {"notify", "delete", "undo"},
           session' # "cut",
           mcp' = "notify" => mcp = "init",
           mcp' \in {"delete", "ok"} => \A t \in Tools : tool[t] \in {"none"} \cup Returned
    PROVE  RunInv'
<1>1. budget.rounds # 0 /\ UNCHANGED budget
  BY DEF RunInv, McpInv, Gathering, Fixed
<1>2. McpInv'
  BY <1>1 DEF McpInv
<1>3. ParallelismHolds'
  BY <1>1, FewerInFlight
<1>4. ToolInv'
  BY <1>1, <1>3 DEF RunInv, ToolInv
<1>5. PeerInv'
  BY <1>1 DEF RunInv, PeerInv
<1>6. /\ tool' \in [Tools -> ToolState] /\ peer' \in [Peers -> [at : PeerState, polls : Nat]]
      /\ deleg' \in {"off", "run", "ok", "error"}
  BY DEF RunInv, RunTypeOK
<1> QED BY <1>2, <1>4, <1>5, <1>6, GatheringKeeps

LEMMA McpStepKeeps ==
    ASSUME RunInv,
           Initialized \/ InitializeFails \/ NotifyFails \/ ToolsGathered \/ SessionDeleted
    PROVE  RunInv'
<1>1. CASE Initialized
  <2>1. /\ mcp = "init" /\ mcp' = "notify" /\ session' = "open" /\ Gathering
        /\ UNCHANGED <<tool, deleg, peer>>
    BY <1>1 DEF Initialized
  <2> QED BY <2>1, McpKeeps DEF InFlight, Sessions
<1>2. ASSUME NEW how \in {"delete", "undo"}, Delete(how), mcp \in InFlight,
             how = "delete" => \A t \in Tools : tool[t] \in {"none"} \cup Returned
      PROVE  RunInv'
  <2>1. mcp' = how /\ session' = "open" /\ Gathering /\ UNCHANGED <<tool, deleg, peer>>
    BY <1>2 DEF Delete
  <2> QED BY <1>2, <2>1, McpKeeps DEF Sessions
<1>3. CASE InitializeFails
  <2>1. CASE /\ mcp' = "error" /\ session' \in {"none", "orphan"}
             /\ Gathering /\ UNCHANGED <<tool, deleg, peer>>
    <3>1. mcp = "init"
      BY <1>3 DEF InitializeFails
    <3> QED BY <2>1, <3>1, McpKeeps DEF InFlight, Sessions
  <2>2. CASE mcp = "init" /\ Delete("undo")
    BY <1>2, <2>2 DEF InFlight
  <2> QED BY <1>3, <2>1, <2>2 DEF InitializeFails
<1>4. CASE NotifyFails
  BY <1>2, <1>4 DEF NotifyFails, InFlight
<1>5. CASE ToolsGathered
  <2>1. mcp = "calls" /\ mcp \in InFlight
    BY <1>5 DEF ToolsGathered, InFlight
  <2>2. CASE Delete("undo")
    BY <1>2, <2>1, <2>2
  <2>3. CASE In({"wait", "flight", "failed"}) = {} /\ Delete("delete")
    <3>1. tool \in [Tools -> ToolState] /\ \A t \in Tools : tool[t] # "dropped"
      BY <2>1 DEF RunInv, RunTypeOK, ToolInv
    <3>2. \A t \in Tools : tool[t] \in {"none"} \cup Returned
      BY <2>3, <3>1 DEF In, ToolState, Returned
    <3> QED BY <1>2, <2>1, <2>3, <3>2
  <2> QED BY <1>5, <2>2, <2>3 DEF ToolsGathered
<1>6. CASE SessionDeleted
  <2>1. /\ mcp \in {"delete", "undo"} /\ mcp' = (IF mcp = "delete" THEN "ok" ELSE "error") /\ Gathering
        /\ session' \in {"deleted", "refused"} /\ UNCHANGED <<tool, deleg, peer>>
    BY <1>6 DEF SessionDeleted
  <2>2. mcp = "delete" => \A t \in Tools : tool[t] \in {"none"} \cup Returned
    BY DEF RunInv, ToolInv
  <2> QED BY <2>1, <2>2, McpKeeps DEF InFlight, Sessions
<1> QED BY <1>1, <1>3, <1>4, <1>5, <1>6

(* The calls are made: no more than the budget has tools. *)
LEMMA NotifiedKeeps ==
    ASSUME RunInv, Notified
    PROVE  RunInv'
<1>1. /\ mcp = "notify" /\ mcp' = "calls" /\ Gathering /\ UNCHANGED <<session, deleg, peer, budget>>
      /\ tool' = [t \in Tools |-> IF t <= Asked THEN "wait" ELSE "none"]
  BY DEF Notified, Gathering, Fixed
<1>2. /\ mcp \in InFlight /\ node = "evidence"
  BY <1>1 DEF InFlight, RunInv, FlowInv
<1>3. resp.tools \in Nat /\ budget.tools \in Nat
  <2>1. resp \in Responses /\ budget \in Budgets
    BY <1>2 DEF RunInv, FlowInv, RunTypeOK
  <2> QED BY <2>1, ResponseTypes, BudgetTypes
<1>4. Asked \in Nat /\ Asked <= budget.tools
  BY <1>3 DEF Asked, Least
<1>5. \A t \in Tools : t \in Nat
  BY Bounds DEF Tools
<1>6. /\ tool' \in [Tools -> ToolState] /\ \A t \in Tools : tool'[t] \in {"wait", "none"}
      /\ \A t \in Tools : tool'[t] # "none" => t <= budget.tools
  BY <1>1, <1>3, <1>4, <1>5 DEF ToolState
<1>7. ParallelismHolds'
  BY <1>1, <1>6, FewerInFlight
<1>8. ToolInv'
  BY <1>1, <1>6, <1>7 DEF ToolInv
<1>9. McpInv' /\ PeerInv'
  BY <1>1, <1>2 DEF RunInv, McpInv, PeerInv, InFlight, Gathering
<1>10. /\ session' \in Sessions /\ deleg' \in {"off", "run", "ok", "error"}
       /\ peer' \in [Peers -> [at : PeerState, polls : Nat]]
  BY <1>1 DEF RunInv, RunTypeOK
<1> QED BY <1>1, <1>2, <1>6, <1>8, <1>9, <1>10, GatheringKeeps

(* A tool call goes on, also one that a failed gather left behind. *)
LEMMA ToolMoves ==
    ASSUME RunInv, Gathering, UNCHANGED <<mcp, session, deleg, peer>>, NEW t \in Tools,
           NEW s \in {"flight", "failed"} \cup Returned, tool' = [tool EXCEPT ![t] = s],
           tool[t] \in {"wait", "flight"}, ParallelismHolds'
    PROVE  RunInv'
<1>1. tool \in [Tools -> ToolState] /\ UNCHANGED budget
  BY DEF RunInv, RunTypeOK, Gathering, Fixed
<1>2. /\ tool' \in [Tools -> ToolState] /\ tool'[t] = s
      /\ \A u \in Tools : u # t => tool'[u] = tool[u]
  BY <1>1 DEF ToolState
<1>3. mcp \notin {"off", "init", "notify", "delete", "ok"}
  BY DEF RunInv, ToolInv, Returned, IsError
<1>4. ToolInv'
  <2>1. \A u \in Tools : tool'[u] # "none" => u <= budget.tools
    BY <1>2 DEF RunInv, ToolInv
  <2>2. mcp = "calls" => \A u \in Tools : tool'[u] # "dropped"
    BY <1>2 DEF RunInv, ToolInv, Returned, IsError
  <2> QED BY <1>1, <1>3, <2>1, <2>2 DEF ToolInv
<1>5. McpInv' /\ PeerInv'
  BY <1>1 DEF RunInv, McpInv, PeerInv, InFlight, Gathering
<1>6. /\ session' \in Sessions /\ deleg' \in {"off", "run", "ok", "error"}
      /\ peer' \in [Peers -> [at : PeerState, polls : Nat]]
      /\ mcp' \in {"off", "init", "notify", "calls", "delete", "undo", "ok", "error"}
  BY DEF RunInv, RunTypeOK
<1>7. \A u \in Tools : tool[u] \in {"none"} \cup Returned => tool'[u] = tool[u]
  BY <1>2 DEF Returned, IsError
<1> QED BY <1>2, <1>4, <1>5, <1>6, <1>7, GatheringKeeps

LEMMA ToolStepKeeps ==
    ASSUME RunInv, NEW t \in Tools, ToolStep(t)
    PROVE  RunInv'
<1>1. tool \in [Tools -> ToolState] /\ budget \in Budgets
  BY DEF RunInv, RunTypeOK
<1>2. ASSUME NEW s \in Returned \cup {"failed"}, tool[t] \in {"wait", "flight"},
             tool' = [tool EXCEPT ![t] = s], Gathering, UNCHANGED <<mcp, session, deleg, peer>>
      PROVE  RunInv'
  <2>1. \A u \in Tools : tool'[u] = "flight" => tool[u] = "flight"
    BY <1>1, <1>2 DEF Returned, IsError
  <2>2. ParallelismHolds'
    BY <1>2, <2>1, FewerInFlight DEF Gathering, Fixed
  <2> QED BY <1>2, <2>2, ToolMoves
<1>3. ASSUME tool[t] = "wait", FreeSlot, tool' = [tool EXCEPT ![t] = "flight"], Gathering,
             UNCHANGED <<mcp, session, deleg, peer>>
      PROVE  RunInv'
  <2>1. In({"flight"})' = In({"flight"}) \cup {t} /\ t \notin In({"flight"})
    BY <1>1, <1>3 DEF In
  <2>2. Cardinality(In({"flight"}) \cup {t}) = Cardinality(In({"flight"})) + 1
    BY <2>1, InFinite, FS_AddElement
  <2>3. Cardinality(In({"flight"})) \in Nat /\ budget.parallel \in Nat
    BY <1>1, InFinite, BudgetTypes
  <2>4. UNCHANGED budget
    BY <1>3 DEF Gathering, Fixed
  <2>5. Cardinality(In({"flight"})') <= budget.parallel
    <3>1. PICK k \in Nat, m \in Nat : k = Cardinality(In({"flight"})) /\ m = budget.parallel /\ k < m
      BY <1>3, <2>3 DEF FreeSlot
    <3>2. Cardinality(In({"flight"})') = k + 1
      BY <2>1, <2>2, <3>1
    <3>3. k + 1 <= m
      BY <3>1
    <3> QED BY <3>1, <3>2, <3>3
  <2>6. ParallelismHolds'
    BY <2>4, <2>5 DEF ParallelismHolds
  <2> QED BY <1>3, <2>6, ToolMoves
<1>4. CASE ToolStarts(t)
  BY <1>2, <1>3, <1>4 DEF ToolStarts
<1>5. CASE \E s \in Returned \cup {"failed"} : ToolReturns(t, s)
  BY <1>2, <1>5 DEF ToolReturns
<1> QED BY <1>4, <1>5 DEF ToolStep

(* A delegation goes on. *)
LEMMA PeerStepKeeps ==
    ASSUME RunInv, NEW p \in Peers, PeerStep(p)
    PROVE  RunInv'
<1>1. /\ Gathering /\ UNCHANGED <<mcp, session, tool, deleg, budget>> /\ peer[p].at = "flight"
      /\ \/ peer[p].polls < budget.polls /\ peer' = [peer EXCEPT ![p].polls = @ + 1]
         \/ \E s \in {"result", "failed"} : peer' = [peer EXCEPT ![p].at = s]
  BY DEF PeerStep, PeerPending, PeerEnds, Gathering, Fixed
<1>2. peer \in [Peers -> [at : PeerState, polls : Nat]] /\ budget \in Budgets
  BY DEF RunInv, RunTypeOK
<1>3. budget.polls \in Nat
  BY <1>2, BudgetTypes
<1>4. \A u \in Peers : u # p => peer'[u] = peer[u]
  BY <1>1, <1>2
<1>5. /\ peer' \in [Peers -> [at : PeerState, polls : Nat]]
      /\ peer'[p].at \in {"flight", "result", "failed"} /\ peer'[p].polls <= budget.polls
  <2>1. peer[p].polls <= budget.polls
    BY DEF RunInv, PeerInv
  <2>2. CASE peer[p].polls < budget.polls /\ peer' = [peer EXCEPT ![p].polls = @ + 1]
    BY <1>1, <1>2, <1>3, <2>2
  <2>3. ASSUME NEW s \in {"result", "failed"}, peer' = [peer EXCEPT ![p].at = s]
        PROVE  /\ peer' \in [Peers -> [at : PeerState, polls : Nat]]
               /\ peer'[p].at \in {"flight", "result", "failed"} /\ peer'[p].polls <= budget.polls
    BY <1>2, <2>1, <2>3 DEF PeerState
  <2> QED BY <1>1, <2>2, <2>3
<1>6. deleg \notin {"off", "ok"}
  BY <1>1 DEF RunInv, PeerInv
<1>7. PeerInv'
  BY <1>1, <1>4, <1>5, <1>6 DEF RunInv, PeerInv
<1>8. ParallelismHolds'
  BY <1>1, FewerInFlight
<1>9. McpInv' /\ ToolInv'
  BY <1>1, <1>8 DEF RunInv, McpInv, ToolInv, InFlight, Gathering
<1>10. /\ session' \in Sessions /\ deleg' \in {"off", "run", "ok", "error"}
       /\ mcp' \in {"off", "init", "notify", "calls", "delete", "undo", "ok", "error"}
       /\ tool' \in [Tools -> ToolState]
  BY <1>1 DEF RunInv, RunTypeOK
<1>11. \A u \in Peers : peer[u].at \in {"none", "result"} => peer'[u].at = peer[u].at
  BY <1>1, <1>4
<1> QED BY <1>1, <1>5, <1>7, <1>9, <1>10, <1>11, GatheringKeeps

LEMMA PeersGatheredKeeps ==
    ASSUME RunInv, PeersGathered
    PROVE  RunInv'
<1>1. /\ deleg = "run" /\ Gathering /\ UNCHANGED <<mcp, session, tool, peer, budget>>
      /\ deleg' = "error" \/ (deleg' = "ok" /\ \A p \in Peers : peer[p].at \in {"none", "result"})
  BY DEF PeersGathered, Gathering, Fixed
<1>2. PeerInv'
  BY <1>1 DEF RunInv, PeerInv
<1>3. ParallelismHolds'
  BY <1>1, FewerInFlight
<1>4. McpInv' /\ ToolInv'
  BY <1>1, <1>3 DEF RunInv, McpInv, ToolInv, InFlight, Gathering
<1>5. /\ session' \in Sessions /\ deleg' \in {"off", "run", "ok", "error"}
      /\ mcp' \in {"off", "init", "notify", "calls", "delete", "undo", "ok", "error"}
      /\ tool' \in [Tools -> ToolState] /\ peer' \in [Peers -> [at : PeerState, polls : Nat]]
  BY <1>1 DEF RunInv, RunTypeOK
<1> QED BY <1>1, <1>2, <1>4, <1>5, GatheringKeeps
-----------------------------------------------------------------------------
(* The end of the gathering, and the clocks that cut it short.             *)

LEMMA GatheredKeeps ==
    ASSUME RunInv, Gathered
    PROVE  RunInv'
<1>1. /\ node = "evidence" /\ node' = "synthesis" /\ cut = "no" /\ mcp \in {"ok", "error"} /\ deleg \in {"ok", "error"}
      /\ keep' = [tools |-> mcp = "ok", peers |-> deleg = "ok"]
      /\ errors' = (errors \/ mcp = "error" \/ deleg = "error")
      /\ UNCHANGED <<budget, input, asking, resp, time, bound, mcp, session, tool, deleg, peer, cut, artifact, llm>>
  BY DEF Gathered, Fixed, Around
<1>2. errors \in BOOLEAN /\ asking \in BOOLEAN /\ ~asking
  BY <1>1 DEF RunInv, RunTypeOK
<1>3. errors' \in BOOLEAN /\ (~errors' => mcp = "ok" /\ deleg = "ok")
  BY <1>1, <1>2
<1>4. keep' \in [tools : BOOLEAN, peers : BOOLEAN]
  BY <1>1
<1>5. RunTypeOK'
  BY <1>1, <1>2, <1>3, <1>4 DEF RunInv, RunTypeOK
<1>6. McpInv' /\ ToolInv' /\ PeerInv'
  BY <1>1, CallsStand
<1>7. FlowInv'
  BY <1>1, <1>3 DEF RunInv, FlowInv, InFlight, RunOver
<1>8. LlmInv'
  BY <1>1, <1>2 DEF RunInv, LlmInv
<1>9. SucceededIsEarned' /\ ExplanationsQualified'
  BY <1>1, NoArtifactYet
<1> QED BY <1>5, <1>6, <1>7, <1>8, <1>9 DEF RunInv

LEMMA BudgetCutEndsKeeps ==
    ASSUME RunInv, BudgetCutEnds
    PROVE  RunInv'
<1>1. /\ node = "evidence" /\ node' = "synthesis" /\ ~Open /\ errors' = TRUE
      /\ UNCHANGED <<budget, input, asking, resp, time, bound, keep, mcp, session, tool, deleg, peer, cut, artifact, llm>>
  BY DEF BudgetCutEnds, CutRest, Fixed, Around
<1>2. asking \in BOOLEAN /\ ~asking
  BY <1>1 DEF RunInv, RunTypeOK
<1>3. RunTypeOK'
  BY <1>1, <1>2 DEF RunInv, RunTypeOK
<1>4. McpInv' /\ ToolInv' /\ PeerInv'
  BY <1>1, CallsStand
<1>5. mcp \notin InFlight /\ deleg # "run"
  BY <1>1 DEF Open, RunInv, FlowInv, InFlight
<1>6. FlowInv'
  BY <1>1, <1>5 DEF RunInv, FlowInv, InFlight, RunOver
<1>7. LlmInv'
  BY <1>1, <1>2 DEF RunInv, LlmInv
<1>8. SucceededIsEarned' /\ ExplanationsQualified'
  BY <1>1, NoArtifactYet
<1> QED BY <1>3, <1>4, <1>6, <1>7, <1>8 DEF RunInv

(* A cancellation: the DELETE of a session that is open is sent on the way *)
(* out or is itself cut, and a gathering that was cut short keeps no       *)
(* result.                                                                 *)
LEMMA CutKeeps ==
    ASSUME RunInv, BudgetCuts \/ DeadlineCuts
    PROVE  RunInv'
<1>1. /\ Open /\ CancelCalls /\ cut' \in {"budget", "deadline"}
      /\ UNCHANGED <<budget, input, asking, resp, time, bound, keep, artifact, llm, node, errors>>
  BY DEF BudgetCuts, DeadlineCuts, CutRest, Fixed, Around
<1>2. node = "evidence" /\ mcp # "off"
  BY <1>1 DEF Open
<1>3. /\ tool \in [Tools -> ToolState] /\ peer \in [Peers -> [at : PeerState, polls : Nat]]
      /\ session \in Sessions /\ deleg \in {"off", "run", "ok", "error"}
      /\ mcp \in {"off", "init", "notify", "calls", "delete", "undo", "ok", "error"}
  BY DEF RunInv, RunTypeOK
<1>4. /\ mcp \in {"notify", "calls"} => mcp' = "undo"
      /\ mcp \in {"init", "delete", "undo"} => mcp' = "error"
      /\ mcp \in {"ok", "error"} => mcp' = mcp
  BY <1>1, <1>3 DEF CancelCalls
<1>5. /\ session' \in Sessions /\ (session' = "open" => mcp \in {"notify", "calls"})
      /\ mcp \in {"ok", "error"} => session' = session
      /\ deleg' = (IF deleg = "run" THEN "error" ELSE deleg)
  <2>1. session = "open" => mcp \in {"notify", "calls", "delete", "undo"}
    BY DEF RunInv, McpInv
  <2>2. CASE mcp \in {"delete", "undo"}
    BY <1>1, <2>2 DEF CancelCalls, Sessions
  <2>3. CASE mcp = "init"
    BY <1>1, <2>3 DEF CancelCalls, Sessions
  <2>4. CASE mcp \notin {"delete", "undo", "init"}
    <3>1. session' = session /\ deleg' = (IF deleg = "run" THEN "error" ELSE deleg)
      BY <1>1, <2>4 DEF CancelCalls
    <3> QED BY <1>3, <2>1, <2>4, <3>1
  <2> QED BY <2>2, <2>3, <2>4
<1>6. /\ tool' \in [Tools -> ToolState]
      /\ \A t \in Tools : tool'[t] = tool[t] \/ (tool[t] # "none" /\ tool'[t] = "dropped")
      /\ mcp # "calls" => tool' = tool
  <2>1. CASE mcp = "calls"
    <3>1. tool' = [t \in Tools |-> Cancelled(tool[t])]
      BY <1>1, <2>1 DEF CancelCalls
    <3> QED BY <1>3, <2>1, <3>1 DEF Cancelled, ToolState
  <2>2. CASE mcp # "calls"
    BY <1>1, <1>3, <2>2 DEF CancelCalls
  <2> QED BY <2>1, <2>2
<1>7. /\ peer' \in [Peers -> [at : PeerState, polls : Nat]]
      /\ \A p \in Peers : peer'[p].polls = peer[p].polls /\ (peer[p].at = "none" => peer'[p].at = "none")
      /\ deleg # "run" => peer' = peer
  <2>1. CASE deleg = "run"
    <3>1. peer' = [p \in Peers |-> [peer[p] EXCEPT !.at = Cancelled(peer[p].at)]]
      BY <1>1, <2>1 DEF CancelCalls
    <3>2. \A s \in PeerState : Cancelled(s) \in PeerState
      BY DEF Cancelled, PeerState
    <3>3. \A p \in Peers : /\ peer'[p].at = Cancelled(peer[p].at) /\ peer'[p].polls = peer[p].polls
                           /\ peer'[p] \in [at : PeerState, polls : Nat]
      BY <1>3, <3>1, <3>2
    <3> QED BY <2>1, <3>1, <3>3 DEF Cancelled
  <2>2. CASE deleg # "run"
    BY <1>1, <1>3, <2>2 DEF CancelCalls
  <2> QED BY <2>1, <2>2
<1>8. RunTypeOK'
  <2>1. mcp' \in {"undo", "ok", "error"} /\ deleg' \in {"off", "run", "ok", "error"}
    BY <1>2, <1>3, <1>4, <1>5
  <2> QED BY <1>1, <1>5, <1>6, <1>7, <2>1 DEF RunInv, RunTypeOK
<1>9. McpInv'
  <2>1. budget.rounds = 0 => session = "none" /\ mcp \in {"ok", "error"}
    BY <1>2, <1>3 DEF RunInv, McpInv, InFlight
  <2> QED BY <1>1, <1>4, <1>5, <2>1 DEF McpInv, InFlight
<1>10. ToolInv'
  <2>1. ParallelismHolds'
    BY <1>1, <1>6, FewerInFlight
  <2>2. \A t \in Tools : tool'[t] # "none" => t <= budget.tools
    BY <1>6 DEF RunInv, ToolInv
  <2>3. mcp' \notin {"off", "init", "notify", "calls", "delete"} /\ (mcp' = "ok" => mcp = "ok")
    BY <1>2, <1>3, <1>4
  <2>4. mcp' = "ok" => \A t \in Tools : tool'[t] \in {"none"} \cup Returned
    BY <1>6, <2>3 DEF RunInv, ToolInv
  <2> QED BY <1>1, <2>1, <2>2, <2>3, <2>4 DEF ToolInv
<1>11. PeerInv'
  <2>1. \A p \in Peers : /\ peer'[p].at # "none" => p <= budget.peers
                         /\ peer'[p].polls <= budget.polls
    BY <1>7 DEF RunInv, PeerInv
  <2>2. deleg' # "run" /\ (deleg' \in {"off", "ok"} => deleg' = deleg /\ peer' = peer)
    BY <1>3, <1>5, <1>7
  <2> QED BY <1>1, <2>1, <2>2 DEF RunInv, PeerInv
<1>12. FlowInv'
  <2>1. ~keep.tools /\ ~keep.peers
    BY <1>2 DEF RunInv, FlowInv, RunOver
  <2>2. mcp' # "off"
    BY <1>2, <1>3, <1>4
  <2> QED BY <1>1, <1>2, <2>1, <2>2 DEF RunInv, FlowInv, InFlight, RunOver
<1>13. LlmInv'
  BY <1>1 DEF RunInv, LlmInv
<1>14. SucceededIsEarned' /\ ExplanationsQualified'
  BY <1>1, <1>2, NoArtifactYet
<1> QED BY <1>8, <1>9, <1>10, <1>11, <1>12, <1>13, <1>14 DEF RunInv
-----------------------------------------------------------------------------
LEMMA StutterKeeps ==
    ASSUME RunInv, UNCHANGED runVars
    PROVE  RunInv'
<1>1. RunTypeOK'
  BY DEF RunInv, runVars, RunTypeOK
<1>2. McpInv' /\ ToolInv' /\ PeerInv'
  BY CallsStand DEF runVars
<1>3. FlowInv' /\ LlmInv'
  BY DEF RunInv, runVars, FlowInv, LlmInv, InFlight
<1>4. SucceededIsEarned' /\ ExplanationsQualified'
  BY ArtifactStands DEF runVars
<1> QED BY <1>1, <1>2, <1>3, <1>4 DEF RunInv

LEMMA NextInv ==
    ASSUME RunInv, [RunNext]_runVars
    PROVE  RunInv'
<1>1. CASE NodeStep
  <2>1. CASE Context
    BY <2>1, ContextKeeps
  <2>2. CASE Hypothesis
    BY <2>2, HypothesisKeeps
  <2>3. CASE Evidence
    BY <2>3, EvidenceKeeps
  <2>4. CASE Gathered
    BY <2>4, GatheredKeeps
  <2>5. CASE Synthesis
    BY <2>5, SynthesisKeeps
  <2>6. CASE Grounding
    BY <2>6, GroundingKeeps
  <2>7. CASE Artifact
    BY <2>7, ArtifactKeeps
  <2>8. CASE ProviderFails \/ \E r \in Responses : ProviderAnswers(r)
    BY <2>8, ProviderFailsKeeps, AnswerKeeps
  <2>9. CASE BudgetCuts \/ DeadlineCuts
    BY <2>9, CutKeeps
  <2>10. CASE BudgetCutEnds
    BY <2>10, BudgetCutEndsKeeps
  <2>11. CASE Deadline
    BY <2>11, DeadlineKeeps
  <2> QED BY <1>1, <2>1, <2>2, <2>3, <2>4, <2>5, <2>6, <2>7, <2>8, <2>9, <2>10, <2>11 DEF NodeStep
<1>2. CASE McpStep
  BY <1>2, McpStepKeeps, NotifiedKeeps DEF McpStep
<1>3. CASE PeersGathered
  BY <1>3, PeersGatheredKeeps
<1>4. CASE TimePasses \/ Fence
  BY <1>4, OutsideKeeps
<1>5. CASE \E t \in Tools : ToolStep(t)
  BY <1>5, ToolStepKeeps
<1>6. CASE \E p \in Peers : PeerStep(p)
  BY <1>6, PeerStepKeeps
<1>7. CASE UNCHANGED runVars
  BY <1>7, StutterKeeps
<1> QED BY <1>1, <1>2, <1>3, <1>4, <1>5, <1>6, <1>7 DEF RunNext

(* What is numbered within a budget is not more than the budget. *)
LEMMA NumberedWithin ==
    ASSUME NEW n \in Nat, NEW m \in Nat, NEW T, T \subseteq 1..m, \A t \in T : t <= n
    PROVE  Cardinality(T) <= n
<1>1. T \in SUBSET (1..n)
  OBVIOUS
<1>2. IsFiniteSet(1..n) /\ Cardinality(1..n) = n
  <2>1. 1 \in Int /\ n \in Int /\ (1 > n => n = 0) /\ n - 1 + 1 = n
    OBVIOUS
  <2> QED BY <2>1, FS_Interval
<1>3. Cardinality(T) <= Cardinality(1..n)
  BY <1>1, <1>2, FS_Subset
<1> QED BY <1>2, <1>3

LEMMA InvWithinBudget == RunInv => WithinBudget
<1> SUFFICES ASSUME RunInv PROVE WithinBudget
  OBVIOUS
<1>1. budget \in Budgets /\ budget.tools \in Nat /\ budget.peers \in Nat
  BY BudgetTypes DEF RunInv, RunTypeOK
<1>2. Cardinality({t \in Tools : tool[t] # "none"}) <= budget.tools
  <2> DEFINE T == {t \in Tools : tool[t] # "none"}
  <2>1. T \subseteq 1..MaxTools /\ \A t \in T : t <= budget.tools
    BY DEF Tools, RunInv, ToolInv
  <2> HIDE DEF T
  <2>2. Cardinality(T) <= budget.tools
    BY <1>1, <2>1, Bounds, NumberedWithin
  <2> QED BY <2>2 DEF T
<1>3. Cardinality({p \in Peers : peer[p].at # "none"}) <= budget.peers
  <2> DEFINE T == {p \in Peers : peer[p].at # "none"}
  <2>1. T \subseteq 1..MaxPeers /\ \A p \in T : p <= budget.peers
    BY DEF Peers, RunInv, PeerInv
  <2> HIDE DEF T
  <2>2. Cardinality(T) <= budget.peers
    BY <1>1, <2>1, Bounds, NumberedWithin
  <2> QED BY <2>2 DEF T
<1>4. llm <= budget.llm /\ (budget.rounds = 0 => session = "none") /\ \A p \in Peers : peer[p].polls <= budget.polls
  BY DEF RunInv, LlmInv, McpInv, PeerInv
<1> QED BY <1>2, <1>3, <1>4 DEF WithinBudget

(* One run of the graph is well typed, keeps the calls in flight and every *)
(* number of calls within the budget of its task, and does not end before  *)
(* the DELETE of its session was answered, refused or cut by one of its    *)
(* own clocks, however many calls a failed gather leaves behind            *)
(* (AnalysisGraph, MCPClient.execute, PeerClient.delegate).                *)
THEOREM GraphWithinBudget == RunSpec => []GraphInv
<1>1. RunInit => RunInv
  BY InitInv
<1>2. RunInv /\ [RunNext]_runVars => RunInv'
  BY NextInv
<1>3. RunInv => GraphInv
  <2> SUFFICES ASSUME RunInv PROVE GraphInv
    OBVIOUS
  <2>1. SessionReleased
    BY DEF SessionReleased, RunInv, McpInv, FlowInv, InFlight, RunOver
  <2> QED BY <2>1, InvWithinBudget DEF GraphInv, RunInv, ToolInv
<1> QED BY <1>1, <1>2, <1>3, PTL DEF RunSpec

(* An artifact claims no more than its run was told: 'succeeded' means     *)
(* that no call raised, was given up or is under way (a tool may have      *)
(* answered isError) and that every statement was kept but unsafe advice,  *)
(* and an explanation rests on metadata that a tool of this run returned   *)
(* (_artifact, _grounding).                                                *)
THEOREM ArtifactIsTrue == RunSpec => []ArtifactIsEarned
<1>1. RunInit => RunInv
  BY InitInv
<1>2. RunInv /\ [RunNext]_runVars => RunInv'
  BY NextInv
<1>3. RunInv => ArtifactIsEarned
  BY DEF RunInv, ArtifactIsEarned
<1> QED BY <1>1, <1>2, <1>3, PTL DEF RunSpec
=============================================================================
