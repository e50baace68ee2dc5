------------------------- MODULE EffectSystemProofs -------------------------
(***************************************************************************)
(* Proofs about the modules EdgeEffect and EffectSystem.  The first part   *)
(* is about the effect path of the Edge actor alone, for any operations,   *)
(* any number of restarts and tokens, and any clients.  The second is      *)
(* about the path of a governed effect through ledger, tasks and target    *)
(* actor, for every set of operations, tasks, slots and rule sets and      *)
(* every number of attempts, tokens and epochs; it begins by showing that  *)
(* the actor of the composed system is the actor of EdgeEffect, so that    *)
(* the results of the first part hold there too.                           *)
(***************************************************************************)
EXTENDS EffectSystem, SequenceTheorems, TLAPS

(* The inductive invariant of the journal protocol when appends may fail.  *)
(* Results come last in the journal; a live actor that keeps neither a     *)
(* pending result nor a recovered operation has no result in its journal;  *)
(* a command under way excludes both.                                      *)
ExecAlone   == exec # None => up /\ ~held /\ pending = None /\ recovered = None
OwnerIsUp   == (pending # None \/ recovered # None) => up
ResultsLast == \A i, j \in 1..Len(jtail) :
                  i < j /\ jtail[i].status # "started" => jtail[j].status # "started"
NoStray     == up /\ ~held /\ pending = None =>
                  \A i \in 1..Len(jtail) : jtail[i].status = "started"
RecoveredIsLast ==
    recovered # None => /\ jtail # <<>>
                        /\ recovered.last = LastRec.status
                        /\ recovered.last \in {"started", "unknown"}
                        /\ recovered.rec.op = LastRec.op
                        /\ recovered.rec.fence = LastRec.fence
                        /\ recovered.rec.bank = LastRec.bank
PendingIsResult == pending # None => pending.rec.status # "started"
ExecStarted ==
    exec # None => /\ jtail # <<>> /\ LastRec.status = "started"
                   /\ LastRec.op = exec.op /\ LastRec.fence = exec.fence
                   /\ LastRec.bank = exec.bank
JournalInv == /\ TypeOK /\ PendingIsLast /\ PendingIsResult
              /\ ExecAlone /\ ExecStarted /\ OwnerIsUp
              /\ ResultsLast /\ NoStray /\ RecoveredIsLast

(* The journal invariant holds initially.                                  *)
LEMMA InitJournalInv == Init => JournalInv
<1> SUFFICES ASSUME Init PROVE JournalInv OBVIOUS
<1> USE EffectAssumption DEF Init
<1>1. TypeOK
  <2>1. jtail \in Seq(Record) BY EmptySeq
  <2>2. bank \in [Banks -> Content] /\ overlay \in [Slot -> Content]
    BY DEF Content
  <2>3. epoch \in 0..MaxEpoch /\ issued \in 0..MaxToken /\ faults \in 0..JournalFaults
        /\ selector \in Banks /\ jbase \in Nat
    BY DEF Banks
  <2>4. /\ up \in BOOLEAN /\ lease \in BOOLEAN /\ held \in BOOLEAN /\ overActive \in BOOLEAN
        /\ state \in {"primary", "readonly", "hold", "revoked"}
        /\ session \in {"none", "exact", "drifted"}
        /\ expired \in {"none", "other", "journal"}
    OBVIOUS
  <2>5. /\ tokens \subseteq Token /\ pending \in Pending \cup {None}
        /\ recovered \in Recovered \cup {None} /\ exec \in Exec \cup {None}
    OBVIOUS
  <2> QED BY <2>1, <2>2, <2>3, <2>4, <2>5 DEF TypeOK
<1>2. /\ PendingIsLast /\ PendingIsResult /\ ExecAlone /\ ExecStarted
      /\ OwnerIsUp /\ RecoveredIsLast
  BY DEF PendingIsLast, PendingIsResult, ExecAlone, ExecStarted, OwnerIsUp, RecoveredIsLast
<1>3. ResultsLast /\ NoStray
  BY DEF ResultsLast, NoStray
<1> QED BY <1>1, <1>2, <1>3 DEF JournalInv

(* A step that leaves the journal and its owners alone needs only its      *)
(* types.                                                                  *)
LEMMA Frame ==
    ASSUME JournalInv, TypeOK',
           UNCHANGED <<jbase, jtail, pending, recovered, up>>, held => held',
           exec' # None => /\ exec # None /\ held' = held
                           /\ exec'.op = exec.op /\ exec'.fence = exec.fence
                           /\ exec'.bank = exec.bank
    PROVE  JournalInv'
BY DEF JournalInv, PendingIsLast, PendingIsResult, ExecAlone, ExecStarted, OwnerIsUp, ResultsLast, NoStray,
       RecoveredIsLast, LastRec, LastSeq

(* The steps of apply_plan. *)
LEMMA ApplyKeeps == ASSUME JournalInv, ActorStep PROVE JournalInv'
<1> USE EffectAssumption, NoneAssumption DEF At, Goto, journal, conn, idle
<1> SUFFICES /\ TypeOK' /\ UNCHANGED idle /\ exec # None
             /\ exec'.op = exec.op /\ exec'.fence = exec.fence /\ exec'.bank = exec.bank
  BY Frame
<1>0. TypeOK BY DEF JournalInv
<1>1. CASE ApplyReadFails
  BY <1>0, <1>1 DEF ApplyReadFails, TypeOK, switch, Exec, Steps
<1>2. CASE StageBank
  <2>1. bank' \in [Banks -> Content] /\ UNCHANGED <<selector, overlay, idle>>
    BY <1>0, <1>2 DEF StageBank, TypeOK, Content
  <2>2. /\ exec # None /\ exec' \in Exec
        /\ exec'.op = exec.op /\ exec'.fence = exec.fence /\ exec'.bank = exec.bank
    BY <1>0, <1>2 DEF StageBank, TypeOK, Exec, Steps
  <2> QED BY <1>0, <2>1, <2>2 DEF TypeOK
<1>3. CASE BankStaged
  <2>1. bank' \in [Banks -> Content] /\ UNCHANGED <<selector, overlay, idle>>
    BY <1>0, <1>3 DEF BankStaged, TypeOK, Exec, Content
  <2>2. /\ exec # None /\ exec' \in Exec
        /\ exec'.op = exec.op /\ exec'.fence = exec.fence /\ exec'.bank = exec.bank
    BY <1>0, <1>3 DEF BankStaged, TypeOK, Exec, Steps
  <2> QED BY <1>0, <2>1, <2>2 DEF TypeOK
<1>4. CASE FlipSelector
  <2>1. /\ exec # None /\ exec' \in Exec
        /\ exec'.op = exec.op /\ exec'.fence = exec.fence /\ exec'.bank = exec.bank
    BY <1>0, <1>4 DEF FlipSelector, TypeOK, Exec, Steps
  <2>2. selector' \in Banks /\ UNCHANGED <<bank, overlay, idle>>
    BY <1>0, <1>4 DEF FlipSelector, TypeOK, Exec
  <2> QED BY <1>0, <2>1, <2>2 DEF TypeOK
<1>5. CASE WriteOverlay
  <2>1. overlay' \in [Slot -> Content] /\ UNCHANGED <<bank, selector, idle>>
    BY <1>0, <1>5 DEF WriteOverlay, TypeOK, Exec, Content, Wanted
  <2>2. /\ exec # None /\ exec' \in Exec
        /\ exec'.op = exec.op /\ exec'.fence = exec.fence /\ exec'.bank = exec.bank
    BY <1>0, <1>5 DEF WriteOverlay, TypeOK, Exec, Steps
  <2> QED BY <1>0, <2>1, <2>2 DEF TypeOK
<1> QED BY <1>1, <1>2, <1>3, <1>4, <1>5 DEF ActorStep

(* The commands and background steps that touch neither. *)
LEMMA QuietKeeps ==
    ASSUME JournalInv,
           \/ \E op \in Op, fence \in 0..MaxEpoch : Preflight(op, fence)
           \/ \E fence \in 0..MaxEpoch : PreflightDrift(fence)
           \/ \E op \in Op, fence \in 0..MaxEpoch, t \in tokens : ExecuteRefused(op, fence, t)
           \/ Renew \/ Revoke
           \/ RetentionExpires \/ LeaseExpires \/ SessionLost \/ Reconnect
           \/ \E t \in tokens : TokenExpires(t)
           \/ ReconcileFails
           \/ ResultNotJournaled
    PROVE  JournalInv'
<1> USE EffectAssumption, NoneAssumption DEF switch, journal, conn, work
<1>0. TypeOK BY DEF JournalInv
<1>1. ASSUME NEW op \in Op, NEW fence \in 0..MaxEpoch, Preflight(op, fence)
      PROVE  JournalInv'
  <2>1. [id |-> issued + 1, op |-> op, bank |-> 1 - selector] \in Token
    BY <1>0, <1>1 DEF Preflight, TypeOK, Token, Banks
  <2> QED BY <1>0, <1>1, <2>1, Frame DEF Preflight, TypeOK
<1>2. ASSUME NEW fence \in 0..MaxEpoch, PreflightDrift(fence) PROVE JournalInv'
  BY <1>0, <1>2, Frame DEF PreflightDrift, TypeOK
<1>3. ASSUME NEW op \in Op, NEW fence \in 0..MaxEpoch, NEW t \in tokens,
             ExecuteRefused(op, fence, t)
      PROVE  JournalInv'
  BY <1>0, <1>3, Frame DEF ExecuteRefused, JournalFails, TypeOK
<1>4. CASE Renew
  BY <1>0, <1>4, Frame DEF Renew, TypeOK
<1>5. CASE Revoke
  BY <1>0, <1>5, Frame DEF Revoke, TypeOK
<1>6. CASE RetentionExpires
  BY <1>0, <1>6, Frame DEF RetentionExpires, TypeOK
<1>7. CASE LeaseExpires
  BY <1>0, <1>7, Frame DEF LeaseExpires, TypeOK
<1>8. CASE SessionLost
  BY <1>0, <1>8, Frame DEF SessionLost, TypeOK
<1>9. CASE Reconnect
  BY <1>0, <1>9, Frame DEF Reconnect, TypeOK
<1>10. ASSUME NEW t \in tokens, TokenExpires(t) PROVE JournalInv'
  BY <1>0, <1>10, Frame DEF TokenExpires, TypeOK
<1>11. CASE ReconcileFails
  BY <1>0, <1>11, Frame DEF ReconcileFails, TypeOK
<1>12. CASE ResultNotJournaled
  BY <1>0, <1>12, Frame DEF ResultNotJournaled, JournalFails, TypeOK
<1> QED BY <1>1, <1>2, <1>3, <1>4, <1>5, <1>6, <1>7, <1>8, <1>9, <1>10, <1>11, <1>12

(* Appending a record to the journal. *)
LEMMA AppendRecord ==
    ASSUME TypeOK, NEW r \in Record, Journal(r)
    PROVE  /\ jtail' \in Seq(Record) /\ jtail' # <<>>
           /\ Len(jtail') = Len(jtail) + 1
           /\ LastRec' = r /\ LastSeq' = LastSeq + 1
           /\ \A i \in 1..Len(jtail) : jtail'[i] = jtail[i]
           /\ jtail'[Len(jtail) + 1] = r
           /\ jbase' = jbase /\ faults' = faults
           /\ r.status = "started" => overActive' = (selector = r.bank)
           /\ r.status # "started" => overActive' = overActive
           /\ overActive' \in BOOLEAN
<1>1. overActive' \in BOOLEAN
  BY DEF TypeOK, Journal
<1> QED BY <1>1 DEF TypeOK, Journal, LastRec, LastSeq

(* execute journals WriteStarted.                                          *)
LEMMA ExecuteKeeps ==
    ASSUME JournalInv, NEW op \in Op, NEW fence \in 0..MaxEpoch, NEW t \in tokens,
           Execute(op, fence, t)
    PROVE  JournalInv'
<1> DEFINE r == [op |-> op, fence |-> fence, bank |-> t.bank,
                 status |-> "started", by |-> "execute"]
<1> USE EffectAssumption, NoneAssumption DEF switch, conn
<1>0. TypeOK BY DEF JournalInv
<1>1. r \in Record
  BY <1>0 DEF TypeOK, Token, Record, Statuses
<1>2. Journal(r) BY DEF Execute
<1>3. /\ WriteReady /\ pending = None /\ pending' = None /\ recovered' = recovered
      /\ UNCHANGED <<switch, conn, issued>> /\ tokens' \subseteq tokens
      /\ exec' = [op |-> op, fence |-> fence, bank |-> t.bank, step |-> "begin"]
  BY DEF Execute, Executable
<1>4. exec' \in Exec
  BY <1>0, <1>3 DEF TypeOK, Token, Exec, Steps
<1> HIDE DEF r
<1>5. TypeOK'
  BY <1>0, <1>1, <1>2, <1>3, <1>4, AppendRecord DEF TypeOK
<1>6. (PendingIsLast /\ PendingIsResult /\ ExecAlone /\ OwnerIsUp /\ RecoveredIsLast)'
  BY <1>3 DEF PendingIsLast, PendingIsResult, ExecAlone, OwnerIsUp, RecoveredIsLast, WriteReady
<1>9. ExecStarted'
  BY <1>0, <1>1, <1>2, <1>3, AppendRecord DEF ExecStarted, r
<1>7. \A i \in 1..Len(jtail') : jtail'[i].status = "started"
  <2>1. \A i \in 1..Len(jtail) : jtail[i].status = "started"
    BY <1>3 DEF JournalInv, NoStray, WriteReady
  <2>2. Len(jtail) \in Nat BY <1>0 DEF TypeOK
  <2>3. r.status = "started" BY DEF r
  <2>4. /\ Len(jtail') = Len(jtail) + 1 /\ jtail'[Len(jtail) + 1] = r
        /\ \A i \in 1..Len(jtail) : jtail'[i] = jtail[i]
    BY <1>0, <1>1, <1>2, AppendRecord
  <2> QED BY <2>1, <2>2, <2>3, <2>4
<1>8. (ResultsLast /\ NoStray)'
  BY <1>7 DEF ResultsLast, NoStray
<1> QED BY <1>5, <1>6, <1>8, <1>9 DEF JournalInv

(* A result at the end of the journal, kept as the pending result: shared  *)
(* by execute and by the two outcomes of recovery.                         *)
LEMMA ResultKeeps ==
    ASSUME JournalInv, up, ~held, NEW r \in Record, r.status # "started", Journal(r),
           pending' = [rec |-> r, seq |-> LastSeq + 1], exec' = None,
           UNCHANGED <<switch, conn, tokens, issued>>,
           recovered' \in Recovered \cup {None},
           recovered' # None => /\ recovered'.last = "unknown" /\ r.status = "unknown"
                                /\ recovered'.rec.op = r.op
                                /\ recovered'.rec.fence = r.fence
                                /\ recovered'.rec.bank = r.bank
    PROVE  JournalInv'
<1> USE EffectAssumption, NoneAssumption DEF switch, conn
<1>0. TypeOK BY DEF JournalInv
<1>1. pending' \in Pending
  BY <1>0 DEF Pending, TypeOK, LastSeq
<1>2. TypeOK'
  BY <1>0, <1>1, AppendRecord DEF TypeOK
<1>3. PendingIsLast'
  BY <1>0, AppendRecord DEF PendingIsLast
<1>4. (PendingIsResult /\ ExecAlone /\ ExecStarted /\ OwnerIsUp /\ NoStray)'
  BY <1>1 DEF PendingIsResult, ExecAlone, ExecStarted, OwnerIsUp, NoStray
<1>5. ResultsLast'
  <2>1. Len(jtail) \in Nat /\ ResultsLast BY <1>0 DEF TypeOK, JournalInv
  <2> QED BY <1>0, <2>1, AppendRecord DEF ResultsLast
<1>6. RecoveredIsLast'
  BY <1>0, AppendRecord DEF RecoveredIsLast
<1> QED BY <1>2, <1>3, <1>4, <1>5, <1>6 DEF JournalInv

(* The result of an execute is the last record and pending.                *)
LEMMA FinishKeeps == ASSUME JournalInv, FinishExecute PROVE JournalInv'
<1> USE NoneAssumption
<1>0. TypeOK /\ ExecAlone BY DEF JournalInv
<1>1. Outcome \in Record /\ Outcome.status # "started"
  BY <1>0 DEF FinishExecute, Outcome, TypeOK, Exec, Record, Statuses
<1>2. up /\ ~held /\ recovered' = None
  BY <1>0 DEF FinishExecute, ExecAlone
<1> QED BY <1>1, <1>2, ResultKeeps DEF FinishExecute

(* Recovery journals a result of the recovered operation.                  *)
LEMMA ReconcileKeeps ==
    ASSUME JournalInv, ReconcileApplied \/ ReconcileUnknown PROVE JournalInv'
<1> USE NoneAssumption
<1>0. TypeOK /\ RecoveredIsLast BY DEF JournalInv
<1>1. recovered # None /\ recovered \in Recovered /\ up /\ ~held /\ exec' = None
  BY <1>0 DEF ReconcileApplied, ReconcileUnknown, Recovering, TypeOK
<1>2. /\ RecoveryResult("applied") \in Record /\ RecoveryResult("unknown") \in Record
      /\ RecoveryResult("applied").status = "applied"
      /\ RecoveryResult("unknown").status = "unknown"
      /\ RecoveryResult("unknown").op = recovered.rec.op
      /\ RecoveryResult("unknown").fence = recovered.rec.fence
      /\ RecoveryResult("unknown").bank = recovered.rec.bank
  BY <1>1 DEF RecoveryResult, Recovered, Record, Statuses
<1>3. CASE ReconcileApplied
  BY <1>1, <1>2, <1>3, ResultKeeps DEF ReconcileApplied
<1>4. CASE ReconcileUnknown
  <2>1. /\ recovered' \in Recovered /\ recovered'.last = "unknown"
        /\ recovered'.rec = recovered.rec
    BY <1>1, <1>4 DEF ReconcileUnknown, Recovered, Statuses
  <2> QED BY <1>1, <1>2, <1>4, <2>1, ResultKeeps DEF ReconcileUnknown
<1> QED BY <1>3, <1>4

(* An acknowledgement empties the journal. *)
LEMMA AckEmpties ==
    ASSUME JournalInv, NEW r \in Record, AcknowledgeEffect(r)
    PROVE  jtail' = <<>> /\ jbase' = LastSeq
<1>1. /\ pending \in Pending /\ pending.seq = jbase + Len(jtail)
      /\ jtail \in Seq(Record) /\ jbase \in Nat /\ Len(jtail) \in Nat
  BY NoneAssumption
     DEF AcknowledgeEffect, Ackable, JournalInv, TypeOK, PendingIsLast, LastSeq
<1>2. jtail' = SubSeq(jtail, Len(jtail) + 1, Len(jtail))
  BY <1>1 DEF AcknowledgeEffect
<1>3. jtail' = <<>>
  BY <1>1, <1>2
<1> QED BY <1>1, <1>3 DEF AcknowledgeEffect, LastSeq

(* An acknowledgement drops the whole tail.                                *)
LEMMA AckKeeps ==
    ASSUME JournalInv, NEW r \in Record, AcknowledgeEffect(r) PROVE JournalInv'
<1> USE NoneAssumption DEF switch, conn
<1>0. TypeOK BY DEF JournalInv
<1>1. jtail' = <<>> /\ jbase' = LastSeq BY AckEmpties
<1>2. /\ UNCHANGED <<switch, overActive, conn, tokens, issued, recovered, exec, faults>>
      /\ pending' = None /\ recovered = None /\ exec = None
  BY DEF AcknowledgeEffect, Ackable
<1>3. TypeOK'
  BY <1>0, <1>1, <1>2, EmptySeq DEF TypeOK, LastSeq
<1> QED BY <1>1, <1>2, <1>3
        DEF JournalInv, PendingIsLast, PendingIsResult, ExecAlone, ExecStarted, OwnerIsUp,
            ResultsLast, NoStray, RecoveredIsLast

(* A crash leaves the journal as it is.                                    *)
LEMMA CrashKeeps == ASSUME JournalInv, Crash PROVE JournalInv'
<1> USE NoneAssumption DEF switch, journal
<1>1. TypeOK'
  BY DEF JournalInv, TypeOK, Crash
<1>2. ResultsLast'
  BY DEF JournalInv, ResultsLast, Crash
<1> QED BY <1>1, <1>2
        DEF Crash, JournalInv, PendingIsLast, PendingIsResult, ExecAlone, ExecStarted,
            OwnerIsUp, NoStray, RecoveredIsLast

(* Replay finds the last record to be the last result, if there is any. *)
LEMMA ReplayLemma ==
    ASSUME JournalInv
    PROVE  /\ ReplayedPending \in Pending \cup {None}
           /\ ReplayedPending # None =>
                 /\ jtail # <<>> /\ ReplayedPending.seq = LastSeq
                 /\ ReplayedPending.rec = LastRec /\ LastRec.status # "started"
           /\ ReplayedPending = None =>
                 \A i \in 1..Len(jtail) : jtail[i].status = "started"
<1> DEFINE results == {i \in DOMAIN jtail : jtail[i].status # "started"}
<1>0. /\ jtail \in Seq(Record) /\ jbase \in Nat /\ Len(jtail) \in Nat
      /\ DOMAIN jtail = 1..Len(jtail) /\ ResultsLast
  BY DEF JournalInv, TypeOK
<1>1. CASE results = {}
  BY <1>0, <1>1 DEF ReplayedPending
<1>2. CASE results # {}
  <2>1. PICK k \in results : TRUE BY <1>2
  <2>2. k \in 1..Len(jtail) /\ Len(jtail) \in results
    BY <1>0, <2>1 DEF ResultsLast
  <2>3. \A i \in results : (\A j \in results : j <= i) <=> i = Len(jtail)
    BY <1>0, <2>2
  <2>4. (CHOOSE i \in results : \A j \in results : j <= i) = Len(jtail)
    BY <2>2, <2>3
  <2>5. ReplayedPending = [rec |-> LastRec, seq |-> LastSeq]
    BY <1>2, <2>4 DEF ReplayedPending, LastRec, LastSeq
  <2>6. LastRec \in Record /\ LastSeq \in Nat /\ jtail # <<>> /\ LastRec.status # "started"
    BY <1>0, <2>2 DEF LastRec, LastSeq
  <2> QED BY <2>5, <2>6, NoneAssumption DEF Pending
<1> QED BY <1>1, <1>2

(* A restart replays the journal.                                          *)
LEMMA SpawnKeeps == ASSUME JournalInv, Spawn PROVE JournalInv'
<1> USE EffectAssumption, NoneAssumption DEF switch, journal
<1>0. TypeOK /\ ResultsLast /\ pending = None /\ recovered = None /\ exec = None
  BY DEF JournalInv, Spawn, ExecAlone, OwnerIsUp
<1>1. /\ UNCHANGED <<switch, journal, expired, tokens, issued, exec, faults>>
      /\ up' = TRUE /\ held' = (expired # "none")
  BY DEF Spawn
<1>2. ReplayedRecovered \in Recovered \cup {None}
  <2>1. CASE jtail = <<>> BY <2>1 DEF ReplayedRecovered
  <2>2. CASE jtail # <<>>
    <3>1. LastRec \in Record BY <1>0, <2>2 DEF TypeOK, LastRec
    <3>2. [rec |-> LastRec, last |-> LastRec.status] \in Recovered
      BY <3>1 DEF Record, Recovered
    <3> QED BY <3>2 DEF ReplayedRecovered
  <2> QED BY <2>1, <2>2
<1>3. /\ pending' \in Pending \cup {None} /\ recovered' \in Recovered \cup {None}
  BY <1>2, ReplayLemma DEF Spawn
<1>4. TypeOK'
  BY <1>0, <1>1, <1>3 DEF TypeOK, Spawn
<1>5. (ResultsLast /\ ExecAlone /\ ExecStarted /\ OwnerIsUp)'
  BY <1>0, <1>1 DEF ResultsLast, ExecAlone, ExecStarted, OwnerIsUp
<1>6. (PendingIsLast /\ PendingIsResult /\ NoStray)'
  BY <1>0, <1>1, ReplayLemma
     DEF Spawn, PendingIsLast, PendingIsResult, NoStray, LastRec, LastSeq
<1>7. RecoveredIsLast'
  BY <1>0, <1>1, <1>2
     DEF Spawn, RecoveredIsLast, ReplayedRecovered, LastRec, TypeOK, Record, Statuses, Recovered
<1> QED BY <1>4, <1>5, <1>6, <1>7 DEF JournalInv

(* Every step preserves the journal invariant.                             *)
LEMMA JournalStep == JournalInv /\ [Next]_edgeVars => JournalInv'
<1> SUFFICES ASSUME JournalInv, [Next]_edgeVars PROVE JournalInv' OBVIOUS
<1>1. CASE UNCHANGED edgeVars
  BY <1>1, Frame DEF edgeVars, JournalInv, TypeOK, switch, journal, conn, work
<1>2. CASE Next
  <2>1. CASE ActorStep BY <2>1, ApplyKeeps
  <2>2. CASE FinishExecute BY <2>2, FinishKeeps
  <2>3. CASE Crash \/ Spawn BY <2>3, CrashKeeps, SpawnKeeps
  <2>4. CASE ReconcileApplied \/ ReconcileUnknown BY <2>4, ReconcileKeeps
  <2>5. CASE \E r \in Record : AcknowledgeEffect(r) BY <2>5, AckKeeps
  <2>6. CASE \E op \in Op, fence \in 0..MaxEpoch, t \in tokens : Execute(op, fence, t)
    BY <2>6, ExecuteKeeps
  <2> QED BY <1>2, <2>1, <2>2, <2>3, <2>4, <2>5, <2>6, QuietKeeps DEF Next, Background
<1> QED BY <1>1, <1>2

(* Type correctness of the actor. *)
THEOREM EffectTypes == Spec => []TypeOK
<1>1. JournalInv => TypeOK BY DEF JournalInv
<1> QED BY <1>1, InitJournalInv, JournalStep, PTL DEF Spec

(* Acknowledging a pending result drops the journal of that operation and  *)
(* nothing newer, also when journal appends may fail.                      *)
THEOREM PendingIsAlwaysLast == Spec => []PendingIsLast
<1>1. JournalInv => PendingIsLast BY DEF JournalInv
<1> QED BY <1>1, InitJournalInv, JournalStep, PTL DEF Spec

(* The journal invariant.                                                  *)
LEMMA JournalInvariant == Spec => []JournalInv
BY InitJournalInv, JournalStep, PTL DEF Spec

-----------------------------------------------------------------------------
(* Only the steps of apply_plan change the switch. *)
LEMMA OnlyApplyWrites ==
    ASSUME JournalInv, [Next]_edgeVars, ~ActorStep PROVE UNCHANGED switch
BY DEF Next, Background, edgeVars, Preflight, PreflightDrift, Execute, ExecuteRefused,
       FinishExecute, ResultNotJournaled, AcknowledgeEffect, Renew, Revoke,
       RetentionExpires, LeaseExpires, SessionLost, Reconnect, TokenExpires,
       ReconcileApplied, ReconcileUnknown, ReconcileFails, Crash, Spawn

(* Only an acknowledgement moves the checkpoint. *)
LEMMA OnlyAckCheckpoints ==
    ASSUME JournalInv, [Next]_edgeVars, ~\E r \in Record : AcknowledgeEffect(r)
    PROVE  jbase' = jbase
BY DEF Next, Background, ActorStep, edgeVars, journal, idle, Journal, JournalFails,
       ApplyReadFails, StageBank, BankStaged, FlipSelector, WriteOverlay,
       Preflight, PreflightDrift, Execute, ExecuteRefused,
       FinishExecute, ResultNotJournaled, Renew, Revoke,
       RetentionExpires, LeaseExpires, SessionLost, Reconnect, TokenExpires,
       ReconcileApplied, ReconcileUnknown, ReconcileFails, Crash, Spawn

(* Write-ahead: whatever the clients do and whichever appends fail, the    *)
(* switch changes only under the newest record of the journal.             *)
THEOREM WritesAreAhead == Spec => WriteAhead
<1>1. JournalInv /\ [Next]_edgeVars =>
        [switch' # switch => /\ jtail # <<>> /\ LastRec.status = "started"
                             /\ exec # None /\ Key(LastRec) = Key(exec)]_edgeVars
  <2> SUFFICES ASSUME JournalInv, [Next]_edgeVars, switch' # switch
               PROVE  /\ jtail # <<>> /\ LastRec.status = "started"
                      /\ exec # None /\ Key(LastRec) = Key(exec)
    OBVIOUS
  <2>1. ActorStep BY OnlyApplyWrites
  <2>2. exec # None
    BY <2>1 DEF ActorStep, At, ApplyReadFails, StageBank, BankStaged, FlipSelector, WriteOverlay
  <2> QED BY <2>2 DEF JournalInv, ExecStarted, Key
<1> QED BY <1>1, JournalInvariant, PTL DEF Spec, WriteAhead

(* An operation leaves the journal only with a final outcome. *)
THEOREM SettledBeforeDropped == Spec => OnlySettledDropped
<1>1. JournalInv /\ [Next]_edgeVars =>
        [jbase' # jbase => /\ jtail # <<>> /\ LastRec.status \in {"applied", "hold"}
                           /\ jtail' = <<>>]_edgeVars
  <2> SUFFICES ASSUME JournalInv, [Next]_edgeVars, jbase' # jbase
               PROVE  /\ jtail # <<>> /\ LastRec.status \in {"applied", "hold"}
                      /\ jtail' = <<>>
    OBVIOUS
  <2>1. PICK r \in Record : AcknowledgeEffect(r) BY OnlyAckCheckpoints
  <2>2. jtail' = <<>> BY <2>1, AckEmpties
  <2>3. r = LastRec /\ jtail # <<>> /\ r.status # "started" /\ r.status # "unknown"
    BY <2>1 DEF AcknowledgeEffect, Ackable, JournalInv, PendingIsLast, PendingIsResult
  <2> QED BY <2>2, <2>3 DEF Record, Statuses
<1> QED BY <1>1, JournalInvariant, PTL DEF Spec, OnlySettledDropped

-----------------------------------------------------------------------------
(* What the steps of apply_plan know about the switch.  When WriteStarted  *)
(* was journaled over the inactive bank, that bank is selected only once   *)
(* it is staged: so a readback that finds it selected finds it whole.      *)
StepTrue ==
    exec # None =>
       /\ exec.step \in {"staging", "staged"} => Kind[exec.op] = "baseline"
       /\ exec.step = "staged" => bank[exec.bank] = BodyOf[exec.op]
       /\ exec.step = "applied" => Matches(exec.op, exec.bank)
StagesInactive ==
    exec # None /\ Kind[exec.op] = "baseline" /\ exec.step \in {"begin", "staging"} /\ ~overActive
       => selector # exec.bank
SelectedIsStaged ==
    jtail # <<>> /\ ~overActive /\ Kind[LastRec.op] = "baseline" /\ selector = LastRec.bank
       => bank[LastRec.bank] = BodyOf[LastRec.op]
StageInv == StagesInactive /\ SelectedIsStaged
AppliedInv == StepTrue /\ AppliedStaysTrue /\ StageInv

(* A step of apply_plan selects a bank only once it is staged.             *)
LEMMA StageKept ==
    ASSUME JournalInv, AppliedInv, ActorStep PROVE StageInv'
<1> USE EffectAssumption, NoneAssumption DEF At, Goto, idle, journal
<1>0. TypeOK /\ StepTrue /\ ExecStarted /\ StagesInactive /\ SelectedIsStaged
  BY DEF JournalInv, AppliedInv, StageInv
<1>1. /\ exec # None /\ exec \in Exec /\ UNCHANGED <<jtail, overActive>> /\ LastRec' = LastRec
      /\ jtail # <<>> /\ LastRec.op = exec.op /\ LastRec.bank = exec.bank
      /\ bank \in [Banks -> Content] /\ exec.bank \in Banks
  BY <1>0 DEF TypeOK, Exec, ExecStarted, LastRec,
              ActorStep, ApplyReadFails, StageBank, BankStaged, FlipSelector, WriteOverlay
<1>2. exec' # None /\ exec'.op = exec.op /\ exec'.bank = exec.bank
  <2>1. PICK e \in Exec : e = exec BY <1>1
  <2>2. \A s \in Steps : [e EXCEPT !.step = s] \in Exec
                          /\ [e EXCEPT !.step = s].op = e.op /\ [e EXCEPT !.step = s].bank = e.bank
    BY DEF Exec
  <2>3. \E s \in Steps : exec' = [e EXCEPT !.step = s]
    BY <2>1 DEF Steps, ActorStep, ApplyReadFails, StageBank, BankStaged, FlipSelector, WriteOverlay
  <2> QED BY <2>1, <2>2, <2>3
<1>3. CASE overActive \/ Kind[exec.op] # "baseline"
  BY <1>1, <1>2, <1>3 DEF StageInv, StagesInactive, SelectedIsStaged
<1>4. CASE ~overActive /\ Kind[exec.op] = "baseline"
  <2>1. CASE ApplyReadFails
    BY <1>0, <1>1, <1>2, <2>1
       DEF ApplyReadFails, switch, Exec, StageInv, StagesInactive, SelectedIsStaged
  <2>2. CASE StageBank \/ BankStaged
    <3>1. selector # exec.bank /\ selector' = selector
      BY <1>0, <1>4, <2>2 DEF StageBank, BankStaged, StagesInactive
    <3> QED BY <1>1, <1>2, <3>1 DEF StageInv, StagesInactive, SelectedIsStaged
  <2>3. CASE FlipSelector
    <3>1. /\ exec'.step \in {"applied", "unknown"} /\ exec.step = "staged" /\ UNCHANGED bank
      BY <1>1, <2>3 DEF FlipSelector, Exec, Steps
    <3>2. bank'[exec.bank] = BodyOf[exec.op] BY <1>0, <1>1, <3>1 DEF StepTrue
    <3> QED BY <1>1, <1>2, <3>1, <3>2 DEF StageInv, StagesInactive, SelectedIsStaged
  <2>4. CASE WriteOverlay
    BY <1>4, <2>4 DEF WriteOverlay
  <2> QED BY <2>1, <2>2, <2>3, <2>4 DEF ActorStep
<1> QED BY <1>3, <1>4

(* A step of apply_plan keeps what its place says of the switch.           *)
LEMMA StepStaysTrue ==
    ASSUME JournalInv, AppliedInv, ActorStep PROVE AppliedInv'
<1> USE EffectAssumption, NoneAssumption DEF At, Goto, idle, journal
<1>0. TypeOK /\ StepTrue /\ ExecStarted BY DEF JournalInv, AppliedInv
<1>1. exec # None /\ exec \in Exec /\ UNCHANGED jtail
  BY <1>0 DEF TypeOK, ActorStep, ApplyReadFails, StageBank, BankStaged, FlipSelector, WriteOverlay
<1>2. AppliedStaysTrue' /\ StageInv'
  BY <1>0, <1>1, StageKept DEF ExecStarted, AppliedStaysTrue, LastRec
<1>3. CASE ApplyReadFails
  BY <1>1, <1>2, <1>3 DEF ApplyReadFails, AppliedInv, StepTrue, Exec
<1>4. CASE StageBank
  BY <1>1, <1>2, <1>4 DEF StageBank, AppliedInv, StepTrue, Exec
<1>5. CASE BankStaged
  <2>1. exec' \in Exec /\ exec'.op = exec.op /\ exec'.bank = exec.bank
        /\ exec'.step \in {"staged", "unknown"} /\ exec.step = "staging"
    BY <1>1, <1>5 DEF BankStaged, Exec, Steps
  <2>2. exec'.step = "staged" => bank' = [bank EXCEPT ![exec.bank] = BodyOf[exec.op]]
    BY <1>1, <1>5 DEF BankStaged, Exec, Steps
  <2>3. bank \in [Banks -> Content] /\ exec.bank \in Banks
    BY <1>0, <1>1 DEF TypeOK, Exec
  <2> QED BY <1>0, <1>1, <1>2, <2>1, <2>2, <2>3 DEF AppliedInv, StepTrue
<1>6. CASE FlipSelector
  <2>1. /\ exec' \in Exec /\ exec'.op = exec.op /\ exec'.bank = exec.bank
        /\ exec'.step \in {"applied", "unknown"} /\ exec.step = "staged"
        /\ UNCHANGED bank
    BY <1>1, <1>6 DEF FlipSelector, Exec, Steps
  <2>2. exec'.step = "applied" => selector' = exec.bank
    BY <1>1, <1>6 DEF FlipSelector, Exec, Steps
  <2> QED BY <1>0, <1>1, <1>2, <2>1, <2>2 DEF AppliedInv, StepTrue, Matches
<1>7. CASE WriteOverlay
  <2>1. PICK c \in {overlay[SlotOf[exec.op]], Mixed, Wanted(exec.op)} :
           /\ overlay' = [overlay EXCEPT ![SlotOf[exec.op]] = c]
           /\ (c = Wanted(exec.op) /\ Goto("applied")) \/ Goto("unknown")
    BY <1>7 DEF WriteOverlay
  <2>2. /\ exec' \in Exec /\ exec'.op = exec.op /\ exec'.bank = exec.bank
        /\ exec'.step \in {"applied", "unknown"} /\ Kind[exec.op] \in {"upsert", "delete"}
    BY <1>1, <1>7, <2>1 DEF WriteOverlay, Exec, Steps
  <2>3. exec'.step = "applied" => c = Wanted(exec.op)
    BY <1>1, <2>1 DEF Exec
  <2>4. exec'.step = "applied" => overlay'[SlotOf[exec.op]] = Wanted(exec.op)
    BY <1>0, <1>1, <2>1, <2>3 DEF TypeOK, Exec
  <2> QED BY <1>2, <2>2, <2>4 DEF AppliedInv, StepTrue, Matches, Wanted
<1> QED BY <1>3, <1>4, <1>5, <1>6, <1>7 DEF ActorStep

(* The steps that leave the switch, the journal and the command alone, or  *)
(* give the command up.                                                    *)
LEMMA OtherSteps ==
    ASSUME JournalInv, [Next]_edgeVars, ~ActorStep, ~FinishExecute,
           ~ReconcileApplied, ~ReconcileUnknown,
           ~\E r \in Record : AcknowledgeEffect(r),
           ~\E op \in Op, fence \in 0..MaxEpoch, t \in tokens : Execute(op, fence, t)
    PROVE  UNCHANGED <<switch, jtail, overActive>> /\ (exec' = exec \/ exec' = None)
BY DEF Next, Background, edgeVars, work, journal, JournalFails, Preflight, PreflightDrift,
       ExecuteRefused, ResultNotJournaled, Renew, Revoke,
       RetentionExpires, LeaseExpires, SessionLost, Reconnect, TokenExpires,
       ReconcileFails, Crash, Spawn

(* Every step keeps applied results true.                                  *)
LEMMA AppliedStep == JournalInv /\ AppliedInv /\ [Next]_edgeVars => AppliedInv'
<1> SUFFICES ASSUME JournalInv, AppliedInv, [Next]_edgeVars, ~ActorStep PROVE AppliedInv'
  BY StepStaysTrue
<1> USE NoneAssumption
<1>0. TypeOK /\ UNCHANGED <<bank, selector, overlay>>
  BY OnlyApplyWrites DEF JournalInv, switch
<1>1. CASE FinishExecute
  <2>1. /\ Outcome \in Record /\ exec' = None /\ Journal(Outcome)
        /\ Outcome.op = exec.op /\ Outcome.bank = exec.bank /\ Outcome.status = exec.step
        /\ exec # None /\ Outcome.status # "started"
    BY <1>0, <1>1 DEF FinishExecute, Outcome, TypeOK, Exec, Record, Statuses
  <2>2. LastRec' = Outcome /\ overActive' = overActive BY <1>0, <2>1, AppendRecord
  <2>3. (StepTrue /\ AppliedStaysTrue)'
    BY <1>0, <2>1, <2>2 DEF AppliedInv, StepTrue, AppliedStaysTrue, Matches
  <2>4. StageInv'
    <3>1. jtail # <<>> /\ LastRec.op = exec.op /\ LastRec.bank = exec.bank
      BY <2>1 DEF JournalInv, ExecStarted
    <3> QED BY <1>0, <2>1, <2>2, <3>1 DEF AppliedInv, StageInv, StagesInactive, SelectedIsStaged
  <2> QED BY <2>3, <2>4 DEF AppliedInv
<1>2. CASE ReconcileApplied \/ ReconcileUnknown
  <2>1. recovered \in Recovered /\ recovered # None /\ exec' = None
    BY <1>0, <1>2 DEF ReconcileApplied, ReconcileUnknown, Recovering, TypeOK
  <2>2. \A s \in {"applied", "unknown"} :
           /\ RecoveryResult(s) \in Record /\ RecoveryResult(s).status = s
           /\ RecoveryResult(s).op = recovered.rec.op
           /\ RecoveryResult(s).bank = recovered.rec.bank
           /\ RecoveryResult(s).by = "recovery"
    BY <2>1 DEF RecoveryResult, Recovered, Record, Statuses
  <2>3. PICK s \in {"applied", "unknown"} :
           /\ LastRec' = RecoveryResult(s) /\ overActive' = overActive
           /\ s = "applied" => ReadsExact(recovered.rec.op, recovered.rec.bank)
    <3>1. CASE ReconcileApplied
      BY <1>0, <2>2, <3>1, AppendRecord DEF ReconcileApplied
    <3>2. CASE ReconcileUnknown
      BY <1>0, <2>2, <3>2, AppendRecord DEF ReconcileUnknown
    <3> QED BY <1>2, <3>1, <3>2
  <2>4. /\ jtail # <<>> /\ LastRec.op = recovered.rec.op /\ LastRec.bank = recovered.rec.bank
    BY <2>1 DEF JournalInv, RecoveredIsLast
  <2>5. StageInv'
    BY <1>0, <2>1, <2>2, <2>3, <2>4 DEF AppliedInv, StageInv, StagesInactive, SelectedIsStaged
  <2>6. AppliedStaysTrue'
    <3>1. CASE s = "unknown"
      BY <2>2, <2>3, <3>1 DEF AppliedStaysTrue
    <3>2. CASE s = "applied" /\ Kind[recovered.rec.op] # "baseline"
      BY <1>0, <2>2, <2>3, <3>2 DEF AppliedStaysTrue, ReadsExact, Matches
    <3>3. CASE s = "applied" /\ Kind[recovered.rec.op] = "baseline"
      <4>1. selector = recovered.rec.bank BY <2>3, <3>3 DEF ReadsExact
      <4>2. overActive \/ Matches(recovered.rec.op, recovered.rec.bank)
        BY <2>4, <3>3, <4>1 DEF AppliedInv, StageInv, SelectedIsStaged, Matches
      <4> QED BY <1>0, <2>2, <2>3, <3>3, <4>1, <4>2 DEF AppliedStaysTrue, Matches
    <3> QED BY <3>1, <3>2, <3>3
  <2> QED BY <2>1, <2>5, <2>6 DEF AppliedInv, StepTrue
<1>3. ASSUME NEW r \in Record, AcknowledgeEffect(r) PROVE AppliedInv'
  <2>1. jtail' = <<>> BY <1>3, AckEmpties
  <2>2. exec' = None BY <1>3 DEF AcknowledgeEffect, Ackable
  <2> QED BY <2>1, <2>2
          DEF AppliedInv, StepTrue, AppliedStaysTrue, StageInv, StagesInactive, SelectedIsStaged
<1>4. ASSUME NEW op \in Op, NEW fence \in 0..MaxEpoch, NEW t \in tokens,
             Execute(op, fence, t)
      PROVE  AppliedInv'
  <2>1. exec'.step = "begin" /\ (ExecStarted /\ TypeOK)'
    BY <1>4, ExecuteKeeps DEF Execute, JournalInv
  <2>2. exec' # None /\ exec'.bank = t.bank
    <3>1. [op |-> op, fence |-> fence, bank |-> t.bank, step |-> "begin"] \in Exec
      BY <1>0 DEF TypeOK, Token, Exec, Steps
    <3> QED BY <1>4, <3>1 DEF Execute
  <2>3. overActive' = (selector = t.bank)
    BY <1>4 DEF Execute, Journal
  <2> QED BY <1>0, <2>1, <2>2, <2>3
          DEF AppliedInv, StepTrue, AppliedStaysTrue, ExecStarted,
              StageInv, StagesInactive, SelectedIsStaged
<1>5. CASE UNCHANGED <<switch, jtail, overActive>> /\ (exec' = exec \/ exec' = None)
  BY <1>0, <1>5
     DEF AppliedInv, StepTrue, AppliedStaysTrue, LastRec, Matches,
         StageInv, StagesInactive, SelectedIsStaged
<1> QED BY <1>1, <1>2, <1>3, <1>4, <1>5, OtherSteps

(* Between the Applied result of an operation and its acknowledgement the  *)
(* switch holds that operation's plan, exactly when execute made the       *)
(* result or the plan was staged over the inactive bank; else, as far as   *)
(* the keyed readback of recovery can tell.                                *)
THEOREM AppliedIsTrue == Spec => []AppliedStaysTrue
<1>1. Init => AppliedInv
  BY DEF Init, AppliedInv, StepTrue, AppliedStaysTrue, StageInv, StagesInactive, SelectedIsStaged
<1>2. AppliedInv => AppliedStaysTrue BY DEF AppliedInv
<1> QED BY <1>1, <1>2, AppliedStep, JournalInvariant, PTL DEF Spec

-----------------------------------------------------------------------------
(* When no journal append fails, the journal is empty whenever the actor   *)
(* is free, and its length follows the life of one operation.              *)
FreeMeansEmpty == up /\ ~held /\ pending = None /\ recovered = None /\ exec = None
                     => jtail = <<>>
Lengths == /\ Len(jtail) <= 3
           /\ jtail # <<>> => /\ LastRec.status = "started" => Len(jtail) = 1
                              /\ LastRec.status = "unknown" => Len(jtail) <= 2
SingleInv == Recoverable /\ FreeMeansEmpty /\ Lengths

(* A record of the operation that owns the journal. *)
LEMMA AppendSameOp ==
    ASSUME TypeOK, SingleInv, NEW r \in Record, Journal(r),
           jtail # <<>>, Key(r) = Key(LastRec)
    PROVE  Recoverable'
<1>1. /\ Len(jtail) \in Nat /\ DOMAIN jtail = 1..Len(jtail) /\ Len(jtail) \in DOMAIN jtail
      /\ DOMAIN jtail' = 1..Len(jtail') /\ Len(jtail') = Len(jtail) + 1
      /\ \A i \in 1..Len(jtail) : jtail'[i] = jtail[i]
      /\ jtail'[Len(jtail) + 1] = r
  BY AppendRecord DEF TypeOK
<1>2. \A i \in 1..Len(jtail) : Key(jtail[i]) = Key(r)
  BY <1>1 DEF SingleInv, Recoverable, LastRec
<1>3. ASSUME NEW i \in 1..Len(jtail') PROVE Key(jtail'[i]) = Key(r)
  <2>1. CASE i \in 1..Len(jtail) BY <1>1, <1>2, <2>1
  <2>2. CASE i = Len(jtail) + 1 BY <1>1, <2>2
  <2> QED BY <1>1, <2>1, <2>2
<1> QED BY <1>1, <1>3 DEF Recoverable, Key

(* Until an append fails, every step keeps the journal that of one         *)
(* operation.                                                              *)
LEMMA SingleStep ==
    faults' = 0 /\ JournalInv /\ SingleInv /\ [Next]_edgeVars => SingleInv'
<1> SUFFICES ASSUME faults' = 0, JournalInv, SingleInv, [Next]_edgeVars
             PROVE  SingleInv'
  OBVIOUS
<1> USE NoneAssumption
<1>0. TypeOK /\ RecoveredIsLast /\ ExecStarted /\ ExecAlone BY DEF JournalInv
<1>1. CASE FinishExecute
  <2>1. /\ Outcome \in Record /\ Journal(Outcome) /\ Outcome.status # "started"
        /\ Key(Outcome) = Key(LastRec) /\ jtail # <<>> /\ LastRec.status = "started"
    BY <1>0, <1>1 DEF FinishExecute, Outcome, TypeOK, Exec, Record, Statuses, Key, ExecStarted
  <2>2. Lengths'
    <3>1. Len(jtail) = 1 BY <2>1 DEF SingleInv, Lengths
    <3>2. Len(jtail') = 2 /\ LastRec' = Outcome BY <1>0, <2>1, <3>1, AppendRecord
    <3> QED BY <2>1, <3>2 DEF Lengths
  <2>3. FreeMeansEmpty'
    <3>1. pending' \in Pending BY <1>0, <1>1, <2>1 DEF FinishExecute, Pending, TypeOK, LastSeq
    <3> QED BY <3>1 DEF FreeMeansEmpty
  <2> QED BY <1>0, <2>1, <2>2, <2>3, AppendSameOp DEF SingleInv
<1>2. CASE ReconcileApplied \/ ReconcileUnknown
  <2>1. recovered \in Recovered /\ recovered # None
    BY <1>0, <1>2 DEF ReconcileApplied, ReconcileUnknown, Recovering, TypeOK
  <2>2. \A s \in {"applied", "unknown"} :
           /\ RecoveryResult(s) \in Record /\ RecoveryResult(s).status = s
           /\ Key(RecoveryResult(s)) = Key(LastRec)
    BY <1>0, <2>1 DEF RecoveryResult, Recovered, Record, Statuses, RecoveredIsLast, Key
  <2>3. jtail # <<>> /\ recovered.last = LastRec.status
        /\ recovered.last \in {"started", "unknown"}
    BY <1>0, <2>1 DEF RecoveredIsLast
  <2>4. PICK s \in {"applied", "unknown"} :
           /\ Journal(RecoveryResult(s))
           /\ pending' = [rec |-> RecoveryResult(s), seq |-> LastSeq + 1]
           /\ s = "unknown" => recovered.last # "unknown"
    BY <1>2 DEF ReconcileApplied, ReconcileUnknown
  <2>5. Lengths'
    BY <1>0, <2>2, <2>3, <2>4, AppendRecord DEF SingleInv, Lengths
  <2>6. FreeMeansEmpty'
    <3>1. pending' \in Pending BY <1>0, <2>2, <2>4 DEF Pending, TypeOK, LastSeq
    <3> QED BY <3>1 DEF FreeMeansEmpty
  <2> QED BY <1>0, <2>2, <2>3, <2>4, <2>5, <2>6, AppendSameOp DEF SingleInv
<1>3. ASSUME NEW r \in Record, AcknowledgeEffect(r) PROVE SingleInv'
  <2>1. jtail' = <<>> BY <1>3, AckEmpties
  <2> QED BY <2>1 DEF SingleInv, Recoverable, FreeMeansEmpty, Lengths
<1>4. ASSUME NEW op \in Op, NEW fence \in 0..MaxEpoch, NEW t \in tokens,
             Execute(op, fence, t)
      PROVE  SingleInv'
  <2> DEFINE r == [op |-> op, fence |-> fence, bank |-> t.bank,
                   status |-> "started", by |-> "execute"]
  <2>1. r \in Record /\ Journal(r) /\ jtail = <<>> /\ exec' # None
    BY <1>0, <1>4, ExecuteKeeps
       DEF Execute, Executable, WriteReady, TypeOK, Token, Record, Statuses,
           SingleInv, FreeMeansEmpty, Exec, Steps
  <2>2. Len(jtail') = 1 /\ jtail' \in Seq(Record)
    BY <1>0, <2>1, AppendRecord
  <2>3. Recoverable'
    BY <2>2 DEF Recoverable, Key
  <2> QED BY <2>1, <2>2, <2>3 DEF SingleInv, FreeMeansEmpty, Lengths
<1>5. CASE ActorStep
  <2>1. jtail' = jtail /\ exec # None /\ exec' # None
    <3>1. exec # None /\ jtail' = jtail /\ \E s \in Steps : exec' = [exec EXCEPT !.step = s]
      BY <1>5 DEF ActorStep, At, Goto, idle, journal, ApplyReadFails, StageBank,
         BankStaged, FlipSelector, WriteOverlay, Steps
    <3>2. exec' \in Exec BY <1>0, <3>1 DEF TypeOK, Exec
    <3> QED BY <3>1, <3>2
  <2> QED BY <2>1 DEF SingleInv, Recoverable, Key, FreeMeansEmpty, Lengths, LastRec
<1>6. CASE Spawn
  <2>1. jtail' = jtail /\ held' = (expired # "none")
    BY <1>6 DEF Spawn, journal
  <2>2. FreeMeansEmpty'
    <3>1. ASSUME expired = "none", ReplayedRecovered = None, ReplayedPending = None
          PROVE  jtail = <<>>
      <4>1. SUFFICES ASSUME jtail # <<>> PROVE FALSE OBVIOUS
      <4>2. LastRec \in Record /\ LastRec.status = "started"
        BY <1>0, <3>1, <4>1, ReplayLemma DEF TypeOK, LastRec
      <4>3. [rec |-> LastRec, last |-> LastRec.status] \in Recovered
        BY <4>2 DEF Recovered, Record
      <4> QED BY <3>1, <4>1, <4>2, <4>3 DEF ReplayedRecovered
    <3> QED BY <1>6, <2>1, <3>1 DEF Spawn, FreeMeansEmpty
  <2> QED BY <2>1, <2>2 DEF SingleInv, Recoverable, Key, Lengths, LastRec
<1>7. CASE /\ UNCHANGED jtail
           /\ up' /\ ~held' /\ pending' = None /\ recovered' = None /\ exec' = None
              => up /\ ~held /\ pending = None /\ recovered = None /\ exec = None
  BY <1>7 DEF SingleInv, Recoverable, Key, FreeMeansEmpty, Lengths, LastRec
<1>8. ~ResultNotJournaled
  BY <1>0 DEF ResultNotJournaled, JournalFails, TypeOK
<1>9. CASE UNCHANGED edgeVars
  BY <1>7, <1>9 DEF edgeVars, journal, conn, work
<1>10. ASSUME NEW op \in Op, NEW fence \in 0..MaxEpoch,
              \/ Preflight(op, fence)
              \/ \E t \in tokens : ExecuteRefused(op, fence, t)
       PROVE  SingleInv'
  BY <1>7, <1>10
     DEF Preflight, ExecuteRefused, JournalFails, journal, conn, work
<1>11. CASE Renew \/ Revoke \/ LeaseExpires \/ SessionLost \/ Reconnect \/ ReconcileFails
  BY <1>7, <1>11
     DEF Renew, Revoke, LeaseExpires, SessionLost, Reconnect, ReconcileFails, journal, work
<1>12. CASE RetentionExpires \/ Crash \/ \E t \in tokens : TokenExpires(t)
  BY <1>7, <1>12 DEF RetentionExpires, Crash, TokenExpires, journal, conn
<1>13. ASSUME NEW fence \in 0..MaxEpoch, PreflightDrift(fence) PROVE SingleInv'
  BY <1>7, <1>13 DEF PreflightDrift, journal, work
<1> QED
  BY <1>1, <1>2, <1>3, <1>4, <1>5, <1>6, <1>8, <1>9, <1>10, <1>11, <1>12, <1>13
     DEF Next, Background

(* Failed appends are only ever added. *)
LEMMA FaultsStay == TypeOK /\ [Next]_edgeVars /\ faults' = 0 => faults = 0
<1> SUFFICES ASSUME TypeOK, [Next]_edgeVars, faults' = 0 PROVE faults = 0 OBVIOUS
<1>1. faults' = faults \/ faults' = faults + 1
  BY DEF Next, ActorStep, Background, edgeVars, idle, Journal, JournalFails,
         Preflight, PreflightDrift, Execute, ExecuteRefused, FinishExecute, ResultNotJournaled,
         AcknowledgeEffect, Renew, Revoke, RetentionExpires, LeaseExpires, SessionLost,
         Reconnect, TokenExpires, ReconcileApplied, ReconcileUnknown, ReconcileFails,
         Crash, Spawn, ApplyReadFails, StageBank, BankStaged, FlipSelector, WriteOverlay
<1> QED BY <1>1, EffectAssumption DEF TypeOK

(* As long as no journal append has failed, recovery never meets the       *)
(* records of two operations, and the journal never grows beyond three     *)
(* records.                                                                *)
THEOREM JournalHasOneOwner == Spec => [](SingleUntilFault /\ JournalBounded)
<1> DEFINE Inv == faults = 0 => SingleInv
<1>1. Init => Inv
  BY DEF Init, SingleInv, Recoverable, FreeMeansEmpty, Lengths
<1>2. JournalInv /\ Inv /\ [Next]_edgeVars => Inv'
  BY SingleStep, FaultsStay DEF JournalInv
<1>3. Inv => SingleUntilFault /\ JournalBounded
  BY DEF SingleInv, Lengths, JournalBounded, SingleUntilFault
<1> QED BY <1>1, <1>2, <1>3, JournalInvariant, PTL DEF Spec

(* The journal stays recoverable and its pending result its newest record, *)
(* whatever clients, crashes, recoveries and failing appends do: all four  *)
(* parts of what recover_effect_journal and acknowledge_effect rest on.    *)
THEOREM JournalIsSound == Spec => []JournalSound
BY EffectTypes, PendingIsAlwaysLast, JournalHasOneOwner, PTL DEF JournalSound
-----------------------------------------------------------------------------
(* The composed system. *)

(* The places of a dispatch behind its claim, and those at which it has    *)
(* not sent its execute request yet.                                       *)
NotSent     == {"preflight", "rejected", "execute"}
Dispatching == NotSent \cup {"wait", "result", "unknown"}
Busy(w, P)  == job[w] # None /\ job[w].pc \in P
Claimed(op) == intent[op] \in {"claimed", "unknown"}
Unborn(op)  == intent[op] \in {"absent", "unclaimed"}

(* An operation whose execute has begun and is over. *)
Over(op) == ran[op] = 1 /\ (exec # None => exec.op # op)

(* One execute request per operation: its claim has one owner, who sends   *)
(* once, and a request on the way has not been executed.                   *)
SendInv ==
    /\ \A op \in Op : ran[op] \in {0, 1} /\ (Unborn(op) => ran[op] = 0)
    /\ \A w \in Worker : Busy(w, Pc \ {"validate"}) => ~Unborn(job[w].op)
    /\ \A w \in Worker : Busy(w, NotSent) =>
          Claimed(job[w].op) /\ ran[job[w].op] = 0 /\ \A m \in net : m.op # job[w].op
    /\ \A v, w \in Worker : Busy(v, NotSent) /\ Busy(w, NotSent) /\ job[v].op = job[w].op => v = w
    /\ \A m \in net : Claimed(m.op) /\ ran[m.op] = 0
    /\ \A m, n \in net : m.op = n.op => m = n
    /\ exec # None => Claimed(exec.op) /\ ran[exec.op] = 1

(* A result, wherever it is kept, is of an operation that is over.         *)
ResultInv ==
    /\ \A i \in 1..Len(jtail) : ran[jtail[i].op] = 1
    /\ \A w \in Worker : Busy(w, {"result", "converge", "ack"}) => job[w].rec # None
    /\ \A w \in Worker : job[w] # None /\ job[w].rec # None =>
          job[w].rec.op = job[w].op /\ Over(job[w].op)
    /\ \A op \in Op : acks[op].state # "none" =>
          acks[op].rec # None /\ acks[op].rec.op = op /\ Over(op)

(* A hold, in the journal, in a task or in the ledger, is of an operation  *)
(* that has not touched the switch and will not.                           *)
TouchInv ==
    /\ \A op \in touched : ran[op] = 1
    /\ exec # None /\ exec.step \in {"begin", "hold"} => exec.op \notin touched
    /\ \A i \in 1..Len(jtail) : jtail[i].status = "hold" => jtail[i].op \notin touched
    /\ \A w \in Worker : job[w] # None /\ job[w].rec # None /\ job[w].rec.status = "hold" =>
          job[w].op \notin touched
    /\ \A op \in Op : acks[op].state # "none" /\ acks[op].rec.status = "hold" => op \notin touched
    /\ \A op \in Op : intent[op] = "hold" => op \notin touched

(* One baseline at a time is open, from its claim to its outcome, and only *)
(* an open one writes: the bank it fixed at preflight stays inactive until *)
(* it flips the selector itself.                                           *)
OpenInv ==
    /\ \A op \in Op : act[op] # "none" => Kind[op] = "baseline"
    /\ \A op \in Op : Unborn(op) => act[op] \in {"none", "prepared"}
    /\ \A op \in Op : ~Unborn(op) => GateOpen(op)
    /\ \A w \in Worker : job[w] # None => GateOpen(job[w].op)
    /\ \A op \in Op : Kind[op] = "baseline" /\ Claimed(op) => Open(op)
    /\ \A op \in Op : Open(op) => intent[op] \in {"unclaimed", "claimed", "unknown"}
    /\ \A o, p \in Op : Open(o) /\ Open(p) => o = p
BankInv ==
    /\ \A m \in net : Kind[m.op] = "baseline" => m.tok.bank # selector
    /\ \A w \in Worker : Busy(w, {"execute"}) /\ Kind[job[w].op] = "baseline" =>
          job[w].tok.bank # selector
    /\ exec # None /\ Kind[exec.op] = "baseline" /\ exec.step \in {"begin", "staging", "staged"}
          => exec.bank # selector
    /\ bank[selector] # Mixed

(* A dispatch behind its claim owns it, if it ends before its lease does.  *)
OwnInv ==
    /\ \A op \in Op : Unborn(op) => ~leaseOver[op]
    /\ \A w \in Worker : Busy(w, Dispatching) =>
          intent[job[w].op] = "claimed" /\ owner[job[w].op] = w /\ ~leaseOver[job[w].op]

(* An acknowledgement row holds the result that the ledger holds, and an   *)
(* acknowledging task that of the row.                                     *)
Final(r) == IF r.status = "applied" THEN "finalized" ELSE "hold"
AckInv ==
    /\ \A op \in Op : acks[op].state # "none" =>
          acks[op].rec.status \in {"applied", "hold"} /\ intent[op] = Final(acks[op].rec)
    /\ \A w \in Worker : Busy(w, {"ack"}) =>
          acks[job[w].op].state # "none" /\ acks[job[w].op].rec = job[w].rec

(* The switch runs what the binding says unless an open baseline has       *)
(* touched it, and an applied result of an open baseline is on the switch. *)
SwitchIsBinding ==
    IF binding.op = None THEN bank[selector] = Empty
    ELSE selector = binding.bank /\ bank[selector] = BodyOf[binding.op]
TruthInv ==
    /\ (\A op \in Op : Open(op) => op \notin touched) => SwitchIsBinding
    /\ \A w \in Worker :
          /\ job[w] # None /\ job[w].rec # None /\ job[w].rec.status = "applied"
          /\ Kind[job[w].op] = "baseline" /\ Open(job[w].op)
          => Matches(job[w].op, job[w].rec.bank)

-----------------------------------------------------------------------------
(* The actor of the composition *)

(* What a step does to the jobs: w goes to a new one, or ends.             *)
JobTo(w, pc, op, tok, rec) ==
    /\ job' \in [Worker -> Job \cup {None}] /\ job'[w] # None
    /\ job'[w].pc = pc /\ job'[w].op = op /\ job'[w].tok = tok /\ job'[w].rec = rec
    /\ \A v \in Worker \ {w} : job'[v] = job[v]
JobEnds(w) ==
    /\ job' \in [Worker -> Job \cup {None}] /\ job'[w] = None
    /\ \A v \in Worker \ {w} : job'[v] = job[v]

(* Moves changes the place of one task.                                    *)
LEMMA JobMoves ==
    ASSUME SysTypeOK, NEW w \in Worker, job[w] # None, NEW pc \in Pc, Moves(w, pc)
    PROVE  JobTo(w, pc, job[w].op, job[w].tok, job[w].rec)
<1>1. job \in [Worker -> Job \cup {None}] /\ job[w] \in Job BY DEF SysTypeOK
<1>2. [job[w] EXCEPT !.pc = pc] \in Job BY <1>1 DEF Job
<1> QED BY <1>1, <1>2, SystemNoneAssumption DEF JobTo, Moves, Job

(* Ends clears the job of one task.                                        *)
LEMMA JobEnding ==
    ASSUME SysTypeOK, NEW w \in Worker, Ends(w) PROVE JobEnds(w)
BY DEF SysTypeOK, JobEnds, Ends

(* Start gives a free task a job.                                          *)
LEMMA JobStarts ==
    ASSUME SysTypeOK, NEW w \in Worker, NEW pc \in Pc, NEW op \in Op,
           NEW rec \in Record \cup {None}, NEW by \in {"dispatch", "reconcile", "retry"},
           Start(w, pc, op, rec, by)
    PROVE  JobTo(w, pc, op, None, rec)
<1>1. job \in [Worker -> Job \cup {None}] BY DEF SysTypeOK
<1>2. [pc |-> pc, op |-> op, tok |-> None, rec |-> rec, by |-> by] \in Job BY DEF Job
<1> QED BY <1>1, <1>2, SystemNoneAssumption DEF JobTo, Start

(* Where the steps of a task lead. *)
Stays(w, pc) == JobTo(w, pc, job[w].op, job[w].tok, job[w].rec)
(* Where each step of a running task leads it.                             *)
LEMMA TaskJobs ==
    ASSUME SysTypeOK, NEW w \in Worker
    PROVE  /\ HoldBeforeSideEffect(w) \/ FinalizePreflightHold(w) \/ MarkUnknown(w)
                 \/ MarkAcked(w) \/ RecordAckFailure(w) \/ Stop(w) \/ Shutdown(w)
              => JobEnds(w)
           /\ ClaimIntent(w) => Stays(w, "preflight")
           /\ PreflightRejected(w) => Stays(w, "rejected")
           /\ ExecuteEffect(w) => Stays(w, "wait")
           /\ GiveUp(w) => Stays(w, "unknown")
           /\ Finalize(w) => Stays(w, "ack")
           /\ AckServed(w) => Stays(w, "acked") \/ Stays(w, "ackFailed")
           /\ AckRefused(w) => Stays(w, "ackFailed")
           /\ Converge(w) => \/ Settle(job[w].op, job[w].rec) /\ Stays(w, "ack")
                             \/ job[w].rec.status = "unknown" /\ JobEnds(w)
<1>1. Ends(w) => JobEnds(w) BY JobEnding
<1>2. HoldBeforeSideEffect(w) \/ FinalizePreflightHold(w) \/ MarkUnknown(w)
         \/ MarkAcked(w) \/ RecordAckFailure(w) \/ Stop(w) \/ Shutdown(w) => Ends(w)
  BY DEF HoldBeforeSideEffect, FinalizePreflightHold, MarkUnknown, MarkAcked,
         RecordAckFailure, Stop, Shutdown
<1>3. \A pc \in Pc : job[w] # None /\ Moves(w, pc) => Stays(w, pc)
  BY JobMoves DEF Stays
<1>4. /\ ClaimIntent(w) => Stays(w, "preflight")
      /\ PreflightRejected(w) => Stays(w, "rejected")
      /\ ExecuteEffect(w) => Stays(w, "wait")
      /\ GiveUp(w) => Stays(w, "unknown")
      /\ Finalize(w) => Stays(w, "ack")
      /\ AckServed(w) => Stays(w, "acked") \/ Stays(w, "ackFailed")
      /\ AckRefused(w) => Stays(w, "ackFailed")
  BY <1>3 DEF Pc, At_, ClaimIntent, PreflightRejected, ExecuteEffect, GiveUp, Finalize,
              AckServed, AckRefused
<1>5. Converge(w) => \/ Settle(job[w].op, job[w].rec) /\ Stays(w, "ack")
                     \/ job[w].rec.status = "unknown" /\ JobEnds(w)
  BY <1>1, <1>3 DEF Pc, At_, Converge
<1> QED BY <1>1, <1>2, <1>4, <1>5

(* Where a task begins.                                                    *)
LEMMA StartJobs ==
    ASSUME SysTypeOK, NEW w \in Worker, NEW op \in Op
    PROVE  /\ Select(w, op) => JobTo(w, "validate", op, None, None)
           /\ LoadUnknownIntent(w, op) => JobTo(w, "query", op, None, None)
           /\ RetryPendingAcknowledgement(w, op) => JobTo(w, "ack", op, None, acks[op].rec)
<1>1. acks[op].rec \in Record \cup {None} BY DEF SysTypeOK, Ack
<1> QED BY <1>1, JobStarts
        DEF Pc, Select, LoadUnknownIntent, RetryPendingAcknowledgement

(* An answered preflight leads to an execute with a token for the bank     *)
(* that is inactive now; an error leads to a rejection.                    *)
LEMMA TokenJob ==
    ASSUME SysTypeOK, NEW w \in Worker, PreflightEffect(w)
    PROVE  /\ Preflight(job[w].op, fenceOf[job[w].op])
           /\ \/ Stays(w, "rejected")
              \/ \E t \in Token : /\ t.op = job[w].op /\ t.bank = 1 - selector
                                  /\ JobTo(w, "execute", job[w].op, t, job[w].rec)
<1>1. job \in [Worker -> Job \cup {None}] /\ job[w] \in Job /\ job[w] # None
  BY DEF SysTypeOK, PreflightEffect, At_
<1>2. Preflight(job[w].op, fenceOf[job[w].op]) BY DEF PreflightEffect
<1>3. CASE Moves(w, "rejected")
  BY <1>1, <1>2, <1>3, JobMoves DEF Pc, Stays
<1>4. ASSUME NEW t \in tokens' \ tokens,
             job' = [job EXCEPT ![w].pc = "execute", ![w].tok = t]
      PROVE  \E s \in Token : /\ s.op = job[w].op /\ s.bank = 1 - selector
                              /\ JobTo(w, "execute", job[w].op, s, job[w].rec)
  <2>1. t = [id |-> issued + 1, op |-> job[w].op, bank |-> 1 - selector]
    BY <1>2, <1>4 DEF Preflight
  <2>2. t \in Token /\ t.op = job[w].op /\ t.bank = 1 - selector
    BY <1>1, <1>2, <2>1, EffectAssumption DEF SysTypeOK, TypeOK, Preflight, Token, Banks, Job
  <2>3. [job[w] EXCEPT !.pc = "execute", !.tok = t] \in Job
    BY <1>1, <2>2 DEF Job, Pc
  <2>4. JobTo(w, "execute", job[w].op, t, job[w].rec)
    BY <1>1, <1>4, <2>3, SystemNoneAssumption DEF JobTo, Job
  <2> QED BY <2>2, <2>4
<1> QED BY <1>2, <1>3, <1>4 DEF PreflightEffect

(* The readback of a reconciliation is the pending result of its           *)
(* operation.                                                              *)
LEMMA ReadbackJob ==
    ASSUME SysTypeOK, NEW w \in Worker, QueryEffectReadback(w)
    PROVE  /\ pending # None /\ pending.rec \in Record /\ pending.rec.op = job[w].op
           /\ JobTo(w, "converge", job[w].op, job[w].tok, pending.rec)
<1>1. job \in [Worker -> Job \cup {None}] /\ job[w] \in Job /\ job[w] # None
  BY DEF SysTypeOK, QueryEffectReadback, At_
<1>2. pending # None /\ pending.rec \in Record /\ pending.rec.op = job[w].op
  BY DEF QueryEffectReadback, Answerable, SysTypeOK, TypeOK, Pending, Key
<1>3. [job[w] EXCEPT !.pc = "converge", !.rec = pending.rec] \in Job
  BY <1>1, <1>2 DEF Job, Pc
<1> QED BY <1>1, <1>2, <1>3, SystemNoneAssumption DEF JobTo, Job, QueryEffectReadback

(* The reply of the actor carries the outcome of the operation it ran, and *)
(* reaches at most one waiting task.                                       *)
LEMMA ReplyJob ==
    ASSUME SysTypeOK, EdgeReply
    PROVE  /\ FinishExecute /\ exec # None /\ Outcome \in Record
           /\ Outcome.op = exec.op /\ Outcome.status = exec.step /\ Outcome.bank = exec.bank
           /\ \/ UNCHANGED job
              \/ \E w \in Worker : /\ At_(w, "wait") /\ job[w].op = exec.op
                                   /\ JobTo(w, "result", job[w].op, job[w].tok, Outcome)
<1>1. /\ FinishExecute /\ exec # None /\ Outcome \in Record
      /\ Outcome.op = exec.op /\ Outcome.status = exec.step /\ Outcome.bank = exec.bank
  BY DEF EdgeReply, FinishExecute, Outcome, SysTypeOK, TypeOK, Exec, Record, Statuses
<1>2. ASSUME NEW w \in Worker, At_(w, "wait"), job[w].op = exec.op,
             job' = [job EXCEPT ![w].pc = "result", ![w].rec = Outcome]
      PROVE  JobTo(w, "result", job[w].op, job[w].tok, Outcome)
  <2>1. job \in [Worker -> Job \cup {None}] /\ job[w] \in Job /\ job[w] # None
    BY <1>2 DEF SysTypeOK, At_
  <2>2. [job[w] EXCEPT !.pc = "result", !.rec = Outcome] \in Job
    BY <1>1, <2>1 DEF Job, Pc
  <2> QED BY <1>2, <2>1, <2>2, SystemNoneAssumption DEF JobTo, Job
<1> QED BY <1>1, <1>2 DEF EdgeReply

(* Every step of the system is a step of the actor, or leaves it alone. *)
LEMMA ActorOfSystem ==
    ASSUME SysTypeOK, [SysNext]_vars PROVE [Next]_edgeVars
<1>0. TypeOK BY DEF SysTypeOK
<1>1. CASE UNCHANGED vars BY <1>1 DEF vars
<1>2. ASSUME NEW op \in Op, \/ Create(op) \/ Activate(op) \/ DeadlinePasses(op)
                            \/ ClaimLeaseExpires(op) \/ FenceExpiredClaims(op)
      PROVE  UNCHANGED edgeVars
  BY <1>2 DEF Create, Activate, DeadlinePasses, ClaimLeaseExpires, FenceExpiredClaims
<1>3. CASE RecordAssignment BY <1>3 DEF RecordAssignment
<1>4. ASSUME NEW w \in Worker, TaskStep(w) PROVE [Next]_edgeVars
  <2>1. CASE PreflightEffect(w)
    <3>1. job[w].op \in Op /\ fenceOf[job[w].op] \in 0..MaxEpoch
      BY <2>1 DEF PreflightEffect, At_, SysTypeOK, Job
    <3>2. Preflight(job[w].op, fenceOf[job[w].op]) BY <2>1, TokenJob
    <3> QED BY <3>1, <3>2 DEF Next
  <2>2. CASE AckServed(w)
    <3>1. AcknowledgeEffect(job[w].rec) BY <2>2 DEF AckServed
    <3>2. job[w].rec \in Record
      BY <1>0, <3>1 DEF AcknowledgeEffect, Ackable, TypeOK, Pending
    <3> QED BY <3>1, <3>2 DEF Next
  <2>3. CASE ~PreflightEffect(w) /\ ~AckServed(w)
    BY <1>4, <2>3
       DEF TaskStep, Select, LoadUnknownIntent, RetryPendingAcknowledgement,
           HoldBeforeSideEffect, ClaimIntent, PreflightRejected, FinalizePreflightHold,
           ExecuteEffect, GiveUp, MarkUnknown, Finalize, AckRefused, MarkAcked,
           RecordAckFailure, QueryEffectReadback, Converge, Stop, Shutdown
  <2> QED BY <2>1, <2>2, <2>3
<1>5. ASSUME NEW m \in net, DeliverExecute(m) \/ DropExecute(m) PROVE [Next]_edgeVars
  <2>1. m.op \in Op /\ m.fence \in 0..MaxEpoch BY DEF SysTypeOK, Request
  <2>2. CASE DropExecute(m) BY <2>2 DEF DropExecute
  <2>3. CASE DeliverExecute(m)
    BY <2>1, <2>3 DEF DeliverExecute, Execute, Executable, Next
  <2> QED BY <1>5, <2>2, <2>3
<1>6. CASE EdgeStep BY <1>6 DEF EdgeStep, Next
<1>7. CASE EdgeReply BY <1>7 DEF EdgeReply, Next
<1>8. CASE EdgeBackground BY <1>8 DEF EdgeBackground, Next, Background
<1> QED BY <1>1, <1>2, <1>3, <1>4, <1>5, <1>6, <1>7, <1>8 DEF SysNext

(* insertEffectAckTx leaves a row, the older one if there is one.          *)
LEMMA AckRow ==
    ASSUME SysTypeOK, NEW op \in Op, NEW r \in Record \cup {None}, InsertAck(op, r)
    PROVE  /\ acks' \in [Op -> Ack]
           /\ \A o \in Op : acks'[o] = acks[o] \/ o = op
           /\ acks'[op].state # "none"
           /\ acks'[op].rec = (IF acks[op].state # "none" THEN acks[op].rec ELSE r)
<1>1. acks \in [Op -> Ack] BY DEF SysTypeOK
<1>2. [state |-> "pending", rec |-> r, tries |-> 0] \in Ack
  BY SystemAssumption DEF Ack
<1> QED BY <1>1, <1>2 DEF InsertAck, Ack

(* The two transactions that end an acknowledgement keep the row's result. *)
LEMMA AckEnds ==
    ASSUME SysTypeOK, NEW w \in Worker, job[w] # None, MarkAcked(w) \/ RecordAckFailure(w)
    PROVE  \A op \in Op : /\ acks'[op].rec = acks[op].rec
                          /\ acks'[op].state # "none" <=> acks[op].state # "none"
<1>1. acks \in [Op -> Ack] /\ job[w].op \in Op BY DEF SysTypeOK, Job
<1>2. CASE MarkAcked(w) BY <1>1, <1>2 DEF MarkAcked, Ack
<1>3. CASE RecordAckFailure(w)
  <2>1. CASE acks[job[w].op].state # "pending" BY <1>1, <1>3, <2>1 DEF RecordAckFailure
  <2>2. CASE acks[job[w].op].state = "pending"
    <3> DEFINE o == job[w].op
               st == IF acks[o].tries + 1 >= MaxAckTries THEN "exhausted" ELSE "pending"
    <3>1. acks' = [acks EXCEPT ![o] = [acks[o] EXCEPT !.tries = acks[o].tries + 1, !.state = st]]
      BY <1>1, <1>3, <2>2 DEF RecordAckFailure
    <3>2. st # "none" OBVIOUS
    <3> HIDE DEF st
    <3> QED BY <1>1, <2>2, <3>1, <3>2 DEF Ack
  <2> QED BY <2>1, <2>2
<1> QED BY <1>2, <1>3

(* Projections keep the activation states typed.                           *)
LEMMA ActStates ==
    ASSUME SysTypeOK, NEW op \in Op
    PROVE  /\ \A s \in {"hold", "reconciling"} :
                 ProjectResult(op, s) => act' \in [Op -> {"none", "prepared", "reconciling", "hold", "applied"}]
           /\ \A r : ProjectApplied(op, r) => act' \in [Op -> {"none", "prepared", "reconciling", "hold", "applied"}]
BY DEF SysTypeOK, ProjectResult, ProjectApplied, policy

(* The transaction of an outcome keeps the ledger typed.                   *)
LEMMA SettleTypes ==
    ASSUME SysTypeOK, NEW op \in Op, NEW r \in Record \cup {None}, Settle(op, r)
    PROVE  /\ intent' \in [Op -> {"absent", "unclaimed", "claimed", "unknown", "finalized", "hold"}]
           /\ attempts' \in [Op -> 0..MaxAttempts]
           /\ act' \in [Op -> {"none", "prepared", "reconciling", "hold", "applied"}]
           /\ acks' \in [Op -> Ack]
<1>1. /\ intent' \in [Op -> {"absent", "unclaimed", "claimed", "unknown", "finalized", "hold"}]
      /\ attempts' \in [Op -> 0..MaxAttempts]
  BY SystemAssumption DEF Settle, SetIntent, InsertAttempt, SysTypeOK
<1>2. act' \in [Op -> {"none", "prepared", "reconciling", "hold", "applied"}]
  BY ActStates DEF Settle
<1>3. acks' \in [Op -> Ack] BY AckRow DEF Settle
<1> QED BY <1>1, <1>2, <1>3

(* The types of the whole system.  A pending acknowledgement has tries     *)
(* left: recordAckFailure exhausts it with the last one; and only the      *)
(* answer of a preflight leads to an execute.                              *)
TriesLeft == \A op \in Op : acks[op].state = "pending" => acks[op].tries < MaxAckTries
Tokened   == \A w \in Worker : Busy(w, {"execute"}) => job[w].tok # None
Typed == SysTypeOK /\ JournalInv /\ TriesLeft /\ Tokened

(* The initial state is typed.                                             *)
LEMMA InitTyped == SysInit => Typed
<1> SUFFICES ASSUME SysInit PROVE Typed OBVIOUS
<1>1. JournalInv BY InitJournalInv DEF SysInit
<1>2. 0 \in 0..MaxEpoch /\ 0 \in 0..MaxAttempts /\ 0 \in 0..MaxAckTries
  BY EffectAssumption, SystemAssumption
<1>3. SysTypeOK
  BY <1>1, <1>2 DEF SysInit, SysTypeOK, JournalInv, Ack, NoAck
<1> QED BY <1>1, <1>3 DEF Typed, TriesLeft, Tokened, Busy, SysInit, NoAck

(* Every step keeps the types; the actor part is JournalStep.              *)
LEMMA NextTyped == Typed /\ [SysNext]_vars => Typed'
<1> SUFFICES ASSUME Typed, [SysNext]_vars PROVE Typed' OBVIOUS
<1> USE DEF ledger, policy, history, goVars
<1>0. SysTypeOK /\ JournalInv /\ TriesLeft /\ Tokened BY DEF Typed
<1>1. JournalInv' /\ TypeOK' BY <1>0, ActorOfSystem, JournalStep DEF JournalInv
<1> DEFINE IntentOK == intent' \in [Op -> {"absent", "unclaimed", "claimed", "unknown", "finalized", "hold"}]
           ActOK == act' \in [Op -> {"none", "prepared", "reconciling", "hold", "applied"}]
           AcksOK == acks' \in [Op -> Ack] /\ TriesLeft'
           JobOK == job' \in [Worker -> Job \cup {None}]
           AttemptsOK == attempts' \in [Op -> 0..MaxAttempts]
           Goal == SysTypeOK' /\ TriesLeft' /\ Tokened'
<1> SUFFICES Goal BY <1>1 DEF Typed
<1>2. CASE UNCHANGED vars
  BY <1>0, <1>1, <1>2 DEF vars, SysTypeOK, TriesLeft, Tokened, Busy
<1>3. ASSUME NEW op \in Op, \/ Create(op) \/ Activate(op) \/ DeadlinePasses(op)
                            \/ ClaimLeaseExpires(op) \/ FenceExpiredClaims(op)
      PROVE  Goal
  <2>1. UNCHANGED <<acks, assigned, job, net, history>>
    BY <1>3 DEF Create, Activate, DeadlinePasses, ClaimLeaseExpires, FenceExpiredClaims
  <2>2. (IntentOK /\ ActOK)
    BY <1>0, <1>3 DEF Create, Activate, DeadlinePasses, ClaimLeaseExpires, FenceExpiredClaims,
                      SysTypeOK, SetIntent, ProjectUnknown, ProjectResult
  <2>3. /\ fenceOf' \in [Op -> 0..MaxEpoch] /\ due' \in [Op -> BOOLEAN]
        /\ leaseOver' \in [Op -> BOOLEAN] /\ UNCHANGED <<owner, attempts>>
    BY <1>0, <1>3 DEF Create, Activate, DeadlinePasses, ClaimLeaseExpires, FenceExpiredClaims,
                      SysTypeOK
  <2> QED BY <1>0, <1>1, <2>1, <2>2, <2>3 DEF SysTypeOK, TriesLeft, Tokened, Busy
<1>4. CASE RecordAssignment
  <2>1. epoch \in 0..MaxEpoch BY <1>0 DEF SysTypeOK, TypeOK
  <2> QED BY <1>0, <1>1, <1>4, <2>1 DEF RecordAssignment, SysTypeOK, TriesLeft, Tokened, Busy
<1>5. ASSUME NEW w \in Worker, TaskStep(w) PROVE Goal
  <2>1. JobOK
    BY <1>0, <1>5, TaskJobs, StartJobs, TokenJob, ReadbackJob
       DEF TaskStep, Stays, JobTo, JobEnds
  <2>15. Tokened'
    BY <1>0, <1>5, TaskJobs, StartJobs, TokenJob, ReadbackJob, SystemNoneAssumption
       DEF TaskStep, Stays, JobTo, JobEnds, Tokened, Busy
  <2>2. ASSUME UNCHANGED <<ledger, policy, acks, assigned, net, history>> PROVE Goal
    BY <1>0, <1>1, <2>1, <2>15, <2>2 DEF SysTypeOK, TriesLeft
  <2>3. ASSUME NEW op \in Op,
               Select(w, op) \/ LoadUnknownIntent(w, op) \/ RetryPendingAcknowledgement(w, op)
        PROVE  Goal
    BY <2>2, <2>3 DEF Select, LoadUnknownIntent, RetryPendingAcknowledgement
  <2>4. CASE PreflightEffect(w) \/ PreflightRejected(w) \/ GiveUp(w) \/ AckServed(w)
                \/ AckRefused(w) \/ QueryEffectReadback(w) \/ Stop(w)
    BY <2>2, <2>4 DEF PreflightEffect, PreflightRejected, GiveUp, AckServed, AckRefused,
                      QueryEffectReadback, Stop
  <2>5. job[w] # None => job[w].op \in Op /\ job[w].rec \in Record \cup {None}
    BY <1>0 DEF SysTypeOK, Job
  <2>6. CASE HoldBeforeSideEffect(w) \/ FinalizePreflightHold(w) \/ MarkUnknown(w)
    <3>1. IntentOK
      BY <1>0, <2>5, <2>6 DEF SysTypeOK, HoldBeforeSideEffect, FinalizePreflightHold,
         MarkUnknown, SetIntent
    <3>2. AttemptsOK
      BY <1>0, <2>5, <2>6, SystemAssumption DEF SysTypeOK, HoldBeforeSideEffect,
         FinalizePreflightHold, MarkUnknown, InsertAttempt, At_
    <3>3. ActOK
      BY <1>0, <2>5, <2>6, ActStates DEF HoldBeforeSideEffect, FinalizePreflightHold,
         MarkUnknown, At_, ProjectUnknown
    <3> QED BY <1>0, <1>1, <2>1, <2>15, <2>6, <3>1, <3>2, <3>3
            DEF SysTypeOK, TriesLeft, HoldBeforeSideEffect, FinalizePreflightHold, MarkUnknown
  <2>7. CASE ClaimIntent(w)
    BY <1>0, <1>1, <2>1, <2>15, <2>7 DEF ClaimIntent, SysTypeOK, TriesLeft, SetIntent
  <2>8. CASE ExecuteEffect(w)
    <3>1. job[w].tok \in Token /\ fenceOf[job[w].op] \in 0..MaxEpoch /\ job[w].op \in Op
      BY <1>0, <2>8 DEF ExecuteEffect, At_, SysTypeOK, Job, Tokened, Busy
    <3>2. [op |-> job[w].op, fence |-> fenceOf[job[w].op], tok |-> job[w].tok] \in Request
      BY <3>1 DEF Request
    <3>3. net' \subseteq Request BY <1>0, <2>8, <3>2 DEF ExecuteEffect, SysTypeOK
    <3> QED BY <1>0, <1>1, <2>1, <2>15, <2>8, <3>3 DEF ExecuteEffect, SysTypeOK, TriesLeft
  <2>9. ASSUME job[w] # None, Settle(job[w].op, job[w].rec),
               UNCHANGED <<fenceOf, due, owner, leaseOver, assigned, net, history>>
        PROVE  Goal
    <3>1. IntentOK /\ AttemptsOK /\ ActOK /\ acks' \in [Op -> Ack]
      BY <1>0, <2>5, <2>9, SettleTypes
    <3>2. TriesLeft'
      BY <1>0, <2>5, <2>9, SystemAssumption DEF SysTypeOK, TriesLeft, Settle, InsertAck
    <3> QED BY <1>0, <1>1, <2>1, <2>15, <2>9, <3>1, <3>2 DEF SysTypeOK
  <2>10. CASE Finalize(w) BY <2>9, <2>10 DEF Finalize, At_
  <2>11. CASE Converge(w)
    <3>1. CASE Settle(job[w].op, job[w].rec) BY <2>9, <2>11, <3>1 DEF Converge, At_
    <3>2. CASE ~Settle(job[w].op, job[w].rec)
      <4>1. AttemptsOK
        BY <1>0, <2>5, <2>11, <3>2, SystemAssumption DEF SysTypeOK, Converge, InsertAttempt, At_
      <4>2. ActOK
        BY <1>0, <2>5, <2>11, <3>2, ActStates DEF Converge, ProjectUnknown, At_
      <4> QED BY <1>0, <1>1, <2>1, <2>15, <2>11, <3>2, <4>1, <4>2 DEF SysTypeOK, TriesLeft, Converge
    <3> QED BY <3>1, <3>2
  <2>12. CASE MarkAcked(w)
    BY <1>0, <1>1, <2>1, <2>15, <2>5, <2>12 DEF MarkAcked, SysTypeOK, TriesLeft, Ack, At_
  <2>13. CASE RecordAckFailure(w)
    <3>1. AcksOK
      BY <1>0, <2>5, <2>13, SystemAssumption DEF RecordAckFailure, SysTypeOK, TriesLeft, Ack, At_
    <3> QED BY <1>0, <1>1, <2>1, <2>15, <2>13, <3>1 DEF RecordAckFailure, SysTypeOK
  <2>14. CASE Shutdown(w)
    BY <1>0, <1>1, <2>1, <2>15, <2>14 DEF Shutdown, SysTypeOK, TriesLeft
  <2> QED BY <1>5, <2>3, <2>4, <2>6, <2>7, <2>8, <2>10, <2>11, <2>12, <2>13, <2>14 DEF TaskStep
<1>6. ASSUME NEW m \in net, DeliverExecute(m) \/ DropExecute(m) PROVE Goal
  BY <1>0, <1>1, <1>6 DEF DeliverExecute, DropExecute, SysTypeOK, TriesLeft, Tokened, Busy, Request
<1>7. CASE EdgeStep
  <2>1. exec.op \in Op
    BY <1>0, <1>7 DEF EdgeStep, ActorStep, ApplyReadFails, StageBank, BankStaged, FlipSelector,
       WriteOverlay, At, SysTypeOK, TypeOK, Exec
  <2> QED BY <1>0, <1>1, <1>7, <2>1 DEF EdgeStep, SysTypeOK, TriesLeft, Tokened, Busy
<1>8. CASE EdgeReply
  BY <1>0, <1>1, <1>8, ReplyJob DEF EdgeReply, JobTo, SysTypeOK, TriesLeft, Tokened, Busy
<1>9. CASE EdgeBackground
  BY <1>0, <1>1, <1>9 DEF EdgeBackground, SysTypeOK, TriesLeft, Tokened, Busy
<1> QED BY <1>1, <1>2, <1>3, <1>4, <1>5, <1>6, <1>7, <1>8, <1>9 DEF SysNext

(* The types are invariant.                                                *)
LEMMA TypedInvariant == SysSpec => []Typed
BY InitTyped, NextTyped, PTL DEF SysSpec

(* Type correctness of the composed system. *)
THEOREM SystemTypes == SysSpec => []SysTypeOK
<1>1. Typed => SysTypeOK BY DEF Typed
<1> QED BY <1>1, TypedInvariant, PTL

(* The actor that the dispatchers drive is the actor of EdgeEffect: every  *)
(* behaviour of the system, projected to the actor, is one of Spec, so all *)
(* that is proved of the actor alone holds in the system.                  *)
THEOREM ActorRefined == SysSpec => Spec
<1>1. SysInit => Init BY DEF SysInit
<1>2. Typed /\ [SysNext]_vars => [Next]_edgeVars BY ActorOfSystem DEF Typed
<1> QED BY <1>1, <1>2, TypedInvariant, PTL DEF SysSpec, Spec

-----------------------------------------------------------------------------
(* The invariant that needs no bound on the life of a claim *)

(* A baseline never begins over the selected bank: the exception of        *)
(* AppliedStaysTrue does not occur in the system.                          *)
StagedInactive == jtail # <<>> /\ Kind[LastRec.op] = "baseline" => ~overActive
Core == Typed /\ AppliedInv /\ StagedInactive /\ SendInv /\ ResultInv /\ TouchInv /\ OpenInv /\ BankInv

(* What a step of apply_plan leaves alone, and what it knows.              *)
LEMMA ApplyStep ==
    ASSUME Typed, AppliedInv, ActorStep
    PROVE  /\ exec \in Exec /\ exec # None /\ exec' \in Exec /\ exec' # None
           /\ exec'.op = exec.op /\ exec'.bank = exec.bank /\ UNCHANGED idle
           /\ exec'.step \in {"begin", "hold"} => UNCHANGED switch /\ exec.step = "begin"
           /\ selector' # selector => /\ selector' = exec.bank /\ exec.step = "staged"
                                      /\ Kind[exec.op] = "baseline" /\ bank' = bank
                                      /\ bank[exec.bank] = BodyOf[exec.op]
                                      /\ exec'.step \in {"applied", "unknown"}
           /\ bank' # bank => /\ exec.step \in {"begin", "staging"} /\ Kind[exec.op] = "baseline"
                              /\ \A b \in Banks \ {exec.bank} : bank'[b] = bank[b]
           /\ exec'.step \in {"staging", "staged"} => exec.step \in {"begin", "staging"}
<1> USE NoneAssumption DEF At, Goto
<1>0. TypeOK /\ exec \in Exec /\ exec # None
  BY DEF Typed, SysTypeOK, TypeOK, ActorStep, ApplyReadFails, StageBank, BankStaged, FlipSelector, WriteOverlay
<1>6. /\ exec.step \in {"staging", "staged"} => Kind[exec.op] = "baseline"
      /\ exec.step = "staged" => bank[exec.bank] = BodyOf[exec.op]
  BY <1>0 DEF AppliedInv, StepTrue
<1> DEFINE G == /\ exec' \in Exec /\ exec'.op = exec.op /\ exec'.bank = exec.bank /\ UNCHANGED idle
<1>1. CASE ApplyReadFails
  BY <1>0, <1>1 DEF ApplyReadFails, Exec, Steps, switch
<1>2. CASE StageBank
  BY <1>0, <1>2 DEF StageBank, Exec, Steps, switch, TypeOK
<1>3. CASE BankStaged
  <2>1. G /\ exec.step = "staging" /\ exec'.step \in {"staged", "unknown"} /\ selector' = selector
    BY <1>0, <1>3 DEF BankStaged, Exec, Steps
  <2>2. \A b \in Banks \ {exec.bank} : bank'[b] = bank[b]
    BY <1>0, <1>3 DEF BankStaged, TypeOK
  <2> QED BY <1>0, <1>6, <2>1, <2>2
<1>4. CASE FlipSelector
  BY <1>0, <1>4, <1>6 DEF FlipSelector, Exec, Steps, switch
<1>5. CASE WriteOverlay
  <2>1. G /\ exec.step = "begin" /\ exec'.step \in {"applied", "unknown"}
        /\ selector' = selector /\ bank' = bank
    BY <1>0, <1>5 DEF WriteOverlay, Exec, Steps
  <2> QED BY <1>0, <2>1
<1> QED BY <1>1, <1>2, <1>3, <1>4, <1>5 DEF ActorStep

(* Crash, restart and recovery leave the switch alone; recovery journals a *)
(* result of the operation that was last in the journal.                   *)
LEMMA BackgroundStep ==
    ASSUME Typed, EdgeBackground
    PROVE  /\ UNCHANGED switch /\ (exec' = exec \/ exec' = None)
           /\ \/ jtail' = jtail
              \/ \E r \in Record : /\ Journal(r) /\ jtail # <<>> /\ exec = None
                                    /\ r.op = LastRec.op /\ r.status \in {"applied", "unknown"}
           /\ UNCHANGED goVars
<1>0. TypeOK /\ RecoveredIsLast BY DEF Typed, JournalInv
<1>1. CASE ReconcileApplied \/ ReconcileUnknown
  <2>1. recovered # None /\ recovered \in Recovered /\ exec = None /\ exec' = exec /\ UNCHANGED switch
    BY <1>0, <1>1 DEF ReconcileApplied, ReconcileUnknown, Recovering, TypeOK
  <2>2. PICK s \in {"applied", "unknown"} : Journal(RecoveryResult(s))
    BY <1>1 DEF ReconcileApplied, ReconcileUnknown
  <2>3. /\ RecoveryResult(s) \in Record /\ RecoveryResult(s).status = s
        /\ RecoveryResult(s).op = recovered.rec.op
    BY <2>1 DEF RecoveryResult, Recovered, Record, Statuses
  <2> QED BY <1>0, <2>1, <2>2, <2>3 DEF RecoveredIsLast, EdgeBackground
<1>2. CASE ~ReconcileApplied /\ ~ReconcileUnknown
  BY <1>2 DEF EdgeBackground, TokenExpires, Crash, Spawn, Reconnect, journal, work
<1> QED BY <1>1, <1>2

(* A step that changes nothing but the job of one task, and leads it to a  *)
(* place that it may take; the actor may drop its journal.                 *)
Still ==
    /\ UNCHANGED <<switch, exec, intent, act, net, ran, touched>>
    /\ jtail' \in {jtail, <<>>}
    /\ \A op \in Op : /\ acks'[op].rec = acks[op].rec
                      /\ acks'[op].state # "none" => acks[op].state # "none"
Fits(w, pc, op, tok, rec) ==
    /\ pc \in Pc /\ op \in Op /\ rec \in Record \cup {None}
    /\ pc \in NotSent => Busy(w, NotSent) /\ job[w].op = op
    /\ pc # "validate" => ~Unborn(op)
    /\ GateOpen(op)
    /\ pc \in {"result", "converge", "ack"} => rec # None
    /\ rec # None => rec.op = op /\ Over(op) /\ (rec.status = "hold" => op \notin touched)
    /\ pc = "execute" /\ Kind[op] = "baseline" => tok.bank # selector
SafeInv == SendInv /\ ResultInv /\ TouchInv /\ OpenInv /\ BankInv

(* Such a step preserves the invariant.                                    *)
LEMMA JobSafe ==
    ASSUME Core, NEW w \in Worker, NEW pc, NEW op, NEW tok, NEW rec, Still,
           JobEnds(w) \/ (Fits(w, pc, op, tok, rec) /\ JobTo(w, pc, op, tok, rec))
    PROVE  SafeInv'
<1>0. /\ job \in [Worker -> Job \cup {None}] /\ SendInv /\ ResultInv /\ TouchInv /\ OpenInv /\ BankInv
      /\ Still /\ UNCHANGED <<switch, exec, intent, act, net, ran, touched>>
      /\ \A i \in 1..Len(jtail') : i \in 1..Len(jtail) /\ jtail'[i] = jtail[i]
  BY DEF Core, Typed, SysTypeOK, Still
<1>1. \A v \in Worker : v # w => job'[v] = job[v]
  BY DEF JobEnds, JobTo
<1>2. job'[w] = None \/ /\ Fits(w, pc, op, tok, rec) /\ job'[w] # None
                        /\ job'[w].pc = pc /\ job'[w].op = op /\ job'[w].tok = tok /\ job'[w].rec = rec
  BY DEF JobEnds, JobTo
<1>3. SendInv'
  <2>1. \A v \in Worker : Busy(v, NotSent)' => Busy(v, NotSent) /\ job'[v].op = job[v].op
    BY <1>0, <1>1, <1>2 DEF Busy, Fits
  <2>2. \A v \in Worker : Busy(v, Pc \ {"validate"})' => intent'[job'[v].op] \notin {"absent", "unclaimed"}
    BY <1>0, <1>1, <1>2 DEF SendInv, Busy, Fits, Unborn
  <2>3. /\ \A o \in Op : ran'[o] \in {0, 1} /\ (Unborn(o) => ran[o] = 0)'
        /\ \A m \in net : (Claimed(m.op) /\ ran[m.op] = 0)'
        /\ (exec # None => Claimed(exec.op) /\ ran[exec.op] = 1)'
    BY <1>0 DEF SendInv, Claimed, Unborn
  <2>4. \A v \in Worker : Busy(v, NotSent)' =>
           /\ intent'[job'[v].op] \in {"claimed", "unknown"} /\ ran'[job'[v].op] = 0
           /\ \A m \in net' : m.op # job'[v].op
    BY <1>0, <2>1 DEF SendInv, Claimed
  <2> QED BY <1>0, <2>1, <2>2, <2>3, <2>4 DEF SendInv, Claimed, Unborn
<1>4. ResultInv'
  <2>1. \A v \in Worker : Busy(v, {"result", "converge", "ack"})' => job'[v].rec # None
    BY <1>0, <1>1, <1>2 DEF ResultInv, Busy, Fits
  <2>2. \A v \in Worker : job'[v] # None /\ job'[v].rec # None =>
           /\ job'[v].rec.op = job'[v].op /\ ran'[job'[v].op] = 1
           /\ exec' # None => exec'.op # job'[v].op
    BY <1>0, <1>1, <1>2 DEF ResultInv, Over, Fits
  <2> QED BY <1>0, <2>1, <2>2 DEF ResultInv, Over, Still
<1>5. TouchInv'
  BY <1>0, <1>1, <1>2 DEF TouchInv, Fits, Still
<1>6. OpenInv'
  BY <1>0, <1>1, <1>2 DEF OpenInv, Unborn, Claimed, Open, GateOpen, Fits
<1>7. BankInv'
  BY <1>0, <1>1, <1>2 DEF BankInv, Busy, Fits, switch
<1> QED BY <1>3, <1>4, <1>5, <1>6, <1>7 DEF SafeInv

(* The steps of a task that leave the ledger's intents and the network     *)
(* alone.                                                                  *)
LEMMA TaskFacts ==
    ASSUME Core, NEW w \in Worker, job[w] # None
    PROVE  /\ job[w] \in Job /\ job[w].op \in Op /\ job[w].rec \in Record \cup {None}
           /\ GateOpen(job[w].op)
           /\ job[w].pc # "validate" => ~Unborn(job[w].op)
           /\ Busy(w, {"result", "converge", "ack"}) => job[w].rec # None
           /\ job[w].rec # None => /\ job[w].rec.op = job[w].op /\ Over(job[w].op)
                                   /\ job[w].rec.status = "hold" => job[w].op \notin touched
<1>1. job[w] \in Job /\ job[w].op \in Op /\ job[w].rec \in Record \cup {None} /\ job[w].pc \in Pc
  BY DEF Core, Typed, SysTypeOK, Job
<1> QED BY <1>1 DEF Core, SendInv, ResultInv, TouchInv, OpenInv, Busy

(* So do the steps that are of this form.                                  *)
LEMMA QuietSafe ==
    ASSUME Core, NEW w \in Worker,
           \/ \E op \in Op : \/ Select(w, op) \/ LoadUnknownIntent(w, op)
                             \/ RetryPendingAcknowledgement(w, op)
           \/ PreflightRejected(w) \/ GiveUp(w) \/ AckRefused(w) \/ MarkAcked(w)
           \/ RecordAckFailure(w) \/ QueryEffectReadback(w) \/ Stop(w)
    PROVE  SafeInv'
<1> USE DEF ledger, policy, history, edgeVars, work, journal
<1>0. SysTypeOK BY DEF Core, Typed
<1>1. ASSUME NEW op \in Op, Select(w, op) PROVE SafeInv'
  <2>1. Still /\ JobTo(w, "validate", op, None, None)
    BY <1>0, <1>1, StartJobs DEF Select, Still
  <2>2. Fits(w, "validate", op, None, None)
    BY <1>1 DEF Select, Claimable, Fits, Pc, NotSent
  <2> QED BY <2>1, <2>2, JobSafe
<1>2. ASSUME NEW op \in Op, LoadUnknownIntent(w, op) PROVE SafeInv'
  <2>1. Still /\ JobTo(w, "query", op, None, None)
    BY <1>0, <1>2, StartJobs DEF LoadUnknownIntent, Still
  <2>2. Fits(w, "query", op, None, None)
    BY <1>2 DEF LoadUnknownIntent, Fits, Pc, NotSent, Core, OpenInv, Unborn
  <2> QED BY <2>1, <2>2, JobSafe
<1>3. ASSUME NEW op \in Op, RetryPendingAcknowledgement(w, op) PROVE SafeInv'
  <2>1. Still /\ JobTo(w, "ack", op, None, acks[op].rec)
    BY <1>0, <1>3, StartJobs DEF RetryPendingAcknowledgement, Still
  <2>2. /\ acks[op].rec # None /\ acks[op].rec \in Record /\ acks[op].rec.op = op /\ Over(op)
        /\ acks[op].rec.status = "hold" => op \notin touched
    BY <1>0, <1>3 DEF Core, ResultInv, TouchInv, RetryPendingAcknowledgement, SysTypeOK, Ack
  <2>3. ~Unborn(op) /\ GateOpen(op)
    BY <2>2 DEF Core, SendInv, OpenInv, Over
  <2> QED BY <2>1, <2>2, <2>3, JobSafe DEF Fits, Pc, NotSent
<1>4. CASE PreflightRejected(w)
  <2>1. Still /\ Stays(w, "rejected") /\ Busy(w, NotSent)
    BY <1>0, <1>4, TaskJobs DEF PreflightRejected, Still, Busy, NotSent, At_
  <2> QED BY <1>0, <2>1, JobSafe, TaskFacts DEF Stays, Fits, Pc, Busy, NotSent
<1>5. CASE GiveUp(w)
  <2>1. Still /\ Stays(w, "unknown") /\ Busy(w, NotSent \cup {"wait", "result"})
    BY <1>0, <1>5, TaskJobs DEF GiveUp, Still, Busy, NotSent, At_
  <2> QED BY <1>0, <2>1, JobSafe, TaskFacts DEF Stays, Fits, Pc, Busy, NotSent
<1>6. CASE AckRefused(w)
  <2>1. Still /\ Stays(w, "ackFailed") /\ Busy(w, {"ack"})
    BY <1>0, <1>6, TaskJobs DEF AckRefused, Still, Busy, At_
  <2> QED BY <1>0, <2>1, JobSafe, TaskFacts DEF Stays, Fits, Pc, Busy, NotSent
<1>7. CASE MarkAcked(w) \/ RecordAckFailure(w)
  <2>1. JobEnds(w) /\ job[w] # None BY <1>0, <1>7, TaskJobs DEF MarkAcked, RecordAckFailure, At_
  <2>2. job[w].op \in Op BY <2>1, TaskFacts
  <2>3. UNCHANGED <<switch, jtail, exec, intent, act, net, ran, touched>>
    BY <1>7 DEF MarkAcked, RecordAckFailure
  <2>5. \A op \in Op : /\ acks'[op].rec = acks[op].rec
                       /\ acks'[op].state # "none" => acks[op].state # "none"
    BY <1>0, <1>7, <2>1, AckEnds
  <2>6. Still BY <2>3, <2>5 DEF Still
  <2> QED BY <2>1, <2>6, JobSafe
<1>8. CASE QueryEffectReadback(w)
  <2>1. /\ Still /\ JobTo(w, "converge", job[w].op, job[w].tok, pending.rec) /\ job[w] # None
        /\ job[w].pc = "query" /\ pending # None /\ pending.rec \in Record /\ pending.rec.op = job[w].op
    BY <1>0, <1>8, ReadbackJob DEF QueryEffectReadback, Still, At_
  <2>2. exec = None /\ jtail # <<>> /\ pending.rec = LastRec /\ Len(jtail) \in 1..Len(jtail)
    BY <1>0, <2>1 DEF Core, Typed, JournalInv, PendingIsLast, SysTypeOK, TypeOK
  <2>3. Over(job[w].op) /\ (pending.rec.status = "hold" => job[w].op \notin touched)
    BY <2>1, <2>2 DEF Core, ResultInv, TouchInv, LastRec, Over
  <2>4. Fits(w, "converge", job[w].op, job[w].tok, pending.rec)
    BY <2>1, <2>3, TaskFacts, SystemNoneAssumption DEF Fits, Pc, NotSent
  <2> QED BY <2>1, <2>4, JobSafe
<1>9. CASE Stop(w)
  <2>1. JobEnds(w) /\ Still BY <1>0, <1>9, TaskJobs DEF Stop, Still
  <2> QED BY <2>1, JobSafe
<1> QED BY <1>1, <1>2, <1>3, <1>4, <1>5, <1>6, <1>7, <1>8, <1>9

(* A transaction: it changes the ledger, and ends the task that ran it or  *)
(* sends it on to the acknowledgement.  An intent that stops being claimed *)
(* has nothing under way.                                                  *)
Kept(v) ==
    \/ job'[v] = job[v] \/ job'[v] = None
    \/ /\ job[v] # None /\ job'[v] # None /\ job'[v].pc = "ack"
       /\ job'[v].op = job[v].op /\ job'[v].rec = job[v].rec /\ job[v].rec # None
Idle(o) == /\ \A v \in Worker : job'[v] # None /\ job'[v].pc \in NotSent => job'[v].op # o
           /\ \A m \in net : m.op # o
           /\ exec # None => exec.op # o
(* A transaction preserves all of the invariant but its part about         *)
(* activations.                                                            *)
LEMMA LedgerSafe ==
    ASSUME Core, UNCHANGED <<switch, jtail, exec, net, ran, touched>>,
           job' \in [Worker -> Job \cup {None}], \A v \in Worker : Kept(v),
           \A o \in Op : intent'[o] \in {"absent", "unclaimed"} => Unborn(o),
           \A o \in Op : Claimed(o) => intent'[o] \in {"claimed", "unknown"} \/ Idle(o),
           \A o \in Op : intent'[o] = "hold" => o \notin touched,
           \A o \in Op : acks'[o].state # "none" =>
              \/ acks'[o].rec = acks[o].rec /\ acks[o].state # "none"
              \/ /\ acks'[o].rec # None /\ acks'[o].rec.op = o /\ Over(o)
                 /\ acks'[o].rec.status = "hold" => o \notin touched
    PROVE  SendInv' /\ ResultInv' /\ TouchInv' /\ BankInv'
<1>0. /\ SendInv /\ ResultInv /\ TouchInv /\ OpenInv /\ BankInv
      /\ job \in [Worker -> Job \cup {None}] /\ net \subseteq Request /\ exec \in Exec \cup {None}
  BY DEF Core, Typed, SysTypeOK, TypeOK
<1>1. \A v \in Worker : job'[v] # None =>
         /\ job[v] # None /\ job'[v] \in Job /\ job[v] \in Job
         /\ job'[v].op = job[v].op /\ job'[v].op \in Op
         /\ job'[v].rec = job[v].rec /\ job'[v].pc \in Pc
         /\ job'[v] = job[v] \/ (job'[v].pc = "ack" /\ job'[v].rec # None)
  BY <1>0 DEF Kept, Job
<1>2. \A m \in net : m.op \in Op BY <1>0 DEF Request
<1>3. exec # None => exec.op \in Op BY <1>0 DEF Exec
<1>4. SendInv'
  <2>1. \A o \in Op : ran'[o] \in {0, 1} /\ (Unborn(o) => ran[o] = 0)'
    BY <1>0 DEF SendInv, Unborn
  <2>2. \A v \in Worker : Busy(v, NotSent)' => Busy(v, NotSent) /\ job'[v].op = job[v].op
    BY <1>1 DEF Busy, NotSent
  <2>3. \A v \in Worker : Busy(v, Pc \ {"validate"})' => intent'[job'[v].op] \notin {"absent", "unclaimed"}
    <3>1. ASSUME NEW v \in Worker, Busy(v, Pc \ {"validate"})' PROVE ~Unborn(job[v].op)
      <4>1. CASE job'[v] = job[v] BY <1>0, <3>1, <4>1 DEF SendInv, Busy
      <4>2. CASE job[v].rec # None /\ job[v] # None
        BY <1>0, <1>1, <3>1, <4>2 DEF SendInv, ResultInv, Over, Busy
      <4> QED BY <1>1, <3>1, <4>1, <4>2 DEF Busy
    <3> QED BY <1>1, <3>1 DEF Busy
  <2>4. \A v \in Worker : Busy(v, NotSent)' =>
           /\ intent'[job'[v].op] \in {"claimed", "unknown"} /\ ran'[job'[v].op] = 0
           /\ \A m \in net' : m.op # job'[v].op
    BY <1>0, <1>1, <2>2 DEF SendInv, Idle, Busy
  <2>5. \A m \in net : intent'[m.op] \in {"claimed", "unknown"} /\ ran'[m.op] = 0
    BY <1>0, <1>2 DEF SendInv, Idle
  <2>6. exec # None => intent'[exec.op] \in {"claimed", "unknown"} /\ ran'[exec.op] = 1
    BY <1>0, <1>3 DEF SendInv, Idle
  <2> QED BY <1>0, <2>1, <2>2, <2>3, <2>4, <2>5, <2>6 DEF SendInv, Claimed, Unborn
<1>5. ResultInv'
  <2>1. \A v \in Worker : Busy(v, {"result", "converge", "ack"})' => job'[v].rec # None
    BY <1>0, <1>1 DEF ResultInv, Busy
  <2>2. \A v \in Worker : job'[v] # None /\ job'[v].rec # None =>
           /\ job'[v].rec.op = job'[v].op /\ ran'[job'[v].op] = 1
           /\ exec' # None => exec'.op # job'[v].op
    BY <1>0, <1>1 DEF ResultInv, Over
  <2>3. \A o \in Op : acks'[o].state # "none" =>
           /\ acks'[o].rec # None /\ acks'[o].rec.op = o /\ ran'[o] = 1
           /\ exec' # None => exec'.op # o
    BY <1>0 DEF ResultInv, Over
  <2> QED BY <1>0, <2>1, <2>2, <2>3 DEF ResultInv, Over
<1>6. TouchInv'
  <2>1. \A o \in Op : acks'[o].state # "none" /\ acks'[o].rec.status = "hold" => o \notin touched
    BY <1>0 DEF TouchInv
  <2> QED BY <1>0, <1>1, <2>1 DEF TouchInv
<1>7. BankInv'
  BY <1>0, <1>1 DEF BankInv, Busy, switch
<1> QED BY <1>4, <1>5, <1>6, <1>7

(* A task that holds a result: nothing of its operation is under way.      *)
LEMMA OverIsIdle ==
    ASSUME Core, NEW o \in Op, Over(o), \A v \in Worker : Kept(v) PROVE Idle(o)
<1>1. ASSUME NEW v \in Worker, job'[v] # None, job'[v].pc \in NotSent PROVE job'[v].op # o
  <2>1. Busy(v, NotSent) /\ job'[v].op = job[v].op BY <1>1 DEF Kept, Busy, NotSent
  <2> QED BY <2>1 DEF Core, SendInv, Over
<1> QED BY <1>1 DEF Idle, Core, SendInv, Over

(* A task that ends is such a case.                                        *)
LEMMA EndsKept == ASSUME SysTypeOK, NEW w \in Worker, JobEnds(w)
                  PROVE  \A v \in Worker : Kept(v)
BY DEF JobEnds, Kept

(* What a transaction does to the activations.                             *)
LEMMA OpenSafe ==
    ASSUME Core, NEW op \in Op, NEW s, NEW a,
           intent' = [intent EXCEPT ![op] = s], \A v \in Worker : Kept(v),
           \/ act' = [act EXCEPT ![op] = a] /\ act[op] # "none"
           \/ act' = act /\ Kind[op] # "baseline",
           s \notin {"absent", "unclaimed"}, a # "none",
           s \in {"claimed", "unknown"} => a \in {"prepared", "reconciling"},
           a \in {"prepared", "reconciling"} => s \in {"claimed", "unknown"},
           a \in {"prepared", "reconciling"} /\ Kind[op] = "baseline" => ~OtherOpen(op)
    PROVE  OpenInv'
<1>0. OpenInv /\ intent \in [Op -> {"absent", "unclaimed", "claimed", "unknown", "finalized", "hold"}]
      /\ act \in [Op -> {"none", "prepared", "reconciling", "hold", "applied"}]
  BY DEF Core, Typed, SysTypeOK
<1>1. \A o \in Op : act'[o] # "none" => Kind[o] = "baseline"
  BY <1>0 DEF OpenInv
<1>2. \A o \in Op : intent'[o] \in {"absent", "unclaimed"} =>
         act'[o] \in {"none", "prepared"}
  BY <1>0 DEF OpenInv, Unborn
<1>3. \A o \in Op : GateOpen(o) => (Kind[o] = "baseline" => act'[o] # "none")
  BY <1>0 DEF GateOpen
<1>4. \A o \in Op : intent'[o] \notin {"absent", "unclaimed"} => (Kind[o] = "baseline" => act'[o] # "none")
  <2>1. \A o \in Op : o # op => intent'[o] = intent[o] BY <1>0
  <2>2. Kind[op] = "baseline" => act'[op] # "none" BY <1>0
  <2> QED BY <1>0, <1>3, <2>1, <2>2 DEF OpenInv, Unborn
<1>5. \A v \in Worker : job'[v] # None => (Kind[job'[v].op] = "baseline" => act'[job'[v].op] # "none")
  <2>1. \A v \in Worker : job'[v] # None => job[v] # None /\ job'[v].op = job[v].op /\ job[v].op \in Op
    BY DEF Kept, Core, Typed, SysTypeOK, Job
  <2> QED BY <1>0, <1>3, <2>1 DEF OpenInv
<1>6. \A o \in Op : Kind[o] = "baseline" /\ intent'[o] \in {"claimed", "unknown"} =>
         act'[o] \in {"prepared", "reconciling"}
  BY <1>0 DEF OpenInv, Claimed, Open
<1>7. \A o, p \in Op : act'[o] \in {"prepared", "reconciling"} /\ act'[p] \in {"prepared", "reconciling"} => o = p
  BY <1>0 DEF OpenInv, Open, OtherOpen
<1>8. \A o \in Op : act'[o] \in {"prepared", "reconciling"} =>
         intent'[o] \in {"unclaimed", "claimed", "unknown"}
  BY <1>0 DEF OpenInv, Open
<1> QED BY <1>1, <1>2, <1>4, <1>5, <1>6, <1>7, <1>8 DEF OpenInv, Unborn, Claimed, Open, GateOpen

(* Holds before any side effect: the intent was never claimed, or its      *)
(* claim never sent an execute.                                            *)
LEMMA HoldSafe ==
    ASSUME Core, NEW w \in Worker,
           HoldBeforeSideEffect(w) \/ FinalizePreflightHold(w)
    PROVE  SafeInv'
<1> DEFINE op == job[w].op
<1> USE DEF ledger, policy, history, edgeVars, work, journal
<1>0. SysTypeOK BY DEF Core, Typed
<1>1. JobEnds(w) /\ job[w] # None /\ op \in Op /\ GateOpen(op) /\ \A v \in Worker : Kept(v)
  BY <1>0, TaskJobs, TaskFacts, EndsKept DEF HoldBeforeSideEffect, FinalizePreflightHold, At_
<1>2. /\ intent' = [intent EXCEPT ![op] = "hold"]
      /\ act' = IF act[op] = "none" THEN act ELSE [act EXCEPT ![op] = "hold"]
      /\ UNCHANGED <<switch, jtail, exec, net, ran, touched, acks>>
  BY DEF HoldBeforeSideEffect, FinalizePreflightHold, SetIntent, ProjectResult
<1>3. ran[op] = 0 /\ op \notin touched
  <2>1. Unborn(op) \/ Busy(w, NotSent)
    BY DEF HoldBeforeSideEffect, FinalizePreflightHold, Unborn, Busy, At_, NotSent
  <2> QED BY <1>1, <2>1 DEF Core, SendInv, TouchInv
<1>4. Claimed(op) => Idle(op)
  <2> SUFFICES ASSUME Claimed(op) PROVE Idle(op) OBVIOUS
  <2>1. Busy(w, NotSent)
    BY DEF HoldBeforeSideEffect, FinalizePreflightHold, Claimed, Busy, At_, NotSent
  <2>2. ASSUME NEW v \in Worker, job'[v] # None, job'[v].pc \in NotSent PROVE job'[v].op # op
    <3>1. v # w /\ job'[v] = job[v] BY <1>1, <2>2 DEF JobEnds
    <3> QED BY <2>1, <2>2, <3>1 DEF Core, SendInv, Busy
  <2> QED BY <1>3, <2>1, <2>2 DEF Idle, Core, SendInv
<1> HIDE DEF op
<1>5. SendInv' /\ ResultInv' /\ TouchInv' /\ BankInv'
  <2>1. job' \in [Worker -> Job \cup {None}] BY <1>1 DEF JobEnds
  <2>2. \A o \in Op : o # op => intent'[o] = intent[o] BY <1>0, <1>2 DEF SysTypeOK
  <2>3. intent'[op] = "hold" BY <1>0, <1>1, <1>2 DEF SysTypeOK
  <2>4. \A o \in Op : intent'[o] \in {"absent", "unclaimed"} => Unborn(o)
    BY <2>2, <2>3 DEF Unborn
  <2>5. \A o \in Op : Claimed(o) => intent'[o] \in {"claimed", "unknown"} \/ Idle(o)
    BY <1>4, <2>2 DEF Claimed
  <2>6. \A o \in Op : intent'[o] = "hold" => o \notin touched
    BY <1>3, <2>2 DEF Core, TouchInv
  <2> QED BY <1>1, <1>2, <2>1, <2>4, <2>5, <2>6, LedgerSafe
<1>6. \/ act' = [act EXCEPT ![op] = "hold"] /\ act[op] # "none"
      \/ act' = act /\ Kind[op] # "baseline"
  BY <1>1, <1>2 DEF GateOpen
<1>7. OpenInv'
  <2> DEFINE h == "hold"
  <2>1. h \notin {"absent", "unclaimed", "none", "claimed", "unknown", "prepared", "reconciling"}
    OBVIOUS
  <2>2. /\ intent' = [intent EXCEPT ![op] = h]
        /\ \/ act' = [act EXCEPT ![op] = h] /\ act[op] # "none"
           \/ act' = act /\ Kind[op] # "baseline"
    BY <1>2, <1>6
  <2> HIDE DEF h
  <2> QED BY <1>1, <2>1, <2>2, OpenSafe
<1> QED BY <1>5, <1>7 DEF SafeInv

(* An outcome that is unknown, by a dispatch, a reconciliation or the      *)
(* fencing of a claim.                                                     *)
LEMMA UnknownSafe ==
    ASSUME Core, NEW op \in Op, SetIntent(op, "unknown") \/ (UNCHANGED intent /\ intent[op] = "unknown"),
           ~Unborn(op), ProjectUnknown(op),
           UNCHANGED <<switch, jtail, exec, net, ran, touched, acks>>,
           UNCHANGED job \/ \E w \in Worker : JobEnds(w)
    PROVE  SafeInv'
<1>0. SysTypeOK BY DEF Core, Typed
<1>1. intent' = [intent EXCEPT ![op] = "unknown"]
  BY <1>0 DEF SetIntent, SysTypeOK
<1>2. GateOpen(op) BY DEF Core, OpenInv
<1>3. job' \in [Worker -> Job \cup {None}] /\ \A v \in Worker : Kept(v)
  BY <1>0, EndsKept DEF SysTypeOK, JobEnds, Kept
<1>4. SendInv' /\ ResultInv' /\ TouchInv' /\ BankInv'
  <2>1. \A o \in Op : intent'[o] = IF o = op THEN "unknown" ELSE intent[o]
    BY <1>0, <1>1 DEF SysTypeOK
  <2>2. \A o \in Op : intent'[o] \in {"absent", "unclaimed"} => Unborn(o)
    BY <2>1 DEF Unborn
  <2>3. \A o \in Op : Claimed(o) => intent'[o] \in {"claimed", "unknown"}
    BY <2>1 DEF Claimed
  <2>4. \A o \in Op : intent'[o] = "hold" => o \notin touched
    BY <2>1 DEF Core, TouchInv
  <2> QED BY <1>3, <2>2, <2>3, <2>4, LedgerSafe
<1>5. /\ \/ act' = [act EXCEPT ![op] = "reconciling"] /\ act[op] # "none"
         \/ act' = act /\ Kind[op] # "baseline"
      /\ Kind[op] = "baseline" => ~OtherOpen(op)
  BY <1>2 DEF ProjectUnknown, ProjectResult, GateOpen
<1>6. OpenInv'
  BY <1>1, <1>3, <1>5, OpenSafe
<1> QED BY <1>4, <1>6 DEF SafeInv

(* The transaction of an outcome.                                          *)
LEMMA SettleSafe ==
    ASSUME Core, NEW w \in Worker, job[w] # None, job[w].rec # None,
           Settle(job[w].op, job[w].rec), Stays(w, "ack"),
           UNCHANGED <<switch, jtail, exec, net, ran, touched>>
    PROVE  SafeInv'
<1> DEFINE op == job[w].op
           r == job[w].rec
           s == IF r.status = "applied" THEN "finalized" ELSE "hold"
           a == IF r.status = "applied" THEN "applied" ELSE "hold"
<1>0. SysTypeOK BY DEF Core, Typed
<1>1. /\ op \in Op /\ r \in Record /\ r.op = op /\ Over(op) /\ GateOpen(op)
      /\ r.status = "hold" => op \notin touched
  BY TaskFacts
<1>2. job' \in [Worker -> Job \cup {None}] /\ \A v \in Worker : Kept(v)
  BY DEF Stays, JobTo, Kept
<1>3. /\ intent' = [intent EXCEPT ![op] = s] /\ InsertAck(op, r)
      /\ r.status \in {"applied", "hold"}
      /\ \/ act' = [act EXCEPT ![op] = a] /\ act[op] # "none"
         \/ act' = act /\ Kind[op] # "baseline"
  BY <1>1 DEF Settle, SetIntent, ProjectApplied, ProjectResult, GateOpen, policy
<1>4. Idle(op) BY <1>1, <1>2, OverIsIdle
<1>5. s \in {"finalized", "hold"} /\ (s = "hold" => r.status = "hold") /\ a \in {"applied", "hold"}
  BY <1>3
<1>6. \/ acks'[op].rec = acks[op].rec /\ acks[op].state # "none"
      \/ acks'[op].rec = r
  BY <1>0, <1>1, <1>3, AckRow
<1>7. \A o \in Op : o # op => acks'[o] = acks[o]
  BY <1>0, <1>1, <1>3, AckRow
<1> HIDE DEF op, r, s, a
<1>8. SendInv' /\ ResultInv' /\ TouchInv' /\ BankInv'
  <2>1. \A o \in Op : intent'[o] = IF o = op THEN s ELSE intent[o]
    BY <1>0, <1>3 DEF SysTypeOK
  <2>2. \A o \in Op : intent'[o] \in {"absent", "unclaimed"} => Unborn(o)
    BY <1>5, <2>1 DEF Unborn
  <2>3. \A o \in Op : Claimed(o) => intent'[o] \in {"claimed", "unknown"} \/ Idle(o)
    BY <1>4, <2>1 DEF Claimed
  <2>4. \A o \in Op : intent'[o] = "hold" => o \notin touched
    BY <1>1, <1>5, <2>1 DEF Core, TouchInv
  <2>5. \A o \in Op : acks'[o].state # "none" =>
           \/ acks'[o].rec = acks[o].rec /\ acks[o].state # "none"
           \/ /\ acks'[o].rec # None /\ acks'[o].rec.op = o /\ Over(o)
              /\ acks'[o].rec.status = "hold" => o \notin touched
    BY <1>1, <1>6, <1>7, SystemNoneAssumption
  <2> QED BY <1>2, <2>2, <2>3, <2>4, <2>5, LedgerSafe
<1>9. OpenInv'
  BY <1>1, <1>2, <1>3, <1>5, OpenSafe
<1> QED BY <1>8, <1>9 DEF SafeInv

(* The API, the clock and the fencing of an expired claim.                 *)
LEMMA ApiSafe ==
    ASSUME Core, NEW op \in Op,
           \/ Create(op) \/ Activate(op) \/ DeadlinePasses(op)
           \/ ClaimLeaseExpires(op) \/ FenceExpiredClaims(op)
    PROVE  SafeInv'
<1> USE DEF ledger, policy, history, edgeVars, work, journal
<1>0. SysTypeOK /\ OpenInv BY DEF Core, Typed
<1>1. CASE FenceExpiredClaims(op)
  <2>1. ~Unborn(op) BY <1>1 DEF FenceExpiredClaims, Unborn
  <2> QED BY <1>1, <2>1, UnknownSafe DEF FenceExpiredClaims
<1>2. CASE ~FenceExpiredClaims(op)
  <2>1. UNCHANGED <<switch, jtail, exec, net, ran, touched, acks, job>>
    BY <1>2 DEF Create, Activate, DeadlinePasses, ClaimLeaseExpires
  <2>2. UNCHANGED intent \/ (intent[op] = "absent" /\ SetIntent(op, "unclaimed") /\ UNCHANGED act)
    BY <1>2 DEF Create, Activate, DeadlinePasses, ClaimLeaseExpires
  <2>3. \/ UNCHANGED act
        \/ /\ UNCHANGED intent /\ intent[op] = "unclaimed" /\ Kind[op] = "baseline"
           /\ ~OtherOpen(op) /\ act' = [act EXCEPT ![op] = "prepared"]
    BY <1>2 DEF Create, Activate, DeadlinePasses, ClaimLeaseExpires
  <2>4. job' \in [Worker -> Job \cup {None}] /\ \A v \in Worker : Kept(v)
    BY <1>0, <2>1 DEF SysTypeOK, Kept
  <2>5. \A o \in Op : intent'[o] = intent[o] \/ (intent[o] = "absent" /\ intent'[o] = "unclaimed")
    BY <1>0, <2>2 DEF SysTypeOK, SetIntent
  <2>6. SendInv' /\ ResultInv' /\ TouchInv' /\ BankInv'
    <3>1. \A o \in Op : intent'[o] \in {"absent", "unclaimed"} => Unborn(o)
      BY <2>5 DEF Unborn
    <3>2. \A o \in Op : Claimed(o) => intent'[o] \in {"claimed", "unknown"} \/ Idle(o)
      BY <2>5 DEF Claimed
    <3>3. \A o \in Op : intent'[o] = "hold" => o \notin touched
      BY <2>5 DEF Core, TouchInv
    <3> QED BY <2>1, <2>4, <3>1, <3>2, <3>3, LedgerSafe
  <2>7. OpenInv'
    <3>1. CASE UNCHANGED act
      BY <1>0, <2>1, <2>5, <3>1 DEF OpenInv, Open, Unborn, Claimed, GateOpen
    <3>2. CASE ~UNCHANGED act
      <4>1. /\ UNCHANGED <<intent, job>> /\ intent[op] = "unclaimed" /\ Kind[op] = "baseline"
            /\ \A o \in Op : o # op => ~Open(o)
        BY <2>1, <2>3, <3>2 DEF OtherOpen
      <4>2. act'[op] = "prepared" /\ \A o \in Op : o # op => act'[o] = act[o]
        BY <1>0, <2>3, <3>2 DEF SysTypeOK
      <4>3. \A o \in Op : GateOpen(o) => act'[o] # "none" \/ Kind[o] # "baseline"
        BY <4>1, <4>2 DEF GateOpen
      <4>4. \A v \in Worker : job[v] # None => job[v].op \in Op
        BY <1>0 DEF SysTypeOK, Job
      <4> QED BY <1>0, <4>1, <4>2, <4>3, <4>4 DEF OpenInv, Open, Unborn, Claimed, GateOpen
    <3> QED BY <3>1, <3>2
  <2> QED BY <2>6, <2>7 DEF SafeInv
<1> QED BY <1>1, <1>2

(* ClaimIntent: the first and only claim of an intent.                     *)
LEMMA ClaimSafe == ASSUME Core, NEW w \in Worker, ClaimIntent(w) PROVE SafeInv'
<1> DEFINE op == job[w].op
<1> USE DEF ledger, policy, history, edgeVars, work, journal
<1>0. /\ SysTypeOK /\ SendInv /\ ResultInv /\ TouchInv /\ OpenInv /\ BankInv
  BY DEF Core, Typed
<1>1. /\ Stays(w, "preflight") /\ job[w] # None /\ op \in Op /\ GateOpen(op)
      /\ job[w].rec # None => Over(op)
  BY <1>0, TaskJobs, TaskFacts DEF ClaimIntent, At_
<1>2. /\ intent[op] = "unclaimed" /\ intent' = [intent EXCEPT ![op] = "claimed"]
      /\ UNCHANGED <<switch, jtail, exec, net, ran, touched, acks, act>>
      /\ ~OtherOpen(op)
  BY DEF ClaimIntent, SetIntent
<1>3. Unborn(op) /\ ~Claimed(op) /\ ran[op] = 0 /\ job[w].rec = None
  BY <1>0, <1>1, <1>2 DEF Unborn, Claimed, SendInv, Over
<1>4. \A v \in Worker : v # w => job'[v] = job[v] BY <1>1 DEF Stays, JobTo
<1>5. /\ job'[w] # None /\ job'[w].pc = "preflight" /\ job'[w].op = op /\ job'[w].rec = None
      /\ job' \in [Worker -> Job \cup {None}]
  BY <1>1, <1>3 DEF Stays, JobTo
<1> HIDE DEF op
<1>6. \A o \in Op : intent'[o] = IF o = op THEN "claimed" ELSE intent[o]
  BY <1>0, <1>2 DEF SysTypeOK
<1>7. SendInv'
  <2>1. \A o \in Op : ran'[o] \in {0, 1} /\ (Unborn(o) => ran[o] = 0)'
    BY <1>0, <1>2, <1>6 DEF SendInv, Unborn
  <2>2. \A v \in Worker : job'[v] # None => job'[v].op \in Op
    BY <1>5 DEF Job
  <2>3. \A v \in Worker : Busy(v, Pc \ {"validate"})' => intent'[job'[v].op] \notin {"absent", "unclaimed"}
    BY <1>0, <1>4, <1>5, <1>6, <2>2 DEF SendInv, Busy, Unborn
  <2>4. \A m \in net : m.op # op BY <1>0, <1>3 DEF SendInv
  <2>5. \A v \in Worker : v # w /\ Busy(v, NotSent) => job[v].op # op
    BY <1>0, <1>3 DEF SendInv
  <2>6. \A v \in Worker : Busy(v, NotSent)' =>
           /\ intent'[job'[v].op] \in {"claimed", "unknown"} /\ ran'[job'[v].op] = 0
           /\ \A m \in net' : m.op # job'[v].op
    BY <1>0, <1>2, <1>3, <1>4, <1>5, <1>6, <2>2, <2>4 DEF SendInv, Busy, Claimed
  <2>7. \A u, v \in Worker : Busy(u, NotSent)' /\ Busy(v, NotSent)' /\ job'[u].op = job'[v].op => u = v
    BY <1>0, <1>4, <1>5, <2>5 DEF SendInv, Busy
  <2>8. \A m \in net : intent'[m.op] \in {"claimed", "unknown"}
    <3>1. \A m \in net : m.op \in Op BY <1>0 DEF SysTypeOK, Request
    <3> QED BY <1>0, <1>6, <3>1 DEF SendInv, Claimed
  <2>9. exec # None => intent'[exec.op] \in {"claimed", "unknown"}
    <3>1. exec # None => exec.op \in Op BY <1>0 DEF SysTypeOK, TypeOK, Exec
    <3> QED BY <1>0, <1>6, <3>1 DEF SendInv, Claimed
  <2> QED BY <1>0, <1>2, <2>1, <2>3, <2>6, <2>7, <2>8, <2>9 DEF SendInv, Claimed, Unborn
<1>8. ResultInv'
  BY <1>0, <1>2, <1>4, <1>5 DEF ResultInv, Busy, Over
<1>9. TouchInv'
  <2>1. \A o \in Op : intent'[o] = "hold" => o \notin touched
    BY <1>0, <1>6 DEF TouchInv
  <2> QED BY <1>0, <1>2, <1>4, <1>5, <2>1 DEF TouchInv
<1>10. OpenInv'
  <2>1. Kind[op] = "baseline" => act[op] = "prepared"
    BY <1>0, <1>1, <1>3 DEF OpenInv, GateOpen
  <2> QED BY <1>0, <1>1, <1>2, <1>4, <1>5, <1>6, <2>1 DEF OpenInv, Open, Unborn, Claimed, GateOpen
<1>11. BankInv'
  BY <1>0, <1>2, <1>4, <1>5 DEF BankInv, Busy, switch
<1> QED BY <1>7, <1>8, <1>9, <1>10, <1>11 DEF SafeInv

(* FenceOwnedClaimsOnShutdown.                                             *)
LEMMA ShutdownSafe == ASSUME Core, NEW w \in Worker, Shutdown(w) PROVE SafeInv'
<1> USE DEF ledger, policy, history, edgeVars, work, journal
<1>0. SysTypeOK /\ OpenInv BY DEF Core, Typed
<1>1. JobEnds(w) /\ job' \in [Worker -> Job \cup {None}] /\ \A v \in Worker : Kept(v)
  BY <1>0, TaskJobs, EndsKept DEF JobEnds
<1>2. UNCHANGED <<switch, jtail, exec, net, ran, touched, acks, act>> BY DEF Shutdown
<1>3. \A o \in Op : intent'[o] = intent[o] \/ (intent[o] = "claimed" /\ intent'[o] = "unknown")
  BY DEF Shutdown
<1>4. SendInv' /\ ResultInv' /\ TouchInv' /\ BankInv'
  <2>1. \A o \in Op : intent'[o] \in {"absent", "unclaimed"} => Unborn(o)
    BY <1>3 DEF Unborn
  <2>2. \A o \in Op : Claimed(o) => intent'[o] \in {"claimed", "unknown"} \/ Idle(o)
    BY <1>3 DEF Claimed
  <2>3. \A o \in Op : intent'[o] = "hold" => o \notin touched
    BY <1>3 DEF Core, TouchInv
  <2> QED BY <1>1, <1>2, <2>1, <2>2, <2>3, LedgerSafe
<1>5. OpenInv'
  <2>1. \A v \in Worker : job'[v] # None => job'[v] = job[v] BY <1>1 DEF JobEnds
  <2> QED BY <1>0, <1>2, <1>3, <2>1 DEF OpenInv, Open, Unborn, Claimed, GateOpen
<1> QED BY <1>4, <1>5 DEF SafeInv

(* Requests on their way, and their delivery.                              *)
LEMMA SendSafe == ASSUME Core, NEW w \in Worker, ExecuteEffect(w) PROVE SafeInv'
<1> DEFINE op == job[w].op
           m0 == [op |-> job[w].op, fence |-> fenceOf[job[w].op], tok |-> job[w].tok]
<1> USE DEF ledger, policy, history, edgeVars, work, journal
<1>0. SysTypeOK /\ SendInv /\ ResultInv /\ TouchInv /\ OpenInv /\ BankInv BY DEF Core, Typed
<1>1. /\ Stays(w, "wait") /\ job[w] # None /\ op \in Op /\ job[w].pc = "execute"
      /\ UNCHANGED <<switch, jtail, exec, intent, act, acks, ran, touched>>
      /\ net' = net \cup {m0} /\ m0.op = op /\ m0.tok = job[w].tok
  BY <1>0, TaskJobs, TaskFacts DEF ExecuteEffect, At_
<1>2. /\ Busy(w, NotSent) /\ Claimed(op) /\ ran[op] = 0 /\ \A m \in net : m.op # op
      /\ Kind[op] = "baseline" => job[w].tok.bank # selector
  BY <1>0, <1>1 DEF SendInv, BankInv, Busy, NotSent
<1>3. \A v \in Worker : v # w => job'[v] = job[v] BY <1>1 DEF Stays, JobTo
<1>4. /\ job'[w] # None /\ job'[w].pc = "wait" /\ job'[w].op = job[w].op /\ job'[w].rec = job[w].rec
  BY <1>1 DEF Stays, JobTo
<1>5. \A v \in Worker : Busy(v, NotSent)' => /\ v # w /\ Busy(v, NotSent) /\ job'[v] = job[v]
                                             /\ job[v].op # op
  BY <1>0, <1>2, <1>3, <1>4 DEF Busy, NotSent, SendInv
<1> HIDE DEF m0
<1>6. SendInv'
  <2>1. \A v \in Worker : Busy(v, Pc \ {"validate"})' => intent'[job'[v].op] \notin {"absent", "unclaimed"}
    BY <1>0, <1>1, <1>2, <1>3, <1>4 DEF SendInv, Busy, Unborn, Claimed
  <2>2. \A v \in Worker : Busy(v, NotSent)' =>
           /\ intent'[job'[v].op] \in {"claimed", "unknown"} /\ ran'[job'[v].op] = 0
           /\ \A m \in net' : m.op # job'[v].op
    BY <1>0, <1>1, <1>5 DEF SendInv, Claimed
  <2>3. \A m \in net' : intent'[m.op] \in {"claimed", "unknown"} /\ ran'[m.op] = 0
    BY <1>0, <1>1, <1>2 DEF SendInv, Claimed
  <2>4. \A m, n \in net' : m.op = n.op => m = n
    BY <1>0, <1>1, <1>2 DEF SendInv
  <2>5. \A u, v \in Worker : Busy(u, NotSent)' /\ Busy(v, NotSent)' /\ job'[u].op = job'[v].op => u = v
    BY <1>0, <1>5 DEF SendInv
  <2> QED BY <1>0, <1>1, <2>1, <2>2, <2>3, <2>4, <2>5 DEF SendInv, Claimed, Unborn
<1>7. ResultInv'
  BY <1>0, <1>1, <1>3, <1>4 DEF ResultInv, Busy, Over
<1>8. TouchInv'
  BY <1>0, <1>1, <1>3, <1>4 DEF TouchInv
<1>9. OpenInv'
  BY <1>0, <1>1, <1>3, <1>4 DEF OpenInv, Open, Unborn, Claimed, GateOpen
<1>10. BankInv'
  <2>1. \A m \in net' : Kind[m.op] = "baseline" => m.tok.bank # selector
    BY <1>0, <1>1, <1>2 DEF BankInv
  <2> QED BY <1>0, <1>1, <1>3, <1>4, <2>1 DEF BankInv, Busy, switch
<1> QED BY <1>6, <1>7, <1>8, <1>9, <1>10 DEF SafeInv

(* A lost request.                                                         *)
LEMMA DropSafe == ASSUME Core, NEW m \in net, DropExecute(m) PROVE SafeInv'
<1> USE DEF ledger, policy, history, edgeVars, work, journal
<1>0. SysTypeOK /\ SendInv /\ ResultInv /\ TouchInv /\ OpenInv /\ BankInv BY DEF Core, Typed
<1>1. UNCHANGED <<switch, jtail, exec, intent, act, acks, ran, touched, job>> /\ net' \subseteq net
  BY DEF DropExecute
<1>2. SendInv' BY <1>0, <1>1 DEF SendInv, Busy, Claimed, Unborn
<1>3. ResultInv' BY <1>0, <1>1 DEF ResultInv, Busy, Over
<1>4. TouchInv' BY <1>0, <1>1 DEF TouchInv
<1>5. OpenInv' BY <1>0, <1>1 DEF OpenInv, Open, Unborn, Claimed, GateOpen
<1>6. BankInv' BY <1>0, <1>1 DEF BankInv, Busy, switch
<1> QED BY <1>2, <1>3, <1>4, <1>5, <1>6 DEF SafeInv

(* A request that arrives: the execute begins, once.                       *)
LEMMA DeliverSafe == ASSUME Core, NEW m \in net, DeliverExecute(m) PROVE SafeInv'
<1> DEFINE r == [op |-> m.op, fence |-> m.fence, bank |-> m.tok.bank,
                 status |-> "started", by |-> "execute"]
<1> USE DEF ledger, policy, history, switch
<1>0. SysTypeOK /\ TypeOK /\ SendInv /\ ResultInv /\ TouchInv /\ OpenInv /\ BankInv
  BY DEF Core, Typed, SysTypeOK
<1>1. m.op \in Op /\ m.fence \in 0..MaxEpoch /\ m.tok \in Token /\ m.tok.bank \in Banks
  BY <1>0 DEF SysTypeOK, Request, Token
<1>2. /\ Journal(r) /\ exec = None
      /\ exec' = [op |-> m.op, fence |-> m.fence, bank |-> m.tok.bank, step |-> "begin"]
      /\ UNCHANGED <<bank, selector, overlay, intent, act, acks, job, touched>>
      /\ net' = net \ {m} /\ ran' = [ran EXCEPT ![m.op] = @ + 1]
  BY DEF DeliverExecute, Execute, Executable, WriteReady
<1>3. exec' # None /\ exec'.op = m.op /\ exec'.bank = m.tok.bank
  BY <1>1, <1>2, NoneAssumption DEF Exec, Steps
<1>4. /\ r \in Record /\ r.op = m.op /\ r.status = "started"
  BY <1>1 DEF Record, Statuses
<1>5. Claimed(m.op) /\ ran[m.op] = 0 /\ \A n \in net' : n.op # m.op /\ n \in net
  BY <1>0, <1>2 DEF SendInv
<1>6. ran'[m.op] = 1 /\ \A o \in Op : o # m.op => ran'[o] = ran[o]
  BY <1>0, <1>1, <1>2, <1>5 DEF SysTypeOK
<1> HIDE DEF r
<1>7. /\ Len(jtail) \in Nat /\ Len(jtail') = Len(jtail) + 1 /\ jtail'[Len(jtail) + 1] = r
      /\ \A i \in 1..Len(jtail) : jtail'[i] = jtail[i] /\ jtail[i].op \in Op
  <2>1. \A i \in 1..Len(jtail) : jtail[i] \in Record BY <1>0 DEF TypeOK
  <2>2. \A x \in Record : x.op \in Op BY DEF Record
  <2> QED BY <1>0, <1>2, <1>4, <2>1, <2>2, AppendRecord DEF TypeOK
<1>8. \A i \in 1..Len(jtail') : jtail'[i] = r \/ (i \in 1..Len(jtail) /\ jtail'[i] = jtail[i])
  BY <1>7
<1>9. \A v \in Worker : job[v] # None => job[v].op \in Op
  BY <1>0 DEF SysTypeOK, Job
<1>10. SendInv'
  <2>1. \A n \in net : n.op \in Op BY <1>0 DEF SysTypeOK, Request
  <2>2. \A v \in Worker : Busy(v, NotSent) => job[v].op # m.op
    BY <1>0 DEF SendInv
  <2>3. \A v \in Worker : Busy(v, NotSent) => ran'[job[v].op] = 0
    BY <1>0, <1>6, <1>9, <2>2 DEF SendInv, Busy
  <2>4. \A n \in net' : ran'[n.op] = 0
    BY <1>0, <1>5, <1>6, <2>1 DEF SendInv
  <2>5. \A o \in Op : ran'[o] \in {0, 1} /\ (Unborn(o) => ran'[o] = 0)
    BY <1>0, <1>5, <1>6 DEF SendInv, Claimed, Unborn
  <2> QED BY <1>0, <1>2, <1>3, <1>5, <1>6, <2>3, <2>4, <2>5 DEF SendInv, Busy, Claimed, Unborn
<1>11. ResultInv'
  <2>1. \A i \in 1..Len(jtail') : ran'[jtail'[i].op] = 1
    BY <1>0, <1>4, <1>6, <1>7, <1>8 DEF ResultInv
  <2>2. \A o \in Op : Over(o) => o # m.op /\ ran'[o] = 1
    BY <1>5, <1>6 DEF Over
  <2> QED BY <1>0, <1>2, <1>3, <1>9, <2>1, <2>2 DEF ResultInv, Over, Busy
<1>12. TouchInv'
  <2>1. m.op \notin touched BY <1>0, <1>5 DEF TouchInv
  <2>2. \A i \in 1..Len(jtail') : jtail'[i].status = "hold" => jtail'[i].op \notin touched
    BY <1>0, <1>4, <1>8 DEF TouchInv
  <2>3. \A o \in touched : ran'[o] = 1
    BY <1>0, <1>6 DEF TouchInv, SysTypeOK
  <2> QED BY <1>0, <1>2, <1>3, <2>1, <2>2, <2>3 DEF TouchInv
<1>13. OpenInv'
  BY <1>0, <1>2 DEF OpenInv, Open, Unborn, Claimed, GateOpen
<1>14. BankInv'
  BY <1>0, <1>2, <1>3, <1>5 DEF BankInv, Busy
<1> QED BY <1>10, <1>11, <1>12, <1>13, <1>14 DEF SafeInv

(* A served acknowledgement empties the journal.                           *)
LEMMA AckSafe == ASSUME Core, NEW w \in Worker, AckServed(w) PROVE SafeInv'
<1> USE DEF ledger, policy, history
<1>0. SysTypeOK /\ JournalInv BY DEF Core, Typed
<1>1. /\ AcknowledgeEffect(job[w].rec) /\ job[w] # None
      /\ Stays(w, "acked") \/ Stays(w, "ackFailed")
      /\ UNCHANGED <<intent, act, acks, net, ran, touched>>
  BY <1>0, TaskJobs DEF AckServed, At_
<1>2. job[w].rec \in Record
  BY <1>0, <1>1 DEF AcknowledgeEffect, Ackable, JournalInv, TypeOK, Pending
<1>3. jtail' = <<>> BY <1>0, <1>1, <1>2, AckEmpties
<1>4. Still BY <1>1, <1>3 DEF AcknowledgeEffect, Still
<1>5. \A pc \in {"acked", "ackFailed"} : Fits(w, pc, job[w].op, job[w].tok, job[w].rec)
  BY <1>1, TaskFacts DEF Fits, Pc, NotSent, AckServed, At_
<1> QED BY <1>1, <1>4, <1>5, JobSafe DEF Stays

(* A preflight names the bank that is inactive; no other baseline is open, *)
(* so it stays inactive.                                                   *)
LEMMA PreflightSafe == ASSUME Core, NEW w \in Worker, PreflightEffect(w) PROVE SafeInv'
<1> USE DEF ledger, policy, history, journal
<1>0. SysTypeOK BY DEF Core, Typed
<1>1. Still BY <1>0, TokenJob DEF PreflightEffect, Preflight, Still
<1>2. job[w] # None /\ Busy(w, NotSent) BY DEF PreflightEffect, At_, Busy, NotSent
<1>3. CASE Stays(w, "rejected")
  <2>1. Fits(w, "rejected", job[w].op, job[w].tok, job[w].rec)
    BY <1>2, TaskFacts DEF Fits, Pc, NotSent, PreflightEffect, At_
  <2> QED BY <1>1, <1>3, <2>1, JobSafe DEF Stays
<1>4. ASSUME NEW t \in Token, t.op = job[w].op, t.bank = 1 - selector,
             JobTo(w, "execute", job[w].op, t, job[w].rec)
      PROVE  SafeInv'
  <2>1. t.bank # selector BY <1>0, <1>4 DEF SysTypeOK, TypeOK, Banks
  <2>2. Fits(w, "execute", job[w].op, t, job[w].rec)
    BY <1>2, <2>1, TaskFacts DEF Fits, Pc, NotSent, PreflightEffect, At_
  <2> QED BY <1>1, <1>4, <2>2, JobSafe
<1> QED BY <1>0, <1>3, <1>4, TokenJob

(* The steps of the actor itself.                                          *)
LEMMA ApplySafe == ASSUME Core, EdgeStep PROVE SafeInv'
<1> USE EffectAssumption DEF ledger, policy, history
<1>0. /\ SysTypeOK /\ TypeOK /\ JournalInv /\ SendInv /\ ResultInv /\ TouchInv /\ OpenInv /\ BankInv
      /\ Typed /\ AppliedInv
  BY DEF Core, Typed, SysTypeOK
<1>1. ActorStep BY DEF EdgeStep
<1>2. /\ exec \in Exec /\ exec # None /\ exec' # None
      /\ exec'.op = exec.op /\ exec'.bank = exec.bank /\ jtail' = jtail
      /\ UNCHANGED <<intent, act, acks, net, job, ran>>
  BY <1>0, <1>1, ApplyStep DEF EdgeStep, idle, journal
<1>3. /\ exec.op \in Op /\ exec.bank \in Banks BY <1>2 DEF Exec
<1>4. Claimed(exec.op) /\ ran[exec.op] = 1 /\ intent[exec.op] # "hold"
  BY <1>0, <1>2 DEF SendInv, Claimed
<1>5. touched' \in {touched, touched \cup {exec.op}} /\ (UNCHANGED switch => touched' = touched)
  BY DEF EdgeStep
<1>6. SendInv'
  BY <1>0, <1>2 DEF SendInv, Busy, Claimed, Unborn
<1>7. ResultInv'
  BY <1>0, <1>2 DEF ResultInv, Busy, Over
<1>8. TouchInv'
  <2>1. \A i \in 1..Len(jtail) : jtail[i].status = "started"
    <3>1. jtail # <<>> /\ jtail[Len(jtail)].status = "started" /\ Len(jtail) \in Nat
      BY <1>0, <1>2 DEF JournalInv, ExecStarted, LastRec, TypeOK
    <3> QED BY <1>0, <3>1 DEF JournalInv, ResultsLast
  <2>2. exec'.step \in {"begin", "hold"} => exec'.op \notin touched'
    BY <1>0, <1>1, <1>2, <1>5, ApplyStep DEF TouchInv
  <2>3. \A v \in Worker : job[v] # None /\ job[v].rec # None => job[v].op # exec.op
    BY <1>0, <1>2 DEF ResultInv, Over
  <2>4. \A o \in Op : acks[o].state # "none" => o # exec.op
    BY <1>0, <1>2 DEF ResultInv, Over
  <2> QED BY <1>0, <1>2, <1>4, <1>5, <2>1, <2>2, <2>3, <2>4 DEF TouchInv
<1>9. OpenInv'
  BY <1>0, <1>2 DEF OpenInv, Open, Unborn, Claimed, GateOpen
<1>10. BankInv'
  <2>1. CASE selector' = selector
    <3>1. bank'[selector] # Mixed
      <4>1. CASE bank' = bank BY <1>0, <4>1 DEF BankInv
      <4>2. CASE bank' # bank
        <5>1. exec.bank # selector
          BY <1>0, <1>1, <1>2, <4>2, ApplyStep DEF BankInv
        <5>2. bank'[selector] = bank[selector]
          BY <1>0, <1>1, <4>2, <5>1, ApplyStep DEF TypeOK
        <5> QED BY <1>0, <5>2 DEF BankInv
      <4> QED BY <4>1, <4>2
    <3>2. Kind[exec'.op] = "baseline" /\ exec'.step \in {"begin", "staging", "staged"} => exec'.bank # selector
      BY <1>0, <1>1, <1>2, ApplyStep DEF BankInv
    <3> QED BY <1>0, <1>2, <2>1, <3>1, <3>2 DEF BankInv, Busy
  <2>2. CASE selector' # selector
    <3>1. /\ Kind[exec.op] = "baseline" /\ exec'.step \in {"applied", "unknown"} /\ bank' = bank
          /\ selector' = exec.bank /\ bank[exec.bank] = BodyOf[exec.op]
      BY <1>0, <1>1, <2>2, ApplyStep
    <3>2. \A o \in Op : Kind[o] = "baseline" /\ Claimed(o) => o = exec.op
      BY <1>0, <1>3, <1>4, <3>1 DEF OpenInv
    <3>3. \A m \in net : Kind[m.op] # "baseline"
      <4>1. \A m \in net : m.op \in Op BY <1>0 DEF SysTypeOK, Request
      <4> QED BY <1>0, <1>4, <3>2, <4>1 DEF SendInv
    <3>4. \A v \in Worker : Busy(v, {"execute"}) => Kind[job[v].op] # "baseline"
      <4>1. \A v \in Worker : Busy(v, {"execute"}) => Busy(v, NotSent) /\ job[v].op \in Op
        BY <1>0 DEF Busy, NotSent, SysTypeOK, Job
      <4> QED BY <1>0, <1>4, <3>2, <4>1 DEF SendInv
    <3>5. bank'[selector'] # Mixed BY <1>3, <3>1
    <3> QED BY <1>2, <3>1, <3>3, <3>4, <3>5 DEF BankInv, Busy
  <2> QED BY <2>1, <2>2
<1> QED BY <1>6, <1>7, <1>8, <1>9, <1>10 DEF SafeInv

(* A record at the end of the journal, and a command that may be over.     *)
LEMMA RecordSafe ==
    ASSUME Core, UNCHANGED <<switch, intent, act, acks, net, ran, touched>>,
           exec' = exec \/ exec' = None,
           \/ jtail' = jtail
           \/ \E r \in Record : /\ Journal(r) /\ ran[r.op] = 1
                                /\ r.status = "hold" => r.op \notin touched,
           \/ UNCHANGED job
           \/ \E w \in Worker, r \in Record :
                 /\ JobTo(w, "result", job[w].op, job[w].tok, r) /\ job[w] # None
                 /\ job[w].pc = "wait" /\ r.op = job[w].op /\ ran[r.op] = 1 /\ exec' = None
                 /\ r.status = "hold" => r.op \notin touched
    PROVE  SafeInv'
<1>0. SysTypeOK /\ TypeOK /\ SendInv /\ ResultInv /\ TouchInv /\ OpenInv /\ BankInv
  BY DEF Core, Typed, SysTypeOK
<1>1. \A i \in 1..Len(jtail') : \/ i \in 1..Len(jtail) /\ jtail'[i] = jtail[i]
                                \/ /\ ran[jtail'[i].op] = 1
                                   /\ jtail'[i].status = "hold" => jtail'[i].op \notin touched
  <2>1. ASSUME NEW r \in Record, Journal(r)
        PROVE  \A i \in 1..Len(jtail') : (i \in 1..Len(jtail) /\ jtail'[i] = jtail[i]) \/ jtail'[i] = r
    <3>1. Len(jtail) \in Nat BY <1>0 DEF TypeOK
    <3> QED BY <1>0, <2>1, <3>1, AppendRecord
  <2> QED BY <2>1
<1>2. \A v \in Worker : \/ job'[v] = job[v]
                        \/ /\ job'[v] # None /\ job[v] # None /\ job'[v].pc = "result" /\ job[v].pc = "wait"
                           /\ job'[v].op = job[v].op /\ job'[v].rec \in Record
                           /\ job'[v].rec.op = job[v].op /\ ran[job[v].op] = 1 /\ exec' = None
                           /\ job'[v].rec.status = "hold" => job[v].op \notin touched
  BY DEF JobTo
<1>3. SendInv'
  <2>1. \A v \in Worker : Busy(v, NotSent)' => Busy(v, NotSent) /\ job'[v] = job[v]
    BY <1>2 DEF Busy, NotSent
  <2>2. \A v \in Worker : Busy(v, Pc \ {"validate"})' =>
           Busy(v, Pc \ {"validate"}) /\ job'[v].op = job[v].op
    BY <1>2 DEF Busy, Pc
  <2>3. \A v \in Worker : Busy(v, NotSent)' =>
           /\ intent'[job'[v].op] \in {"claimed", "unknown"} /\ ran'[job'[v].op] = 0
           /\ \A m \in net' : m.op # job'[v].op
    BY <1>0, <2>1 DEF SendInv, Claimed
  <2>4. \A v \in Worker : Busy(v, Pc \ {"validate"})' => intent'[job'[v].op] \notin {"absent", "unclaimed"}
    BY <1>0, <2>2 DEF SendInv, Unborn
  <2>5. \A u, v \in Worker : Busy(u, NotSent)' /\ Busy(v, NotSent)' /\ job'[u].op = job'[v].op => u = v
    BY <1>0, <2>1 DEF SendInv
  <2>6. /\ \A o \in Op : ran'[o] \in {0, 1} /\ (Unborn(o) => ran[o] = 0)'
        /\ \A m \in net' : (Claimed(m.op) /\ ran[m.op] = 0)'
        /\ \A m, n \in net' : m.op = n.op => m = n
        /\ (exec # None => Claimed(exec.op) /\ ran[exec.op] = 1)'
    BY <1>0 DEF SendInv, Claimed, Unborn
  <2> QED BY <2>3, <2>4, <2>5, <2>6 DEF SendInv, Claimed, Unborn
<1>4. ResultInv'
  <2>1. \A v \in Worker : Busy(v, {"result", "converge", "ack"})' => job'[v].rec # None
    BY <1>0, <1>2, SystemNoneAssumption DEF ResultInv, Busy
  <2>2. \A v \in Worker : job'[v] # None /\ job'[v].rec # None =>
           /\ job'[v].rec.op = job'[v].op /\ ran'[job'[v].op] = 1
           /\ exec' # None => exec'.op # job'[v].op
    BY <1>0, <1>2 DEF ResultInv, Over
  <2>3. \A i \in 1..Len(jtail') : ran'[jtail'[i].op] = 1
    BY <1>0, <1>1 DEF ResultInv
  <2> QED BY <1>0, <2>1, <2>2, <2>3 DEF ResultInv, Over
<1>5. TouchInv'
  <2>1. \A i \in 1..Len(jtail') : jtail'[i].status = "hold" => jtail'[i].op \notin touched
    BY <1>0, <1>1 DEF TouchInv
  <2>2. \A v \in Worker : job'[v] # None /\ job'[v].rec # None /\ job'[v].rec.status = "hold" =>
           job'[v].op \notin touched
    BY <1>0, <1>2 DEF TouchInv
  <2> QED BY <1>0, <2>1, <2>2 DEF TouchInv
<1>6. OpenInv'
  BY <1>0, <1>2 DEF OpenInv, Open, Unborn, Claimed, GateOpen
<1>7. BankInv'
  <2>1. \A v \in Worker : Busy(v, {"execute"})' => job'[v] = job[v]
    BY <1>2 DEF Busy
  <2> QED BY <1>0, <2>1 DEF BankInv, Busy, switch
<1> QED BY <1>3, <1>4, <1>5, <1>6, <1>7 DEF SafeInv

(* The end of an execute.                                                  *)
LEMMA ReplySafe == ASSUME Core, EdgeReply PROVE SafeInv'
<1> USE DEF ledger, policy, history
<1>0. SysTypeOK /\ SendInv /\ TouchInv BY DEF Core, Typed
<1>1. /\ FinishExecute /\ exec # None /\ Outcome \in Record
      /\ Outcome.op = exec.op /\ Outcome.status = exec.step
      /\ UNCHANGED <<switch, intent, act, acks, net, ran, touched>> /\ exec' = None /\ Journal(Outcome)
  BY <1>0, ReplyJob DEF EdgeReply, FinishExecute
<1>2. ran[Outcome.op] = 1 /\ (Outcome.status = "hold" => Outcome.op \notin touched)
  BY <1>0, <1>1 DEF SendInv, TouchInv
<1>3. \/ UNCHANGED job
      \/ \E w \in Worker : /\ job[w] # None /\ job[w].pc = "wait" /\ job[w].op = exec.op
                           /\ JobTo(w, "result", job[w].op, job[w].tok, Outcome)
  BY <1>0, ReplyJob DEF At_
<1> HIDE DEF Outcome
<1> QED BY <1>1, <1>2, <1>3, RecordSafe

(* The actor on its own.                                                   *)
LEMMA BackgroundSafe == ASSUME Core, EdgeBackground PROVE SafeInv'
<1> USE DEF ledger, policy, history, goVars
<1>0. SysTypeOK /\ TypeOK /\ ResultInv /\ Typed BY DEF Core, Typed, SysTypeOK
<1>1. /\ UNCHANGED <<switch, intent, act, acks, net, ran, touched, job>>
      /\ exec' = exec \/ exec' = None
      /\ \/ jtail' = jtail
         \/ \E r \in Record : /\ Journal(r) /\ jtail # <<>>
                              /\ r.op = LastRec.op /\ r.status \in {"applied", "unknown"}
  BY <1>0, BackgroundStep
<1>2. jtail # <<>> => ran[LastRec.op] = 1
  <2>1. jtail # <<>> => Len(jtail) \in 1..Len(jtail) BY <1>0 DEF TypeOK
  <2> QED BY <1>0, <2>1 DEF ResultInv, LastRec
<1>3. \/ jtail' = jtail
      \/ \E r \in Record : /\ Journal(r) /\ ran[r.op] = 1
                           /\ r.status = "hold" => r.op \notin touched
  BY <1>1, <1>2
<1> QED BY <1>1, <1>3, RecordSafe

(* The invariant holds initially.                                          *)
LEMMA InitCore == SysInit => Core
<1> SUFFICES ASSUME SysInit PROVE Core OBVIOUS
<1>1. Typed BY InitTyped
<1>2. AppliedInv /\ StagedInactive
  BY DEF SysInit, Init, AppliedInv, StepTrue, AppliedStaysTrue,
         StageInv, StagesInactive, SelectedIsStaged, StagedInactive
<1>3. /\ net = {} /\ exec = None /\ jtail = <<>> /\ touched = {}
      /\ bank = [b \in Banks |-> Empty] /\ selector = 0
      /\ job = [w \in Worker |-> None] /\ acks = [op \in Op |-> NoAck]
      /\ intent = [op \in Op |-> "absent"] /\ act = [op \in Op |-> "none"]
      /\ ran = [op \in Op |-> 0]
  BY DEF SysInit, Init
<1>4. SendInv BY <1>3 DEF SendInv, Busy, Unborn
<1>5. ResultInv BY <1>3 DEF ResultInv, Busy, NoAck
<1>6. TouchInv BY <1>3 DEF TouchInv
<1>7. OpenInv BY <1>3 DEF OpenInv, Unborn, Claimed, Open
<1>8. BankInv BY <1>3 DEF BankInv, Busy, Banks, Mixed, Empty
<1> QED BY <1>1, <1>2, <1>4, <1>5, <1>6, <1>7, <1>8 DEF Core

(* A request is executed over the bank that was inactive at its preflight  *)
(* and still is.                                                           *)
LEMMA NextInactive == ASSUME Core, [SysNext]_vars PROVE StagedInactive'
<1> USE NoneAssumption
<1>0. SysTypeOK /\ TypeOK /\ JournalInv /\ BankInv /\ StagedInactive
  BY DEF Core, Typed, SysTypeOK
<1>1. ASSUME NEW m \in net, DeliverExecute(m) PROVE StagedInactive'
  <2> DEFINE r == [op |-> m.op, fence |-> m.fence, bank |-> m.tok.bank,
                   status |-> "started", by |-> "execute"]
  <2>1. Execute(m.op, m.fence, m.tok) /\ m \in Request BY <1>0, <1>1 DEF DeliverExecute, SysTypeOK
  <2>2. r \in Record BY <2>1 DEF Request, Token, Record, Statuses
  <2>3. Journal(r) BY <2>1 DEF Execute
  <2>4. LastRec' = r /\ overActive' = (selector = m.tok.bank) BY <1>0, <2>2, <2>3, AppendRecord
  <2>5. Kind[m.op] = "baseline" => m.tok.bank # selector BY <1>0 DEF BankInv
  <2> QED BY <2>4, <2>5 DEF StagedInactive
<1>2. ASSUME NEW r \in Record, Journal(r), jtail # <<>>, r.op = LastRec.op, r.status # "started"
      PROVE  StagedInactive'
  BY <1>0, <1>2, AppendRecord DEF StagedInactive
<1>3. CASE EdgeReply
  <2>1. /\ Outcome \in Record /\ Journal(Outcome) /\ Outcome.status # "started"
        /\ Outcome.op = exec.op /\ exec # None
    BY <1>0, <1>3 DEF EdgeReply, FinishExecute, Outcome, TypeOK, Exec, Record, Statuses
  <2> QED BY <1>0, <1>2, <2>1 DEF JournalInv, ExecStarted
<1>4. CASE EdgeBackground
  <2>1. CASE ReconcileApplied \/ ReconcileUnknown
    <3>1. recovered # None /\ recovered \in Recovered
      BY <1>0, <2>1 DEF ReconcileApplied, ReconcileUnknown, Recovering, TypeOK
    <3>2. PICK s \in {"applied", "unknown"} : Journal(RecoveryResult(s))
      BY <2>1 DEF ReconcileApplied, ReconcileUnknown
    <3>3. /\ RecoveryResult(s) \in Record /\ RecoveryResult(s).status = s
          /\ RecoveryResult(s).op = recovered.rec.op
      BY <3>1 DEF RecoveryResult, Recovered, Record, Statuses
    <3> QED BY <1>0, <1>2, <3>1, <3>2, <3>3 DEF JournalInv, RecoveredIsLast
  <2>2. CASE ~ReconcileApplied /\ ~ReconcileUnknown
    BY <1>0, <1>4, <2>2
       DEF EdgeBackground, TokenExpires, Crash, Spawn, Reconnect, journal, work, StagedInactive, LastRec
  <2> QED BY <2>1, <2>2
<1>5. ASSUME NEW w \in Worker, AckServed(w) PROVE StagedInactive'
  <2>1. AcknowledgeEffect(job[w].rec) BY <1>5 DEF AckServed
  <2>2. job[w].rec \in Record
    BY <1>0, <2>1 DEF AcknowledgeEffect, Ackable, TypeOK, Pending
  <2>3. jtail' = <<>> BY <1>0, <2>1, <2>2, AckEmpties
  <2> QED BY <2>3 DEF StagedInactive
<1>6. CASE UNCHANGED journal
  BY <1>0, <1>6 DEF journal, StagedInactive, LastRec
<1>7. ASSUME NEW w \in Worker, TaskStep(w), ~AckServed(w) PROVE UNCHANGED journal
  <2>1. CASE PreflightEffect(w)
    BY <1>0, <2>1, TokenJob DEF Preflight, journal
  <2>2. CASE ~PreflightEffect(w)
    BY <1>7, <2>2
       DEF TaskStep, Select, LoadUnknownIntent, RetryPendingAcknowledgement,
           HoldBeforeSideEffect, ClaimIntent, PreflightRejected, FinalizePreflightHold,
           ExecuteEffect, GiveUp, MarkUnknown, Finalize, AckRefused, MarkAcked,
           RecordAckFailure, QueryEffectReadback, Converge, Stop, Shutdown, edgeVars
  <2> QED BY <2>1, <2>2
<1>8. CASE EdgeStep
  <2>1. UNCHANGED journal
    BY <1>8 DEF EdgeStep, ActorStep, ApplyReadFails, StageBank, BankStaged, FlipSelector,
                WriteOverlay, idle
  <2> QED BY <1>6, <2>1
<1>9. CASE \/ UNCHANGED vars \/ RecordAssignment \/ \E m \in net : DropExecute(m)
           \/ \E op \in Op : \/ Create(op) \/ Activate(op) \/ DeadlinePasses(op)
                             \/ ClaimLeaseExpires(op) \/ FenceExpiredClaims(op)
  BY <1>6, <1>9 DEF vars, edgeVars, RecordAssignment, DropExecute, Create, Activate, DeadlinePasses,
                    ClaimLeaseExpires, FenceExpiredClaims
<1> QED BY <1>1, <1>3, <1>4, <1>5, <1>6, <1>7, <1>8, <1>9 DEF SysNext

(* Every step preserves the invariant.                                     *)
LEMMA NextCore == Core /\ [SysNext]_vars => Core'
<1> SUFFICES ASSUME Core, [SysNext]_vars PROVE Core' OBVIOUS
<1>0. SysTypeOK /\ Typed /\ JournalInv /\ AppliedInv BY DEF Core, Typed
<1>1. Typed' BY <1>0, NextTyped
<1>2. AppliedInv' BY <1>0, ActorOfSystem, AppliedStep
<1> SUFFICES SafeInv' BY <1>1, <1>2, NextInactive DEF Core, SafeInv
<1>3. CASE UNCHANGED vars \/ RecordAssignment
  <2>1. UNCHANGED <<switch, jtail, exec, intent, act, acks, net, ran, touched, job>>
    BY <1>3 DEF RecordAssignment, vars, edgeVars, goVars, ledger, policy, history, journal, work
  <2>2. SendInv' BY <2>1 DEF Core, SendInv, Busy, Claimed, Unborn
  <2>3. ResultInv' BY <2>1 DEF Core, ResultInv, Busy, Over
  <2>4. TouchInv' BY <2>1 DEF Core, TouchInv
  <2>5. OpenInv' BY <2>1 DEF Core, OpenInv, Open, Unborn, Claimed, GateOpen
  <2>6. BankInv' BY <2>1 DEF Core, BankInv, Busy, switch
  <2> QED BY <2>2, <2>3, <2>4, <2>5, <2>6 DEF SafeInv
<1>4. ASSUME NEW op \in Op, \/ Create(op) \/ Activate(op) \/ DeadlinePasses(op)
                            \/ ClaimLeaseExpires(op) \/ FenceExpiredClaims(op)
      PROVE  SafeInv'
  BY <1>4, ApiSafe
<1>5. ASSUME NEW w \in Worker, TaskStep(w) PROVE SafeInv'
  <2>1. CASE HoldBeforeSideEffect(w) \/ FinalizePreflightHold(w) BY <2>1, HoldSafe
  <2>2. CASE ClaimIntent(w) BY <2>2, ClaimSafe
  <2>3. CASE PreflightEffect(w) BY <2>3, PreflightSafe
  <2>4. CASE ExecuteEffect(w) BY <2>4, SendSafe
  <2>5. CASE AckServed(w) BY <2>5, AckSafe
  <2>6. CASE Shutdown(w) BY <2>6, ShutdownSafe
  <2>7. CASE MarkUnknown(w)
    <3>1. /\ job[w] # None /\ JobEnds(w) /\ job[w].pc \in {"unknown", "result"}
          /\ SetIntent(job[w].op, "unknown") /\ ProjectUnknown(job[w].op)
          /\ UNCHANGED <<switch, jtail, exec, net, ran, touched, acks>>
      BY <1>0, <2>7, TaskJobs DEF MarkUnknown, At_, edgeVars, history, journal, work
    <3>2. job[w].op \in Op /\ ~Unborn(job[w].op) BY <3>1, TaskFacts
    <3> QED BY <3>1, <3>2, UnknownSafe
  <2>8. CASE Finalize(w)
    <3>1. /\ job[w] # None /\ Busy(w, {"result", "converge", "ack"}) /\ Stays(w, "ack")
          /\ Settle(job[w].op, job[w].rec)
          /\ UNCHANGED <<switch, jtail, exec, net, ran, touched>>
      BY <1>0, <2>8, TaskJobs DEF Finalize, At_, Busy, edgeVars, history, journal, work
    <3>2. job[w].rec # None BY <3>1, TaskFacts
    <3> QED BY <3>1, <3>2, SettleSafe
  <2>9. CASE Converge(w)
    <3>1. /\ job[w] # None /\ Busy(w, {"result", "converge", "ack"}) /\ intent[job[w].op] = "unknown"
          /\ UNCHANGED <<switch, jtail, exec, net, ran, touched>>
      BY <2>9 DEF Converge, At_, Busy, edgeVars, history, journal, work
    <3>2. job[w].rec # None /\ job[w].op \in Op /\ ~Unborn(job[w].op)
      BY <3>1, TaskFacts DEF Unborn
    <3>3. CASE Settle(job[w].op, job[w].rec) /\ Stays(w, "ack")
      BY <3>1, <3>2, <3>3, SettleSafe
    <3>4. CASE ~(Settle(job[w].op, job[w].rec) /\ Stays(w, "ack"))
      <4>1. ~(Settle(job[w].op, job[w].rec) /\ Moves(w, "ack"))
        BY <1>0, <3>1, <3>4, JobMoves DEF Stays, Pc
      <4>2. ProjectUnknown(job[w].op) /\ UNCHANGED <<intent, acks>> /\ JobEnds(w)
        BY <1>0, <2>9, <4>1, JobEnding DEF Converge
      <4> QED BY <3>1, <3>2, <4>2, UnknownSafe
    <3> QED BY <3>3, <3>4
  <2> QED BY <1>5, <2>1, <2>2, <2>3, <2>4, <2>5, <2>6, <2>7, <2>8, <2>9, QuietSafe DEF TaskStep
<1>6. ASSUME NEW m \in net, DeliverExecute(m) \/ DropExecute(m) PROVE SafeInv'
  BY <1>6, DeliverSafe, DropSafe
<1> QED BY <1>3, <1>4, <1>5, <1>6, ApplySafe, ReplySafe, BackgroundSafe DEF SysNext

(* The invariant of the system, without a bound on the life of a claim.    *)
LEMMA CoreInvariant == SysSpec => []Core
BY InitCore, NextCore, PTL DEF SysSpec

(* An approved effect begins on the switch at most once, for any number of *)
(* tasks, lost claims and late requests, also when a task outlives the     *)
(* lease of its claim.                                                     *)
THEOREM AtMostOnceHolds == SysSpec => []AtMostOnce
<1>1. Core => AtMostOnce BY DEF Core, SendInv, AtMostOnce
<1> QED BY <1>1, CoreInvariant, PTL

(* What the ledger files as a hold never reached the switch.               *)
THEOREM HoldIsTrue == SysSpec => []HoldMeansUntouched
<1>1. Core => HoldMeansUntouched BY DEF Core, TouchInv, HoldMeansUntouched
<1> QED BY <1>1, CoreInvariant, PTL

(* The bank that the selector points at always holds one whole rule set.   *)
THEOREM ActiveBankIsWhole == SysSpec => []ActiveBankWhole
<1>1. Core => ActiveBankWhole BY DEF Core, BankInv, ActiveBankWhole
<1> QED BY <1>1, CoreInvariant, PTL

-----------------------------------------------------------------------------
(* What holds when a task ends before its claim does *)
BoundInv == OwnInv /\ AckInv /\ TruthInv

(* A step that leaves the intents, the activations and the banks alone,    *)
(* and leads each task to a place that it may take.                        *)
Fitting(v, pc, op, rec) ==
    /\ pc \in Dispatching => Busy(v, Dispatching) /\ job[v].op = op
    /\ pc = "ack" => acks[op].state # "none" /\ acks[op].rec = rec
    /\ rec # None /\ rec.status = "applied" /\ Kind[op] = "baseline" /\ Open(op) => Matches(op, rec.bank)
(* Such a step preserves the rest of the invariant.                        *)
LEMMA QuietBound ==
    ASSUME Core, BoundInv,
           UNCHANGED <<intent, owner, leaseOver, act, binding, bank, selector, touched>>,
           job' \in [Worker -> Job \cup {None}],
           \A o \in Op : acks'[o].rec = acks[o].rec /\ (acks'[o].state # "none" <=> acks[o].state # "none"),
           \A v \in Worker : \/ job'[v] = job[v] \/ job'[v] = None
                             \/ Fitting(v, job'[v].pc, job'[v].op, job'[v].rec)
    PROVE  BoundInv'
<1>0. OwnInv /\ AckInv /\ TruthInv /\ job \in [Worker -> Job \cup {None}]
  BY DEF BoundInv, Core, Typed, SysTypeOK
<1>1. \A v \in Worker : job'[v] # None => job'[v].op \in Op
  BY DEF Job
<1>2. OwnInv'
  <2>1. \A v \in Worker : Busy(v, Dispatching)' => Busy(v, Dispatching) /\ job'[v].op = job[v].op
    BY DEF Fitting, Busy
  <2> QED BY <1>0, <2>1 DEF OwnInv, Unborn
<1>3. AckInv'
  <2>1. \A v \in Worker : Busy(v, {"ack"})' => acks[job'[v].op].state # "none" /\ acks[job'[v].op].rec = job'[v].rec
    BY <1>0 DEF AckInv, Fitting, Busy
  <2> QED BY <1>0, <1>1, <2>1 DEF AckInv, Final, Busy
<1>4. TruthInv'
  <2>1. \A v \in Worker :
          /\ job'[v] # None /\ job'[v].rec # None /\ job'[v].rec.status = "applied"
          /\ Kind[job'[v].op] = "baseline" /\ Open(job'[v].op)
          => bank[job'[v].rec.bank] = BodyOf[job'[v].op] /\ selector = job'[v].rec.bank
    BY <1>0 DEF TruthInv, Fitting, Matches
  <2>2. (\A o \in Op : act'[o] \in {"prepared", "reconciling"} => o \notin touched') => SwitchIsBinding'
    BY <1>0 DEF TruthInv, SwitchIsBinding, Open
  <2> QED BY <2>1, <2>2 DEF TruthInv, Open, Matches
<1> QED BY <1>2, <1>3, <1>4 DEF BoundInv

(* The same, for a step of one task.                                       *)
LEMMA StillBound ==
    ASSUME Core, BoundInv, NEW w \in Worker, NEW pc, NEW op, NEW tok, NEW rec,
           UNCHANGED <<intent, owner, leaseOver, act, binding, bank, selector, touched>>,
           \A o \in Op : acks'[o].rec = acks[o].rec /\ (acks'[o].state # "none" <=> acks[o].state # "none"),
           JobEnds(w) \/ (Fitting(w, pc, op, rec) /\ JobTo(w, pc, op, tok, rec))
    PROVE  BoundInv'
<1>1. job' \in [Worker -> Job \cup {None}] BY DEF JobEnds, JobTo
<1>2. \A v \in Worker : v # w => job'[v] = job[v] BY DEF JobEnds, JobTo
<1>3. job'[w] = None \/ Fitting(w, job'[w].pc, job'[w].op, job'[w].rec) BY DEF JobEnds, JobTo
<1> QED BY <1>1, <1>2, <1>3, QuietBound

(* The quiet steps of a task. *)
LEMMA QuietTaskBound ==
    ASSUME Core, BoundInv, NEW w \in Worker,
           \/ \E op \in Op : \/ Select(w, op) \/ LoadUnknownIntent(w, op)
                             \/ RetryPendingAcknowledgement(w, op)
           \/ PreflightEffect(w) \/ PreflightRejected(w) \/ ExecuteEffect(w) \/ GiveUp(w)
           \/ AckServed(w) \/ AckRefused(w) \/ MarkAcked(w) \/ RecordAckFailure(w)
           \/ QueryEffectReadback(w) \/ Stop(w)
    PROVE  BoundInv'
<1> DEFINE Same == UNCHANGED <<intent, owner, leaseOver, act, binding, bank, selector, touched, acks>>
<1> USE DEF ledger, policy, history, edgeVars, switch
<1>0. SysTypeOK /\ AckInv /\ TruthInv /\ OpenInv BY DEF Core, Typed, BoundInv
<1>1. ASSUME NEW op \in Op, Select(w, op) PROVE BoundInv'
  <2>1. Same /\ JobTo(w, "validate", op, None, None)
    BY <1>0, <1>1, StartJobs DEF Select
  <2> QED BY <2>1, StillBound DEF Fitting, Dispatching, NotSent
<1>2. ASSUME NEW op \in Op, LoadUnknownIntent(w, op) PROVE BoundInv'
  <2>1. Same /\ JobTo(w, "query", op, None, None)
    BY <1>0, <1>2, StartJobs DEF LoadUnknownIntent
  <2> QED BY <2>1, StillBound DEF Fitting, Dispatching, NotSent
<1>3. ASSUME NEW op \in Op, RetryPendingAcknowledgement(w, op) PROVE BoundInv'
  <2>1. Same /\ JobTo(w, "ack", op, None, acks[op].rec) /\ acks[op].state # "none"
    BY <1>0, <1>3, StartJobs DEF RetryPendingAcknowledgement
  <2>2. ~Open(op)
    BY <1>0, <2>1 DEF AckInv, Final, OpenInv
  <2> QED BY <2>1, <2>2, StillBound DEF Fitting, Dispatching, NotSent
<1>4. ASSUME NEW pc \in Pc, Stays(w, pc), Same, job[w] # None, pc # "ack",
             pc \in Dispatching => Busy(w, Dispatching)
      PROVE  BoundInv'
  <2>1. Fitting(w, pc, job[w].op, job[w].rec)
    BY <1>0, <1>4 DEF Fitting, TruthInv
  <2> QED BY <1>4, <2>1, StillBound DEF Stays
<1>5. CASE PreflightEffect(w)
  <2>1. Same /\ job[w] # None /\ Busy(w, Dispatching)
    BY <1>5 DEF PreflightEffect, Preflight, At_, Busy, Dispatching, NotSent
  <2>2. CASE Stays(w, "rejected") BY <1>4, <2>1, <2>2 DEF Pc
  <2>3. ASSUME NEW t \in Token, JobTo(w, "execute", job[w].op, t, job[w].rec) PROVE BoundInv'
    <3>1. Fitting(w, "execute", job[w].op, job[w].rec)
      BY <1>0, <2>1 DEF Fitting, TruthInv
    <3> QED BY <2>1, <2>3, <3>1, StillBound
  <2> QED BY <1>0, <1>5, <2>2, <2>3, TokenJob
<1>6. CASE PreflightRejected(w) \/ ExecuteEffect(w) \/ GiveUp(w)
  <2>1. Same /\ job[w] # None /\ Busy(w, Dispatching)
    BY <1>6 DEF PreflightRejected, ExecuteEffect, GiveUp, At_, Busy, Dispatching, NotSent
  <2>2. Stays(w, "rejected") \/ Stays(w, "wait") \/ Stays(w, "unknown")
    BY <1>0, <1>6, TaskJobs
  <2> QED BY <1>4, <2>1, <2>2 DEF Pc
<1>7. CASE AckServed(w) \/ AckRefused(w)
  <2>1. Same /\ job[w] # None
    BY <1>7 DEF AckServed, AckRefused, AcknowledgeEffect, At_
  <2>2. Stays(w, "acked") \/ Stays(w, "ackFailed")
    BY <1>0, <1>7, TaskJobs
  <2> QED BY <1>4, <2>1, <2>2 DEF Pc, Dispatching, NotSent
<1>8. CASE MarkAcked(w) \/ RecordAckFailure(w)
  <2>1. JobEnds(w) /\ job[w] # None BY <1>0, <1>8, TaskJobs DEF MarkAcked, RecordAckFailure, At_
  <2>2. job[w].op \in Op BY <2>1, TaskFacts
  <2>3. UNCHANGED <<intent, owner, leaseOver, act, binding, bank, selector, touched>>
    BY <1>8 DEF MarkAcked, RecordAckFailure
  <2>5. \A op \in Op : acks'[op].rec = acks[op].rec /\ (acks'[op].state # "none" <=> acks[op].state # "none")
    BY <1>0, <1>8, <2>1, AckEnds
  <2> QED BY <2>1, <2>3, <2>5, StillBound
<1>9. CASE QueryEffectReadback(w)
  <2>1. /\ Same /\ JobTo(w, "converge", job[w].op, job[w].tok, pending.rec)
        /\ pending # None /\ pending.rec.op = job[w].op
    BY <1>0, <1>9, ReadbackJob DEF QueryEffectReadback
  <2>2. pending.rec.status = "applied" => Matches(job[w].op, pending.rec.bank)
    BY <2>1 DEF Core, Typed, JournalInv, PendingIsLast, AppliedInv, AppliedStaysTrue, StagedInactive
  <2>3. Fitting(w, "converge", job[w].op, pending.rec)
    BY <2>1, <2>2 DEF Fitting, Dispatching, NotSent
  <2> QED BY <2>1, <2>3, StillBound
<1>10. CASE Stop(w)
  <2>1. Same /\ JobEnds(w) BY <1>0, <1>10, TaskJobs DEF Stop
  <2> QED BY <2>1, StillBound
<1> QED BY <1>1, <1>2, <1>3, <1>5, <1>6, <1>7, <1>8, <1>9, <1>10

(* A transaction on one intent that has no outcome yet: the task that owns *)
(* the claim goes on to the acknowledgement or ends.                       *)
LEMMA LedgerBound ==
    ASSUME Core, BoundInv, NEW op \in Op, NEW s,
           UNCHANGED <<bank, selector, touched, owner, leaseOver>>,
           intent' = [intent EXCEPT ![op] = s], s \notin {"absent", "unclaimed"},
           intent[op] \notin {"finalized", "hold"},
           job' \in [Worker -> Job \cup {None}], \A v \in Worker : Kept(v),
           \A v \in Worker : /\ Busy(v, Dispatching) /\ job[v].op = op /\ job'[v] # None
                             => s = "claimed" \/ job'[v].pc = "ack",
           \A v \in Worker : job'[v] # None /\ job'[v] # job[v] =>
              /\ job[v].op = op /\ acks'[op].state # "none" /\ acks'[op].rec = job[v].rec,
           \A o \in Op : o # op => acks'[o] = acks[o],
           acks'[op].state # "none" =>
              acks'[op].rec.status \in {"applied", "hold"} /\ s = Final(acks'[op].rec),
           \A o \in Op : o # op => act'[o] = act[o],
           act'[op] \in {"prepared", "reconciling"} => Open(op),
           \/ SwitchIsBinding'
           \/ UNCHANGED binding /\ (Open(op) /\ op \in touched => act'[op] \in {"prepared", "reconciling"})
    PROVE  BoundInv'
<1>0. /\ OwnInv /\ AckInv /\ TruthInv /\ job \in [Worker -> Job \cup {None}]
      /\ intent \in [Op -> {"absent", "unclaimed", "claimed", "unknown", "finalized", "hold"}]
  BY DEF BoundInv, Core, Typed, SysTypeOK
<1>1. \A o \in Op : intent'[o] = IF o = op THEN s ELSE intent[o]
  BY <1>0
<1>2. \A v \in Worker : job'[v] # None =>
         /\ job[v] # None /\ job'[v].op = job[v].op /\ job[v].op \in Op /\ job'[v].rec = job[v].rec
         /\ job'[v] = job[v] \/ job'[v].pc = "ack"
  BY <1>0 DEF Kept, Job
<1>3. acks[op].state = "none"
  BY <1>0 DEF AckInv, Final
<1>4. OwnInv'
  <2>1. \A o \in Op : intent'[o] \in {"absent", "unclaimed"} => ~leaseOver[o]
    BY <1>0, <1>1 DEF OwnInv, Unborn
  <2>2. \A v \in Worker : Busy(v, Dispatching)' =>
           intent'[job'[v].op] = "claimed" /\ owner[job'[v].op] = v /\ ~leaseOver[job'[v].op]
    <3> SUFFICES ASSUME NEW v \in Worker, Busy(v, Dispatching)'
                 PROVE  intent'[job'[v].op] = "claimed" /\ owner[job'[v].op] = v /\ ~leaseOver[job'[v].op]
      OBVIOUS
    <3>1. job'[v] # None /\ job'[v].pc # "ack" BY DEF Busy, Dispatching, NotSent
    <3>2. job'[v] = job[v] /\ Busy(v, Dispatching) BY <1>2, <3>1 DEF Busy
    <3> QED BY <1>0, <1>1, <1>2, <3>1, <3>2 DEF OwnInv
  <2> QED BY <2>1, <2>2 DEF OwnInv, Unborn
<1>5. AckInv'
  <2>1. \A o \in Op : acks'[o].state # "none" =>
           acks'[o].rec.status \in {"applied", "hold"} /\ intent'[o] = Final(acks'[o].rec)
    BY <1>0, <1>1 DEF AckInv
  <2>2. \A v \in Worker : Busy(v, {"ack"})' =>
           acks'[job'[v].op].state # "none" /\ acks'[job'[v].op].rec = job'[v].rec
    <3> SUFFICES ASSUME NEW v \in Worker, Busy(v, {"ack"})'
                 PROVE  acks'[job'[v].op].state # "none" /\ acks'[job'[v].op].rec = job'[v].rec
      OBVIOUS
    <3>1. CASE job'[v] = job[v]
      <4>1. Busy(v, {"ack"}) BY <3>1 DEF Busy
      <4>2. job[v].op # op BY <1>0, <1>3, <4>1 DEF AckInv
      <4> QED BY <1>0, <1>2, <3>1, <4>1, <4>2 DEF AckInv, Busy
    <3>2. CASE job'[v] # job[v] BY <1>2, <3>2 DEF Busy
    <3> QED BY <3>1, <3>2
  <2> QED BY <2>1, <2>2 DEF AckInv, Final
<1>6. TruthInv'
  <2>1. \A o \in Op : act'[o] \in {"prepared", "reconciling"} => Open(o)
    BY DEF Open
  <2>2. \A v \in Worker :
          /\ job'[v] # None /\ job'[v].rec # None /\ job'[v].rec.status = "applied"
          /\ Kind[job'[v].op] = "baseline" /\ act'[job'[v].op] \in {"prepared", "reconciling"}
          => bank[job'[v].rec.bank] = BodyOf[job'[v].op] /\ selector = job'[v].rec.bank
    BY <1>0, <1>2, <2>1 DEF TruthInv, Matches
  <2>3. (\A o \in Op : act'[o] \in {"prepared", "reconciling"} => o \notin touched') => SwitchIsBinding'
    <3>1. CASE SwitchIsBinding' BY <3>1
    <3>2. CASE UNCHANGED binding /\ (Open(op) /\ op \in touched => act'[op] \in {"prepared", "reconciling"})
      <4>1. SUFFICES ASSUME \A o \in Op : act'[o] \in {"prepared", "reconciling"} => o \notin touched'
                     PROVE  SwitchIsBinding'
        OBVIOUS
      <4>2. \A o \in Op : Open(o) => o \notin touched BY <3>2, <4>1 DEF Open
      <4> QED BY <1>0, <3>2, <4>2 DEF TruthInv, SwitchIsBinding
    <3> QED BY <3>1, <3>2
  <2> QED BY <2>2, <2>3 DEF TruthInv, Open, Matches
<1> QED BY <1>4, <1>5, <1>6 DEF BoundInv

(* A dispatch owns its claim alone. *)
LEMMA OneOwner ==
    ASSUME BoundInv, NEW v \in Worker, NEW w \in Worker,
           Busy(v, Dispatching), Busy(w, Dispatching), job[v].op = job[w].op
    PROVE  v = w
BY DEF BoundInv, OwnInv

(* Holds before a side effect, and unknown outcomes of a dispatch.         *)
LEMMA HoldBound ==
    ASSUME Core, BoundInv, NEW w \in Worker,
           HoldBeforeSideEffect(w) \/ FinalizePreflightHold(w) \/ MarkUnknown(w)
    PROVE  BoundInv'
<1> DEFINE op == job[w].op
           s == IF MarkUnknown(w) THEN "unknown" ELSE "hold"
<1> USE DEF ledger, policy, history, edgeVars, switch
<1>0. SysTypeOK /\ BoundInv /\ AckInv /\ OpenInv BY DEF Core, Typed, BoundInv
<1>1. JobEnds(w) /\ job[w] # None /\ op \in Op /\ GateOpen(op) /\ \A v \in Worker : Kept(v)
  BY <1>0, TaskJobs, TaskFacts, EndsKept
     DEF HoldBeforeSideEffect, FinalizePreflightHold, MarkUnknown, At_
<1>2. UNCHANGED <<bank, selector, touched, owner, leaseOver, acks, binding>>
  BY DEF HoldBeforeSideEffect, FinalizePreflightHold, MarkUnknown, ProjectResult, ProjectUnknown
<1>3. \/ intent[op] = "unclaimed" /\ HoldBeforeSideEffect(w)
      \/ intent[op] = "claimed" /\ Busy(w, Dispatching)
  <2>1. CASE HoldBeforeSideEffect(w)
    <3>1. intent[op] = "unclaimed" BY <2>1 DEF HoldBeforeSideEffect
    <3> QED BY <2>1, <3>1
  <2>2. CASE FinalizePreflightHold(w) \/ MarkUnknown(w)
    <3>1. Busy(w, Dispatching)
      BY <2>2 DEF FinalizePreflightHold, MarkUnknown, Busy, At_, Dispatching, NotSent
    <3> QED BY <3>1 DEF BoundInv, OwnInv
  <2> QED BY <2>1, <2>2
<1>4. /\ intent' = [intent EXCEPT ![op] = s] /\ s \in {"hold", "unknown"}
      /\ act' = IF act[op] = "none" THEN act
                ELSE [act EXCEPT ![op] = IF s = "hold" THEN "hold" ELSE "reconciling"]
  <2>1. ~(MarkUnknown(w) /\ (HoldBeforeSideEffect(w) \/ FinalizePreflightHold(w)))
    BY DEF MarkUnknown, HoldBeforeSideEffect, FinalizePreflightHold, At_
  <2> QED BY <2>1 DEF HoldBeforeSideEffect, FinalizePreflightHold, MarkUnknown, SetIntent, ProjectUnknown, ProjectResult
<1>5. s = "hold" => op \notin touched
  <2>1. s = "hold" => Unborn(op) \/ Busy(w, NotSent)
    BY DEF HoldBeforeSideEffect, FinalizePreflightHold, Unborn, Busy, At_, NotSent
  <2> QED BY <1>1, <2>1 DEF Core, SendInv, TouchInv
<1>6. s = "unknown" => intent[op] = "claimed"
  BY <1>3 DEF HoldBeforeSideEffect, MarkUnknown, At_
<1> HIDE DEF op, s
<1>7. \A o \in Op : o # op => act'[o] = act[o]
  BY <1>0, <1>4 DEF SysTypeOK
<1>8. Open(op) /\ op \in touched => act'[op] \in {"prepared", "reconciling"}
  BY <1>0, <1>1, <1>4, <1>5 DEF Open, SysTypeOK
<1>9. act'[op] \in {"prepared", "reconciling"} => Open(op)
  <2>1. CASE s = "hold"
    BY <1>0, <1>1, <1>4, <2>1 DEF SysTypeOK, Open
  <2>2. CASE s = "unknown"
    BY <1>0, <1>1, <1>4, <1>6, <2>2 DEF OpenInv, Claimed, Open
  <2> QED BY <1>4, <2>1, <2>2
<1>10. \A v \in Worker : Busy(v, Dispatching) /\ job[v].op = op => job'[v] = None
  <2> SUFFICES ASSUME NEW v \in Worker, Busy(v, Dispatching), job[v].op = op PROVE job'[v] = None
    OBVIOUS
  <2>1. intent[op] = "claimed" BY <1>0 DEF BoundInv, OwnInv
  <2>2. Busy(w, Dispatching) BY <1>3, <2>1
  <2>3. v = w BY <2>2, OneOwner DEF op
  <2> QED BY <1>1, <2>3 DEF JobEnds
<1>11. acks'[op].state = "none"
  BY <1>0, <1>1, <1>2, <1>3 DEF AckInv, Final
<1>12. job' \in [Worker -> Job \cup {None}] /\ \A v \in Worker : job'[v] # None => job'[v] = job[v]
  BY <1>1 DEF JobEnds
<1>13. s \notin {"absent", "unclaimed"} /\ intent[op] \notin {"finalized", "hold"} BY <1>3, <1>4
<1>14. intent' = [intent EXCEPT ![op] = s] BY <1>4
<1> QED BY <1>1, <1>2, <1>7, <1>8, <1>9, <1>10, <1>11, <1>12, <1>13, <1>14, LedgerBound

(* The transaction of an outcome: an applied baseline becomes the binding, *)
(* and the switch already runs it.                                         *)
LEMMA SettleBound ==
    ASSUME Core, BoundInv, NEW w \in Worker, job[w] # None, job[w].rec # None,
           Settle(job[w].op, job[w].rec), Stays(w, "ack"),
           UNCHANGED <<switch, touched, owner, leaseOver>>,
           \/ intent[job[w].op] = "claimed" /\ Busy(w, Dispatching)
           \/ intent[job[w].op] = "unknown"
    PROVE  BoundInv'
<1> DEFINE op == job[w].op
           r == job[w].rec
           s == IF r.status = "applied" THEN "finalized" ELSE "hold"
           a == IF r.status = "applied" THEN "applied" ELSE "hold"
<1>0. SysTypeOK /\ AckInv /\ TruthInv /\ OpenInv BY DEF Core, Typed, BoundInv
<1>1. /\ op \in Op /\ r \in Record /\ GateOpen(op)
      /\ r.status = "hold" => op \notin touched
  BY TaskFacts
<1>2. job' \in [Worker -> Job \cup {None}] /\ \A v \in Worker : Kept(v)
  BY DEF Stays, JobTo, Kept
<1>3. /\ intent' = [intent EXCEPT ![op] = s] /\ InsertAck(op, r)
      /\ r.status \in {"applied", "hold"}
      /\ \/ act' = [act EXCEPT ![op] = a] /\ act[op] # "none"
         \/ act' = act /\ Kind[op] # "baseline"
      /\ \/ UNCHANGED binding /\ (Kind[op] = "baseline" => r.status = "hold")
         \/ /\ binding' = [ver |-> binding.ver + 1, op |-> op, bank |-> r.bank]
            /\ Kind[op] = "baseline" /\ r.status = "applied"
  BY <1>1 DEF Settle, SetIntent, ProjectApplied, ProjectResult, GateOpen, policy
<1>4. acks[op].state = "none" BY <1>0, <1>1 DEF AckInv, Final
<1>5. acks'[op].rec = r /\ acks'[op].state # "none" /\ \A o \in Op : o # op => acks'[o] = acks[o]
  BY <1>0, <1>1, <1>3, <1>4, AckRow
<1>6. s = Final(r) /\ s \in {"finalized", "hold"} /\ a \in {"applied", "hold"}
  BY DEF Final
<1>7. Kind[op] = "baseline" => Open(op)
  BY <1>0, <1>1 DEF OpenInv, Claimed
<1>8. Open(op) => Kind[op] = "baseline"
  BY <1>0, <1>1 DEF OpenInv, Open
<1>9. /\ act'[op] \notin {"prepared", "reconciling"}
      /\ \A o \in Op : o # op => act'[o] = act[o]
  BY <1>0, <1>1, <1>3, <1>6, <1>8 DEF SysTypeOK, Open
<1>10. \/ SwitchIsBinding'
       \/ UNCHANGED binding /\ (Open(op) /\ op \in touched => act'[op] \in {"prepared", "reconciling"})
  <2>1. CASE UNCHANGED binding /\ (Kind[op] = "baseline" => r.status = "hold")
    BY <1>1, <1>8, <2>1
  <2>2. CASE /\ binding' = [ver |-> binding.ver + 1, op |-> op, bank |-> r.bank]
             /\ Kind[op] = "baseline" /\ r.status = "applied"
    <3>1. Matches(op, r.bank) BY <1>0, <1>7, <2>2 DEF TruthInv
    <3>2. bank[r.bank] = BodyOf[op] /\ selector = r.bank BY <2>2, <3>1 DEF Matches
    <3>3. binding'.op = op /\ binding'.bank = r.bank /\ op # None
      BY <1>1, <2>2, SystemNoneAssumption
    <3> QED BY <3>2, <3>3 DEF SwitchIsBinding, switch
  <2> QED BY <1>3, <2>1, <2>2
<1>11. \A v \in Worker : Busy(v, Dispatching) /\ job[v].op = op /\ job'[v] # None => job'[v].pc = "ack"
  <2> SUFFICES ASSUME NEW v \in Worker, Busy(v, Dispatching), job[v].op = op PROVE job'[v].pc = "ack"
    OBVIOUS
  <2>1. intent[op] = "claimed" BY DEF BoundInv, OwnInv
  <2>2. v = w BY <2>1, OneOwner
  <2> QED BY <2>2 DEF Stays, JobTo
<1>12. \A v \in Worker : job'[v] # None /\ job'[v] # job[v] =>
          job[v].op = op /\ acks'[op].state # "none" /\ acks'[op].rec = job[v].rec
  BY <1>5 DEF Stays, JobTo
<1>13. acks'[op].state # "none" =>
          acks'[op].rec.status \in {"applied", "hold"} /\ s = Final(acks'[op].rec)
  BY <1>3, <1>5, <1>6
<1>14. UNCHANGED <<bank, selector, touched, owner, leaseOver>> BY DEF switch
<1>15. intent' = [intent EXCEPT ![op] = s] /\ s \notin {"absent", "unclaimed"}
       /\ intent[op] \notin {"finalized", "hold"}
  BY <1>3, <1>6
<1> HIDE DEF op, r, s, a
<1>16. \A v \in Worker : /\ Busy(v, Dispatching) /\ job[v].op = op /\ job'[v] # None
                          => s = "claimed" \/ job'[v].pc = "ack"
  BY <1>11
<1>17. act'[op] \in {"prepared", "reconciling"} => Open(op) BY <1>9
<1>18. \A o \in Op : o # op => acks'[o] = acks[o] BY <1>5
<1>19. \A o \in Op : o # op => act'[o] = act[o] BY <1>9
<1> QED BY <1>1, <1>2, <1>10, <1>12, <1>13, <1>14, <1>15, <1>16, <1>17, <1>18, <1>19, LedgerBound, ZenonT(60)

(* The API and the clock.  A lease runs out only when no task is left on   *)
(* its operation, so that the claim that is fenced belongs to nobody.      *)
LEMMA ApiBound ==
    ASSUME Bounded, Core, BoundInv, NEW op \in Op,
           \/ Create(op) \/ Activate(op) \/ DeadlinePasses(op)
           \/ ClaimLeaseExpires(op) \/ FenceExpiredClaims(op)
    PROVE  BoundInv'
<1> USE DEF ledger, policy, history, edgeVars, switch
<1>0. SysTypeOK /\ OwnInv /\ AckInv /\ TruthInv /\ OpenInv BY DEF Core, Typed, BoundInv
<1>1. CASE DeadlinePasses(op)
  <2>1. job' \in [Worker -> Job \cup {None}] /\ UNCHANGED <<job, acks>>
    BY <1>0, <1>1 DEF DeadlinePasses, SysTypeOK
  <2> QED BY <1>1, <2>1, QuietBound DEF DeadlinePasses
<1>2. CASE Create(op)
  <2>1. /\ intent[op] = "absent" /\ UNCHANGED <<job, acks, act, binding, bank, selector, touched, owner, leaseOver>>
        /\ \A o \in Op : intent'[o] = IF o = op THEN "unclaimed" ELSE intent[o]
    BY <1>0, <1>2 DEF Create, SetIntent, SysTypeOK
  <2>2. \A v \in Worker : job[v] # None => job[v].op \in Op BY <1>0 DEF SysTypeOK, Job
  <2>3. OwnInv' BY <1>0, <2>1, <2>2 DEF OwnInv, Unborn, Busy
  <2>4. \A o \in Op : acks[o].state # "none" => o # op
    BY <1>0, <2>1 DEF AckInv, Final
  <2>5. AckInv' BY <1>0, <2>1, <2>4 DEF AckInv, Final, Busy
  <2>6. TruthInv' BY <1>0, <2>1 DEF TruthInv, Open, SwitchIsBinding, Matches
  <2> QED BY <2>3, <2>5, <2>6 DEF BoundInv
<1>3. CASE Activate(op)
  <2>1. /\ intent[op] = "unclaimed" /\ act[op] = "none"
        /\ UNCHANGED <<job, acks, intent, binding, bank, selector, touched, owner, leaseOver>>
        /\ \A o \in Op : act'[o] = IF o = op THEN "prepared" ELSE act[o]
    BY <1>0, <1>3 DEF Activate, SysTypeOK
  <2>2. \A v \in Worker : job[v] # None /\ job[v].rec # None => job[v].op \in Op /\ job[v].op # op
    <3>1. ran[op] = 0 BY <2>1 DEF Core, SendInv, Unborn
    <3>2. \A v \in Worker : job[v] # None /\ job[v].rec # None => job[v].op \in Op /\ Over(job[v].op)
      BY TaskFacts
    <3> QED BY <3>1, <3>2 DEF Over
  <2>3. OwnInv' BY <1>0, <2>1 DEF OwnInv, Unborn, Busy
  <2>4. AckInv' BY <1>0, <2>1 DEF AckInv, Final, Busy
  <2>5. \A v \in Worker :
          /\ job'[v] # None /\ job'[v].rec # None /\ job'[v].rec.status = "applied"
          /\ Kind[job'[v].op] = "baseline" /\ act'[job'[v].op] \in {"prepared", "reconciling"}
          => bank[job'[v].rec.bank] = BodyOf[job'[v].op] /\ selector = job'[v].rec.bank
    BY <1>0, <2>1, <2>2 DEF TruthInv, Open, Matches
  <2>6. (\A o \in Op : act'[o] \in {"prepared", "reconciling"} => o \notin touched') => SwitchIsBinding'
    BY <1>0, <2>1 DEF TruthInv, SwitchIsBinding, Open
  <2>7. TruthInv' BY <2>1, <2>5, <2>6 DEF TruthInv, Open, Matches
  <2> QED BY <2>3, <2>4, <2>7 DEF BoundInv
<1>4. CASE ClaimLeaseExpires(op)
  <2>1. /\ intent[op] = "claimed"
        /\ UNCHANGED <<job, acks, intent, act, binding, bank, selector, touched, owner>>
        /\ \A o \in Op : o # op => leaseOver'[o] = leaseOver[o]
        /\ \A v \in Worker : job[v] # None => job[v].op # op
    BY <1>0, <1>4 DEF ClaimLeaseExpires, SysTypeOK
  <2>2. \A v \in Worker : job[v] # None => job[v].op \in Op BY <1>0 DEF SysTypeOK, Job
  <2>3. OwnInv' BY <1>0, <2>1, <2>2 DEF OwnInv, Unborn, Busy
  <2>4. AckInv' BY <1>0, <2>1 DEF AckInv, Final, Busy
  <2>5. TruthInv' BY <1>0, <2>1 DEF TruthInv, Open, SwitchIsBinding, Matches
  <2> QED BY <2>3, <2>4, <2>5 DEF BoundInv
<1>5. CASE FenceExpiredClaims(op)
  <2> DEFINE s == "unknown"
  <2>1. /\ intent[op] = "claimed" /\ leaseOver[op] /\ UNCHANGED <<job, acks, binding>>
        /\ UNCHANGED <<bank, selector, touched, owner, leaseOver>>
        /\ intent' = [intent EXCEPT ![op] = s]
    BY <1>5 DEF FenceExpiredClaims, SetIntent, ProjectUnknown, ProjectResult
  <2>2. s \notin {"absent", "unclaimed"} /\ intent[op] \notin {"finalized", "hold"} BY <2>1
  <2>3. job' \in [Worker -> Job \cup {None}] /\ (\A v \in Worker : Kept(v)) /\ acks'[op].state = "none"
    BY <1>0, <2>1 DEF SysTypeOK, Kept, AckInv, Final
  <2>4. act' = IF act[op] = "none" THEN act ELSE [act EXCEPT ![op] = "reconciling"]
    BY <1>5 DEF FenceExpiredClaims, ProjectUnknown, ProjectResult
  <2>5. \A o \in Op : o # op => act'[o] = act[o]
    BY <1>0, <2>4 DEF SysTypeOK
  <2>6. act[op] # "none" => Open(op)
    BY <1>0, <2>1 DEF OpenInv, Claimed
  <2>7. act'[op] \in {"prepared", "reconciling"} => Open(op)
    BY <2>4, <2>6
  <2>8. Open(op) /\ op \in touched => act'[op] \in {"prepared", "reconciling"}
    BY <1>0, <2>4 DEF Open, SysTypeOK
  <2>9. \A v \in Worker : ~(Busy(v, Dispatching) /\ job[v].op = op)
    BY <1>0, <2>1 DEF OwnInv
  <2> HIDE DEF s
  <2> QED BY <2>1, <2>2, <2>3, <2>5, <2>7, <2>8, <2>9, LedgerBound
<1> QED BY <1>1, <1>2, <1>3, <1>4, <1>5

(* ClaimIntent makes the task the owner.                                   *)
LEMMA ClaimBound == ASSUME Core, BoundInv, NEW w \in Worker, ClaimIntent(w) PROVE BoundInv'
<1> DEFINE op == job[w].op
<1> USE DEF ledger, policy, history, edgeVars, switch
<1>0. SysTypeOK /\ OwnInv /\ AckInv /\ TruthInv BY DEF Core, Typed, BoundInv
<1>1. Stays(w, "preflight") /\ job[w] # None /\ op \in Op /\ (job[w].rec # None => Over(op))
  BY <1>0, TaskJobs, TaskFacts DEF ClaimIntent, At_
<1>2. /\ intent[op] = "unclaimed"
      /\ UNCHANGED <<acks, act, binding, bank, selector, touched, leaseOver>>
      /\ \A o \in Op : /\ intent'[o] = IF o = op THEN "claimed" ELSE intent[o]
                       /\ owner'[o] = IF o = op THEN w ELSE owner[o]
  BY <1>0 DEF ClaimIntent, SetIntent, SysTypeOK
<1>3. Unborn(op) /\ ~leaseOver[op] /\ job[w].rec = None
  BY <1>0, <1>1, <1>2 DEF Unborn, OwnInv, Core, SendInv, Over
<1>4. /\ \A v \in Worker : v # w => job'[v] = job[v]
      /\ job'[w] # None /\ job'[w].op = op /\ job'[w].rec = None /\ job'[w].pc = "preflight"
  BY <1>1, <1>3 DEF Stays, JobTo
<1>5. \A v \in Worker : job[v] # None => job[v].op \in Op BY <1>0 DEF SysTypeOK, Job
<1> HIDE DEF op
<1>6. OwnInv'
  <2>1. \A o \in Op : intent'[o] \in {"absent", "unclaimed"} => ~leaseOver'[o]
    BY <1>0, <1>2 DEF OwnInv, Unborn
  <2>2. \A v \in Worker : Busy(v, Dispatching)' =>
           /\ intent'[job'[v].op] = "claimed" /\ owner'[job'[v].op] = v /\ ~leaseOver'[job'[v].op]
    <3> SUFFICES ASSUME NEW v \in Worker, Busy(v, Dispatching)'
                 PROVE  intent'[job'[v].op] = "claimed" /\ owner'[job'[v].op] = v /\ ~leaseOver'[job'[v].op]
      OBVIOUS
    <3>1. CASE v = w BY <1>1, <1>2, <1>3, <1>4, <3>1
    <3>2. CASE v # w
      <4>1. Busy(v, Dispatching) /\ job'[v] = job[v] BY <1>4, <3>2 DEF Busy
      <4>2. job[v].op # op BY <1>0, <1>2, <4>1 DEF OwnInv
      <4> QED BY <1>0, <1>2, <1>5, <4>1, <4>2 DEF OwnInv, Busy
    <3> QED BY <3>1, <3>2
  <2> QED BY <2>1, <2>2 DEF OwnInv, Unborn
<1>7. AckInv'
  <2>1. \A o \in Op : acks[o].state # "none" => o # op
    BY <1>0, <1>2 DEF AckInv, Final
  <2>2. \A o \in Op : acks'[o].state # "none" =>
           acks'[o].rec.status \in {"applied", "hold"} /\ intent'[o] = Final(acks'[o].rec)
    BY <1>0, <1>2, <2>1 DEF AckInv
  <2>3. \A v \in Worker : Busy(v, {"ack"})' =>
           acks'[job'[v].op].state # "none" /\ acks'[job'[v].op].rec = job'[v].rec
    BY <1>0, <1>2, <1>4 DEF AckInv, Busy
  <2> QED BY <2>2, <2>3 DEF AckInv, Final
<1>8. TruthInv'
  BY <1>0, <1>2, <1>4 DEF TruthInv, Open, SwitchIsBinding, Matches
<1> QED BY <1>6, <1>7, <1>8 DEF BoundInv

(* A shutdown fences the claims of a task that is gone.                    *)
LEMMA ShutdownBound == ASSUME Core, BoundInv, NEW w \in Worker, Shutdown(w) PROVE BoundInv'
<1> USE DEF ledger, policy, history, edgeVars, switch
<1>0. SysTypeOK /\ OwnInv /\ AckInv /\ TruthInv BY DEF Core, Typed, BoundInv
<1>1. job'[w] = None /\ \A v \in Worker : v # w => job'[v] = job[v]
  BY <1>0, TaskJobs DEF JobEnds
<1>2. /\ UNCHANGED <<acks, act, binding, bank, selector, touched, owner, leaseOver>>
      /\ \A o \in Op : intent'[o] = IF intent[o] = "claimed" /\ owner[o] = w THEN "unknown" ELSE intent[o]
  BY DEF Shutdown
<1>3. \A v \in Worker : job[v] # None => job[v].op \in Op BY <1>0 DEF SysTypeOK, Job
<1>4. OwnInv'
  <2>1. \A o \in Op : intent'[o] \in {"absent", "unclaimed"} => ~leaseOver'[o]
    BY <1>0, <1>2 DEF OwnInv, Unborn
  <2>2. \A v \in Worker : Busy(v, Dispatching)' => v # w /\ Busy(v, Dispatching) /\ job'[v] = job[v]
    BY <1>1 DEF Busy
  <2>3. \A v \in Worker : Busy(v, Dispatching)' =>
           /\ intent'[job'[v].op] = "claimed" /\ owner'[job'[v].op] = v /\ ~leaseOver'[job'[v].op]
    BY <1>0, <1>2, <1>3, <2>2 DEF OwnInv, Busy
  <2> QED BY <2>1, <2>3 DEF OwnInv, Unborn
<1>5. AckInv'
  <2>1. \A o \in Op : acks'[o].state # "none" =>
           acks'[o].rec.status \in {"applied", "hold"} /\ intent'[o] = Final(acks'[o].rec)
    <3>1. \A o \in Op : acks[o].state # "none" => intent[o] # "claimed"
      BY <1>0 DEF AckInv, Final
    <3> QED BY <1>0, <1>2, <3>1 DEF AckInv
  <2>2. \A v \in Worker : Busy(v, {"ack"})' =>
           acks'[job'[v].op].state # "none" /\ acks'[job'[v].op].rec = job'[v].rec
    BY <1>0, <1>1, <1>2 DEF AckInv, Busy
  <2> QED BY <2>1, <2>2 DEF AckInv, Final
<1>6. TruthInv'
  BY <1>0, <1>1, <1>2 DEF TruthInv, Open, SwitchIsBinding, Matches
<1> QED BY <1>4, <1>5, <1>6 DEF BoundInv

(* A reconciliation whose readback is unknown again changes only the       *)
(* projection.                                                             *)
LEMMA ConvergeBound == ASSUME Core, BoundInv, NEW w \in Worker, Converge(w) PROVE BoundInv'
<1> DEFINE op == job[w].op
<1> USE DEF ledger, policy, history, edgeVars, switch
<1>0. SysTypeOK /\ OwnInv /\ AckInv /\ TruthInv /\ OpenInv BY DEF Core, Typed, BoundInv
<1>1. /\ job[w] # None /\ intent[op] = "unknown" /\ Busy(w, {"result", "converge", "ack"})
      /\ UNCHANGED <<switch, touched, owner, leaseOver>>
  BY DEF Converge, At_, Busy
<1>2. job[w].rec # None /\ op \in Op BY <1>1, TaskFacts
<1>3. CASE Settle(op, job[w].rec) /\ Stays(w, "ack")
  BY <1>1, <1>2, <1>3, SettleBound
<1>4. CASE ~(Settle(op, job[w].rec) /\ Stays(w, "ack"))
  <2> DEFINE s == "unknown"
  <2>1. ~(Settle(op, job[w].rec) /\ Moves(w, "ack"))
    BY <1>0, <1>1, <1>4, JobMoves DEF Stays, Pc
  <2>2. ProjectUnknown(op) /\ UNCHANGED <<intent, acks>> /\ JobEnds(w)
    BY <1>0, <2>1, JobEnding DEF Converge
  <2>3. /\ act' = IF act[op] = "none" THEN act ELSE [act EXCEPT ![op] = "reconciling"]
        /\ UNCHANGED binding
    BY <2>2 DEF ProjectUnknown, ProjectResult
  <2>4. intent' = [intent EXCEPT ![op] = s]
    BY <1>0, <1>1, <1>2, <2>2 DEF SysTypeOK
  <2>5. s \notin {"absent", "unclaimed"} /\ intent[op] \notin {"finalized", "hold"} BY <1>1
  <2>6. job' \in [Worker -> Job \cup {None}] /\ (\A v \in Worker : Kept(v)) /\ acks'[op].state = "none"
    BY <1>0, <1>1, <1>2, <2>2, EndsKept DEF JobEnds, AckInv, Final
  <2>7. \A o \in Op : o # op => act'[o] = act[o] BY <1>0, <2>3 DEF SysTypeOK
  <2>8. act[op] # "none" => Open(op) BY <1>0, <1>1, <1>2 DEF OpenInv, Claimed
  <2>9. act'[op] \in {"prepared", "reconciling"} => Open(op) BY <2>3, <2>8
  <2>10. Open(op) /\ op \in touched => act'[op] \in {"prepared", "reconciling"}
    BY <1>0, <1>2, <2>3 DEF Open, SysTypeOK
  <2>11. \A v \in Worker : ~(Busy(v, Dispatching) /\ job[v].op = op) BY <1>0, <1>1 DEF OwnInv
  <2>12. \A v \in Worker : job'[v] # None => job'[v] = job[v] BY <2>2 DEF JobEnds
  <2>13. UNCHANGED <<bank, selector, touched, owner, leaseOver>> BY <1>1
  <2> HIDE DEF s, op
  <2> QED BY <1>2, <2>2, <2>3, <2>4, <2>5, <2>6, <2>7, <2>9, <2>10, <2>11, <2>12, <2>13, LedgerBound
<1> QED BY <1>3, <1>4

(* The actor: while it writes for a baseline, that one is open and counted *)
(* as touched; a result of another open baseline cannot exist.             *)
LEMMA ApplyBound == ASSUME Core, BoundInv, EdgeStep PROVE BoundInv'
<1> USE DEF ledger, policy, switch
<1>0. SysTypeOK /\ Typed /\ AppliedInv /\ SendInv /\ OpenInv /\ OwnInv /\ AckInv /\ TruthInv
  BY DEF Core, Typed, BoundInv
<1>1. /\ exec # None /\ exec \in Exec
      /\ bank' # bank \/ selector' # selector => Kind[exec.op] = "baseline"
  BY <1>0, ApplyStep DEF EdgeStep
<1>2. /\ UNCHANGED <<job, acks, intent, act, binding, owner, leaseOver>>
      /\ touched \subseteq touched'
      /\ bank' # bank \/ selector' # selector => exec.op \in touched'
  BY DEF EdgeStep
<1>3. exec.op \in Op /\ (Kind[exec.op] = "baseline" => Open(exec.op))
  BY <1>0, <1>1 DEF Exec, SendInv, OpenInv
<1>4. OwnInv' BY <1>0, <1>2 DEF OwnInv, Unborn, Busy
<1>5. AckInv' BY <1>0, <1>2 DEF AckInv, Final, Busy
<1>6. (\A o \in Op : act'[o] \in {"prepared", "reconciling"} => o \notin touched') => SwitchIsBinding'
  <2> SUFFICES ASSUME \A o \in Op : act'[o] \in {"prepared", "reconciling"} => o \notin touched'
               PROVE  SwitchIsBinding'
    OBVIOUS
  <2>1. bank' = bank /\ selector' = selector BY <1>1, <1>2, <1>3 DEF Open
  <2>2. \A o \in Op : Open(o) => o \notin touched BY <1>2 DEF Open
  <2> QED BY <1>0, <1>2, <2>1, <2>2 DEF TruthInv, SwitchIsBinding
<1>7. ASSUME NEW v \in Worker, job[v] # None, job[v].rec # None, job[v].rec.status = "applied",
             Kind[job[v].op] = "baseline", Open(job[v].op)
      PROVE  bank'[job[v].rec.bank] = BodyOf[job[v].op] /\ selector' = job[v].rec.bank
  <2>1. job[v].op \in Op /\ exec.op # job[v].op BY <1>1, <1>7, TaskFacts DEF Over
  <2>2. bank' = bank /\ selector' = selector BY <1>0, <1>1, <1>3, <1>7, <2>1 DEF OpenInv
  <2> QED BY <1>0, <1>7, <2>2 DEF TruthInv, Matches
<1>8. TruthInv' BY <1>2, <1>6, <1>7 DEF TruthInv, Open, Matches
<1> QED BY <1>4, <1>5, <1>8 DEF BoundInv

(* The reply of an applied plan: the switch holds that plan.               *)
LEMMA ReplyBound == ASSUME Core, BoundInv, EdgeReply PROVE BoundInv'
<1> USE DEF ledger, policy, history, switch
<1>0. SysTypeOK /\ StepTrue BY DEF Core, Typed, AppliedInv
<1>1. /\ exec # None /\ Outcome.op = exec.op /\ Outcome.status = exec.step /\ Outcome.bank = exec.bank
      /\ UNCHANGED <<intent, owner, leaseOver, act, binding, bank, selector, touched, acks>>
  BY <1>0, ReplyJob DEF EdgeReply, FinishExecute
<1>2. CASE UNCHANGED job
  <2>1. job' \in [Worker -> Job \cup {None}] BY <1>0, <1>2 DEF SysTypeOK
  <2> QED BY <1>1, <1>2, <2>1, QuietBound
<1>3. ASSUME NEW w \in Worker, At_(w, "wait"), job[w].op = exec.op,
             JobTo(w, "result", job[w].op, job[w].tok, Outcome)
      PROVE  BoundInv'
  <2>1. Outcome.status = "applied" => Matches(job[w].op, Outcome.bank)
    BY <1>0, <1>1, <1>3 DEF StepTrue
  <2>2. Busy(w, Dispatching) BY <1>3 DEF At_, Busy, Dispatching
  <2> HIDE DEF Outcome
  <2>3. Fitting(w, "result", job[w].op, Outcome)
    BY <2>1, <2>2 DEF Fitting
  <2> QED BY <1>1, <1>3, <2>3, StillBound
<1> QED BY <1>0, <1>2, <1>3, ReplyJob

(* The rest of the invariant holds initially.                              *)
LEMMA InitBound == SysInit => BoundInv
<1> SUFFICES ASSUME SysInit PROVE BoundInv OBVIOUS
<1>1. /\ bank = [b \in Banks |-> Empty] /\ selector = 0 /\ binding.op = None
      /\ job = [w \in Worker |-> None] /\ acks = [op \in Op |-> NoAck]
      /\ leaseOver = [op \in Op |-> FALSE]
  BY DEF SysInit, Init
<1>2. OwnInv BY <1>1 DEF OwnInv, Busy
<1>3. AckInv BY <1>1 DEF AckInv, Busy, NoAck
<1>4. TruthInv BY <1>1 DEF TruthInv, SwitchIsBinding, Banks
<1> QED BY <1>2, <1>3, <1>4 DEF BoundInv

(* Every step preserves it, if no lease expires under a running task.      *)
LEMMA NextBound == Bounded /\ Core /\ BoundInv /\ [SysNext]_vars => BoundInv'
<1> SUFFICES ASSUME Bounded, Core, BoundInv, [SysNext]_vars PROVE BoundInv' OBVIOUS
<1>0. SysTypeOK /\ Typed BY DEF Core, Typed
<1> USE DEF ledger, policy, history, edgeVars, goVars, switch
<1>1. ASSUME UNCHANGED <<intent, owner, leaseOver, act, binding, bank, selector, touched, acks, job>>
      PROVE  BoundInv'
  <2>1. job' \in [Worker -> Job \cup {None}] BY <1>0, <1>1 DEF SysTypeOK
  <2> QED BY <1>1, <2>1, QuietBound
<1>2. CASE UNCHANGED vars \/ RecordAssignment BY <1>1, <1>2 DEF vars, RecordAssignment
<1>3. ASSUME NEW op \in Op, \/ Create(op) \/ Activate(op) \/ DeadlinePasses(op)
                            \/ ClaimLeaseExpires(op) \/ FenceExpiredClaims(op)
      PROVE  BoundInv'
  BY <1>3, ApiBound
<1>4. ASSUME NEW w \in Worker, TaskStep(w) PROVE BoundInv'
  <2>1. CASE HoldBeforeSideEffect(w) \/ FinalizePreflightHold(w) \/ MarkUnknown(w) BY <2>1, HoldBound
  <2>2. CASE ClaimIntent(w) BY <2>2, ClaimBound
  <2>3. CASE Shutdown(w) BY <2>3, ShutdownBound
  <2>4. CASE Converge(w) BY <2>4, ConvergeBound
  <2>5. CASE Finalize(w)
    <3>1. /\ job[w] # None /\ Busy(w, {"result", "converge", "ack"}) /\ Busy(w, Dispatching)
          /\ Settle(job[w].op, job[w].rec) /\ Stays(w, "ack")
          /\ UNCHANGED <<switch, touched, owner, leaseOver>>
      BY <1>0, <2>5, TaskJobs DEF Finalize, At_, Busy, Dispatching
    <3>2. job[w].rec # None BY <3>1, TaskFacts
    <3>3. intent[job[w].op] = "claimed" BY <3>1 DEF BoundInv, OwnInv
    <3> QED BY <3>1, <3>2, <3>3, SettleBound
  <2> QED BY <1>4, <2>1, <2>2, <2>3, <2>4, <2>5, QuietTaskBound DEF TaskStep
<1>5. ASSUME NEW m \in net, DeliverExecute(m) \/ DropExecute(m) PROVE BoundInv'
  BY <1>1, <1>5 DEF DeliverExecute, DropExecute, Execute
<1>6. CASE EdgeBackground BY <1>0, <1>1, <1>6, BackgroundStep
<1> QED BY <1>2, <1>3, <1>4, <1>5, <1>6, ApplyBound, ReplyBound DEF SysNext

(* The whole invariant of the system.                                      *)
LEMMA BoundInvariant == ASSUME Bounded PROVE SysSpec => [](Core /\ BoundInv)
<1>1. SysInit => Core /\ BoundInv BY InitCore, InitBound
<1>2. Core /\ BoundInv /\ [SysNext]_vars => (Core /\ BoundInv)' BY NextCore, NextBound
<1> QED BY <1>1, <1>2, PTL DEF SysSpec

(* Outside an open activation the binding in the ledger is what the switch *)
(* runs, and what it calls a hold never reached the switch: for any number *)
(* of tasks, operations and retries, if a task ends before its claim does. *)
THEOREM LedgerIsTrueHolds == ASSUME Bounded PROVE SysSpec => []LedgerIsTrue
<1>1. ASSUME Core, BoundInv PROVE LedgerIsTrue
  <2>1. SysTypeOK /\ HoldMeansUntouched
    BY <1>1 DEF Core, Typed, TouchInv, HoldMeansUntouched
  <2>2. BindingIsTrue
    BY <1>1 DEF BoundInv, TruthInv, BindingIsTrue, SwitchIsBinding
  <2> QED BY <2>1, <2>2 DEF LedgerIsTrue
<1> QED BY <1>1, BoundInvariant, PTL

(* An outcome, once in the ledger, stays: a dispatch still owns its claim  *)
(* when it writes one, and a reconciliation compares claim_state.          *)
LEMMA NextFinal ==
    ASSUME Core, BoundInv, [SysNext]_vars, NEW op \in Op, intent[op] \in {"finalized", "hold"}
    PROVE  intent'[op] = intent[op]
<1> USE DEF ledger, goVars
<1>0. OwnInv /\ intent \in [Op -> {"absent", "unclaimed", "claimed", "unknown", "finalized", "hold"}]
  BY DEF BoundInv, Core, Typed, SysTypeOK
<1>1. ASSUME NEW o, NEW s, SetIntent(o, s), intent[o] \in {"absent", "unclaimed", "claimed", "unknown"}
      PROVE  intent'[op] = intent[op]
  BY <1>0, <1>1 DEF SetIntent
<1>2. CASE UNCHANGED vars \/ RecordAssignment \/ EdgeStep \/ EdgeReply \/ EdgeBackground
  BY <1>2 DEF vars, RecordAssignment, EdgeStep, EdgeReply, EdgeBackground
<1>3. ASSUME NEW o \in Op, \/ Create(o) \/ Activate(o) \/ DeadlinePasses(o)
                           \/ ClaimLeaseExpires(o) \/ FenceExpiredClaims(o)
      PROVE  intent'[op] = intent[op]
  BY <1>1, <1>3 DEF Create, Activate, DeadlinePasses, ClaimLeaseExpires, FenceExpiredClaims
<1>4. ASSUME NEW m \in net, DeliverExecute(m) \/ DropExecute(m) PROVE intent'[op] = intent[op]
  BY <1>4 DEF DeliverExecute, DropExecute
<1>5. ASSUME NEW w \in Worker, TaskStep(w) PROVE intent'[op] = intent[op]
  <2>1. CASE HoldBeforeSideEffect(w) \/ ClaimIntent(w)
    BY <1>1, <2>1 DEF HoldBeforeSideEffect, ClaimIntent
  <2>2. CASE FinalizePreflightHold(w) \/ MarkUnknown(w) \/ Finalize(w)
    <3>1. Busy(w, Dispatching)
      BY <2>2 DEF FinalizePreflightHold, MarkUnknown, Finalize, At_, Busy, Dispatching, NotSent
    <3>2. intent[job[w].op] = "claimed" BY <1>0, <3>1 DEF OwnInv
    <3>3. \E s : SetIntent(job[w].op, s)
      BY <2>2 DEF FinalizePreflightHold, MarkUnknown, Finalize, Settle
    <3> QED BY <1>1, <3>2, <3>3
  <2>3. CASE Converge(w)
    <3>1. intent[job[w].op] = "unknown" BY <2>3 DEF Converge
    <3>2. UNCHANGED intent \/ \E s : SetIntent(job[w].op, s) BY <2>3 DEF Converge, Settle
    <3> QED BY <1>1, <3>1, <3>2
  <2>4. CASE Shutdown(w) BY <2>4 DEF Shutdown
  <2>5. CASE ~(\/ HoldBeforeSideEffect(w) \/ ClaimIntent(w) \/ FinalizePreflightHold(w)
               \/ MarkUnknown(w) \/ Finalize(w) \/ Converge(w) \/ Shutdown(w))
    BY <1>5, <2>5 DEF TaskStep, Select, LoadUnknownIntent, RetryPendingAcknowledgement, PreflightEffect,
       PreflightRejected, ExecuteEffect, GiveUp, AckServed, AckRefused, MarkAcked, RecordAckFailure,
       QueryEffectReadback, Stop
  <2> QED BY <2>1, <2>2, <2>3, <2>4, <2>5
<1> QED BY <1>2, <1>3, <1>4, <1>5 DEF SysNext

(* "An old-lease late result does NOT overwrite new facts", provided that  *)
(* a task ends before its claim does.                                      *)
THEOREM OutcomeIsFinalHolds == ASSUME Bounded PROVE SysSpec => OutcomeIsFinal
<1>1. Core /\ BoundInv /\ [SysNext]_vars =>
         [\A op \in Op : intent[op] \in {"finalized", "hold"} => intent'[op] = intent[op]]_vars
  BY NextFinal
<1> QED BY <1>1, BoundInvariant, PTL DEF SysSpec, OutcomeIsFinal

(* Only an acknowledgement moves the checkpoint of the journal, and it     *)
(* names the result that the ledger holds.                                 *)
LEMMA NextForgets ==
    ASSUME Core, BoundInv, [SysNext]_vars, jbase' # jbase
    PROVE  /\ intent[LastRec.op] = IF LastRec.status = "applied" THEN "finalized" ELSE "hold"
           /\ acks[LastRec.op].rec = LastRec
<1> USE DEF edgeVars, journal, idle
<1>1. ASSUME NEW w \in Worker, AckServed(w)
      PROVE  /\ intent[LastRec.op] = IF LastRec.status = "applied" THEN "finalized" ELSE "hold"
             /\ acks[LastRec.op].rec = LastRec
  <2>1. job[w] # None /\ Busy(w, {"ack"}) /\ Busy(w, {"result", "converge", "ack"})
        /\ pending # None /\ pending.rec = job[w].rec
    BY <1>1 DEF AckServed, At_, Busy, AcknowledgeEffect, Ackable
  <2>2. LastRec = job[w].rec
    BY <2>1 DEF Core, Typed, JournalInv, PendingIsLast
  <2>3. job[w].op \in Op /\ job[w].rec.op = job[w].op BY <2>1, TaskFacts
  <2> QED BY <2>1, <2>2, <2>3 DEF BoundInv, AckInv, Final
<1>2. \E w \in Worker : AckServed(w)
  <2>1. CASE UNCHANGED vars \/ RecordAssignment BY <2>1 DEF vars, RecordAssignment
  <2>2. ASSUME NEW op \in Op, \/ Create(op) \/ Activate(op) \/ DeadlinePasses(op)
                              \/ ClaimLeaseExpires(op) \/ FenceExpiredClaims(op)
        PROVE  FALSE
    BY <2>2 DEF Create, Activate, DeadlinePasses, ClaimLeaseExpires, FenceExpiredClaims
  <2>3. ASSUME NEW m \in net, DeliverExecute(m) \/ DropExecute(m) PROVE FALSE
    BY <2>3 DEF DeliverExecute, DropExecute, Execute, Journal
  <2>4. ASSUME NEW w \in Worker, TaskStep(w) PROVE AckServed(w)
    BY <2>4 DEF TaskStep, Select, LoadUnknownIntent, RetryPendingAcknowledgement, PreflightEffect,
       Preflight, PreflightRejected, ExecuteEffect, GiveUp, AckRefused, MarkAcked, RecordAckFailure,
       QueryEffectReadback, Stop, HoldBeforeSideEffect, ClaimIntent, FinalizePreflightHold,
       MarkUnknown, Finalize, Converge, Shutdown
  <2>5. ~EdgeStep
    BY DEF EdgeStep, ActorStep, ApplyReadFails, StageBank, BankStaged, FlipSelector, WriteOverlay
  <2>6. ~EdgeReply BY DEF EdgeReply, FinishExecute, Journal
  <2>7. ~EdgeBackground
    BY DEF EdgeBackground, TokenExpires, ReconcileApplied, ReconcileUnknown, Journal, Crash, Spawn, Reconnect
  <2> QED BY <2>1, <2>2, <2>3, <2>4, <2>5, <2>6, <2>7 DEF SysNext
<1> QED BY <1>1, <1>2

(* The actor forgets an operation only when the ledger holds its outcome   *)
(* and the acknowledgement row that names it.                              *)
THEOREM ForgottenAfterCommitHolds == ASSUME Bounded PROVE SysSpec => ForgottenAfterCommit
<1>1. Core /\ BoundInv /\ [SysNext]_vars =>
         [jbase' # jbase =>
            /\ intent[LastRec.op] = IF LastRec.status = "applied" THEN "finalized" ELSE "hold"
            /\ acks[LastRec.op].rec = LastRec]_vars
  BY NextForgets
<1> QED BY <1>1, BoundInvariant, PTL DEF SysSpec, ForgottenAfterCommit
=============================================================================
