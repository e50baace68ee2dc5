------------------------ MODULE QualificationProofs ------------------------
(***************************************************************************)
(* Proofs about Qualification, for any rule counts, batch size, number of  *)
(* repeats, phase and sample times, limits of the queue and of the drain,  *)
(* and any number of faults:                                               *)
(*                                                                         *)
(*   HintsAreAnswered     QualInv                                          *)
(*   AcceptedIsWhole      AcceptedWhole                                    *)
(*   ZeroIsFresh          ExitZeroIsFresh                                  *)
(***************************************************************************)
EXTENDS Qualification, SequenceTheorems, TLAPS

-----------------------------------------------------------------------------
(* Types.                                                                  *)
Entry == {"drop", "permit"} \X Int
OpNames == {"set", "verify", "infra", "write", "readback", "initial", "delete", "flip", "selected", "warmup", "measure",
            "end", "drain", "turn", "overlay", "dropped", "expire", "forwarded", "probe", "row", "residual1", "residual",
            "metrics", "cleanup"}
WStep == [op : OpNames, bank : Bank, rules : Seq(Entry)]
Switch == [loaded : BOOLEAN, infra : BOOLEAN, sel : Bank \cup {None}, overlay : BOOLEAN, bank : [Bank -> SUBSET Entry]]
Local  == [active : Bank, rules : [Bank -> Seq(Entry)]]
Report == [err : BOOLEAN, bad : BOOLEAN, rows : Nat, clean : BOOLEAN]
Wanted == [bank : Bank, rules : [Bank -> SUBSET Entry]]
Channel == [len : 0..QueueMax, alive : BOOLEAN, got : 0..DrainMax, lost : BOOLEAN]

WorkType ==
    /\ job \in {"idle", "performance", "soak"} /\ traffic \in {"no", "warmup", "measured"}
    /\ verdict \in {"none", "PASS", "FAIL", "HOLD"} /\ torn \in BOOLEAN /\ faults \in 0..NFaults
    /\ todo \in Seq(WStep) /\ sw \in Switch /\ view \in Local /\ rep \in Report /\ goal \in Wanted
    /\ stream \in Channel /\ turn \in Nat /\ turn \in 0..NTurns \cup 0..NSamples

MinType == [step : 0..MCleanup + 3, net : BOOLEAN, box : BOOLEAN, id : BOOLEAN, ready : BOOLEAN, overlay : BOOLEAN,
            link : BOOLEAN, tries : 0..Attempts - 1, errors : BOOLEAN, end : {"", "PASS", "FAIL"}]
ShellType ==
    /\ at \in {"preflight", "environment", "unit", "p4testgen", "mininet", "compiler", "functional",
               "performance", "measured", "crash", "recovery", "lifecycle", "soak", "soaked", "supply",
               "aggregate", "exit", "end"}
    /\ reused \in BOOLEAN /\ formal \in BOOLEAN /\ file \in [Phases -> {"none", "old", "PASS", "FAIL", "HOLD"}] /\ bad \in BOOLEAN
    /\ mn \in MinType /\ life \in [n : 0..NCycles, bad : BOOLEAN] /\ smp \in [on : BOOLEAN, until : Nat]
    /\ sup \in [failed : SUBSET (ToSet(Groups) \cup {"offline"}), unfixed : BOOLEAN, step : 0..Len(Groups) + 3]
    /\ agg \in [failed : BOOLEAN, step : 0..4, wrote : {"none", "PASS", "FAIL", "HOLD"}]
    /\ exit \in {-1, 0, 1, 2}

-----------------------------------------------------------------------------
(* The lists of steps.                                                     *)
Strict(kind) == IF kind = "soak" THEN {"overlay", "dropped", "expire", "forwarded", "probe", "row"} ELSE {"measure"}
Baseline(r)  == \A i \in 1..Len(r) : r[i][1] = (IF i = 1 THEN "drop" ELSE "permit")

Link(kind, active, x, y) ==
    /\ (x.op = "flip") <=> (y.op = "selected")
    /\ x.op = "flip" => y.bank = x.bank
    /\ (x.op = "write") <=> (y.op \in {"readback", "initial"})
    /\ x.op = "write" => y.bank = x.bank
    /\ y.op \in Strict(kind) => x.op \in Strict(kind) \cup {"selected"}
    /\ kind = "performance" /\ x.op = "measure" => y.op = "end"
    /\ kind = "soak" /\ x.op = "selected" => y.op = "flip" \/ (y.op = "overlay" /\ x.bank = 1 - active)
    /\ kind = "soak" /\ x.op \in Strict(kind) \ {"row"} => y.op \in Strict(kind)
    /\ y.op = "cleanup" => x.op = "end"
Fresh(x, y) == x.op = "write" => x.rules = y.rules /\ Baseline(x.rules)
Later(kind, a, b) ==
    /\ a # "turn"
    /\ a = "residual" => b = "drain"
    /\ kind = "soak" /\ a = "measure" => b = "turn"
    /\ kind = "soak" /\ a = "row" => b \in {"metrics", "drain", "turn"}

Linked(kind, active, s) == \A i \in 1..Len(s) - 1 : Link(kind, active, s[i], s[i + 1])
FreshFrom(k, s) == \A i \in k..Len(s) - 1 : Fresh(s[i], s[i + 1])
Ordered(kind, s) == \A i, j \in 1..Len(s) : i < j => Later(kind, s[i].op, s[j].op)
Ending(s) == s # <<>> => s[Len(s)].op \notin {"flip", "write", "measure"}
Has(op, s) == \E i \in 1..Len(s) : s[i].op = op
Ops(s) == {s[i].op : i \in 1..Len(s)}

SetupOps    == {"set", "verify", "infra", "write", "initial", "warmup", "end", "drain", "measure", "turn"}
MeasuredOps == {"delete", "write", "readback", "flip", "selected", "metrics", "drain", "turn", "end", "cleanup"} \cup Strict("soak")
CleanOps    == {"delete", "set", "verify", "residual", "drain", "end", "cleanup"}
PerfOps     == {"set", "verify", "infra", "warmup", "end", "drain", "turn", "write", "readback", "flip", "selected", "measure",
                "delete", "residual1", "row", "residual"}

Failing == rep.err \/ rep.bad

ListInv ==
    /\ Linked(job, view.active, todo) /\ FreshFrom(2, todo) /\ Ordered(job, todo) /\ Ending(todo)
    /\ job = "performance" => Ops(todo) \subseteq PerfOps
    /\ job = "soak" /\ Has("measure", todo) => Ops(todo) \subseteq SetupOps
    /\ job = "soak" /\ traffic = "measured" => Ops(todo) \subseteq MeasuredOps
    /\ job = "soak" /\ traffic = "measured" /\ "end" \in Ops(todo) => Ops(todo) \subseteq {"end", "cleanup"}
    /\ job = "soak" /\ traffic # "measured" /\ ~Has("measure", todo) => Ops(todo) \subseteq CleanOps
    /\ job = "soak" /\ traffic = "measured" =>
         \A i \in 1..Len(todo) : todo[i].op \in {"delete", "write", "readback", "row"} => todo[i].bank = 1 - view.active
RulesInv ==
    /\ At("write") => \/ Fresh(todo[1], todo[2])
                      \/ /\ Rules # <<>> /\ goal.rules[Bank1] \subseteq ToSet(todo[2].rules)
                         /\ \A i \in 1..Len(Rules) : Rules[i][1] = "permit"
    /\ At("readback") \/ At("initial") => goal.rules[Bank1] \subseteq ToSet(Rules)
    /\ \A b \in Bank : \/ goal.rules[b] \subseteq sw.bank[b]
                       \/ (At("write") \/ At("readback") \/ At("initial")) /\ Bank1 = b
SelectInv ==
    /\ At("selected") => goal.bank = Bank1
    /\ job = "performance" /\ At("measure") => sw.sel = goal.bank
    /\ job = "soak" /\ (traffic = "measured" \/ Has("measure", todo)) =>
         \/ sw.sel = goal.bank
         \/ At("selected")
         \/ sw.sel = None /\ rep.rows = 0 /\ (todo # <<>> => Head(todo).op \notin Strict("soak"))
    /\ job = "soak" /\ Has("measure", todo) => view.active = 0 /\ goal.bank = 0 /\ ~torn /\ rep.rows = 0 /\ traffic # "measured"
    /\ job = "soak" /\ traffic = "measured" /\ todo # <<>> /\ Head(todo).op \notin {"flip", "selected"} =>
         goal.bank = IF Head(todo).op \in Strict("soak") THEN 1 - view.active ELSE view.active
    /\ job = "soak" /\ traffic = "measured" => ~At("cleanup")
    /\ job = "performance" /\ traffic = "measured" => At("end")
EndInv ==
    /\ rep.clean => Empty /\ Ops(todo) \subseteq {"drain"} /\ traffic # "measured"
    /\ torn => \/ At("selected") /\ sw.sel # Bank1
               \/ job = "soak" /\ rep.rows = 0 /\ sw.sel = None

Good  == ListInv /\ RulesInv /\ SelectInv /\ EndInv
Whole == job # "idle" /\ ~Failing => Good
Judge == job = "idle" /\ verdict \in {"PASS", "HOLD"} => ~torn /\ Empty /\ ~stream.lost
Where == /\ job = "idle" => todo = <<>>
         /\ job = "performance" => at = "measured"
         /\ job = "soak" => at = "soaked"
         /\ at = "lifecycle" /\ life.n > 0 => sw = Blank
         /\ at = "soak" => sw = Blank
         /\ life.n > 0 => at \in {"lifecycle", "end"}

-----------------------------------------------------------------------------
(* The order of the stages, and the last stage in which the file of a      *)
(* phase may be the one of an earlier run.                                 *)
Rank == [preflight |-> 1, environment |-> 2, unit |-> 3, p4testgen |-> 4, mininet |-> 5, compiler |-> 6, functional |-> 7,
         performance |-> 8, measured |-> 9, crash |-> 10, recovery |-> 11, lifecycle |-> 12, soak |-> 13, soaked |-> 14,
         supply |-> 15, aggregate |-> 16, exit |-> 17, end |-> 18]
Until == [environment |-> 2, unit |-> 3, p4testgen |-> 4, mininet |-> 5, compiler |-> 6, functional |-> 7,
          performance |-> 9, crash |-> 10, recovery |-> 11, lifecycle |-> 12, soak |-> 14]
Checked == {"environment", "unit", "p4testgen", "mininet", "compiler", "functional", "performance", "crash", "recovery",
            "lifecycle", "soak"}

MinInv ==
    /\ file["mininet"] = "PASS" => Rank[at] > Rank["mininet"] /\ ~mn.box /\ ~mn.net
    /\ mn.step > MCleanup => mn.end \in {"PASS", "FAIL"}
AllPass == \A p \in Phases : load_phase(p) = "PASS"
FreshInv ==
    /\ \A p \in Phases : file[p] = "old" => reused
    /\ at # "end" => exit = -1
    /\ at # "end" /\ ~bad => \A p \in Checked : file[p] = "old" => Rank[at] <= Until[p]
    /\ at = "exit" /\ ~bad => agg.wrote = "HOLD" \/ (agg.wrote = "PASS" /\ AllPass)
    /\ exit = 0 => \A p \in Phases : file[p] = "PASS" \/ (p = "supply" /\ reused)

-----------------------------------------------------------------------------
(* The constants.                                                          *)
LEMMA Numbers ==
    /\ Batch \in Nat /\ Batch > 0 /\ Repeats \in Nat /\ Repeats > 0 /\ Initial \in Nat
    /\ PhaseTime \in Nat /\ PhaseTime > 0 /\ SampleTime \in Nat /\ SampleTime > 0
    /\ Interval \in Nat /\ Interval > 0 /\ QueueMax \in Nat /\ QueueMax > 0
    /\ DrainMax \in Nat /\ DrainMax > 0 /\ NFaults \in Nat
    /\ Counts \in Seq(Nat) /\ Len(Counts) \in Nat /\ Len(Counts) > 0
    /\ NCycles \in Nat /\ NCycles > 0 /\ Attempts \in Nat /\ Attempts > 0
<1>1. Counts \in Seq(Nat) /\ Counts # <<>> BY WorkloadAssumption
<1>2. Len(Counts) \in Nat /\ Len(Counts) > 0 BY <1>1, EmptySeq, LenProperties
<1>. QED BY <1>1, <1>2, WorkloadAssumption, QualificationAssumption

LEMMA Quotient ==
    ASSUME NEW a \in Nat, NEW n \in Nat, n > 0
    PROVE  a \div n \in Nat /\ a % n \in 0..n - 1
OBVIOUS

LEMMA Totals == NTurns \in Nat /\ NSamples \in Nat /\ ExpectedCycles \in Nat /\ ExpectedCycles > 0
<1>1. NTurns \in Nat
  <2>1. \A m, n \in Nat : m * n \in Nat OBVIOUS
  <2>. QED BY <2>1, Numbers DEF NTurns
<1>2. NSamples \in Nat
  <2>1. 4 * PhaseTime \in Nat BY Numbers
  <2>. QED BY <2>1, Quotient, Numbers DEF NSamples
<1>3. PhaseTime \div Interval \in Nat BY Quotient, Numbers
<1>4. ExpectedCycles \in Nat /\ ExpectedCycles > 0 BY <1>3 DEF ExpectedCycles
<1>. QED BY <1>1, <1>2, <1>4

LEMMA CountType == \A k \in Nat : Count(k) \in Nat
<1>. TAKE k \in Nat
<1>1. (k % Len(Counts)) + 1 \in 1..Len(Counts)
  <2>. PICK n \in Nat : n = Len(Counts) /\ n > 0 BY Numbers
  <2>1. k % n \in 0..n - 1 BY Quotient
  <2>. QED BY <2>1
<1>. QED BY <1>1, Numbers, ElementOfSeq DEF Count

LEMMA RulesType ==
    ASSUME NEW n \in Nat, NEW g \in Int
    PROVE  LET r == make_baseline_rules(n, g) IN r \in Seq(Entry) /\ Len(r) = n /\ Baseline(r)
<1>. DEFINE r == make_baseline_rules(n, g)
<1>1. \A i \in 1..n : r[i] = IF i = 1 THEN <<"drop", g>> ELSE <<"permit", i>> BY DEF make_baseline_rules, Rule
<1>2. \A i \in 1..n : r[i] \in Entry
  <2>1. <<"drop", g>> \in Entry /\ \A i \in 1..n : <<"permit", i>> \in Entry BY DEF Entry
  <2>. QED BY <1>1, <2>1
<1>3. r \in [1..n -> Entry] BY <1>2 DEF make_baseline_rules
<1>4. r \in Seq(Entry) BY <1>3, SeqDef
<1>5. Len(r) = n BY <1>4, <1>3, LenProperties
<1>6. Baseline(r)
  <2>1. \A i \in 1..n : r[i][1] = (IF i = 1 THEN "drop" ELSE "permit")
    <3>. HIDE DEF r
    <3>. TAKE i \in 1..n
    <3>1. \A e : <<"drop", e>>[1] = "drop" /\ <<"permit", e>>[1] = "permit" OBVIOUS
    <3>2. CASE i = 1
      <4>1. r[i] = <<"drop", g>> BY <3>2, <1>1
      <4>. QED BY <3>1, <3>2, <4>1
    <3>3. CASE i # 1
      <4>1. r[i] = <<"permit", i>> BY <3>3, <1>1
      <4>. QED BY <3>1, <3>3, <4>1
    <3>. QED BY <3>2, <3>3
  <2>. QED BY <1>5, <2>1 DEF Baseline
<1>. QED BY <1>4, <1>5, <1>6

LEMMA CycleType == \A k \in Nat : CycleAt(k) \in Int /\ CycleAt(k) >= -1
<1>. TAKE k \in Nat
<1>1. Offset(k) \in Nat
  <2>1. \A m, n \in Nat : m * n \in Nat OBVIOUS
  <2>. QED BY <2>1, Numbers DEF Offset
<1>2. CASE Offset(k) >= 3 * PhaseTime /\ Offset(k) < 4 * PhaseTime
  <2>1. Offset(k) - 3 * PhaseTime \in Nat BY <1>1, <1>2, Numbers
  <2>2. (Offset(k) - 3 * PhaseTime) \div Interval \in Nat BY <2>1, Quotient, Numbers
  <2>. QED BY <1>2, <2>2 DEF CycleAt
<1>3. CASE ~(Offset(k) >= 3 * PhaseTime /\ Offset(k) < 4 * PhaseTime) BY <1>3 DEF CycleAt
<1>. QED BY <1>2, <1>3

-----------------------------------------------------------------------------
(* Lists: a piece of a program, its first and its last step, its ops, and  *)
(* the banks of the steps that change or check a bank.                     *)
Banked == {"delete", "write", "readback", "row"}
Shape(kind, active, s, first, last, ops, banks) ==
    /\ s \in Seq(WStep) /\ s # <<>> /\ s[1] = first /\ s[Len(s)] = last
    /\ Linked(kind, active, s) /\ FreshFrom(1, s) /\ Ordered(kind, s)
    /\ \A i \in 1..Len(s) : s[i].op \in ops /\ (s[i].op \in Banked => s[i].bank \in banks)

LEMMA Lengths == ASSUME NEW S, NEW s \in Seq(S), s # <<>> PROVE Len(s) \in Nat /\ Len(s) >= 1
BY EmptySeq, LenProperties

LEMMA Shape1 ==
    ASSUME NEW kind, NEW active, NEW x \in WStep, NEW ops, NEW banks, x.op \in ops, x.op \in Banked => x.bank \in banks
    PROVE  Shape(kind, active, <<x>>, x, x, ops, banks)
BY DEF Shape, Linked, FreshFrom, Ordered

LEMMA Shape2 ==
    ASSUME NEW kind, NEW active, NEW x \in WStep, NEW y \in WStep, NEW ops, NEW banks, x.op \in ops, y.op \in ops,
           x.op \in Banked => x.bank \in banks, y.op \in Banked => y.bank \in banks,
           Link(kind, active, x, y), Fresh(x, y), Later(kind, x.op, y.op)
    PROVE  Shape(kind, active, <<x, y>>, x, y, ops, banks)
<1>. DEFINE s == <<x, y>>
<1>1. s \in Seq(WStep) /\ Len(s) = 2 /\ s[1] = x /\ s[2] = y /\ s # <<>> OBVIOUS
<1>. HIDE DEF s
<1>2. Linked(kind, active, s) /\ FreshFrom(1, s) BY <1>1 DEF Linked, FreshFrom
<1>3. Ordered(kind, s) BY <1>1 DEF Ordered
<1>4. \A i \in 1..2 : i = 1 \/ i = 2 OBVIOUS
<1>. QED BY <1>1, <1>2, <1>3, <1>4 DEF Shape, s

LEMMA Glue ==
    ASSUME NEW kind, NEW active, NEW s, NEW t, NEW f, NEW l, NEW g, NEW m, NEW os, NEW ot, NEW banks, NEW ops,
           Shape(kind, active, s, f, l, os, banks), Shape(kind, active, t, g, m, ot, banks),
           Link(kind, active, l, g), Fresh(l, g), \A a \in os, b \in ot : Later(kind, a, b),
           os \subseteq ops, ot \subseteq ops
    PROVE  Shape(kind, active, s \o t, f, m, ops, banks)
<1>. DEFINE u == s \o t
<1>1. PICK p \in Nat, q \in Nat : p = Len(s) /\ q = Len(t) /\ p >= 1 /\ q >= 1
  BY Lengths DEF Shape
<1>2. /\ s \in Seq(WStep) /\ t \in Seq(WStep) /\ s[1] = f /\ s[p] = l /\ t[1] = g /\ t[q] = m
      /\ \A i \in 1..p - 1 : Link(kind, active, s[i], s[i + 1]) /\ Fresh(s[i], s[i + 1])
      /\ \A i \in 1..q - 1 : Link(kind, active, t[i], t[i + 1]) /\ Fresh(t[i], t[i + 1])
      /\ \A i, j \in 1..p : i < j => Later(kind, s[i].op, s[j].op)
      /\ \A i, j \in 1..q : i < j => Later(kind, t[i].op, t[j].op)
      /\ \A i \in 1..p : s[i].op \in os /\ (s[i].op \in Banked => s[i].bank \in banks)
      /\ \A i \in 1..q : t[i].op \in ot /\ (t[i].op \in Banked => t[i].bank \in banks)
  BY <1>1 DEF Shape, Linked, FreshFrom, Ordered
<1>3. /\ u \in Seq(WStep) /\ Len(u) = p + q
      /\ \A i \in 1..p + q : u[i] = IF i <= p THEN s[i] ELSE t[i - p]
  <2>1. /\ u \in Seq(WStep) /\ Len(u) = Len(s) + Len(t)
        /\ \A i \in 1..Len(s) + Len(t) : u[i] = IF i <= Len(s) THEN s[i] ELSE t[i - Len(s)]
    BY <1>2, ConcatProperties
  <2>. HIDE DEF u
  <2>. QED BY <1>1, <2>1
<1>. HIDE DEF u
<1>4. u # <<>> BY <1>1, <1>3, EmptySeq
<1>5. u[1] = f /\ u[p + q] = m
  <2>1. 1 \in 1..p + q /\ p + q \in 1..p + q /\ 1 <= p /\ ~(p + q <= p) /\ p + q - p = q BY <1>1
  <2>. QED BY <2>1, <1>2, <1>3
<1>6. \A i \in 1..p : i \in 1..p + q /\ u[i] = s[i] BY <1>1, <1>3
<1>7. \A i \in 1..p + q : i \notin 1..p => i - p \in 1..q /\ u[i] = t[i - p] BY <1>1, <1>3
<1>8. ASSUME NEW i \in 1..(p + q) - 1 PROVE Link(kind, active, u[i], u[i + 1]) /\ Fresh(u[i], u[i + 1])
  <2>1. CASE i < p
    <3>1. i \in 1..p - 1 /\ i \in 1..p /\ i + 1 \in 1..p BY <2>1, <1>1
    <3>. QED BY <3>1, <1>2, <1>6
  <2>2. CASE i = p
    <3>1. i \in 1..p /\ i + 1 \in 1..p + q /\ i + 1 \notin 1..p /\ i + 1 - p = 1 BY <2>2, <1>1
    <3>2. u[i] = l /\ u[i + 1] = g BY <3>1, <1>2, <1>6, <1>7, <2>2
    <3>. QED BY <3>2
  <2>3. CASE i > p
    <3>1. i - p \in 1..q - 1 /\ i \in 1..p + q /\ i \notin 1..p /\ i + 1 \in 1..p + q /\ i + 1 \notin 1..p
          /\ (i + 1) - p = (i - p) + 1 BY <2>3, <1>1
    <3>2. u[i] = t[i - p] /\ u[i + 1] = t[(i - p) + 1] BY <3>1, <1>7
    <3>. QED BY <3>1, <3>2, <1>2
  <2>. QED BY <2>1, <2>2, <2>3, <1>1
<1>9. \A i \in 1..p + q : u[i].op \in ops /\ (u[i].op \in Banked => u[i].bank \in banks)
  <2>. TAKE i \in 1..p + q
  <2>1. CASE i \in 1..p BY <2>1, <1>2, <1>6
  <2>2. CASE i \notin 1..p BY <2>2, <1>2, <1>7
  <2>. QED BY <2>1, <2>2
<1>10. ASSUME NEW i \in 1..p + q, NEW j \in 1..p + q, i < j PROVE Later(kind, u[i].op, u[j].op)
  <2>1. CASE i \in 1..p /\ j \in 1..p BY <2>1, <1>10, <1>2, <1>6
  <2>2. CASE i \in 1..p /\ j \notin 1..p BY <2>2, <1>2, <1>6, <1>7
  <2>3. CASE i \notin 1..p /\ j \notin 1..p
    <3>1. i - p < j - p BY <1>10, <1>1
    <3>. QED BY <2>3, <3>1, <1>2, <1>7
  <2>4. ~(i \notin 1..p /\ j \in 1..p) BY <1>10, <1>1
  <2>. QED BY <2>1, <2>2, <2>3, <2>4
<1>11. Linked(kind, active, u) /\ FreshFrom(1, u) BY <1>3, <1>8, <1>1 DEF Linked, FreshFrom
<1>12. Ordered(kind, u) BY <1>3, <1>10 DEF Ordered
<1>. QED BY <1>3, <1>4, <1>5, <1>9, <1>11, <1>12 DEF Shape, u

LEMMA Three ==
    ASSUME NEW x, NEW y, NEW z
    PROVE  <<x, y>> \o <<z>> = <<x, y, z>>
<1>. DEFINE S == {x, y, z}
<1>1. <<x, y>> \in Seq(S) /\ <<z>> \in Seq(S) /\ <<x, y, z>> \in Seq(S) OBVIOUS
<1>2. \A i \in 1..3 : i = 1 \/ i = 2 \/ i = 3 OBVIOUS
<1>3. /\ Len(<<x, y>> \o <<z>>) = 3 /\ (<<x, y>> \o <<z>>)[1] = x /\ (<<x, y>> \o <<z>>)[2] = y
      /\ (<<x, y>> \o <<z>>)[3] = z BY <1>1
<1>4. Len(<<x, y, z>>) = 3 /\ <<x, y, z>>[1] = x /\ <<x, y, z>>[2] = y /\ <<x, y, z>>[3] = z OBVIOUS
<1>5. <<x, y>> \o <<z>> \in Seq(S) BY <1>1
<1>. QED BY <1>1, <1>2, <1>3, <1>4, <1>5, SeqEqual

LEMMA Four ==
    ASSUME NEW x, NEW y, NEW z, NEW w
    PROVE  <<x, y, z>> \o <<w>> = <<x, y, z, w>>
<1>. DEFINE S == {x, y, z, w}
<1>1. <<x, y, z>> \in Seq(S) /\ <<w>> \in Seq(S) /\ <<x, y, z, w>> \in Seq(S) OBVIOUS
<1>2. \A i \in 1..4 : i = 1 \/ i = 2 \/ i = 3 \/ i = 4 OBVIOUS
<1>3. /\ Len(<<x, y, z>> \o <<w>>) = 4 /\ (<<x, y, z>> \o <<w>>)[1] = x /\ (<<x, y, z>> \o <<w>>)[2] = y
      /\ (<<x, y, z>> \o <<w>>)[3] = z /\ (<<x, y, z>> \o <<w>>)[4] = w BY <1>1
<1>4. Len(<<x, y, z, w>>) = 4 /\ <<x, y, z, w>>[1] = x /\ <<x, y, z, w>>[2] = y /\ <<x, y, z, w>>[3] = z
      /\ <<x, y, z, w>>[4] = w OBVIOUS
<1>5. <<x, y, z>> \o <<w>> \in Seq(S) BY <1>1
<1>. QED BY <1>1, <1>2, <1>3, <1>4, <1>5, SeqEqual

LEMMA Shape3 ==
    ASSUME NEW kind, NEW active, NEW x \in WStep, NEW y \in WStep, NEW z \in WStep, NEW ops, NEW banks,
           x.op \in ops, y.op \in ops, z.op \in ops, {x.op, y.op, z.op} \cap Banked = {},
           Link(kind, active, x, y), Link(kind, active, y, z),
           Later(kind, x.op, y.op), Later(kind, x.op, z.op), Later(kind, y.op, z.op)
    PROVE  Shape(kind, active, <<x, y, z>>, x, z, ops, banks)
<1>1. Fresh(x, y) /\ Fresh(y, z) BY DEF Fresh, Banked
<1>2. Shape(kind, active, <<x, y>>, x, y, {x.op, y.op}, banks) BY <1>1, Shape2
<1>3. Shape(kind, active, <<z>>, z, z, {z.op}, banks) BY Shape1
<1>4. <<x, y>> \o <<z>> = <<x, y, z>> BY Three
<1>5. Shape(kind, active, <<x, y>> \o <<z>>, x, z, ops, banks) BY <1>1, <1>2, <1>3, Glue
<1>. QED BY <1>4, <1>5

LEMMA StepType ==
    /\ \A o \in OpNames, b \in Bank, r \in Seq(Entry) : Step(o, b, r) \in WStep
    /\ \A o, b, r : Step(o, b, r).op = o /\ Step(o, b, r).bank = b /\ Step(o, b, r).rules = r
BY DEF Step, WStep
LEMMA OpType ==
    /\ \A o \in OpNames : Op(o) \in WStep
    /\ \A o : Op(o).op = o /\ Op(o).bank = 0 /\ Op(o).rules = <<>>
<1>1. <<>> \in Seq(Entry) /\ 0 \in Bank BY DEF Bank
<1>2. \A o \in OpNames : Op(o) \in WStep BY <1>1, StepType DEF Op
<1>3. \A o : Op(o).op = o /\ Op(o).bank = 0 /\ Op(o).rules = <<>> BY StepType DEF Op
<1>. QED BY <1>2, <1>3

LEMMA PrepareShape ==
    ASSUME NEW kind \in {"performance", "soak"}, NEW active, NEW banks
    PROVE  Shape(kind, active, Prepare, Op("set"), Op("infra"), {"set", "verify", "infra"}, banks)
<1>1. /\ Link(kind, active, Op("set"), Op("verify")) /\ Link(kind, active, Op("verify"), Op("infra"))
  BY OpType DEF Link, Strict
<1>2. Later(kind, "set", "verify") /\ Later(kind, "set", "infra") /\ Later(kind, "verify", "infra") BY DEF Later
<1>. QED BY <1>1, <1>2, OpType, Shape3 DEF OpNames, Prepare, Banked

LEMMA WarmupShape ==
    ASSUME NEW kind \in {"performance", "soak"}, NEW active, NEW banks
    PROVE  Shape(kind, active, Warmup, Op("warmup"), Op("drain"), {"warmup", "end", "drain"}, banks)
<1>1. /\ Link(kind, active, Op("warmup"), Op("end")) /\ Link(kind, active, Op("end"), Op("drain"))
  BY OpType DEF Link, Strict
<1>2. Later(kind, "warmup", "end") /\ Later(kind, "warmup", "drain") /\ Later(kind, "end", "drain") BY DEF Later
<1>. QED BY <1>1, <1>2, OpType, Shape3 DEF OpNames, Warmup, Banked

LEMMA TeardownShape ==
    ASSUME NEW kind \in {"performance", "soak"}, NEW active, NEW banks
    PROVE  Shape(kind, active, Teardown, Op("set"), Op("residual"), {"set", "verify", "residual"}, banks)
<1>1. /\ Link(kind, active, Op("set"), Op("verify")) /\ Link(kind, active, Op("verify"), Op("residual"))
  BY OpType DEF Link, Strict
<1>2. Later(kind, "set", "verify") /\ Later(kind, "set", "residual") /\ Later(kind, "verify", "residual") BY DEF Later
<1>. QED BY <1>1, <1>2, OpType, Shape3 DEF OpNames, Teardown, Banked

LEMMA PerformanceSetupShape ==
    ASSUME NEW active
    PROVE  Shape("performance", active, PerformanceSetup, Op("set"), Op("turn"),
                 {"set", "verify", "infra", "warmup", "end", "drain", "turn"}, Bank)
<1>. DEFINE k == "performance"
<1>1. Shape(k, active, Prepare \o Warmup, Op("set"), Op("drain"), {"set", "verify", "infra", "warmup", "end", "drain"}, Bank)
  <2>1. Link(k, active, Op("infra"), Op("warmup")) /\ Fresh(Op("infra"), Op("warmup"))
    BY OpType DEF Link, Strict, Fresh
  <2>2. \A a \in {"set", "verify", "infra"}, b \in {"warmup", "end", "drain"} : Later(k, a, b) BY DEF Later
  <2>3. Shape(k, active, Prepare, Op("set"), Op("infra"), {"set", "verify", "infra"}, Bank) BY PrepareShape
  <2>4. Shape(k, active, Warmup, Op("warmup"), Op("drain"), {"warmup", "end", "drain"}, Bank) BY WarmupShape
  <2>. QED BY <2>1, <2>2, <2>3, <2>4, Glue
<1>2. Shape(k, active, <<Op("turn")>>, Op("turn"), Op("turn"), {"turn"}, Bank) BY OpType, Shape1 DEF OpNames, Banked
<1>3. Link(k, active, Op("drain"), Op("turn")) /\ Fresh(Op("drain"), Op("turn")) BY OpType DEF Link, Strict, Fresh
<1>4. \A a \in {"set", "verify", "infra", "warmup", "end", "drain"}, b \in {"turn"} : Later(k, a, b) BY DEF Later
<1>. QED BY <1>1, <1>2, <1>3, <1>4, Glue DEF PerformanceSetup

LEMMA Wider ==
    ASSUME NEW kind, NEW active, NEW s, NEW f, NEW l, NEW os, NEW ops, NEW banks,
           Shape(kind, active, s, f, l, os, banks), os \subseteq ops
    PROVE  Shape(kind, active, s, f, l, ops, banks)
BY DEF Shape

LEMMA FlipShape ==
    ASSUME NEW kind \in {"performance", "soak"}, NEW active, NEW b \in Bank, NEW banks
    PROVE  Shape(kind, active, Flip(b), Step("flip", b, <<>>), Step("selected", b, <<>>), {"flip", "selected"}, banks)
<1>. DEFINE x == Step("flip", b, <<>>)
            y == Step("selected", b, <<>>)
<1>1. x \in WStep /\ y \in WStep /\ x.op = "flip" /\ y.op = "selected" /\ x.bank = b /\ y.bank = b
  <2>1. <<>> \in Seq(Entry) OBVIOUS
  <2>2. x \in WStep BY <2>1, StepType DEF OpNames
  <2>3. y \in WStep BY <2>1, StepType DEF OpNames
  <2>4. x.op = "flip" /\ y.op = "selected" /\ x.bank = b /\ y.bank = b BY StepType
  <2>. QED BY <2>2, <2>3, <2>4
<1>. HIDE DEF x, y
<1>2. Link(kind, active, x, y) /\ Fresh(x, y) BY <1>1 DEF Link, Strict, Fresh
<1>3. Later(kind, x.op, y.op) BY <1>1 DEF Later
<1>4. Shape(kind, active, <<x, y>>, x, y, {"flip", "selected"}, banks)
  BY <1>1, <1>2, <1>3, Shape2 DEF Banked
<1>. QED BY <1>4 DEF Flip, x, y

LEMMA WriteShape ==
    ASSUME NEW kind \in {"performance", "soak"}, NEW active, NEW b \in Bank, NEW banks, b \in banks,
           NEW r \in Seq(Entry), Baseline(r), NEW o \in {"readback", "initial"}
    PROVE  Shape(kind, active, <<Step("write", b, r), Step(o, b, r)>>, Step("write", b, r), Step(o, b, r), {"write", o}, banks)
<1>. DEFINE x == Step("write", b, r)
            y == Step(o, b, r)
<1>1. x \in WStep /\ y \in WStep /\ x.op = "write" /\ y.op = o /\ x.bank = b /\ y.bank = b /\ x.rules = r /\ y.rules = r
  BY StepType DEF OpNames
<1>. HIDE DEF x, y
<1>2. Link(kind, active, x, y) /\ Fresh(x, y) BY <1>1 DEF Link, Strict, Fresh
<1>3. Later(kind, x.op, y.op) BY <1>1 DEF Later
<1>4. Shape(kind, active, <<x, y>>, x, y, {"write", o}, banks)
  BY <1>1, <1>2, <1>3, Shape2
<1>. QED BY <1>4 DEF x, y

LEMMA DeleteAppended ==
    ASSUME NEW kind \in {"performance", "soak"}, NEW active, NEW b \in Bank, NEW banks, b \in banks, NEW r \in Seq(Entry),
           NEW s, NEW f, NEW l, NEW os, NEW ops, Shape(kind, active, s, f, l, os, banks),
           Link(kind, active, l, Step("delete", b, r)), l.op # "write", \A a \in os : Later(kind, a, "delete"),
           os \cup {"delete"} \subseteq ops
    PROVE  \E z \in {l, Step("delete", b, r)} : Shape(kind, active, s \o Delete(b, r), f, z, ops, banks)
<1>. DEFINE x == Step("delete", b, r)
<1>1. x \in WStep /\ x.op = "delete" /\ x.bank = b BY StepType DEF OpNames
<1>2. CASE r = <<>>
  <2>1. s \o Delete(b, r) = s BY <1>2 DEF Delete, Shape
  <2>2. Shape(kind, active, s, f, l, ops, banks) BY Wider
  <2>. QED BY <2>1, <2>2
<1>3. CASE r # <<>>
  <2>. HIDE DEF x
  <2>1. Shape(kind, active, <<x>>, x, x, {"delete"}, banks) BY <1>1, Shape1
  <2>2. Fresh(l, x) BY DEF Fresh
  <2>3. Link(kind, active, l, x) BY DEF x
  <2>4. Shape(kind, active, s \o <<x>>, f, x, ops, banks) BY <2>1, <2>2, <2>3, Glue
  <2>. QED BY <2>4, <1>3 DEF Delete, x
<1>. QED BY <1>2, <1>3

LEMMA PerformanceTurnShape ==
    ASSUME NEW active, NEW k \in Nat \ {0}
    PROVE  Shape("performance", active, PerformanceTurn(k), Op("set"), Op("turn"), PerfOps, Bank)
<1>. DEFINE p == "performance"
            n == Count((k - 1) \div Repeats)
            r == make_baseline_rules(n, k)
            ops == PerfOps \ {"residual", "turn"}
<1>1. r \in Seq(Entry) /\ Baseline(r)
  <2>1. (k - 1) \div Repeats \in Nat BY Quotient, Numbers
  <2>2. n \in Nat BY <2>1, CountType
  <2>. HIDE DEF n
  <2>. QED BY <2>2, RulesType
<1>2. \A a \in ops : \A b : Later(p, a, b) BY DEF Later, PerfOps
<1>3. 0 \in Bank /\ 1 \in Bank BY DEF Bank
<1>. HIDE DEF r
<1>4. Shape(p, active, Prepare, Op("set"), Op("infra"), ops, Bank) BY PrepareShape, Wider DEF PerfOps
<1>5. Shape(p, active, <<Step("write", 1, r), Step("readback", 1, r)>>, Step("write", 1, r), Step("readback", 1, r), ops, Bank)
  BY <1>1, <1>3, WriteShape, Wider DEF PerfOps
<1>6. /\ Shape(p, active, Flip(1), Step("flip", 1, <<>>), Step("selected", 1, <<>>), ops, Bank)
      /\ Shape(p, active, Flip(0), Step("flip", 0, <<>>), Step("selected", 0, <<>>), ops, Bank)
  BY <1>3, FlipShape, Wider DEF PerfOps
<1>7. Shape(p, active, <<Op("measure"), Op("end"), Op("drain")>>, Op("measure"), Op("drain"), ops, Bank)
  <2>1. Link(p, active, Op("measure"), Op("end")) /\ Link(p, active, Op("end"), Op("drain"))
    BY OpType DEF Link, Strict
  <2>. QED BY <2>1, <1>2, OpType, Shape3 DEF OpNames, PerfOps, Banked
<1>8. Shape(p, active, <<Op("residual1"), Op("row"), Op("turn")>>, Op("residual1"), Op("turn"), PerfOps, Bank)
  <2>1. Link(p, active, Op("residual1"), Op("row")) /\ Link(p, active, Op("row"), Op("turn"))
    BY OpType DEF Link, Strict
  <2>2. Shape(p, active, <<Op("residual1"), Op("row")>>, Op("residual1"), Op("row"), ops, Bank)
    BY <2>1, <1>2, <1>3, OpType, Shape2 DEF OpNames, PerfOps, Fresh
  <2>3. Shape(p, active, <<Op("turn")>>, Op("turn"), Op("turn"), {"turn"}, Bank) BY OpType, Shape1 DEF OpNames, Banked
  <2>4. Fresh(Op("row"), Op("turn")) BY OpType DEF Fresh
  <2>5. Shape(p, active, <<Op("residual1"), Op("row")>> \o <<Op("turn")>>, Op("residual1"), Op("turn"), PerfOps, Bank)
    <3>1. ops \subseteq PerfOps /\ {"turn"} \subseteq PerfOps BY DEF PerfOps
    <3>. QED BY <2>1, <2>2, <2>3, <2>4, <3>1, <1>2, Glue
  <2>. QED BY <2>5, Three
<1>9. /\ Link(p, active, Op("infra"), Step("write", 1, r)) /\ Fresh(Op("infra"), Step("write", 1, r))
      /\ Link(p, active, Step("readback", 1, r), Step("flip", 1, <<>>)) /\ Fresh(Step("readback", 1, r), Step("flip", 1, <<>>))
      /\ Link(p, active, Step("selected", 1, <<>>), Op("measure")) /\ Fresh(Step("selected", 1, <<>>), Op("measure"))
      /\ Link(p, active, Op("drain"), Step("flip", 0, <<>>)) /\ Fresh(Op("drain"), Step("flip", 0, <<>>))
      /\ Link(p, active, Step("selected", 0, <<>>), Step("delete", 1, r)) /\ Step("selected", 0, <<>>).op # "write"
  BY OpType, StepType DEF Link, Strict, Fresh
<1>10. \A z \in {Step("selected", 0, <<>>), Step("delete", 1, r)} : Link(p, active, z, Op("residual1")) /\ Fresh(z, Op("residual1"))
  BY OpType, StepType DEF Link, Strict, Fresh
<1>. HIDE DEF ops, p
<1>. DEFINE s1 == Prepare \o <<Step("write", 1, r), Step("readback", 1, r)>>
            s2 == s1 \o Flip(1)
            s3 == s2 \o <<Op("measure"), Op("end"), Op("drain")>>
            s4 == s3 \o Flip(0)
            s5 == s4 \o Delete(1, r)
<1>11. Shape(p, active, s1, Op("set"), Step("readback", 1, r), ops, Bank) BY <1>2, <1>4, <1>5, <1>9, Glue
<1>. HIDE DEF s1
<1>12. Shape(p, active, s2, Op("set"), Step("selected", 1, <<>>), ops, Bank) BY <1>2, <1>6, <1>9, <1>11, Glue
<1>. HIDE DEF s2
<1>13. Shape(p, active, s3, Op("set"), Op("drain"), ops, Bank) BY <1>2, <1>7, <1>9, <1>12, Glue
<1>. HIDE DEF s3
<1>14. Shape(p, active, s4, Op("set"), Step("selected", 0, <<>>), ops, Bank) BY <1>2, <1>6, <1>9, <1>13, Glue
<1>. HIDE DEF s4
<1>15. PICK z \in {Step("selected", 0, <<>>), Step("delete", 1, r)} : Shape(p, active, s5, Op("set"), z, ops, Bank)
  <2>1. ops \cup {"delete"} \subseteq ops BY DEF ops, PerfOps
  <2>2. p \in {"performance", "soak"} BY DEF p
  <2>. QED BY <1>1, <1>2, <1>3, <1>9, <1>14, <2>1, <2>2, DeleteAppended
<1>. HIDE DEF s5
<1>16. Shape(p, active, s5 \o <<Op("residual1"), Op("row"), Op("turn")>>, Op("set"), Op("turn"), PerfOps, Bank)
  <2>1. ops \subseteq PerfOps BY DEF ops
  <2>. QED BY <1>2, <1>8, <1>10, <1>15, <2>1, Glue
<1>. QED BY <1>16 DEF PerformanceTurn, s1, s2, s3, s4, s5, r, p, ops

LEMMA SoakSetupShape ==
    Shape("soak", 0, SoakSetup, Op("set"), Op("turn"), SetupOps, Bank)
<1>. DEFINE p == "soak"
            r == make_baseline_rules(Initial, 1)
            ops == SetupOps \ {"measure", "turn"}
<1>1. r \in Seq(Entry) /\ Baseline(r)
  <2>1. Initial \in Nat /\ 1 \in Int BY Numbers
  <2>. QED BY <2>1, RulesType
<1>2. \A a \in ops : \A b : Later(p, a, b) BY DEF Later, SetupOps
<1>3. 0 \in Bank BY DEF Bank
<1>. HIDE DEF r
<1>4. Shape(p, 0, Prepare, Op("set"), Op("infra"), ops, Bank) BY PrepareShape, Wider DEF SetupOps
<1>5. Shape(p, 0, <<Step("write", 0, r), Step("initial", 0, r)>>, Step("write", 0, r), Step("initial", 0, r), ops, Bank)
  BY <1>1, <1>3, WriteShape, Wider DEF SetupOps
<1>6. Shape(p, 0, Warmup, Op("warmup"), Op("drain"), ops, Bank) BY WarmupShape, Wider DEF SetupOps
<1>7. Shape(p, 0, <<Op("measure"), Op("turn")>>, Op("measure"), Op("turn"), {"measure", "turn"}, Bank)
  <2>1. Link(p, 0, Op("measure"), Op("turn")) /\ Fresh(Op("measure"), Op("turn")) BY OpType DEF Link, Strict, Fresh
  <2>2. Later(p, "measure", "turn") BY DEF Later
  <2>. QED BY <2>1, <2>2, OpType, Shape2 DEF OpNames, Banked
<1>8. /\ Link(p, 0, Op("infra"), Step("write", 0, r)) /\ Fresh(Op("infra"), Step("write", 0, r))
      /\ Link(p, 0, Step("initial", 0, r), Op("warmup")) /\ Fresh(Step("initial", 0, r), Op("warmup"))
      /\ Link(p, 0, Op("drain"), Op("measure")) /\ Fresh(Op("drain"), Op("measure"))
  BY OpType, StepType DEF Link, Strict, Fresh
<1>9. ops \subseteq SetupOps /\ {"measure", "turn"} \subseteq SetupOps BY DEF SetupOps
<1>. HIDE DEF ops, p
<1>. DEFINE s1 == Prepare \o <<Step("write", 0, r), Step("initial", 0, r)>>
            s2 == s1 \o Warmup
<1>10. Shape(p, 0, s1, Op("set"), Step("initial", 0, r), ops, Bank) BY <1>2, <1>4, <1>5, <1>8, Glue
<1>. HIDE DEF s1
<1>11. Shape(p, 0, s2, Op("set"), Op("drain"), ops, Bank) BY <1>2, <1>6, <1>8, <1>10, Glue
<1>. HIDE DEF s2
<1>12. Shape(p, 0, s2 \o <<Op("measure"), Op("turn")>>, Op("set"), Op("turn"), SetupOps, Bank)
  BY <1>2, <1>7, <1>8, <1>9, <1>11, Glue
<1>. QED BY <1>12 DEF SoakSetup, s1, s2, r, p

CalmOps == {"metrics", "drain", "turn"}
ActOps  == {"delete", "write", "readback", "flip", "selected", "overlay", "dropped", "expire", "forwarded", "probe"}

LEMMA CalmShape ==
    ASSUME NEW active, NEW banks
    PROVE  Shape("soak", active, <<Op("metrics"), Op("drain"), Op("turn")>>, Op("metrics"), Op("turn"), CalmOps, banks)
<1>1. Link("soak", active, Op("metrics"), Op("drain")) /\ Link("soak", active, Op("drain"), Op("turn"))
  BY OpType DEF Link, Strict
<1>2. Later("soak", "metrics", "drain") /\ Later("soak", "metrics", "turn") /\ Later("soak", "drain", "turn") BY DEF Later
<1>. QED BY <1>1, <1>2, OpType, Shape3 DEF OpNames, Banked, CalmOps

LEMMA OverlayShape ==
    ASSUME NEW active, NEW banks
    PROVE  Shape("soak", active, <<Op("overlay"), Op("dropped"), Op("expire"), Op("forwarded")>>, Op("overlay"), Op("forwarded"),
                 ActOps, banks)
<1>1. /\ Link("soak", active, Op("overlay"), Op("dropped")) /\ Link("soak", active, Op("dropped"), Op("expire"))
      /\ Link("soak", active, Op("expire"), Op("forwarded")) /\ Fresh(Op("expire"), Op("forwarded"))
  BY OpType DEF Link, Strict, Fresh
<1>2. \A a \in ActOps : \A b : Later("soak", a, b) BY DEF Later, ActOps
<1>3. Shape("soak", active, <<Op("overlay"), Op("dropped"), Op("expire")>>, Op("overlay"), Op("expire"), ActOps, banks)
  BY <1>1, <1>2, OpType, Shape3 DEF OpNames, Banked, ActOps
<1>4. Shape("soak", active, <<Op("forwarded")>>, Op("forwarded"), Op("forwarded"), ActOps, banks)
  BY OpType, Shape1 DEF OpNames, Banked, ActOps
<1>5. Shape("soak", active, <<Op("overlay"), Op("dropped"), Op("expire")>> \o <<Op("forwarded")>>, Op("overlay"), Op("forwarded"),
            ActOps, banks)
  BY <1>1, <1>2, <1>3, <1>4, Glue
<1>. QED BY <1>5, Four

LEMMA ActivationShape ==
    ASSUME view \in Local, NEW c \in Nat
    PROVE  \E f \in WStep, l \in WStep :
             /\ f.op \in {"delete", "write"} /\ l.op = "row"
             /\ Shape("soak", view.active, Activation(c), f, l, ActOps \cup {"row"}, {1 - view.active})
<1>. DEFINE p == "soak"
            v == view.active
            t == 1 - v
            r == make_baseline_rules(Count(c), 100 + c)
            d == view.rules[t]
            B == {t}
            W == <<Step("write", t, r), Step("readback", t, r)>>
<1>1. r \in Seq(Entry) /\ Baseline(r)
  <2>. DEFINE n == Count(c)
              g == 100 + c
  <2>1. n \in Nat BY CountType
  <2>2. g \in Int OBVIOUS
  <2>3. r = make_baseline_rules(n, g) OBVIOUS
  <2>. HIDE DEF n, g, r
  <2>. QED BY <2>1, <2>2, <2>3, RulesType
<1>2. v \in Bank /\ t \in Bank /\ 1 - t = v /\ d \in Seq(Entry) BY DEF Local, Bank
<1>3. \A a \in ActOps : \A b : Later(p, a, b) BY DEF Later, ActOps
<1>4. {"row"} \subseteq ActOps \cup {"row"} /\ ActOps \subseteq ActOps \cup {"row"} OBVIOUS
<1>5. Activation(c) = Delete(t, d) \o W \o Flip(t) \o Flip(1 - t) \o Flip(t)
                      \o <<Op("overlay"), Op("dropped"), Op("expire"), Op("forwarded")>>
                      \o (IF r = <<>> THEN <<>> ELSE <<Step("probe", t, r)>>) \o <<Step("row", t, r)>>
  BY DEF Activation
<1>. HIDE DEF r, d, v, t
<1>6. Shape(p, v, W, Step("write", t, r), Step("readback", t, r), ActOps, B)
  BY <1>1, <1>2, WriteShape, Wider DEF ActOps
<1>7. PICK f \in WStep : /\ f.op \in {"delete", "write"}
                         /\ Shape(p, v, Delete(t, d) \o W, f, Step("readback", t, r), ActOps, B)
  <2>. DEFINE x == Step("delete", t, d)
  <2>1. x \in WStep /\ x.op = "delete" /\ x.bank = t /\ Step("write", t, r) \in WStep /\ Step("write", t, r).op = "write"
    BY <1>1, <1>2, StepType DEF OpNames
  <2>2. CASE d = <<>>
    <3>1. <<>> \o W = W BY <1>6 DEF Shape
    <3>2. Delete(t, d) \o W = W BY <2>2, <3>1 DEF Delete
    <3>. QED BY <3>2, <2>1, <1>6
  <2>3. CASE d # <<>>
    <3>1. Link(p, v, x, Step("write", t, r)) /\ Fresh(x, Step("write", t, r)) BY StepType DEF Link, Strict, Fresh
    <3>. HIDE DEF x, W
    <3>2. Shape(p, v, <<x>>, x, x, {"delete"}, B) BY <2>1, Shape1
    <3>3. Shape(p, v, <<x>>, x, x, ActOps, B) BY <3>2, Wider DEF ActOps
    <3>4. Shape(p, v, <<x>> \o W, x, Step("readback", t, r), ActOps, B) BY <3>1, <3>3, <1>3, <1>6, Glue
    <3>. QED BY <2>1, <2>3, <3>4 DEF Delete, x
  <2>. QED BY <2>2, <2>3
<1>. HIDE DEF W
<1>8. \A b \in Bank : Shape(p, v, Flip(b), Step("flip", b, <<>>), Step("selected", b, <<>>), ActOps, B)
  BY FlipShape, Wider DEF ActOps
<1>9. Shape(p, v, <<Op("overlay"), Op("dropped"), Op("expire"), Op("forwarded")>>, Op("overlay"), Op("forwarded"), ActOps, B)
  BY OverlayShape
<1>10. /\ Link(p, v, Step("readback", t, r), Step("flip", t, <<>>)) /\ Fresh(Step("readback", t, r), Step("flip", t, <<>>))
       /\ \A b, e : /\ Link(p, v, Step("selected", b, <<>>), Step("flip", e, <<>>))
                    /\ Fresh(Step("selected", b, <<>>), Step("flip", e, <<>>))
       /\ Link(p, v, Step("selected", t, <<>>), Op("overlay")) /\ Fresh(Step("selected", t, <<>>), Op("overlay"))
       /\ Link(p, v, Op("forwarded"), Step("probe", t, r)) /\ Fresh(Op("forwarded"), Step("probe", t, r))
       /\ \A z \in {Op("forwarded"), Step("probe", t, r)} : /\ Link(p, v, z, Step("row", t, r))
                                                            /\ Fresh(z, Step("row", t, r))
  BY OpType, StepType DEF Link, Strict, Fresh, t
<1>11. /\ Shape(p, v, <<Step("probe", t, r)>>, Step("probe", t, r), Step("probe", t, r), ActOps, B)
       /\ Shape(p, v, <<Step("row", t, r)>>, Step("row", t, r), Step("row", t, r), {"row"}, B)
       /\ Step("row", t, r) \in WStep /\ Step("row", t, r).op = "row"
  <2>1. Step("probe", t, r) \in WStep /\ Step("row", t, r) \in WStep BY <1>1, <1>2, StepType DEF OpNames
  <2>2. /\ Step("probe", t, r).op = "probe"
        /\ Step("row", t, r).op = "row" /\ Step("row", t, r).bank = t BY StepType
  <2>3. Shape(p, v, <<Step("probe", t, r)>>, Step("probe", t, r), Step("probe", t, r), ActOps, B)
    BY <2>1, <2>2, Shape1 DEF Banked, ActOps
  <2>4. Shape(p, v, <<Step("row", t, r)>>, Step("row", t, r), Step("row", t, r), {"row"}, B)
    BY <2>1, <2>2, Shape1
  <2>. QED BY <2>1, <2>2, <2>3, <2>4
<1>. HIDE DEF B, p
<1>. DEFINE O  == <<Op("overlay"), Op("dropped"), Op("expire"), Op("forwarded")>>
            s0 == Delete(t, d) \o W
            s1 == s0 \o Flip(t)
            s2 == s1 \o Flip(1 - t)
            s3 == s2 \o Flip(t)
            s4 == s3 \o O
            s5 == s4 \o (IF r = <<>> THEN <<>> ELSE <<Step("probe", t, r)>>)
<1>. HIDE DEF s0
<1>12. Shape(p, v, s1, f, Step("selected", t, <<>>), ActOps, B) BY <1>2, <1>3, <1>7, <1>8, <1>10, Glue DEF s0
<1>. HIDE DEF s1
<1>13. Shape(p, v, s2, f, Step("selected", 1 - t, <<>>), ActOps, B) BY <1>2, <1>3, <1>8, <1>10, <1>12, Glue
<1>. HIDE DEF s2
<1>14. Shape(p, v, s3, f, Step("selected", t, <<>>), ActOps, B) BY <1>2, <1>3, <1>8, <1>10, <1>13, Glue
<1>. HIDE DEF s3
<1>15. Shape(p, v, s4, f, Op("forwarded"), ActOps, B) BY <1>3, <1>9, <1>10, <1>14, Glue
<1>. HIDE DEF s4
<1>16. \E z \in {Op("forwarded"), Step("probe", t, r)} : Shape(p, v, s5, f, z, ActOps, B)
  <2>1. CASE r = <<>>
    <3>1. s4 \o <<>> = s4 BY <1>15 DEF Shape
    <3>. QED BY <2>1, <3>1, <1>15
  <2>2. CASE r # <<>>
    <3>1. Shape(p, v, s4 \o <<Step("probe", t, r)>>, f, Step("probe", t, r), ActOps, B) BY <1>3, <1>10, <1>11, <1>15, Glue
    <3>. QED BY <2>2, <3>1
  <2>. QED BY <2>1, <2>2
<1>. HIDE DEF s5
<1>17. Shape(p, v, s5 \o <<Step("row", t, r)>>, f, Step("row", t, r), ActOps \cup {"row"}, B)
  BY <1>3, <1>4, <1>10, <1>11, <1>16, Glue
<1>18. Activation(c) = s5 \o <<Step("row", t, r)>> BY <1>5 DEF s5, s4, s3, s2, s1, s0
<1>. QED BY <1>7, <1>11, <1>17, <1>18 DEF v, t, B, p

LEMMA SoakTurnShape ==
    ASSUME view \in Local, NEW k \in Nat \ {0}
    PROVE  \E f \in WStep : /\ f.op \in {"delete", "write", "metrics"}
                            /\ Shape("soak", view.active, SoakTurn(k), f, Op("turn"), ActOps \cup {"row"} \cup CalmOps,
                                     {1 - view.active})
<1>. DEFINE C == <<Op("metrics"), Op("drain"), Op("turn")>>
            B == {1 - view.active}
            ops == ActOps \cup {"row"}
            v == view.active
<1>1. Shape("soak", v, C, Op("metrics"), Op("turn"), CalmOps, B) BY CalmShape
<1>2. Op("metrics") \in WStep /\ Op("metrics").op = "metrics" BY OpType DEF OpNames
<1>3. CASE ~(CycleAt(k) > CycleAt(k - 1))
  <2>1. <<>> \o C = C BY <1>1 DEF Shape
  <2>2. SoakTurn(k) = C BY <1>3, <2>1 DEF SoakTurn
  <2>3. Shape("soak", v, C, Op("metrics"), Op("turn"), ops \cup CalmOps, B) BY <1>1, Wider
  <2>. QED BY <1>2, <2>2, <2>3
<1>4. CASE CycleAt(k) > CycleAt(k - 1)
  <2>. DEFINE c == CycleAt(k)
  <2>1. c \in Nat
    <3>1. k - 1 \in Nat BY Numbers
    <3>. QED BY <1>4, <3>1, CycleType
  <2>2. SoakTurn(k) = Activation(c) \o C BY <1>4 DEF SoakTurn
  <2>. HIDE DEF c
  <2>3. PICK f \in WStep, l \in WStep : /\ f.op \in {"delete", "write"} /\ l.op = "row"
                                        /\ Shape("soak", v, Activation(c), f, l, ops, B)
    BY <2>1, ActivationShape
  <2>4. Link("soak", v, l, Op("metrics")) /\ Fresh(l, Op("metrics")) BY <2>3, OpType DEF Link, Strict, Fresh
  <2>5. \A a \in ops, b \in CalmOps : Later("soak", a, b) BY DEF Later, ActOps, CalmOps
  <2>. HIDE DEF C, ops, v, B
  <2>6. Shape("soak", v, Activation(c) \o C, f, Op("turn"), ops \cup CalmOps, B)
    BY <1>1, <2>3, <2>4, <2>5, Glue
  <2>. QED BY <2>2, <2>3, <2>6 DEF ops, v, B
<1>. QED BY <1>3, <1>4

LEMMA SoakCleanupShape ==
    ASSUME view \in Local
    PROVE  \E f \in WStep : Shape("soak", view.active, SoakCleanup, f, Op("drain"), CleanOps, Bank)
<1>. DEFINE p == "soak"
            v == view.active
            r0 == view.rules[0]
            r1 == view.rules[1]
            x0 == Step("delete", 0, r0)
            x1 == Step("delete", 1, r1)
            ops == CleanOps \ {"residual"}
<1>1. r0 \in Seq(Entry) /\ r1 \in Seq(Entry) /\ 0 \in Bank /\ 1 \in Bank BY DEF Local, Bank
<1>2. x0 \in WStep /\ x0.op = "delete" /\ x0.bank = 0 BY <1>1, StepType DEF OpNames
<1>3. x1 \in WStep /\ x1.op = "delete" /\ x1.bank = 1 BY <1>1, StepType DEF OpNames
<1>4. Delete(0, r0) = (IF r0 = <<>> THEN <<>> ELSE <<x0>>) /\ Delete(1, r1) = (IF r1 = <<>> THEN <<>> ELSE <<x1>>)
  BY DEF Delete
<1>5. SoakCleanup = Delete(0, r0) \o Delete(1, r1) \o Teardown \o <<Op("drain")>> BY DEF SoakCleanup
<1>. HIDE DEF v, r0, r1, x0, x1
<1>6. Op("set") \in WStep /\ Op("set").op = "set" BY OpType DEF OpNames
<1>7. /\ Link(p, v, x0, x1) /\ Fresh(x0, x1)
      /\ Link(p, v, x0, Op("set")) /\ Fresh(x0, Op("set")) /\ Link(p, v, x1, Op("set")) /\ Fresh(x1, Op("set"))
      /\ Link(p, v, Op("residual"), Op("drain")) /\ Fresh(Op("residual"), Op("drain"))
  BY <1>2, <1>3, OpType DEF Link, Strict, Fresh
<1>8. \A a \in ops : \A b : Later(p, a, b) BY DEF Later, CleanOps
<1>9. \A a \in CleanOps : \A b \in {"drain"} : Later(p, a, b) BY DEF Later, CleanOps
<1>10. ops \subseteq CleanOps /\ {"drain"} \subseteq CleanOps BY DEF CleanOps
<1>11. Shape(p, v, Teardown, Op("set"), Op("residual"), CleanOps, Bank) BY TeardownShape, Wider DEF CleanOps
<1>12. Shape(p, v, <<Op("drain")>>, Op("drain"), Op("drain"), {"drain"}, Bank) BY OpType, Shape1 DEF OpNames, Banked
<1>13. Shape(p, v, <<x0>>, x0, x0, ops, Bank) BY <1>1, <1>2, Shape1 DEF CleanOps
<1>14. Shape(p, v, <<x1>>, x1, x1, ops, Bank) BY <1>1, <1>3, Shape1 DEF CleanOps
<1>. HIDE DEF p, ops
<1>15. Shape(p, v, <<x0>> \o <<x1>>, x0, x1, ops, Bank) BY <1>7, <1>8, <1>13, <1>14, Glue
<1>. DEFINE D == Delete(0, r0) \o Delete(1, r1)
<1>16. D = <<>> \/ D = <<x0>> \/ D = <<x1>> \/ D = <<x0>> \o <<x1>>
  <2>1. <<>> \in Seq(WStep) /\ <<x0>> \in Seq(WStep) /\ <<x1>> \in Seq(WStep) BY <1>2, <1>3
  <2>2. <<>> \o <<>> = <<>> OBVIOUS
  <2>3. <<x0>> \o <<>> = <<x0>> /\ <<>> \o <<x1>> = <<x1>> BY <2>1
  <2>. QED BY <1>4, <2>2, <2>3
<1>. HIDE DEF D
<1>17. \E f \in WStep : Shape(p, v, D \o Teardown, f, Op("residual"), CleanOps, Bank)
  <2>1. CASE D = <<>>
    <3>1. <<>> \o Teardown = Teardown BY <1>11 DEF Shape
    <3>. QED BY <2>1, <3>1, <1>6, <1>11
  <2>2. CASE D = <<x0>> BY <2>2, <1>2, <1>7, <1>8, <1>10, <1>11, <1>13, Glue
  <2>3. CASE D = <<x1>> BY <2>3, <1>3, <1>7, <1>8, <1>10, <1>11, <1>14, Glue
  <2>4. CASE D = <<x0>> \o <<x1>> BY <2>4, <1>2, <1>7, <1>8, <1>10, <1>11, <1>15, Glue
  <2>. QED BY <1>16, <2>1, <2>2, <2>3, <2>4
<1>18. \E f \in WStep : Shape(p, v, D \o Teardown \o <<Op("drain")>>, f, Op("drain"), CleanOps, Bank)
  BY <1>7, <1>9, <1>10, <1>12, <1>17, Glue
<1>. QED BY <1>5, <1>18 DEF D, p, v

-----------------------------------------------------------------------------
(* The types of one step of a workload.                                    *)
LEMMA HeadType ==
    ASSUME WorkType, todo # <<>>
    PROVE  /\ Head(todo) = todo[1] /\ todo[1] \in WStep /\ Bank1 \in Bank /\ Rules \in Seq(Entry) /\ Head(todo).op \in OpNames
           /\ Tail(todo) \in Seq(WStep) /\ Len(Tail(todo)) = Len(todo) - 1 /\ Len(todo) \in Nat /\ Len(todo) >= 1
           /\ \A i \in 1..Len(todo) - 1 : Tail(todo)[i] = todo[i + 1]
<1>1. todo \in Seq(WStep) BY DEF WorkType
<1>2. Len(todo) \in Nat /\ Len(todo) >= 1 BY <1>1, Lengths
<1>3. Head(todo) = todo[1] /\ todo[1] \in WStep BY <1>1, <1>2
<1>4. Tail(todo) \in Seq(WStep) /\ Len(Tail(todo)) = Len(todo) - 1 BY <1>1
<1>5. \A i \in 1..Len(todo) - 1 : Tail(todo)[i] = todo[i + 1] BY <1>1
<1>6. Bank1 \in Bank /\ Rules \in Seq(Entry) /\ Head(todo).op \in OpNames BY <1>3 DEF Bank1, Rules, WStep
<1>. QED BY <1>2, <1>3, <1>4, <1>5, <1>6

LEMMA AdvanceType ==
    ASSUME WorkType, todo # <<>>, Advance
    PROVE  todo' \in Seq(WStep) /\ rep' \in Report /\ rep' = rep
BY HeadType DEF Advance, WorkType

LEMMA RaiseType ==
    ASSUME WorkType, Raise
    PROVE  /\ todo' \in Seq(WStep) /\ rep' \in Report /\ rep'.err /\ rep'.rows = rep.rows /\ rep'.clean = rep.clean
           /\ rep'.bad = rep.bad
<1>1. <<Op("turn")>> \in Seq(WStep) BY OpType DEF OpNames
<1>2. <<>> \in Seq(WStep) OBVIOUS
<1>3. PICK r \in Report : r = rep BY DEF WorkType
<1>4. [r EXCEPT !.err = TRUE] \in Report BY DEF Report
<1>5. [r EXCEPT !.err = TRUE].err = TRUE BY DEF Report
<1>6. /\ [r EXCEPT !.err = TRUE].rows = r.rows /\ [r EXCEPT !.err = TRUE].clean = r.clean
      /\ [r EXCEPT !.err = TRUE].bad = r.bad BY DEF Report
<1>. QED BY <1>1, <1>2, <1>3, <1>4, <1>5, <1>6 DEF Raise

LEMMA NoteType ==
    ASSUME WorkType, todo # <<>>, NEW c, Note(c)
    PROVE  /\ todo' \in Seq(WStep) /\ todo' = Tail(todo) /\ rep' \in Report /\ rep'.rows = rep.rows /\ rep'.clean = rep.clean
           /\ rep'.err = rep.err /\ (rep'.bad <=> rep.bad \/ ~c)
<1>1. PICK r \in Report : r = rep BY DEF WorkType
<1>2. r.bad \in BOOLEAN /\ (r.bad \/ ~c) \in BOOLEAN BY DEF Report
<1>3. [r EXCEPT !.bad = @ \/ ~c] \in Report BY <1>2 DEF Report
<1>4. /\ [r EXCEPT !.bad = @ \/ ~c].rows = r.rows /\ [r EXCEPT !.bad = @ \/ ~c].clean = r.clean
      /\ [r EXCEPT !.bad = @ \/ ~c].err = r.err BY DEF Report
<1>5. [r EXCEPT !.bad = @ \/ ~c].bad <=> r.bad \/ ~c BY DEF Report
<1>6. todo' = Tail(todo) /\ rep' = [r EXCEPT !.bad = @ \/ ~c] BY <1>1 DEF Note
<1>. QED BY <1>1, <1>3, <1>4, <1>5, <1>6, HeadType

LEMMA FaultType == ASSUME faults \in 0..NFaults, Fault \/ NoFault PROVE faults' \in 0..NFaults
BY Numbers DEF Fault, NoFault

(* What a call that reads leaves behind, and what one that writes does.    *)
LEMMA Kept ==
    ASSUME WorkType, todo' \in Seq(WStep), rep' \in Report, sw' \in Switch, goal' \in Wanted, torn' \in BOOLEAN, view' \in Local,
           Fault \/ NoFault, UNCHANGED <<job, traffic, turn, stream, verdict>>
    PROVE  WorkType'
BY FaultType DEF WorkType

LEMMA WatchType == ASSUME WorkType, Watch PROVE torn' \in BOOLEAN
BY DEF Watch, WorkType

LEMMA SwitchType ==
    /\ Blank \in Switch
    /\ \A s \in Switch : /\ \A b \in BOOLEAN : /\ [s EXCEPT !.loaded = b] \in Switch /\ [s EXCEPT !.overlay = b] \in Switch
                                               /\ \A x \in Bank \cup {None} : [s EXCEPT !.infra = b, !.sel = x] \in Switch
                         /\ \A x \in Bank \cup {None} : [s EXCEPT !.sel = x] \in Switch
                         /\ \A b \in Bank, S \in SUBSET Entry : [s EXCEPT !.bank[b] = S] \in Switch
<1>1. Blank \in Switch BY DEF Blank, Switch, None, Bank
<1>. SUFFICES ASSUME NEW s \in Switch
              PROVE  /\ \A b \in BOOLEAN : /\ [s EXCEPT !.loaded = b] \in Switch /\ [s EXCEPT !.overlay = b] \in Switch
                                           /\ \A x \in Bank \cup {None} : [s EXCEPT !.infra = b, !.sel = x] \in Switch
                     /\ \A x \in Bank \cup {None} : [s EXCEPT !.sel = x] \in Switch
                     /\ \A b \in Bank, S \in SUBSET Entry : [s EXCEPT !.bank[b] = S] \in Switch
  BY <1>1
<1>2. \A b \in BOOLEAN : [s EXCEPT !.loaded = b] \in Switch /\ [s EXCEPT !.overlay = b] \in Switch BY DEF Switch
<1>3. \A b \in BOOLEAN : \A x \in Bank \cup {None} : [s EXCEPT !.infra = b, !.sel = x] \in Switch BY DEF Switch
<1>4. \A x \in Bank \cup {None} : [s EXCEPT !.sel = x] \in Switch BY DEF Switch
<1>5. \A b \in Bank, S \in SUBSET Entry : [s EXCEPT !.bank[b] = S] \in Switch BY DEF Switch
<1>. QED BY <1>2, <1>3, <1>4, <1>5

LEMMA WantedType ==
    /\ Goal0 \in Wanted
    /\ \A g \in Wanted : \A b \in Bank : [g EXCEPT !.bank = b] \in Wanted
    /\ \A g \in Wanted : \A b \in Bank, S \in SUBSET Entry : [g EXCEPT !.rules[b] = S] \in Wanted
<1>1. Goal0 \in Wanted BY DEF Goal0, Wanted, Bank
<1>2. \A g \in Wanted : \A b \in Bank : [g EXCEPT !.bank = b] \in Wanted BY DEF Wanted
<1>3. \A g \in Wanted : \A b \in Bank, S \in SUBSET Entry : [g EXCEPT !.rules[b] = S] \in Wanted BY DEF Wanted
<1>. QED BY <1>1, <1>2, <1>3

-----------------------------------------------------------------------------
(* What is left of a list once its first step is done.                     *)
Remains(kind, active, s, t) ==
    /\ Linked(kind, active, t) /\ FreshFrom(2, t) /\ Ordered(kind, t) /\ Ending(t) /\ Ops(t) \subseteq Ops(s)
    /\ \A i \in 1..Len(t) : Later(kind, s[1].op, t[i].op)
    /\ \A i \in 1..Len(t) : \E j \in 1..Len(s) : t[i] = s[j]
    /\ \A op : s[1].op # op => (Has(op, s) <=> Has(op, t))
    /\ t # <<>> => /\ Head(t) = s[2] /\ t[1] = s[2] /\ Link(kind, active, s[1], s[2])
                   /\ s[2].op = "write" => Fresh(t[1], t[2])
    /\ s[1].op \in {"write", "flip", "measure"} => t # <<>>

LEMMA TailOK ==
    ASSUME NEW kind, NEW active, NEW s \in Seq(WStep), s # <<>>, Linked(kind, active, s), FreshFrom(2, s),
           Ordered(kind, s), Ending(s)
    PROVE  Remains(kind, active, s, Tail(s))
<1>. DEFINE t == Tail(s)
<1>1. PICK n \in Nat : n = Len(s) /\ n >= 1 BY Lengths
<1>2. t \in Seq(WStep) /\ Len(t) = n - 1 /\ \A i \in 1..n - 1 : t[i] = s[i + 1] BY <1>1
<1>. HIDE DEF t
<1>3. Linked(kind, active, t)
  <2>. SUFFICES ASSUME NEW i \in 1..(n - 1) - 1 PROVE Link(kind, active, t[i], t[i + 1]) BY <1>2 DEF Linked
  <2>1. i \in 1..n - 1 /\ i + 1 \in 1..n - 1 BY <1>1
  <2>. QED BY <1>1, <1>2, <2>1 DEF Linked
<1>4. ASSUME NEW i \in 1..(n - 1) - 1 PROVE Fresh(t[i], t[i + 1])
  <2>1. i \in 1..n - 1 /\ i + 1 \in 1..n - 1 /\ i + 1 \in 2..n - 1 BY <1>1
  <2>. QED BY <1>1, <1>2, <2>1 DEF FreshFrom
<1>5. FreshFrom(2, t)
  <2>. SUFFICES ASSUME NEW i \in 2..(n - 1) - 1 PROVE Fresh(t[i], t[i + 1]) BY <1>2 DEF FreshFrom
  <2>1. i \in 1..(n - 1) - 1 BY <1>1
  <2>. QED BY <1>4, <2>1
<1>6. Ordered(kind, t)
  <2>. SUFFICES ASSUME NEW i \in 1..n - 1, NEW j \in 1..n - 1, i < j PROVE Later(kind, t[i].op, t[j].op) BY <1>2 DEF Ordered
  <2>1. i + 1 \in 1..n /\ j + 1 \in 1..n /\ i + 1 < j + 1 BY <1>1
  <2>. QED BY <1>1, <1>2, <2>1 DEF Ordered
<1>7. t # <<>> => n >= 2
  <2>. HAVE t # <<>>
  <2>1. Len(t) >= 1 BY <1>2, Lengths
  <2>. QED BY <2>1, <1>1, <1>2
<1>8. Ending(t)
  <2>. SUFFICES ASSUME t # <<>> PROVE t[Len(t)].op \notin {"flip", "write", "measure"} BY DEF Ending
  <2>1. n - 1 \in 1..n - 1 /\ (n - 1) + 1 = n BY <1>1, <1>7
  <2>2. t[Len(t)] = s[n] BY <1>2, <2>1
  <2>. QED BY <2>2, <1>1 DEF Ending
<1>9. \A i \in 1..n - 1 : i + 1 \in 1..n /\ t[i] = s[i + 1] BY <1>1, <1>2
<1>10. Ops(t) \subseteq Ops(s) BY <1>1, <1>2, <1>9 DEF Ops
<1>11. \A i \in 1..n - 1 : Later(kind, s[1].op, t[i].op)
  <2>. TAKE i \in 1..n - 1
  <2>1. 1 \in 1..n /\ i + 1 \in 1..n /\ 1 < i + 1 BY <1>1
  <2>. QED BY <1>1, <1>9, <2>1 DEF Ordered
<1>12. ASSUME NEW op, s[1].op # op PROVE Has(op, s) <=> Has(op, t)
  <2>1. ASSUME NEW i \in 1..n, s[i].op = op PROVE \E j \in 1..n - 1 : t[j].op = op
    <3>1. i # 1 BY <1>12, <2>1
    <3>2. i - 1 \in 1..n - 1 /\ (i - 1) + 1 = i BY <1>1, <3>1
    <3>3. t[i - 1] = s[i] BY <1>9, <3>2
    <3>. QED BY <2>1, <3>2, <3>3
  <2>2. ASSUME NEW j \in 1..n - 1, t[j].op = op PROVE \E i \in 1..n : s[i].op = op BY <1>9, <2>2
  <2>. QED BY <1>1, <1>2, <2>1, <2>2 DEF Has
<1>13. ASSUME t # <<>> PROVE /\ Head(t) = s[2] /\ t[1] = s[2] /\ Link(kind, active, s[1], s[2])
                             /\ s[2].op = "write" => Fresh(t[1], t[2])
  <2>1. 1 \in 1..n - 1 /\ 1 + 1 = 2 BY <1>7, <1>13, <1>1
  <2>2. t[1] = s[2] BY <1>9, <2>1
  <2>3. Head(t) = t[1] BY <1>2, <1>13
  <2>4. Link(kind, active, s[1], s[2]) BY <1>1, <2>1 DEF Linked
  <2>5. ASSUME s[2].op = "write" PROVE Fresh(t[1], t[2])
    <3>1. n # 2 BY <2>5, <1>1 DEF Ending
    <3>2. 1 \in 1..(n - 1) - 1 BY <3>1, <1>7, <1>13, <1>1
    <3>. QED BY <3>2, <1>4, <2>1
  <2>. QED BY <2>2, <2>3, <2>4, <2>5
<1>14. ASSUME s[1].op \in {"write", "flip", "measure"} PROVE t # <<>>
  <2>1. n # 1 BY <1>14, <1>1 DEF Ending
  <2>2. Len(t) # 0 BY <2>1, <1>1, <1>2
  <2>. QED BY <2>2
<1>15. \A i \in 1..Len(t) : \E j \in 1..Len(s) : t[i] = s[j] BY <1>1, <1>2, <1>9
<1>. QED BY <1>2, <1>3, <1>5, <1>6, <1>8, <1>10, <1>11, <1>12, <1>13, <1>14, <1>15 DEF Remains, t

LEMMA OpsIs == \A s : \A i \in 1..Len(s) : s[i].op \in Ops(s)
BY DEF Ops

(* The facts about the next step, in the state that follows.               *)
LEMMA NextHead ==
    ASSUME WorkType, ListInv, todo # <<>>, todo' = Tail(todo)
    PROVE  /\ Linked(job, view.active, todo') /\ FreshFrom(2, todo') /\ Ordered(job, todo') /\ Ending(todo')
           /\ Ops(todo') \subseteq Ops(todo) /\ Head(todo).op \in Ops(todo)
           /\ \A i \in 1..Len(todo') : Later(job, Head(todo).op, todo'[i].op)
           /\ \A i \in 1..Len(todo') : \E j \in 1..Len(todo) : todo'[i] = todo[j]
           /\ \A op : Head(todo).op # op => (Has(op, todo) <=> Has(op, todo'))
           /\ todo' # <<>> => /\ Head(todo') = todo[2] /\ todo'[1] = todo[2] /\ Link(job, view.active, Head(todo), Head(todo'))
                              /\ Head(todo').op = "write" => Fresh(todo'[1], todo'[2])
           /\ Head(todo).op \in {"write", "flip", "measure"} => todo' # <<>>
<1>1. todo \in Seq(WStep) BY DEF WorkType
<1>2. Head(todo) = todo[1] /\ 1 \in 1..Len(todo) BY HeadType
<1>3. Head(todo).op \in Ops(todo) BY <1>2, OpsIs
<1>4. Linked(job, view.active, todo) /\ FreshFrom(2, todo) /\ Ordered(job, todo) /\ Ending(todo) BY DEF ListInv
<1>5. Remains(job, view.active, todo, Tail(todo)) BY <1>1, <1>4, TailOK
<1>6. Remains(job, view.active, todo, todo') BY <1>5
<1>. QED BY <1>2, <1>3, <1>6 DEF Remains

LEMMA PopList ==
    ASSUME WorkType, ListInv, todo # <<>>, todo' = Tail(todo), job' = job, view'.active = view.active, traffic' = traffic,
           Head(todo).op # "measure"
    PROVE  ListInv'
<1>1. /\ Linked(job', view'.active, todo') /\ FreshFrom(2, todo') /\ Ordered(job', todo') /\ Ending(todo')
      /\ Ops(todo') \subseteq Ops(todo) /\ (Has("measure", todo) <=> Has("measure", todo'))
      /\ \A i \in 1..Len(todo') : \E j \in 1..Len(todo) : todo'[i] = todo[j]
  BY NextHead
<1>2. job' = "soak" /\ traffic' = "measured" =>
         \A i \in 1..Len(todo') : todo'[i].op \in {"delete", "write", "readback", "row"} => todo'[i].bank = 1 - view'.active
  BY <1>1 DEF ListInv
<1>3. /\ job' = "soak" /\ Has("measure", todo') => Ops(todo') \subseteq SetupOps
      /\ job' = "soak" /\ traffic' = "measured" => Ops(todo') \subseteq MeasuredOps
      /\ job' = "soak" /\ traffic' # "measured" /\ ~Has("measure", todo') => Ops(todo') \subseteq CleanOps
  BY <1>1 DEF ListInv
<1>. QED BY <1>1, <1>2, <1>3 DEF ListInv

LEMMA PopRules ==
    ASSUME WorkType, ListInv, todo # <<>>, todo' = Tail(todo), Head(todo).op # "write",
           \A b \in Bank : goal'.rules[b] \subseteq sw'.bank[b]
    PROVE  RulesInv'
<1>1. todo' # <<>> => /\ Head(todo').op \notin {"readback", "initial"}
                      /\ Head(todo').op = "write" => Fresh(todo'[1], todo'[2])
  BY NextHead DEF Link
<1>. QED BY <1>1 DEF RulesInv, At

LEMMA PopSelect ==
    ASSUME WorkType, ListInv, SelectInv, todo # <<>>, todo' = Tail(todo),
           Head(todo).op \notin {"flip", "selected", "measure", "end"}, Head(todo).op = "row" => job = "performance",
           UNCHANGED <<job, traffic>>, sw'.sel = sw.sel, goal'.bank = goal.bank, view'.active = view.active,
           rep'.rows = rep.rows, job = "soak" /\ Has("measure", todo) => ~torn'
    PROVE  SelectInv'
<1>. DEFINE h == Head(todo)
            n == Head(todo')
<1>1. /\ Has("measure", todo) <=> Has("measure", todo')
      /\ todo' # <<>> => Link(job, view.active, h, n) BY NextHead
<1>2. ~At("selected") /\ ~At("measure") /\ ~At("end") BY DEF At
<1>3. ~At("selected")' BY <1>1 DEF At, Link
<1>4. ~(job' = "performance" /\ At("measure")') BY <1>1 DEF At, Link, Strict
<1>5. job' = "soak" /\ (traffic' = "measured" \/ Has("measure", todo')) =>
         \/ sw'.sel = goal'.bank
         \/ sw'.sel = None /\ rep'.rows = 0 /\ (todo' # <<>> => n.op \notin Strict("soak"))
  <2>. HAVE job' = "soak" /\ (traffic' = "measured" \/ Has("measure", todo'))
  <2>1. \/ sw.sel = goal.bank
        \/ sw.sel = None /\ rep.rows = 0 /\ h.op \notin Strict("soak")
    BY <1>1, <1>2 DEF SelectInv
  <2>2. todo' # <<>> /\ h.op \notin Strict("soak") => n.op \notin Strict("soak") BY <1>1 DEF Link
  <2>. QED BY <2>1, <2>2
<1>6. job' = "soak" /\ Has("measure", todo') => view'.active = 0 /\ goal'.bank = 0 /\ ~torn' /\ rep'.rows = 0 /\ traffic' # "measured"
  BY <1>1 DEF SelectInv
<1>7. job' = "soak" /\ traffic' = "measured" /\ todo' # <<>> /\ n.op \notin {"flip", "selected"} =>
         goal'.bank = IF n.op \in Strict("soak") THEN 1 - view'.active ELSE view'.active
  <2>. HAVE job' = "soak" /\ traffic' = "measured" /\ todo' # <<>> /\ n.op \notin {"flip", "selected"}
  <2>1. goal.bank = IF h.op \in Strict("soak") THEN 1 - view.active ELSE view.active BY DEF SelectInv
  <2>2. h.op \in Strict("soak") <=> n.op \in Strict("soak")
    <3>1. h.op \in Strict("soak") \ {"row"} => n.op \in Strict("soak") BY <1>1 DEF Link
    <3>2. n.op \in Strict("soak") => h.op \in Strict("soak") BY <1>1 DEF Link
    <3>. QED BY <3>1, <3>2
  <2>. QED BY <2>1, <2>2
<1>8. ~(job' = "performance" /\ traffic' = "measured") BY <1>2 DEF SelectInv
<1>9. ~At("cleanup")' BY <1>1 DEF At, Link
<1>. QED BY <1>3, <1>4, <1>5, <1>6, <1>7, <1>8, <1>9 DEF SelectInv

LEMMA PopEnd ==
    ASSUME WorkType, ListInv, EndInv, todo # <<>>, todo' = Tail(todo), Head(todo).op = "drain" => sw' = sw,
           UNCHANGED traffic, rep'.clean = rep.clean,
           torn' => job' = "soak" /\ rep'.rows = 0 /\ sw'.sel = None
    PROVE  EndInv'
<1>1. Ops(todo') \subseteq Ops(todo) /\ Head(todo).op \in Ops(todo) BY NextHead
<1>2. rep'.clean => Empty' /\ Ops(todo') \subseteq {"drain"} /\ traffic' # "measured"
  <2>. HAVE rep'.clean
  <2>1. Empty /\ Ops(todo) \subseteq {"drain"} /\ traffic # "measured" BY DEF EndInv
  <2>2. sw' = sw BY <1>1, <2>1
  <2>. QED BY <1>1, <2>1, <2>2 DEF Empty
<1>. QED BY <1>2 DEF EndInv

(* A step that changes nothing but the list and the report.                *)
LEMMA PopGood ==
    ASSUME WorkType, Good, todo # <<>>, todo' = Tail(todo),
           Head(todo).op \notin {"write", "flip", "selected", "measure", "end"}, Head(todo).op = "row" => job = "performance",
           UNCHANGED <<job, traffic, sw, goal, torn>>, view'.active = view.active, rep'.clean = rep.clean,
           rep'.rows = rep.rows \/ (job = "performance" /\ rep'.rows = rep.rows + 1),
           Head(todo).op \in {"readback", "initial"} => goal.rules[Bank1] \subseteq sw.bank[Bank1]
    PROVE  Good'
<1>. USE DEF Good
<1>1. ListInv' BY PopList
<1>2. \A b \in Bank : goal.rules[b] \subseteq sw.bank[b] BY DEF RulesInv, At
<1>3. RulesInv' BY <1>2, PopRules
<1>4. ~At("selected") BY DEF At
<1>5. torn => job = "soak" /\ rep.rows = 0 /\ sw.sel = None BY <1>4 DEF EndInv
<1>6. CASE rep'.rows = rep.rows
  <2>1. SelectInv' BY <1>6, PopSelect DEF SelectInv
  <2>2. EndInv' BY <1>5, <1>6, PopEnd
  <2>. QED BY <1>1, <1>3, <2>1, <2>2
<1>7. CASE job = "performance" /\ rep'.rows = rep.rows + 1
  <2>1. EndInv' BY <1>5, <1>7, PopEnd
  <2>2. ~At("selected")' /\ ~At("measure")' BY <1>7, NextHead DEF At, Link, Strict
  <2>3. ~(job = "performance" /\ traffic = "measured") BY DEF SelectInv, At
  <2>4. SelectInv' BY <1>7, <2>2, <2>3 DEF SelectInv
  <2>. QED BY <1>1, <1>3, <2>1, <2>4
<1>. QED BY <1>6, <1>7

-----------------------------------------------------------------------------
(* One lemma for each step of a workload.                                  *)
Quiet == UNCHANGED <<stream, verdict, job>> /\ (rep.err => rep'.err)

LEMMA RaiseWhole == ASSUME WorkType, Raise PROVE Whole' /\ rep'.err
BY RaiseType DEF Whole, Failing

LEMMA ReadRaises ==
    ASSUME WorkType, Raise, Fault \/ NoFault, UNCHANGED <<job, sw, view, traffic, turn, goal, torn, stream, verdict>>
    PROVE  WorkType' /\ Whole' /\ Quiet
<1>1. todo' \in Seq(WStep) /\ rep' \in Report BY RaiseType
<1>2. sw' \in Switch /\ goal' \in Wanted /\ torn' \in BOOLEAN /\ view' \in Local BY DEF WorkType
<1>3. WorkType' BY <1>1, <1>2, Kept
<1>. QED BY <1>3, RaiseWhole DEF Quiet

LEMMA ReadPops ==
    ASSUME WorkType, Whole, job # "idle", todo # <<>>, todo' = Tail(todo), rep' \in Report, rep'.err = rep.err,
           rep.bad => rep'.bad, rep'.clean = rep.clean, rep'.rows = rep.rows, Fault \/ NoFault,
           UNCHANGED <<job, sw, view, traffic, turn, goal, torn, stream, verdict>>,
           Head(todo).op \notin {"write", "flip", "selected", "measure", "end", "row"},
           Head(todo).op \in {"readback", "initial"} /\ ~rep'.bad /\ Good => goal.rules[Bank1] \subseteq sw.bank[Bank1]
    PROVE  WorkType' /\ Whole' /\ Quiet
<1>1. todo' \in Seq(WStep) BY HeadType
<1>2. sw' \in Switch /\ goal' \in Wanted /\ torn' \in BOOLEAN /\ view' \in Local BY DEF WorkType
<1>3. WorkType' BY <1>1, <1>2, Kept
<1>4. ASSUME ~Failing' PROVE Good'
  <2>1. ~rep'.bad /\ ~Failing BY <1>4 DEF Failing
  <2>2. Good BY <2>1 DEF Whole
  <2>. QED BY <2>1, <2>2, PopGood
<1>5. Whole' BY <1>4 DEF Whole
<1>. QED BY <1>3, <1>5 DEF Quiet

LEMMA AdvancePops ==
    ASSUME WorkType, Whole, job # "idle", todo # <<>>, Advance, Fault \/ NoFault,
           UNCHANGED <<job, sw, view, traffic, turn, goal, torn, stream, verdict>>,
           Head(todo).op \notin {"write", "flip", "selected", "measure", "end", "row", "readback", "initial"}
    PROVE  WorkType' /\ Whole' /\ Quiet
<1>1. todo' = Tail(todo) /\ rep' \in Report /\ rep' = rep BY AdvanceType DEF Advance
<1>. QED BY <1>1, ReadPops

LEMMA NotePops ==
    ASSUME WorkType, Whole, job # "idle", todo # <<>>, NEW c, Note(c), Fault \/ NoFault,
           UNCHANGED <<job, sw, view, traffic, turn, goal, torn, stream, verdict>>,
           Head(todo).op \notin {"write", "flip", "selected", "measure", "end", "row"},
           Head(todo).op \in {"readback", "initial"} /\ c /\ Good => goal.rules[Bank1] \subseteq sw.bank[Bank1]
    PROVE  WorkType' /\ Whole' /\ Quiet
<1>1. /\ todo' = Tail(todo) /\ rep' \in Report /\ rep'.rows = rep.rows /\ rep'.clean = rep.clean
      /\ rep'.err = rep.err /\ (rep'.bad <=> rep.bad \/ ~c)
  BY NoteType
<1>2. rep.bad => rep'.bad BY <1>1
<1>3. ~rep'.bad => c BY <1>1
<1>. QED BY <1>1, <1>2, <1>3, ReadPops

LEMMA VerifyStep ==
    ASSUME WorkType, Whole, job # "idle", verify_pipeline_identity PROVE WorkType' /\ Whole' /\ Quiet
<1>1. todo # <<>> /\ Head(todo).op = "verify" BY DEF verify_pipeline_identity, At
<1>2. /\ Advance \/ Raise
      /\ Fault \/ NoFault
      /\ UNCHANGED <<job, sw, view, traffic, turn, goal, torn, stream, verdict>>
  BY DEF verify_pipeline_identity, Read
<1>. QED BY <1>1, <1>2, AdvancePops, ReadRaises

LEMMA MetricsStep ==
    ASSUME WorkType, Whole, job # "idle", Metrics PROVE WorkType' /\ Whole' /\ Quiet
<1>1. todo # <<>> /\ Head(todo).op = "metrics" BY DEF Metrics, At
<1>2. /\ Advance \/ Raise
      /\ Fault \/ NoFault
      /\ UNCHANGED <<job, sw, view, traffic, turn, goal, torn, stream, verdict>>
  BY DEF Metrics, Read
<1>. QED BY <1>1, <1>2, AdvancePops, ReadRaises

LEMMA NotingSteps ==
    ASSUME WorkType, Whole, job # "idle", OverlayDrop \/ single_packet_outcome \/ BaselineProbe \/ Residual1
    PROVE  WorkType' /\ Whole' /\ Quiet
<1>1. todo # <<>> /\ Head(todo).op \in {"dropped", "forwarded", "probe", "residual1"}
  BY DEF OverlayDrop, single_packet_outcome, BaselineProbe, Residual1, At
<1>2. /\ Raise \/ \E c \in BOOLEAN : Note(c)
      /\ Fault \/ NoFault
      /\ UNCHANGED <<job, sw, view, traffic, turn, goal, torn, stream, verdict>>
  <2>1. CASE OverlayDrop
    <3>1. Raise \/ Note(TRUE) BY <2>1 DEF OverlayDrop, Read
    <3>. QED BY <2>1, <3>1 DEF OverlayDrop, Read
  <2>2. CASE single_packet_outcome
    <3>. DEFINE c == ~sw.overlay /\ sw.infra
    <3>1. c \in BOOLEAN OBVIOUS
    <3>2. Raise \/ Note(c) \/ Note(FALSE) BY <2>2 DEF single_packet_outcome, Read
    <3>. HIDE DEF c
    <3>. QED BY <2>2, <3>1, <3>2 DEF single_packet_outcome, Read
  <2>3. CASE BaselineProbe
    <3>. DEFINE c == sw.sel = Bank1
    <3>1. c \in BOOLEAN OBVIOUS
    <3>2. Raise \/ Note(c) BY <2>3 DEF BaselineProbe, Read
    <3>. HIDE DEF c
    <3>. QED BY <2>3, <3>1, <3>2 DEF BaselineProbe, Read
  <2>4. CASE Residual1
    <3>. DEFINE c == sw.bank[1] = {}
    <3>1. c \in BOOLEAN OBVIOUS
    <3>2. Raise \/ Note(c) BY <2>4 DEF Residual1, Read
    <3>. HIDE DEF c
    <3>. QED BY <2>4, <3>1, <3>2 DEF Residual1, Read
  <2>. QED BY <2>1, <2>2, <2>3, <2>4
<1>3. CASE Raise BY <1>2, <1>3, ReadRaises
<1>4. CASE \E c \in BOOLEAN : Note(c)
  <2>1. PICK c \in BOOLEAN : Note(c) BY <1>4
  <2>. QED BY <1>1, <1>2, <2>1, NotePops
<1>. QED BY <1>2, <1>3, <1>4

LEMMA ExactHolds ==
    ASSUME WorkType, Good, todo # <<>>, Head(todo).op \in {"readback", "initial"}, Exact
    PROVE  goal.rules[Bank1] \subseteq sw.bank[Bank1]
<1>1. goal.rules[Bank1] \subseteq ToSet(Rules) BY DEF Good, RulesInv, At
<1>2. Rules = <<>> => ToSet(Rules) = {} BY DEF ToSet
<1>. QED BY <1>1, <1>2 DEF Exact

LEMMA ReadbackStep ==
    ASSUME WorkType, Whole, job # "idle", exact_rule_readback PROVE WorkType' /\ Whole' /\ Quiet
<1>1. todo # <<>> /\ Head(todo).op = "readback" BY DEF exact_rule_readback, At
<1>. DEFINE c == Exact
<1>2. /\ Note(c) \/ Raise
      /\ Fault \/ NoFault
      /\ UNCHANGED <<job, sw, view, traffic, turn, goal, torn, stream, verdict>>
  BY DEF exact_rule_readback, Read
<1>3. c /\ Good => goal.rules[Bank1] \subseteq sw.bank[Bank1] BY <1>1, ExactHolds
<1>. HIDE DEF c
<1>. QED BY <1>1, <1>2, <1>3, NotePops, ReadRaises

LEMMA LocalType == \A v \in Local, b \in Bank, r \in Seq(Entry) :
    [v EXCEPT !.rules[b] = r] \in Local /\ [v EXCEPT !.rules[b] = r].active = v.active
BY DEF Local

LEMMA InitialStep ==
    ASSUME WorkType, Whole, job # "idle", InitialReadback PROVE WorkType' /\ Whole' /\ Quiet
<1>1. todo # <<>> /\ Head(todo).op = "initial" BY DEF InitialReadback, At
<1>2. Rules \in Seq(Entry) /\ 0 \in Bank BY <1>1, HeadType DEF Bank
<1>3. \/ /\ Exact /\ Advance /\ NoFault /\ view' = [view EXCEPT !.rules[0] = Rules]
         /\ UNCHANGED <<job, sw, traffic, turn, goal, torn, stream, verdict>>
      \/ Raise /\ (Fault \/ NoFault) /\ UNCHANGED <<job, sw, view, traffic, turn, goal, torn, stream, verdict>>
  BY DEF InitialReadback
<1>4. CASE Raise /\ (Fault \/ NoFault) /\ UNCHANGED <<job, sw, view, traffic, turn, goal, torn, stream, verdict>>
  BY <1>4, ReadRaises
<1>5. CASE /\ Exact /\ Advance /\ NoFault /\ view' = [view EXCEPT !.rules[0] = Rules]
           /\ UNCHANGED <<job, sw, traffic, turn, goal, torn, stream, verdict>>
  <2>1. view' \in Local /\ view'.active = view.active BY <1>2, <1>5, LocalType DEF WorkType
  <2>2. todo' \in Seq(WStep) /\ rep' \in Report /\ rep' = rep /\ todo' = Tail(todo) BY <1>1, <1>5, AdvanceType DEF Advance
  <2>3. sw' \in Switch /\ goal' \in Wanted /\ torn' \in BOOLEAN BY <1>5 DEF WorkType
  <2>4. WorkType' BY <1>5, <2>1, <2>2, <2>3, Kept
  <2>5. ASSUME ~Failing' PROVE Good'
    <3>1. Good BY <2>5, <2>2 DEF Whole, Failing
    <3>2. goal.rules[Bank1] \subseteq sw.bank[Bank1] BY <1>1, <1>5, <3>1, ExactHolds
    <3>. QED BY <1>1, <1>5, <2>1, <2>2, <3>1, <3>2, PopGood
  <2>6. Whole' BY <2>5 DEF Whole
  <2>. QED BY <1>5, <2>2, <2>4, <2>6 DEF Quiet
<1>. QED BY <1>3, <1>4, <1>5

LEMMA SelectedStep ==
    ASSUME WorkType, Whole, job # "idle", read_policy_bank PROVE WorkType' /\ Whole' /\ Quiet
<1>1. todo # <<>> /\ Head(todo).op = "selected" BY DEF read_policy_bank, At
<1>. DEFINE c == sw.sel = Bank1
<1>2. /\ Note(c) \/ Raise
      /\ Fault \/ NoFault
      /\ UNCHANGED <<job, sw, view, traffic, turn, goal, torn, stream, verdict>>
  BY DEF read_policy_bank, Read
<1>3. CASE Raise BY <1>2, <1>3, ReadRaises
<1>4. CASE Note(c)
  <2>. HIDE DEF c
  <2>1. /\ todo' \in Seq(WStep) /\ todo' = Tail(todo) /\ rep' \in Report /\ rep'.rows = rep.rows /\ rep'.clean = rep.clean
        /\ rep'.err = rep.err /\ (rep'.bad <=> rep.bad \/ ~c)
    BY <1>1, <1>4, NoteType
  <2>2. sw' \in Switch /\ goal' \in Wanted /\ torn' \in BOOLEAN /\ view' \in Local BY <1>2 DEF WorkType
  <2>3. WorkType' BY <1>2, <2>1, <2>2, Kept
  <2>4. ASSUME ~Failing' PROVE Good'
    <3>1. ~rep'.bad /\ ~rep'.err BY <2>4 DEF Failing
    <3>2. c /\ ~Failing BY <2>1, <3>1 DEF Failing
    <3>3. Good BY <3>2 DEF Whole
    <3>4. sw.sel = Bank1 /\ Bank1 \in Bank /\ sw.sel # None BY <1>1, <3>2, HeadType DEF c, Bank, None
    <3>5. goal.bank = Bank1 BY <1>1, <3>3 DEF Good, SelectInv, At
    <3>6. ListInv' BY <1>1, <1>2, <2>1, <3>3, PopList DEF Good
    <3>7. \A b \in Bank : goal.rules[b] \subseteq sw.bank[b] BY <1>1, <3>3 DEF Good, RulesInv, At
    <3>8. RulesInv' BY <1>1, <1>2, <2>1, <3>3, <3>7, PopRules DEF Good
    <3>9. ~torn BY <1>1, <3>3, <3>4 DEF Good, EndInv, At
    <3>10. EndInv' BY <1>1, <1>2, <2>1, <3>3, <3>9, PopEnd DEF Good
    <3>11. /\ todo' # <<>> => Link(job, view.active, Head(todo), Head(todo'))
           /\ Has("measure", todo) <=> Has("measure", todo')
           /\ "selected" \in Ops(todo)
      BY <1>1, <2>1, <3>3, NextHead DEF Good
    <3>12. job = "soak" => ~Has("measure", todo)
      BY <3>3, <3>11 DEF Good, ListInv, SetupOps
    <3>13. ~At("selected")' BY <1>1, <3>11 DEF At, Link
    <3>14. ~(job = "performance" /\ traffic = "measured") BY <1>1, <3>3 DEF Good, SelectInv, At
    <3>15. job = "soak" /\ todo' # <<>> /\ Head(todo').op \notin {"flip", "selected"} =>
             Head(todo').op = "overlay" /\ goal.bank = 1 - view.active
      <4>1. job = "soak" /\ todo' # <<>> /\ Head(todo').op # "flip" =>
               Head(todo').op = "overlay" /\ Head(todo).bank = 1 - view.active
        BY <1>1, <3>11 DEF Link
      <4>. QED BY <4>1, <3>5 DEF Bank1
    <3>16. "overlay" \in Strict("soak") BY DEF Strict
    <3>18. ~At("cleanup")' BY <1>1, <3>11 DEF At, Link
    <3>17. SelectInv' BY <1>2, <3>4, <3>5, <3>11, <3>12, <3>13, <3>14, <3>15, <3>16, <3>18 DEF SelectInv
    <3>. QED BY <3>6, <3>8, <3>10, <3>17 DEF Good
  <2>5. Whole' BY <2>4 DEF Whole
  <2>. QED BY <1>2, <2>1, <2>3, <2>5 DEF Quiet
<1>. QED BY <1>2, <1>3, <1>4

LEMMA ResidualStep ==
    ASSUME WorkType, Whole, job # "idle", Residual PROVE WorkType' /\ Whole' /\ Quiet
<1>1. todo # <<>> /\ Head(todo).op = "residual" BY DEF Residual, At
<1>2. /\ Raise \/ (todo' = Tail(todo) /\ rep' = [rep EXCEPT !.clean = Empty])
      /\ Fault \/ NoFault
      /\ UNCHANGED <<job, sw, view, traffic, turn, goal, torn, stream, verdict>>
  BY DEF Residual, Read
<1>3. CASE Raise BY <1>2, <1>3, ReadRaises
<1>4. CASE todo' = Tail(todo) /\ rep' = [rep EXCEPT !.clean = Empty]
  <2>. DEFINE e == Empty
  <2>1. e \in BOOLEAN BY DEF Empty
  <2>2. PICK r \in Report : r = rep BY DEF WorkType
  <2>3. rep' = [r EXCEPT !.clean = e] BY <1>4, <2>2
  <2>. HIDE DEF e
  <2>4. [r EXCEPT !.clean = e] \in Report BY <2>1 DEF Report
  <2>5. [r EXCEPT !.clean = e].err = r.err /\ [r EXCEPT !.clean = e].bad = r.bad /\ [r EXCEPT !.clean = e].rows = r.rows
        /\ [r EXCEPT !.clean = e].clean = e BY DEF Report
  <2>6. rep' \in Report /\ rep'.err = rep.err /\ rep'.bad = rep.bad /\ rep'.rows = rep.rows /\ rep'.clean = e
    BY <2>2, <2>3, <2>4, <2>5
  <2>7. todo' \in Seq(WStep) BY <1>1, <1>4, HeadType
  <2>8. sw' \in Switch /\ goal' \in Wanted /\ torn' \in BOOLEAN /\ view' \in Local BY <1>2 DEF WorkType
  <2>9. WorkType' BY <1>2, <2>6, <2>7, <2>8, Kept
  <2>10. ASSUME ~Failing' PROVE Good'
    <3>1. Good BY <2>10, <2>6 DEF Whole, Failing
    <3>2. ListInv' BY <1>1, <1>2, <1>4, <3>1, PopList DEF Good
    <3>3. \A b \in Bank : goal.rules[b] \subseteq sw.bank[b] BY <1>1, <3>1 DEF Good, RulesInv, At
    <3>4. RulesInv' BY <1>1, <1>2, <1>4, <3>1, <3>3, PopRules DEF Good
    <3>5. SelectInv' BY <1>1, <1>2, <1>4, <2>6, <3>1, PopSelect DEF Good, SelectInv
    <3>6. \A i \in 1..Len(todo') : todo'[i].op = "drain" BY <1>1, <1>4, <3>1, NextHead DEF Good, Later
    <3>7. Ops(todo') \subseteq {"drain"} BY <3>6 DEF Ops
    <3>8. "residual" \in Ops(todo) BY <1>1, <1>4, <3>1, NextHead DEF Good
    <3>9. job = "soak" => traffic # "measured" BY <3>1, <3>8 DEF Good, ListInv, MeasuredOps, Strict
    <3>10. job = "performance" => traffic # "measured" BY <1>1, <3>1 DEF Good, SelectInv, At
    <3>11. traffic # "measured" BY <3>9, <3>10 DEF WorkType
    <3>12. torn => job = "soak" /\ rep.rows = 0 /\ sw.sel = None BY <1>1, <3>1 DEF Good, EndInv, At
    <3>13. rep'.clean => Empty' BY <1>2, <2>6 DEF Empty, e
    <3>14. EndInv' BY <1>2, <2>6, <3>7, <3>11, <3>12, <3>13 DEF EndInv
    <3>. QED BY <3>2, <3>4, <3>5, <3>14 DEF Good
  <2>11. Whole' BY <2>10 DEF Whole
  <2>. QED BY <1>2, <2>6, <2>9, <2>11 DEF Quiet
<1>. QED BY <1>2, <1>3, <1>4

LEMMA RowStep ==
    ASSUME WorkType, Whole, job # "idle", AppendRow PROVE WorkType' /\ Whole' /\ Quiet
<1>1. todo # <<>> /\ Head(todo).op = "row" BY DEF AppendRow, At
<1>2. /\ todo' = Tail(todo) /\ rep' = [rep EXCEPT !.rows = @ + 1]
      /\ view' = (IF job = "soak" THEN [active |-> Bank1, rules |-> [view.rules EXCEPT ![Bank1] = Rules]] ELSE view)
      /\ UNCHANGED <<job, sw, traffic, turn, goal, torn, stream, verdict, faults>>
  BY DEF AppendRow
<1>3. Bank1 \in Bank /\ Rules \in Seq(Entry) /\ todo' \in Seq(WStep) BY <1>1, <1>2, HeadType
<1>4. view' \in Local BY <1>2, <1>3 DEF WorkType, Local
<1>5. rep' \in Report /\ rep'.err = rep.err /\ rep'.bad = rep.bad /\ rep'.clean = rep.clean /\ rep'.rows = rep.rows + 1
  <2>1. PICK r \in Report : r = rep BY DEF WorkType
  <2>2. [r EXCEPT !.rows = @ + 1] \in Report BY DEF Report
  <2>3. /\ [r EXCEPT !.rows = @ + 1].err = r.err /\ [r EXCEPT !.rows = @ + 1].bad = r.bad
        /\ [r EXCEPT !.rows = @ + 1].clean = r.clean BY DEF Report
  <2>4. [r EXCEPT !.rows = @ + 1].rows = r.rows + 1 BY DEF Report
  <2>. QED BY <1>2, <2>1, <2>2, <2>3, <2>4
<1>6. sw' \in Switch /\ goal' \in Wanted /\ torn' \in BOOLEAN BY <1>2 DEF WorkType
<1>7. WorkType' BY <1>2, <1>3, <1>4, <1>5, <1>6, Kept DEF NoFault
<1>8. ASSUME ~Failing' PROVE Good'
  <2>1. Good BY <1>8, <1>5 DEF Whole, Failing
  <2>2. CASE job = "performance" BY <1>1, <1>2, <1>5, <2>1, <2>2, PopGood
  <2>3. CASE job = "soak"
    <3>1. /\ Linked(job, view.active, todo') /\ FreshFrom(2, todo') /\ Ordered(job, todo') /\ Ending(todo')
          /\ "row" \in Ops(todo) /\ (Has("measure", todo) <=> Has("measure", todo'))
          /\ \A i \in 1..Len(todo') : Later(job, "row", todo'[i].op)
          /\ todo' # <<>> => Head(todo') = todo'[1]
      <4>1. todo' # <<>> => Head(todo') = todo[2] /\ todo'[1] = todo[2] BY <1>1, <1>2, <2>1, NextHead DEF Good
      <4>2. /\ Linked(job, view.active, todo') /\ FreshFrom(2, todo') /\ Ordered(job, todo') /\ Ending(todo')
            /\ "row" \in Ops(todo) /\ (Has("measure", todo) <=> Has("measure", todo'))
            /\ \A i \in 1..Len(todo') : Later(job, "row", todo'[i].op)
        BY <1>1, <1>2, <2>1, NextHead DEF Good
      <4>. QED BY <4>1, <4>2
    <3>2. ~Has("measure", todo) /\ traffic = "measured" BY <2>1, <2>3, <3>1 DEF Good, ListInv, SetupOps, CleanOps
    <3>3. \A i \in 1..Len(todo') : todo'[i].op \in CalmOps BY <2>3, <3>1 DEF Later, CalmOps
    <3>4. todo' # <<>> => Head(todo').op \in CalmOps
      <4>1. todo' # <<>> => 1 \in 1..Len(todo') BY <1>3, Lengths
      <4>. QED BY <3>1, <3>3, <4>1
    <3>5. Bank1 = 1 - view.active
      <4>1. 1 \in 1..Len(todo) /\ Head(todo) = todo[1] BY <1>1, HeadType
      <4>. QED BY <1>1, <2>1, <2>3, <3>2, <4>1 DEF Good, ListInv, Bank1
    <3>6. goal.bank = Bank1 BY <1>1, <2>1, <2>3, <3>2, <3>5 DEF Good, SelectInv, Strict
    <3>7. view'.active = Bank1 BY <1>2, <2>3
    <3>8. sw.sel = goal.bank BY <1>1, <2>1, <2>3, <3>2 DEF Good, SelectInv, Strict, At
    <3>9. ~torn BY <1>1, <1>3, <2>1, <3>6, <3>8 DEF Good, EndInv, At, Bank, None
    <3>10. ~rep.clean BY <2>1, <3>1 DEF Good, EndInv
    <3>11. Linked(job, view'.active, todo')
      <4>. SUFFICES ASSUME NEW i \in 1..Len(todo') - 1 PROVE Link(job, view'.active, todo'[i], todo'[i + 1]) BY DEF Linked
      <4>1. i \in 1..Len(todo') BY <1>3
      <4>2. todo'[i].op # "selected" BY <3>3, <4>1 DEF CalmOps
      <4>3. Link(job, view.active, todo'[i], todo'[i + 1]) BY <3>1 DEF Linked
      <4>. QED BY <4>2, <4>3 DEF Link
    <3>12. Ops(todo') \subseteq MeasuredOps BY <3>3 DEF Ops, CalmOps, MeasuredOps
    <3>13. \A i \in 1..Len(todo') : todo'[i].op \notin {"delete", "write", "readback", "row"} BY <3>3 DEF CalmOps
    <3>19. "end" \notin Ops(todo') BY <3>3 DEF Ops, CalmOps
    <3>14. ListInv' BY <1>2, <2>3, <3>1, <3>2, <3>11, <3>12, <3>13, <3>19 DEF ListInv
    <3>15. \A b \in Bank : goal.rules[b] \subseteq sw.bank[b] BY <1>1, <2>1 DEF Good, RulesInv, At
    <3>16. RulesInv' BY <1>1, <1>2, <2>1, <3>15, PopRules DEF Good
    <3>17. SelectInv' BY <1>2, <2>3, <3>1, <3>2, <3>4, <3>6, <3>7, <3>8 DEF SelectInv, At, CalmOps, Strict
    <3>18. EndInv' BY <1>2, <1>5, <3>9, <3>10 DEF EndInv
    <3>. QED BY <3>14, <3>16, <3>17, <3>18 DEF Good
  <2>. QED BY <2>2, <2>3 DEF WorkType
<1>9. Whole' BY <1>8 DEF Whole
<1>. QED BY <1>2, <1>5, <1>7, <1>9 DEF Quiet

LEMMA CallType ==
    ASSUME WorkType, sw' \in Switch, goal' \in Wanted, todo # <<>>, Raise \/ Advance, Watch, Fault \/ NoFault,
           UNCHANGED <<job, view, traffic, turn, stream, verdict>>
    PROVE  WorkType' /\ Quiet /\ (Raise => Whole')
<1>1. todo' \in Seq(WStep) /\ rep' \in Report /\ (rep.err => rep'.err) BY AdvanceType, RaiseType
<1>2. view' \in Local /\ torn' \in BOOLEAN BY WatchType DEF WorkType
<1>3. WorkType' BY <1>1, <1>2, Kept
<1>. QED BY <1>1, <1>3, RaiseWhole DEF Quiet

(* A call that is not Failing has advanced from a good state.              *)
LEMMA CallGood ==
    ASSUME Whole, job # "idle", UNCHANGED job, Raise => Whole', Raise \/ Advance, Good /\ Advance => Good'
    PROVE  Whole'
<1>1. CASE Raise BY <1>1
<1>2. CASE Advance BY <1>2 DEF Whole, Failing, Advance
<1>. QED BY <1>1, <1>2

LEMMA SetStep ==
    ASSUME WorkType, Whole, job # "idle", set_pipeline PROVE WorkType' /\ Whole' /\ Quiet
<1>. DEFINE L == [Blank EXCEPT !.loaded = TRUE]
<1>1. todo # <<>> /\ Head(todo).op = "set" BY DEF set_pipeline, At
<1>2. /\ goal' = Goal0 /\ sw' \in {sw, L} /\ (Raise \/ Advance) /\ (Fault \/ NoFault) /\ Watch
      /\ UNCHANGED <<job, view, traffic, turn, stream, verdict>>
  BY DEF set_pipeline, Call
<1>3. L \in Switch /\ L.sel = None BY SwitchType DEF Blank
<1>4. sw' \in Switch /\ goal' \in Wanted BY <1>2, <1>3, WantedType DEF WorkType
<1>5. WorkType' /\ Quiet /\ (Raise => Whole') BY <1>1, <1>2, <1>4, CallType
<1>. HIDE DEF L
<1>6. ASSUME Good, Advance PROVE Good'
  <2>1. todo' = Tail(todo) /\ rep' = rep BY <1>6 DEF Advance
  <2>2. "set" \in Ops(todo) BY <1>1, <1>6, <2>1, NextHead DEF Good
  <2>3. traffic # "measured"
    <3>1. job = "soak" => traffic # "measured" BY <1>6, <2>2 DEF Good, ListInv, MeasuredOps, Strict
    <3>2. job = "performance" => traffic # "measured" BY <1>1, <1>6 DEF Good, SelectInv, At
    <3>. QED BY <3>1, <3>2 DEF WorkType
  <2>4. torn' = torn BY <1>2, <2>3 DEF Watch, WorkType
  <2>5. ListInv' BY <1>1, <1>2, <1>6, <2>1, PopList DEF Good
  <2>6. goal'.bank = 0 /\ \A b \in Bank : goal'.rules[b] = {} BY <1>2 DEF Goal0
  <2>7. RulesInv' BY <1>1, <1>6, <2>1, <2>6, PopRules DEF Good
  <2>8. sw'.sel = None \/ sw'.sel = sw.sel BY <1>2, <1>3
  <2>9. torn => job = "soak" /\ rep.rows = 0 /\ sw.sel = None BY <1>1, <1>6 DEF Good, EndInv, At
  <2>10. EndInv' BY <1>1, <1>2, <1>6, <2>1, <2>4, <2>8, <2>9, PopEnd DEF Good
  <2>11. /\ Has("measure", todo) <=> Has("measure", todo')
         /\ todo' # <<>> => Link(job, view.active, Head(todo), Head(todo'))
    BY <1>1, <1>6, <2>1, NextHead DEF Good
  <2>12. ~At("selected")' /\ ~(job = "performance" /\ At("measure")') BY <1>1, <2>11 DEF At, Link, Strict
  <2>13. todo' # <<>> /\ job = "soak" => Head(todo').op \notin Strict("soak") BY <1>1, <2>11 DEF Link, Strict
  <2>14. job = "soak" /\ Has("measure", todo) => /\ view.active = 0 /\ goal.bank = 0 /\ ~torn /\ rep.rows = 0
                                                 /\ sw.sel = 0 \/ sw.sel = None
    BY <1>1, <1>6 DEF Good, SelectInv, At
  <2>15. SelectInv' BY <1>2, <2>1, <2>3, <2>4, <2>6, <2>8, <2>11, <2>12, <2>13, <2>14 DEF SelectInv
  <2>. QED BY <2>5, <2>7, <2>10, <2>15 DEF Good
<1>. QED BY <1>2, <1>5, <1>6, CallGood

LEMMA InfraStep ==
    ASSUME WorkType, Whole, job # "idle", install_infrastructure PROVE WorkType' /\ Whole' /\ Quiet
<1>1. todo # <<>> /\ Head(todo).op = "infra" BY DEF install_infrastructure, At
<1>2. /\ goal' = goal /\ (Raise \/ Advance) /\ (Fault \/ NoFault) /\ Watch
      /\ UNCHANGED <<job, view, traffic, turn, stream, verdict>>
  BY DEF install_infrastructure, Call
<1>3. sw' \in {[sw EXCEPT !.infra = i, !.sel = s] : i \in {sw.infra, TRUE}, s \in {sw.sel, 0}}
  BY DEF install_infrastructure, Call
<1>4. PICK i \in {sw.infra, TRUE}, s \in {sw.sel, 0} : sw' = [sw EXCEPT !.infra = i, !.sel = s] BY <1>3
<1>5. sw \in Switch /\ i \in BOOLEAN /\ s \in Bank \cup {None} BY DEF WorkType, Switch, Bank
<1>6. sw' \in Switch BY <1>4, <1>5, SwitchType
<1>7. sw'.bank = sw.bank /\ sw'.sel = s BY <1>4, <1>5 DEF Switch
<1>8. WorkType' /\ Quiet /\ (Raise => Whole') BY <1>1, <1>2, <1>6, CallType DEF WorkType
<1>9. ASSUME Good, Advance PROVE Good'
  <2>1. todo' = Tail(todo) /\ rep' = rep BY <1>9 DEF Advance
  <2>2. "infra" \in Ops(todo) BY <1>1, <1>9, <2>1, NextHead DEF Good
  <2>3. job = "soak" => traffic # "measured" /\ Has("measure", todo)
    BY <1>9, <2>2 DEF Good, ListInv, MeasuredOps, CleanOps, Strict
  <2>4. job = "performance" => traffic # "measured" BY <1>1, <1>9 DEF Good, SelectInv, At
  <2>5. traffic # "measured" BY <2>3, <2>4 DEF WorkType
  <2>6. ~torn
    <3>1. torn => job = "soak" BY <1>1, <1>9 DEF Good, EndInv, At
    <3>. QED BY <1>9, <2>3, <3>1 DEF Good, SelectInv
  <2>7. ~torn' BY <1>2, <2>5, <2>6 DEF Watch
  <2>8. ListInv' BY <1>1, <1>2, <1>9, <2>1, PopList DEF Good
  <2>9. \A b \in Bank : goal.rules[b] \subseteq sw.bank[b] BY <1>1, <1>9 DEF Good, RulesInv, At
  <2>10. RulesInv' BY <1>1, <1>2, <1>7, <1>9, <2>1, <2>9, PopRules DEF Good
  <2>11. EndInv' BY <1>1, <1>2, <1>9, <2>1, <2>7, PopEnd DEF Good
  <2>12. /\ Has("measure", todo) <=> Has("measure", todo')
         /\ todo' # <<>> => Link(job, view.active, Head(todo), Head(todo'))
    BY <1>1, <1>9, <2>1, NextHead DEF Good
  <2>13. ~At("selected")' /\ ~(job = "performance" /\ At("measure")') BY <1>1, <2>12 DEF At, Link, Strict
  <2>14. todo' # <<>> /\ job = "soak" => Head(todo').op \notin Strict("soak") BY <1>1, <2>12 DEF Link, Strict
  <2>15. job = "soak" => /\ view.active = 0 /\ goal.bank = 0 /\ rep.rows = 0
                         /\ sw.sel = 0 \/ sw.sel = None
    BY <1>1, <1>9, <2>3 DEF Good, SelectInv, At
  <2>16. sw'.sel = 0 \/ sw'.sel = sw.sel BY <1>7
  <2>17. SelectInv' BY <1>2, <2>1, <2>5, <2>7, <2>12, <2>13, <2>14, <2>15, <2>16 DEF SelectInv
  <2>. QED BY <2>8, <2>10, <2>11, <2>17 DEF Good
<1>. QED BY <1>2, <1>8, <1>9, CallGood

LEMMA FlipStep ==
    ASSUME WorkType, Whole, job # "idle", FlipSelector PROVE WorkType' /\ Whole' /\ Quiet
<1>. DEFINE F == [sw EXCEPT !.sel = Bank1]
<1>1. todo # <<>> /\ Head(todo).op = "flip" BY DEF FlipSelector, At
<1>2. /\ goal' = [goal EXCEPT !.bank = Bank1] /\ sw' \in {sw, F} /\ (Raise \/ Advance) /\ (Fault \/ NoFault) /\ Watch
      /\ UNCHANGED <<job, view, traffic, turn, stream, verdict>>
  BY DEF FlipSelector, Call
<1>3. Bank1 \in Bank BY <1>1, HeadType
<1>4. F \in Switch /\ F.sel = Bank1 /\ F.bank = sw.bank
  <2>1. sw \in Switch BY DEF WorkType
  <2>2. F \in Switch BY <1>3, <2>1, SwitchType
  <2>. QED BY <2>1, <2>2 DEF Switch
<1>5. goal' \in Wanted /\ goal'.bank = Bank1 /\ goal'.rules = goal.rules
  <2>1. goal \in Wanted BY DEF WorkType
  <2>2. goal' \in Wanted BY <1>2, <1>3, <2>1, WantedType
  <2>. QED BY <1>2, <2>1, <2>2 DEF Wanted
<1>6. sw' \in Switch BY <1>2, <1>4 DEF WorkType
<1>7. WorkType' /\ Quiet /\ (Raise => Whole') BY <1>1, <1>2, <1>5, <1>6, CallType
<1>8. sw.sel = None /\ Advance => Raise \/ sw' = sw BY DEF FlipSelector, Call
<1>. HIDE DEF F
<1>9. ASSUME Good, Advance, ~Raise PROVE Good'
  <2>1. todo' = Tail(todo) /\ rep' = rep BY <1>9 DEF Advance
  <2>2. /\ "flip" \in Ops(todo) /\ todo' # <<>> /\ Link(job, view.active, Head(todo), Head(todo'))
        /\ Has("measure", todo) <=> Has("measure", todo')
    BY <1>1, <1>9, <2>1, NextHead DEF Good
  <2>3. Head(todo').op = "selected" /\ Head(todo').bank = Bank1 BY <1>1, <2>2 DEF Link, Bank1
  <2>4. At("selected")' /\ Bank1' = Bank1 /\ ~At("measure")' BY <2>2, <2>3 DEF At, Bank1
  <2>5. ~(job = "performance" /\ traffic = "measured") BY <1>1, <1>9 DEF Good, SelectInv, At
  <2>6. job = "soak" => ~Has("measure", todo) BY <1>9, <2>2 DEF Good, ListInv, SetupOps
  <2>7. ListInv' BY <1>1, <1>2, <1>9, <2>1, PopList DEF Good
  <2>8. sw'.bank = sw.bank BY <1>2, <1>4
  <2>9. \A b \in Bank : goal.rules[b] \subseteq sw.bank[b] BY <1>1, <1>9 DEF Good, RulesInv, At
  <2>10. RulesInv' BY <1>1, <1>5, <1>9, <2>1, <2>8, <2>9, PopRules DEF Good
  <2>17. ~At("cleanup")' BY <2>3 DEF At
  <2>11. SelectInv' BY <1>2, <1>5, <2>2, <2>3, <2>4, <2>5, <2>6, <2>17 DEF SelectInv
  <2>12. ~rep.clean BY <1>9, <2>2 DEF Good, EndInv
  <2>13. torn => job = "soak" /\ rep.rows = 0 /\ sw.sel = None BY <1>1, <1>9 DEF Good, EndInv, At
  <2>14. torn' => torn \/ sw'.sel # Bank1
    <3>1. TornIn(sw', goal') => sw'.sel # Bank1 BY <1>3, <1>5, <2>8, <2>9 DEF TornIn
    <3>. QED BY <1>2, <3>1 DEF Watch
  <2>15. torn => sw'.sel = None BY <1>8, <1>9, <2>13
  <2>16. EndInv' BY <1>2, <2>1, <2>4, <2>12, <2>13, <2>14, <2>15 DEF EndInv
  <2>. QED BY <2>7, <2>10, <2>11, <2>16 DEF Good
<1>10. Good /\ Advance => Good' \/ Raise BY <1>9
<1>11. Raise => Whole' BY <1>7
<1>12. CASE Raise BY <1>7, <1>12
<1>13. CASE ~Raise BY <1>2, <1>7, <1>9, <1>13, CallGood
<1>. QED BY <1>12, <1>13

(* What a call met that leaves the selector and the bank in use alone.     *)
LEMMA WatchQuiet ==
    ASSUME WorkType, Good, job # "idle", todo # <<>>, Head(todo).op \in {"write", "delete", "overlay", "expire"}, Watch,
           UNCHANGED <<job, traffic>>, sw'.sel = sw.sel, goal'.bank = goal.bank,
           job = "soak" /\ traffic = "measured" => goal'.rules[goal.bank] \subseteq sw'.bank[goal.bank]
    PROVE  /\ torn' => job = "soak" /\ rep.rows = 0 /\ sw.sel = None
           /\ job = "soak" /\ Has("measure", todo) => ~torn'
<1>1. ~At("selected") /\ ~At("end") BY DEF At
<1>2. torn => job = "soak" /\ rep.rows = 0 /\ sw.sel = None BY <1>1 DEF Good, EndInv
<1>3. ~(job = "performance" /\ traffic = "measured") BY <1>1 DEF Good, SelectInv
<1>4. job = "soak" /\ Has("measure", todo) => ~torn /\ traffic # "measured" BY DEF Good, SelectInv
<1>5. job = "soak" /\ traffic = "measured" /\ TornIn(sw', goal') => sw.sel # goal.bank BY DEF TornIn
<1>6. job = "soak" /\ traffic = "measured" /\ sw.sel # goal.bank => rep.rows = 0 /\ sw.sel = None BY <1>1 DEF Good, SelectInv
<1>7. torn' => torn \/ (traffic = "measured" /\ TornIn(sw', goal')) BY DEF Watch
<1>8. job = "performance" \/ job = "soak" BY DEF WorkType
<1>. QED BY <1>2, <1>3, <1>4, <1>5, <1>6, <1>7, <1>8

LEMMA OverlayStep ==
    ASSUME WorkType, Whole, job # "idle", OverlayInsert \/ OverlayDelete PROVE WorkType' /\ Whole' /\ Quiet
<1>1. todo # <<>> /\ Head(todo).op \in {"overlay", "expire"} BY DEF OverlayInsert, OverlayDelete, At
<1>2. /\ goal' = goal /\ (Raise \/ Advance) /\ (Fault \/ NoFault) /\ Watch
      /\ UNCHANGED <<job, view, traffic, turn, stream, verdict>>
  BY DEF OverlayInsert, OverlayDelete, Call
<1>3. \E b \in BOOLEAN : sw' = sw \/ sw' = [sw EXCEPT !.overlay = b]
  BY DEF OverlayInsert, OverlayDelete, Call
<1>4. sw' \in Switch /\ sw'.sel = sw.sel /\ sw'.bank = sw.bank
  <2>1. PICK b \in BOOLEAN : sw' = sw \/ sw' = [sw EXCEPT !.overlay = b] BY <1>3
  <2>2. sw \in Switch BY DEF WorkType
  <2>3. [sw EXCEPT !.overlay = b] \in Switch BY <2>2, SwitchType
  <2>4. [sw EXCEPT !.overlay = b].sel = sw.sel /\ [sw EXCEPT !.overlay = b].bank = sw.bank BY <2>2 DEF Switch
  <2>. QED BY <2>1, <2>2, <2>3, <2>4
<1>5. WorkType' /\ Quiet /\ (Raise => Whole') BY <1>1, <1>2, <1>4, CallType DEF WorkType
<1>6. ASSUME Good, Advance PROVE Good'
  <2>1. todo' = Tail(todo) /\ rep' = rep BY <1>6 DEF Advance
  <2>2. \A b \in Bank : goal.rules[b] \subseteq sw.bank[b] BY <1>1, <1>6 DEF Good, RulesInv, At
  <2>3. goal.bank \in Bank BY DEF WorkType, Wanted
  <2>4. /\ torn' => job = "soak" /\ rep.rows = 0 /\ sw.sel = None
        /\ job = "soak" /\ Has("measure", todo) => ~torn'
    BY <1>1, <1>2, <1>4, <1>6, <2>2, <2>3, WatchQuiet
  <2>5. ListInv' BY <1>1, <1>2, <1>6, <2>1, PopList DEF Good
  <2>6. RulesInv' BY <1>1, <1>2, <1>4, <1>6, <2>1, <2>2, PopRules DEF Good
  <2>7. SelectInv' BY <1>1, <1>2, <1>4, <1>6, <2>1, <2>4, PopSelect DEF Good
  <2>8. EndInv' BY <1>1, <1>2, <1>4, <1>6, <2>1, <2>4, PopEnd DEF Good
  <2>. QED BY <2>5, <2>6, <2>7, <2>8 DEF Good
<1>. QED BY <1>2, <1>5, <1>6, CallGood

(* One RPC of write_batched: the step is done, or its rules get fewer.     *)
LEMMA RestIs ==
    ASSUME WorkType, todo # <<>>, NEW t, t = Rest
    PROVE  /\ t \in Seq(WStep)
           /\ \/ Len(Rules) <= Batch /\ t = Tail(todo)
              \/ /\ Len(Rules) > Batch /\ Len(t) = Len(todo) /\ t # <<>> /\ Head(t) = t[1]
                 /\ t[1].op = Head(todo).op /\ t[1].bank = Head(todo).bank
                 /\ t[1].rules = SubSeq(Rules, Batch + 1, Len(Rules))
                 /\ \A i \in 2..Len(todo) : t[i] = todo[i]
<1>1. /\ Head(todo) = todo[1] /\ todo[1] \in WStep /\ Rules \in Seq(Entry) /\ Tail(todo) \in Seq(WStep)
      /\ Len(Tail(todo)) = Len(todo) - 1 /\ Len(todo) \in Nat /\ Len(todo) >= 1
      /\ \A i \in 1..Len(todo) - 1 : Tail(todo)[i] = todo[i + 1]
  BY HeadType
<1>2. CASE Len(Rules) <= Batch BY <1>1, <1>2 DEF Rest
<1>3. CASE ~(Len(Rules) <= Batch)
  <2>. DEFINE q == SubSeq(Rules, Batch + 1, Len(Rules))
              x == [Head(todo) EXCEPT !.rules = q]
  <2>1. Len(Rules) > Batch
    <3>1. Len(Rules) \in Nat /\ Batch \in Nat BY <1>1, Numbers
    <3>. QED BY <1>3, <3>1
  <2>2. q \in Seq(Entry) BY <1>1, Numbers
  <2>3. Rest = <<x>> \o Tail(todo) BY <1>3 DEF Rest, Rules
  <2>. HIDE DEF q
  <2>4. x \in WStep /\ x.op = Head(todo).op /\ x.bank = Head(todo).bank /\ x.rules = q BY <1>1, <2>2 DEF WStep
  <2>. HIDE DEF x
  <2>5. PICK u : u = Tail(todo) OBVIOUS
  <2>6. PICK n \in Nat : n = Len(todo) /\ n >= 1 BY <1>1
  <2>7. t = <<x>> \o u /\ u \in Seq(WStep) /\ Len(u) = n - 1 /\ \A i \in 1..n - 1 : u[i] = todo[i + 1]
    BY <1>1, <2>3, <2>5, <2>6
  <2>8. t \in Seq(WStep) /\ Len(t) = n /\ t[1] = x /\ \A i \in 2..n : t[i] = u[i - 1]
    <3>1. <<x>> \in Seq(WStep) /\ Len(<<x>>) = 1 /\ <<x>>[1] = x BY <2>4
    <3>2. PICK w : w = <<x>> OBVIOUS
    <3>3. /\ t = w \o u /\ w \in Seq(WStep) /\ Len(w) = 1 /\ w[1] = x /\ u \in Seq(WStep) /\ Len(u) = n - 1
      BY <2>7, <3>1, <3>2
    <3>4. /\ w \o u \in Seq(WStep) /\ Len(w \o u) = Len(w) + Len(u)
          /\ \A i \in 1..Len(w) + Len(u) : (w \o u)[i] = IF i <= Len(w) THEN w[i] ELSE u[i - Len(w)]
      BY <3>3, ConcatProperties
    <3>5. Len(w) + Len(u) = n BY <3>3, <2>6
    <3>6. \A i \in 1..n : t[i] = IF i <= 1 THEN w[i] ELSE u[i - 1] BY <3>3, <3>4, <3>5
    <3>7. t \in Seq(WStep) /\ Len(t) = n BY <3>3, <3>4, <3>5
    <3>8. t[1] = x BY <3>3, <3>6, <2>6
    <3>9. \A i \in 2..n : i \in 1..n /\ ~(i <= 1) BY <2>6
    <3>. QED BY <3>6, <3>7, <3>8, <3>9
  <2>9. \A i \in 2..n : t[i] = todo[i]
    <3>. TAKE i \in 2..n
    <3>1. i - 1 \in 1..n - 1 /\ (i - 1) + 1 = i BY <2>6
    <3>. QED BY <2>7, <2>8, <3>1
  <2>10. t # <<>> /\ Head(t) = t[1]
    <3>1. t # <<>> BY <2>6, <2>8, EmptySeq
    <3>. QED BY <2>8, <3>1
  <2>. QED BY <2>1, <2>4, <2>6, <2>8, <2>9, <2>10 DEF q
<1>. QED BY <1>2, <1>3

(* A list whose first step lost some of its rules.                         *)
LEMMA KeptHead ==
    ASSUME WorkType, ListInv, todo # <<>>, todo' \in Seq(WStep), Len(todo') = Len(todo), Head(todo).op \in {"write", "delete"},
           todo'[1].op = Head(todo).op, todo'[1].bank = Head(todo).bank, \A i \in 2..Len(todo) : todo'[i] = todo[i],
           UNCHANGED <<job, view, traffic>>
    PROVE  ListInv' /\ Ops(todo') = Ops(todo) /\ (Has("measure", todo') <=> Has("measure", todo))
<1>1. PICK n \in Nat : n = Len(todo) /\ n >= 1 /\ n = Len(todo') BY HeadType
<1>2. Head(todo) = todo[1] BY HeadType
<1>3. \A i \in 1..n : todo'[i].op = todo[i].op /\ todo'[i].bank = todo[i].bank
  <2>. TAKE i \in 1..n
  <2>1. i = 1 \/ i \in 2..n BY <1>1
  <2>. QED BY <1>1, <1>2, <2>1
<1>4. Linked(job, view.active, todo')
  <2>. SUFFICES ASSUME NEW i \in 1..n - 1 PROVE Link(job, view.active, todo'[i], todo'[i + 1]) BY <1>1 DEF Linked
  <2>1. i \in 1..n /\ i + 1 \in 1..n BY <1>1
  <2>2. Link(job, view.active, todo[i], todo[i + 1]) BY <1>1 DEF ListInv, Linked
  <2>3. todo'[i].op = todo[i].op /\ todo'[i].bank = todo[i].bank /\ todo'[i + 1].op = todo[i + 1].op /\ todo'[i + 1].bank = todo[i + 1].bank
    BY <1>3, <2>1
  <2>. QED BY <2>2, <2>3 DEF Link
<1>5. FreshFrom(2, todo')
  <2>. SUFFICES ASSUME NEW i \in 2..n - 1 PROVE Fresh(todo'[i], todo'[i + 1]) BY <1>1 DEF FreshFrom
  <2>1. i \in 2..n /\ i + 1 \in 2..n BY <1>1
  <2>2. todo'[i] = todo[i] /\ todo'[i + 1] = todo[i + 1] BY <1>1, <2>1
  <2>3. Fresh(todo[i], todo[i + 1]) BY <1>1 DEF ListInv, FreshFrom
  <2>. QED BY <2>2, <2>3
<1>6. Ordered(job, todo') BY <1>1, <1>3 DEF ListInv, Ordered
<1>7. Ending(todo')
  <2>1. n \in 1..n BY <1>1
  <2>2. todo'[n].op = todo[n].op BY <1>3, <2>1
  <2>. QED BY <1>1, <2>2 DEF ListInv, Ending
<1>8. Ops(todo') = Ops(todo) BY <1>1, <1>3 DEF Ops
<1>9. Has("measure", todo') <=> Has("measure", todo) BY <1>1, <1>3 DEF Has
<1>10. job = "soak" /\ traffic = "measured" =>
         \A i \in 1..Len(todo') : todo'[i].op \in {"delete", "write", "readback", "row"} => todo'[i].bank = 1 - view.active
  BY <1>1, <1>3 DEF ListInv
<1>11. /\ job = "soak" /\ Has("measure", todo') => Ops(todo') \subseteq SetupOps
       /\ job = "soak" /\ traffic = "measured" => Ops(todo') \subseteq MeasuredOps
       /\ job = "soak" /\ traffic # "measured" /\ ~Has("measure", todo') => Ops(todo') \subseteq CleanOps
       /\ job = "performance" => Ops(todo') \subseteq PerfOps
       /\ job = "soak" /\ traffic = "measured" /\ "end" \in Ops(todo') => Ops(todo') \subseteq {"end", "cleanup"}
  BY <1>8, <1>9 DEF ListInv
<1>12. ListInv' BY <1>4, <1>5, <1>6, <1>7, <1>10, <1>11 DEF ListInv
<1>. QED BY <1>8, <1>9, <1>12

(* The selector after an RPC of write_batched, with the report.            *)
LEMMA BatchSelect ==
    ASSUME WorkType, Good, job # "idle", todo # <<>>, Head(todo).op \in {"write", "delete"}, todo' = Rest,
           UNCHANGED <<job, view, traffic, rep>>, sw'.sel = sw.sel, goal'.bank = goal.bank, Watch,
           job = "soak" /\ traffic = "measured" => goal'.rules[goal.bank] \subseteq sw'.bank[goal.bank]
    PROVE  ListInv' /\ SelectInv' /\ EndInv'
<1>1. /\ torn' => job = "soak" /\ rep.rows = 0 /\ sw.sel = None
      /\ job = "soak" /\ Has("measure", todo) => ~torn'
  BY WatchQuiet
<1>2. CASE todo' = Tail(todo)
  <2>1. ListInv' BY <1>2, PopList DEF Good
  <2>2. SelectInv' BY <1>1, <1>2, PopSelect DEF Good
  <2>3. EndInv' BY <1>1, <1>2, PopEnd DEF Good
  <2>. QED BY <2>1, <2>2, <2>3
<1>3. CASE /\ Len(todo') = Len(todo) /\ todo' # <<>> /\ Head(todo') = todo'[1]
           /\ todo'[1].op = Head(todo).op /\ todo'[1].bank = Head(todo).bank
           /\ \A i \in 2..Len(todo) : todo'[i] = todo[i]
  <2>1. todo' \in Seq(WStep) BY RestIs
  <2>2. ListInv' /\ Ops(todo') = Ops(todo) /\ (Has("measure", todo') <=> Has("measure", todo))
    BY <1>3, <2>1, KeptHead DEF Good
  <2>3. Head(todo').op = Head(todo).op BY <1>3
  <2>4. ~At("selected")' /\ ~At("measure")' /\ ~At("end") /\ ~At("selected") BY <2>3 DEF At
  <2>5. ~(job = "performance" /\ traffic = "measured") BY <2>4 DEF Good, SelectInv
  <2>6. job = "soak" /\ (traffic = "measured" \/ Has("measure", todo)) =>
         \/ sw.sel = goal.bank
         \/ sw.sel = None /\ rep.rows = 0 /\ Head(todo).op \notin Strict("soak")
    BY <2>4 DEF Good, SelectInv
  <2>7. job = "soak" /\ Has("measure", todo) => view.active = 0 /\ goal.bank = 0 /\ ~torn' /\ rep.rows = 0 /\ traffic # "measured"
    BY <1>1 DEF Good, SelectInv
  <2>8. job = "soak" /\ traffic = "measured" =>
          goal.bank = IF Head(todo).op \in Strict("soak") THEN 1 - view.active ELSE view.active
    BY DEF Good, SelectInv
  <2>13. ~At("cleanup")' BY <2>3 DEF At
  <2>9. SelectInv' BY <2>2, <2>3, <2>4, <2>5, <2>6, <2>7, <2>8, <2>13 DEF SelectInv
  <2>10. Head(todo).op \in Ops(todo)
    <3>1. Head(todo) = todo[1] /\ 1 \in 1..Len(todo) BY HeadType
    <3>. QED BY <3>1, OpsIs
  <2>11. ~rep.clean BY <2>10 DEF Good, EndInv
  <2>12. EndInv' BY <1>1, <2>11 DEF EndInv
  <2>. QED BY <2>2, <2>9, <2>12
<1>. QED BY <1>2, <1>3, RestIs

LEMMA BatchType ==
    ASSUME WorkType, todo # <<>>, sw' \in Switch, goal' \in Wanted, Raise \/ (todo' = Rest /\ UNCHANGED rep), Watch,
           Fault \/ NoFault, UNCHANGED <<job, view, traffic, turn, stream, verdict>>
    PROVE  WorkType' /\ Quiet /\ (Raise => Whole')
<1>1. todo' = Rest => todo' \in Seq(WStep) BY RestIs
<1>2. todo' \in Seq(WStep) /\ rep' \in Report /\ (rep.err => rep'.err) BY <1>1, RaiseType DEF WorkType
<1>3. view' \in Local /\ torn' \in BOOLEAN BY WatchType DEF WorkType
<1>4. WorkType' BY <1>2, <1>3, Kept
<1>. QED BY <1>2, <1>4, RaiseWhole DEF Quiet

LEMMA UpdatesType == ASSUME WorkType, todo # <<>> PROVE Updates \subseteq Entry /\ ToSet(Rules) \subseteq Entry
<1>1. Rules \in Seq(Entry) BY HeadType
<1>2. \A i \in DOMAIN Rules : Rules[i] \in Entry BY <1>1
<1>. QED BY <1>2 DEF Updates, ToSet

BankPut(s, b, S, r) ==
    r \in Switch /\ r.sel = s.sel /\ r.overlay = s.overlay /\ r.bank[b] = S /\ \A c \in Bank : c # b => r.bank[c] = s.bank[c]
GoalPut(g, b, S, r) ==
    r \in Wanted /\ r.bank = g.bank /\ r.rules[b] = S /\ \A c \in Bank : c # b => r.rules[c] = g.rules[c]

LEMMA BankIs == \A s \in Switch, b \in Bank, S \in SUBSET Entry : BankPut(s, b, S, [s EXCEPT !.bank[b] = S])
<1>. TAKE s \in Switch, b \in Bank, S \in SUBSET Entry
<1>. DEFINE r == [s EXCEPT !.bank[b] = S]
<1>1. r \in Switch BY SwitchType
<1>2. r.sel = s.sel /\ r.overlay = s.overlay BY DEF Switch
<1>3. r.bank[b] = S /\ \A c \in Bank : c # b => r.bank[c] = s.bank[c] BY DEF Switch
<1>. QED BY <1>1, <1>2, <1>3 DEF BankPut

LEMMA GoalIs == \A g \in Wanted, b \in Bank, S \in SUBSET Entry : GoalPut(g, b, S, [g EXCEPT !.rules[b] = S])
<1>. TAKE g \in Wanted, b \in Bank, S \in SUBSET Entry
<1>. DEFINE r == [g EXCEPT !.rules[b] = S]
<1>1. r \in Wanted BY WantedType
<1>2. r.bank = g.bank BY DEF Wanted
<1>3. r.rules[b] = S /\ \A c \in Bank : c # b => r.rules[c] = g.rules[c] BY DEF Wanted
<1>. QED BY <1>1, <1>2, <1>3 DEF GoalPut

(* A measured soak writes to the bank that is not in use.                  *)
LEMMA NotInUse ==
    ASSUME WorkType, Good, todo # <<>>, Head(todo).op \in {"write", "delete"}, job = "soak", traffic = "measured"
    PROVE  goal.bank \in Bank /\ goal.bank # Bank1
<1>1. Head(todo) = todo[1] /\ 1 \in 1..Len(todo) BY HeadType
<1>2. Bank1 = 1 - view.active BY <1>1 DEF Good, ListInv, Bank1
<1>3. goal.bank = view.active BY DEF Good, SelectInv, Strict
<1>4. view.active \in Bank BY DEF WorkType, Local
<1>. QED BY <1>2, <1>3, <1>4 DEF Bank

LEMMA DeleteStep ==
    ASSUME WorkType, Whole, job # "idle", delete_rules PROVE WorkType' /\ Whole' /\ Quiet
<1>1. todo # <<>> /\ Head(todo).op = "delete" BY DEF delete_rules, At
<1>2. /\ goal' = [goal EXCEPT !.rules[Bank1] = {}] /\ (Raise \/ (todo' = Rest /\ UNCHANGED rep)) /\ (Fault \/ NoFault) /\ Watch
      /\ UNCHANGED <<job, view, traffic, turn, stream, verdict>>
  BY DEF delete_rules, WriteBatch
<1>3. \E S \in SUBSET Updates : sw' = [sw EXCEPT !.bank[Bank1] = sw.bank[Bank1] \ S]
  BY DEF delete_rules, WriteBatch
<1>4. PICK S \in SUBSET Updates : sw' = [sw EXCEPT !.bank[Bank1] = sw.bank[Bank1] \ S] BY <1>3
<1>5. Bank1 \in Bank /\ sw \in Switch /\ goal \in Wanted BY <1>1, HeadType DEF WorkType
<1>6. PICK T \in SUBSET Entry : sw' = [sw EXCEPT !.bank[Bank1] = T]
  <2>1. sw.bank[Bank1] \ S \in SUBSET Entry BY <1>5 DEF Switch
  <2>. QED BY <1>4, <2>1
<1>7. BankPut(sw, Bank1, T, sw') BY <1>5, <1>6, BankIs
<1>8. GoalPut(goal, Bank1, {}, goal')
  <2>1. {} \in SUBSET Entry OBVIOUS
  <2>. QED BY <1>2, <1>5, <2>1, GoalIs
<1>. USE DEF BankPut, GoalPut
<1>9. WorkType' /\ Quiet /\ (Raise => Whole') BY <1>1, <1>2, <1>7, <1>8, BatchType
<1>10. ASSUME Good, todo' = Rest, UNCHANGED rep PROVE Good'
  <2>1. \A b \in Bank : goal.rules[b] \subseteq sw.bank[b] BY <1>1, <1>10 DEF Good, RulesInv, At
  <2>2. \A b \in Bank : goal'.rules[b] \subseteq sw'.bank[b] BY <1>7, <1>8, <2>1
  <2>3. goal.bank \in Bank BY <1>5 DEF Wanted
  <2>4. ListInv' /\ SelectInv' /\ EndInv' BY <1>1, <1>2, <1>7, <1>8, <1>10, <2>2, <2>3, BatchSelect
  <2>5. RulesInv'
    <3>1. CASE todo' = Tail(todo) BY <1>1, <1>10, <2>2, <3>1, PopRules DEF Good
    <3>2. CASE todo' # <<>> /\ Head(todo') = todo'[1] /\ todo'[1].op = Head(todo).op
      BY <1>1, <2>2, <3>2 DEF RulesInv, At
    <3>. QED BY <1>1, <1>10, <3>1, <3>2, RestIs
  <2>. QED BY <2>4, <2>5 DEF Good
<1>11. Whole'
  <2>1. CASE Raise BY <1>9, <2>1
  <2>2. CASE todo' = Rest /\ UNCHANGED rep BY <1>2, <1>10, <2>2 DEF Whole, Failing
  <2>. QED BY <1>2, <2>1, <2>2
<1>. QED BY <1>9, <1>11

LEMMA EmptyWriteStep ==
    ASSUME WorkType, Whole, job # "idle", write_rules, Rules = <<>> PROVE WorkType' /\ Whole' /\ Quiet
<1>1. todo # <<>> /\ Head(todo).op = "write" BY DEF write_rules, At
<1>2. /\ UNCHANGED <<job, sw, view, traffic, turn, stream, verdict, faults>>
      /\ Advance /\ goal' = [goal EXCEPT !.rules[Bank1] = {}] /\ Watch
  BY DEF write_rules
<1>3. Bank1 \in Bank /\ sw \in Switch /\ goal \in Wanted BY <1>1, HeadType DEF WorkType
<1>4. GoalPut(goal, Bank1, {}, goal')
  <2>1. {} \in SUBSET Entry OBVIOUS
  <2>. QED BY <1>2, <1>3, <2>1, GoalIs
<1>. USE DEF GoalPut
<1>5. WorkType' /\ Quiet /\ (Raise => Whole') BY <1>1, <1>2, <1>3, <1>4, CallType DEF NoFault
<1>6. ASSUME Good, Advance PROVE Good'
  <2>1. todo' = Tail(todo) /\ rep' = rep BY <1>6 DEF Advance
  <2>2. job = "soak" /\ traffic = "measured" => goal'.rules[goal.bank] \subseteq sw'.bank[goal.bank]
    <3>. HAVE job = "soak" /\ traffic = "measured"
    <3>1. goal.bank \in Bank /\ goal.bank # Bank1 BY <1>1, <1>6, NotInUse
    <3>2. goal.rules[goal.bank] \subseteq sw.bank[goal.bank] BY <1>6, <3>1 DEF Good, RulesInv
    <3>. QED BY <1>2, <1>4, <3>1, <3>2
  <2>3. /\ torn' => job = "soak" /\ rep.rows = 0 /\ sw.sel = None
        /\ job = "soak" /\ Has("measure", todo) => ~torn'
    BY <1>1, <1>2, <1>4, <1>6, <2>2, WatchQuiet
  <2>4. ListInv' BY <1>1, <1>2, <1>6, <2>1, PopList DEF Good
  <2>5. SelectInv' BY <1>1, <1>2, <1>4, <1>6, <2>1, <2>3, PopSelect DEF Good
  <2>6. EndInv' BY <1>1, <1>2, <1>6, <2>1, <2>3, PopEnd DEF Good
  <2>7. todo' # <<>> /\ Link(job, view.active, Head(todo), Head(todo')) BY <1>1, <1>6, <2>1, NextHead DEF Good
  <2>8. Head(todo').op \in {"readback", "initial"} /\ Head(todo').bank = Bank1 BY <1>1, <2>7 DEF Link, Bank1
  <2>9. \A b \in Bank : b # Bank1 => goal'.rules[b] \subseteq sw'.bank[b] BY <1>2, <1>4, <1>6 DEF Good, RulesInv
  <2>10. RulesInv' BY <1>4, <2>7, <2>8, <2>9 DEF RulesInv, At, Bank1
  <2>. QED BY <2>4, <2>5, <2>6, <2>10 DEF Good
<1>. QED BY <1>2, <1>5, <1>6, CallGood

LEMMA WriteStep ==
    ASSUME WorkType, Whole, job # "idle", write_rules, Rules # <<>> PROVE WorkType' /\ Whole' /\ Quiet
<1>1. todo # <<>> /\ Head(todo).op = "write" BY DEF write_rules, At
<1>2. /\ goal' = [goal EXCEPT !.rules[Bank1] = IF Rules[1][1] = "drop" THEN ToSet(Rules) ELSE @]
      /\ (Raise \/ (todo' = Rest /\ UNCHANGED rep)) /\ (Fault \/ NoFault) /\ Watch
      /\ UNCHANGED <<job, view, traffic, turn, stream, verdict>>
  BY DEF write_rules, WriteBatch
<1>3. \E S \in SUBSET Updates : sw' = [sw EXCEPT !.bank[Bank1] = sw.bank[Bank1] \cup S]
  BY DEF write_rules, WriteBatch
<1>4. PICK S \in SUBSET Updates : sw' = [sw EXCEPT !.bank[Bank1] = sw.bank[Bank1] \cup S] BY <1>3
<1>5. Bank1 \in Bank /\ sw \in Switch /\ goal \in Wanted /\ Rules \in Seq(Entry) BY <1>1, HeadType DEF WorkType
<1>6. PICK T \in SUBSET Entry : sw' = [sw EXCEPT !.bank[Bank1] = T]
  <2>1. Updates \subseteq Entry BY <1>1, UpdatesType
  <2>2. sw.bank[Bank1] \subseteq Entry BY <1>5 DEF Switch
  <2>3. sw.bank[Bank1] \cup S \in SUBSET Entry BY <2>1, <2>2
  <2>. QED BY <1>4, <2>3
<1>7. BankPut(sw, Bank1, T, sw') BY <1>5, <1>6, BankIs
<1>. DEFINE G == IF Rules[1][1] = "drop" THEN ToSet(Rules) ELSE goal.rules[Bank1]
<1>8. G \in SUBSET Entry
  <2>1. ToSet(Rules) \subseteq Entry BY <1>1, UpdatesType
  <2>2. goal.rules[Bank1] \subseteq Entry BY <1>5 DEF Wanted
  <2>. QED BY <2>1, <2>2
<1>9. goal' = [goal EXCEPT !.rules[Bank1] = G] BY <1>2
<1>. HIDE DEF G
<1>10. GoalPut(goal, Bank1, G, goal') BY <1>5, <1>8, <1>9, GoalIs
<1>. USE DEF BankPut, GoalPut
<1>11. WorkType' /\ Quiet /\ (Raise => Whole') BY <1>1, <1>2, <1>7, <1>10, BatchType
<1>12. ASSUME Good, todo' = Rest, UNCHANGED rep PROVE Good'
  <2>1. job = "soak" /\ traffic = "measured" => goal'.rules[goal.bank] \subseteq sw'.bank[goal.bank]
    <3>. HAVE job = "soak" /\ traffic = "measured"
    <3>1. goal.bank \in Bank /\ goal.bank # Bank1 BY <1>1, <1>12, NotInUse
    <3>2. goal.rules[goal.bank] \subseteq sw.bank[goal.bank] BY <1>12, <3>1 DEF Good, RulesInv
    <3>. QED BY <1>7, <1>10, <3>1, <3>2
  <2>2. ListInv' /\ SelectInv' /\ EndInv' BY <1>1, <1>2, <1>7, <1>10, <1>12, <2>1, BatchSelect
  <2>3. \A b \in Bank : b # Bank1 => goal'.rules[b] \subseteq sw'.bank[b] BY <1>7, <1>10, <1>12 DEF Good, RulesInv
  <2>4. PICK m \in Nat : m = Len(Rules) /\ m >= 1 BY <1>5, Lengths
  <2>5. Head(todo) = todo[1] /\ Rules = todo[1].rules /\ Len(todo) \in Nat BY <1>1, HeadType DEF Rules
  <2>6. G \subseteq ToSet(todo[2].rules) /\ \A i \in 2..m : Rules[i][1] = "permit"
    <3>1. CASE Fresh(todo[1], todo[2])
      <4>1. Rules = todo[2].rules /\ \A i \in 1..m : Rules[i][1] = (IF i = 1 THEN "drop" ELSE "permit")
        BY <1>1, <2>4, <2>5, <3>1 DEF Fresh, Baseline
      <4>2. Rules[1][1] = "drop" BY <4>1, <2>4
      <4>3. \A i \in 2..m : i \in 1..m /\ i # 1 BY <2>4
      <4>. QED BY <4>1, <4>2, <4>3 DEF G
    <3>2. CASE /\ goal.rules[Bank1] \subseteq ToSet(todo[2].rules)
               /\ \A i \in 1..Len(Rules) : Rules[i][1] = "permit"
      <4>1. Rules[1][1] = "permit" BY <2>4, <3>2
      <4>2. \A i \in 2..m : i \in 1..m BY <2>4
      <4>. QED BY <2>4, <3>2, <4>1, <4>2 DEF G
    <3>. QED BY <1>1, <1>12, <3>1, <3>2 DEF Good, RulesInv, At
  <2>7. RulesInv'
    <3>1. CASE todo' = Tail(todo)
      <4>1. todo' # <<>> /\ Head(todo') = todo[2] /\ Link(job, view.active, Head(todo), Head(todo'))
        BY <1>1, <1>12, <3>1, NextHead DEF Good
      <4>2. Head(todo').op \in {"readback", "initial"} /\ Head(todo').bank = Bank1 BY <1>1, <4>1 DEF Link, Bank1
      <4>. QED BY <1>10, <2>3, <2>6, <4>1, <4>2 DEF RulesInv, At, Bank1, Rules
    <3>2. CASE /\ Len(Rules) > Batch /\ Len(todo') = Len(todo) /\ todo' # <<>> /\ Head(todo') = todo'[1]
               /\ todo'[1].op = Head(todo).op /\ todo'[1].bank = Head(todo).bank
               /\ todo'[1].rules = SubSeq(Rules, Batch + 1, Len(Rules))
               /\ \A i \in 2..Len(todo) : todo'[i] = todo[i]
      <4>. DEFINE q == SubSeq(Rules, Batch + 1, m)
      <4>1. Batch \in Nat /\ Batch > 0 /\ Batch < m BY <2>4, <3>2, Numbers
      <4>2. \A i \in Batch + 1..m : Rules[i] \in Entry BY <1>5, <2>4, <4>1
      <4>3. Len(q) = m - (Batch + 1) + 1 /\ \A i \in 1..m - (Batch + 1) + 1 : q[i] = Rules[Batch + 1 + i - 1]
        <5>1. Batch + 1 \in Int /\ m \in Int /\ Batch + 1 <= m BY <4>1, <2>4
        <5>. QED BY <4>2, <5>1, SubSeqProperties
      <4>. HIDE DEF q
      <4>4. q # <<>>
        <5>1. Len(q) # 0 BY <4>1, <4>3
        <5>. QED BY <5>1, EmptySeq
      <4>5. \A i \in 1..Len(q) : q[i][1] = "permit"
        <5>. TAKE i \in 1..Len(q)
        <5>1. i \in 1..m - (Batch + 1) + 1 /\ Batch + 1 + i - 1 \in 2..m BY <4>1, <4>3, <2>4
        <5>. QED BY <2>6, <4>3, <5>1
      <4>6. Rules' = q BY <2>4, <3>2 DEF Rules, q
      <4>7. todo'[2] = todo[2]
        <5>1. Len(todo) # 1 BY <1>1, <1>12, <2>5 DEF Good, ListInv, Ending
        <5>2. 2 \in 2..Len(todo)
          <6>1. Len(todo) >= 1 /\ Len(todo) \in Nat BY <1>1, HeadType
          <6>. QED BY ONLY <5>1, <6>1
        <5>. QED BY <3>2, <5>2
      <4>8. Bank1' = Bank1 /\ At("write")' /\ ~At("readback")' /\ ~At("initial")' BY <1>1, <3>2 DEF Bank1, At
      <4>. QED BY <1>10, <2>3, <2>6, <4>4, <4>5, <4>6, <4>7, <4>8 DEF RulesInv
    <3>. QED BY <1>1, <1>12, <3>1, <3>2, RestIs
  <2>. QED BY <2>2, <2>7 DEF Good
<1>13. Whole'
  <2>1. CASE Raise BY <1>11, <2>1
  <2>2. CASE todo' = Rest /\ UNCHANGED rep BY <1>2, <1>12, <2>2 DEF Whole, Failing
  <2>. QED BY <1>2, <2>1, <2>2
<1>. QED BY <1>11, <1>13

-----------------------------------------------------------------------------
(* The stream, the traffic and the turns.  What was lost is in the report, *)
(* or the drain that lost it will raise.                                   *)
HintInv == stream.lost => rep.err \/ (At("drain") /\ ~stream.alive)

LEMMA HintQuiet == ASSUME HintInv, Quiet, ~At("drain") PROVE HintInv'
BY DEF HintInv, Quiet

LEMMA SameGood == ASSUME Whole, UNCHANGED <<job, todo, sw, view, rep, traffic, goal, torn>> PROVE Whole'
<1>1. At("write")' = At("write") /\ At("readback")' = At("readback") /\ At("initial")' = At("initial")
      /\ At("selected")' = At("selected") /\ At("measure")' = At("measure") /\ At("cleanup")' = At("cleanup")
      /\ At("end")' = At("end") BY DEF At
<1>2. Bank1' = Bank1 /\ Rules' = Rules /\ Failing' = Failing /\ Empty' = Empty BY DEF Bank1, Rules, Failing, Empty
<1>3. ListInv => ListInv' BY DEF ListInv
<1>4. RulesInv => RulesInv' BY <1>1, <1>2 DEF RulesInv
<1>5. SelectInv => SelectInv' BY <1>1, <1>2 DEF SelectInv
<1>6. EndInv => EndInv' BY <1>1, <1>2 DEF EndInv
<1>. QED BY <1>2, <1>3, <1>4, <1>5, <1>6 DEF Whole, Good

LEMMA TakeType ==
    ASSUME WorkType, stream.len > 0, NEW a \in BOOLEAN, Take(a), a => ~OverLimit
    PROVE  stream' \in Channel /\ stream'.alive = stream.alive /\ (stream'.lost => stream.lost \/ ~a \/ ~stream.alive)
<1>1. PICK c \in Channel : c = stream BY DEF WorkType
<1>2. PICK q \in Nat, d \in Nat : q = QueueMax /\ d = DrainMax /\ d > 0 BY Numbers
<1>3. PICK l \in 0..q, g \in 0..d, b \in BOOLEAN, w \in BOOLEAN : c.len = l /\ c.got = g /\ c.lost = b /\ c.alive = w
  BY <1>1, <1>2 DEF Channel
<1>. DEFINE g2 == IF a THEN g + 1 ELSE 0
            b2 == b \/ ~a \/ ~w
<1>4. stream' = [c EXCEPT !.len = l - 1, !.got = g2, !.lost = b2] BY <1>1, <1>3 DEF Take
<1>5. l - 1 \in 0..q BY <1>1, <1>2, <1>3
<1>6. a => g < d BY <1>1, <1>2, <1>3 DEF OverLimit
<1>7. g2 \in 0..d BY <1>2, <1>6
<1>8. b2 \in BOOLEAN OBVIOUS
<1>9. b2 => b \/ ~a \/ ~w OBVIOUS
<1>. HIDE DEF g2, b2
<1>10. [c EXCEPT !.len = l - 1, !.got = g2, !.lost = b2] \in Channel BY <1>2, <1>5, <1>7, <1>8 DEF Channel
<1>11. [c EXCEPT !.len = l - 1, !.got = g2, !.lost = b2].alive = c.alive BY DEF Channel
<1>12. [c EXCEPT !.len = l - 1, !.got = g2, !.lost = b2].lost = b2 BY DEF Channel
<1>. QED BY <1>1, <1>3, <1>4, <1>9, <1>10, <1>11, <1>12

LEMMA StreamKept ==
    ASSUME WorkType, todo' \in Seq(WStep), rep' \in Report, stream' \in Channel, Fault \/ NoFault,
           UNCHANGED <<job, sw, view, traffic, turn, goal, torn, verdict>>
    PROVE  WorkType'
BY FaultType DEF WorkType

LEMMA DrainOneStep ==
    ASSUME WorkType, Whole, HintInv, job # "idle", DrainOne
    PROVE  WorkType' /\ Whole' /\ HintInv' /\ UNCHANGED <<job, verdict>>
<1>1. At("drain") /\ todo # <<>> /\ stream.len > 0 BY DEF DrainOne, At
<1>2. UNCHANGED <<job, sw, view, traffic, turn, goal, torn, verdict>> BY DEF DrainOne
<1>3. CASE ~OverLimit /\ Take(TRUE) /\ UNCHANGED <<todo, rep>> /\ NoFault
  <2>1. stream' \in Channel /\ stream'.alive = stream.alive /\ (stream'.lost => stream.lost \/ ~stream.alive)
    BY <1>1, <1>3, TakeType
  <2>2. WorkType' BY <1>2, <1>3, <2>1, StreamKept DEF WorkType
  <2>3. Whole' BY <1>2, <1>3, SameGood
  <2>4. At("drain")' BY <1>1, <1>3 DEF At
  <2>5. HintInv' BY <1>3, <2>1, <2>4 DEF HintInv
  <2>. QED BY <1>2, <2>2, <2>3, <2>5
<1>4. CASE Take(FALSE) /\ Raise /\ (Fault \/ NoFault)
  <2>1. stream' \in Channel BY <1>1, <1>4, TakeType
  <2>2. todo' \in Seq(WStep) /\ rep' \in Report /\ rep'.err BY <1>4, RaiseType
  <2>3. WorkType' BY <1>2, <1>4, <2>1, <2>2, StreamKept
  <2>4. Whole' BY <1>4, RaiseWhole
  <2>5. HintInv' BY <2>2 DEF HintInv
  <2>. QED BY <1>2, <2>3, <2>4, <2>5
<1>. QED BY <1>3, <1>4 DEF DrainOne

LEMMA DrainEndsStep ==
    ASSUME WorkType, Whole, HintInv, job # "idle", DrainEnds
    PROVE  WorkType' /\ Whole' /\ HintInv' /\ UNCHANGED <<job, verdict>>
<1>1. todo # <<>> /\ Head(todo).op = "drain" BY DEF DrainEnds, At
<1>2. UNCHANGED <<job, sw, view, traffic, turn, goal, torn, verdict>> /\ NoFault BY DEF DrainEnds, NoFault
<1>3. stream' \in Channel /\ stream'.alive = stream.alive /\ stream'.lost = stream.lost
  <2>1. PICK c \in Channel : c = stream BY DEF WorkType
  <2>2. 0 \in 0..DrainMax BY Numbers
  <2>3. [c EXCEPT !.got = 0] \in Channel BY <2>2 DEF Channel
  <2>4. [c EXCEPT !.got = 0].alive = c.alive /\ [c EXCEPT !.got = 0].lost = c.lost BY DEF Channel
  <2>. QED BY <2>1, <2>3, <2>4 DEF DrainEnds
<1>4. CASE stream.alive
  <2>1. Advance BY <1>4 DEF DrainEnds
  <2>2. todo' \in Seq(WStep) /\ rep' \in Report /\ rep' = rep /\ todo' = Tail(todo) BY <1>1, <2>1, AdvanceType DEF Advance
  <2>3. WorkType' BY <1>2, <1>3, <2>2, StreamKept
  <2>4. Good => Good' BY <1>1, <1>2, <2>2, PopGood
  <2>5. Whole' BY <1>2, <2>2, <2>4 DEF Whole, Failing
  <2>6. HintInv' BY <1>3, <1>4, <2>2 DEF HintInv
  <2>. QED BY <1>2, <2>3, <2>5, <2>6
<1>5. CASE ~stream.alive
  <2>1. Raise BY <1>5 DEF DrainEnds
  <2>2. todo' \in Seq(WStep) /\ rep' \in Report /\ rep'.err BY <2>1, RaiseType
  <2>3. WorkType' BY <1>2, <1>3, <2>2, StreamKept
  <2>4. Whole' BY <2>1, RaiseWhole
  <2>5. HintInv' BY <2>2 DEF HintInv
  <2>. QED BY <1>2, <2>3, <2>4, <2>5
<1>. QED BY <1>4, <1>5

LEMMA ConsumeStep ==
    ASSUME WorkType, Whole, HintInv, ConsumeStream
    PROVE  WorkType' /\ Whole' /\ HintInv' /\ UNCHANGED <<job, todo, sw, verdict, torn>>
<1>1. UNCHANGED <<job, todo, sw, view, rep, traffic, turn, goal, torn, verdict>> /\ stream.alive BY DEF ConsumeStream
<1>2. Fault \/ NoFault BY DEF ConsumeStream
<1>3. stream' \in Channel /\ stream'.lost = stream.lost
  <2>1. PICK c \in Channel : c = stream BY DEF WorkType
  <2>2. [c EXCEPT !.alive = FALSE] \in Channel /\ [c EXCEPT !.alive = FALSE].lost = c.lost BY DEF Channel
  <2>3. ASSUME c.len < QueueMax PROVE [c EXCEPT !.len = @ + 1] \in Channel /\ [c EXCEPT !.len = @ + 1].lost = c.lost
    <3>1. c.len \in 0..QueueMax /\ QueueMax \in Nat BY Numbers DEF Channel
    <3>2. c.len + 1 \in 0..QueueMax BY <2>3, <3>1
    <3>3. [c EXCEPT !.len = @ + 1] \in Channel BY <3>2 DEF Channel
    <3>. QED BY <3>3 DEF Channel
  <2>. QED BY <2>1, <2>2, <2>3 DEF ConsumeStream
<1>4. WorkType' BY <1>1, <1>2, <1>3, StreamKept DEF WorkType
<1>5. Whole' BY <1>1, SameGood
<1>6. HintInv' BY <1>1, <1>3 DEF HintInv
<1>. QED BY <1>1, <1>4, <1>5, <1>6

LEMMA TrafficType ==
    ASSUME WorkType, todo' \in Seq(WStep), rep' \in Report, traffic' \in {"no", "warmup", "measured"}, torn' \in BOOLEAN,
           Fault \/ NoFault, UNCHANGED <<job, sw, view, turn, goal, stream, verdict>>
    PROVE  WorkType'
BY FaultType DEF WorkType

(* No traffic is measured while more of it is about to begin.              *)
LEMMA NotYet ==
    ASSUME WorkType, Good, job # "idle", todo # <<>>, Head(todo).op \in {"warmup", "measure"}
    PROVE  traffic # "measured" /\ (job = "soak" => Has("measure", todo)) /\ ~rep.clean /\ ~torn
<1>1. Head(todo) = todo[1] /\ 1 \in 1..Len(todo) BY HeadType
<1>2. Head(todo).op \in Ops(todo) BY <1>1, OpsIs
<1>3. job = "soak" => traffic # "measured" BY <1>2 DEF Good, ListInv, MeasuredOps, Strict
<1>4. job = "performance" => traffic # "measured" BY DEF Good, SelectInv, At
<1>5. job = "soak" => Has("measure", todo) BY <1>2, <1>3 DEF Good, ListInv, CleanOps
<1>6. ~rep.clean BY <1>2 DEF Good, EndInv
<1>7. ~torn
  <2>1. torn => job = "soak" BY DEF Good, EndInv, At
  <2>. QED BY <1>5, <2>1 DEF Good, SelectInv
<1>. QED BY <1>3, <1>4, <1>5, <1>6, <1>7 DEF WorkType

LEMMA WarmupGood ==
    ASSUME WorkType, Good, job # "idle", todo # <<>>, Head(todo).op = "warmup", todo' = Tail(todo), rep' = rep,
           traffic' = "warmup", torn' = torn, UNCHANGED <<job, sw, view, goal>>
    PROVE  Good'
<1>1. traffic # "measured" /\ (job = "soak" => Has("measure", todo)) /\ ~rep.clean /\ ~torn BY NotYet
<1>2. /\ Linked(job, view.active, todo') /\ FreshFrom(2, todo') /\ Ordered(job, todo') /\ Ending(todo')
      /\ Ops(todo') \subseteq Ops(todo) /\ (Has("measure", todo) <=> Has("measure", todo'))
      /\ todo' # <<>> => Link(job, view.active, Head(todo), Head(todo'))
  BY NextHead DEF Good
<1>3. ListInv' BY <1>1, <1>2 DEF Good, ListInv
<1>4. \A b \in Bank : goal.rules[b] \subseteq sw.bank[b] BY DEF Good, RulesInv, At
<1>5. RulesInv' BY <1>4, PopRules DEF Good
<1>6. ~At("selected")' /\ ~At("cleanup")' BY <1>2 DEF At, Link
<1>7. ~(job = "performance" /\ At("measure")') BY <1>2 DEF At, Link, Strict
<1>8. job = "soak" => \/ sw.sel = goal.bank
                      \/ sw.sel = None /\ rep.rows = 0 /\ (todo' # <<>> => Head(todo').op \notin Strict("soak"))
  <2>1. job = "soak" => sw.sel = goal.bank \/ (sw.sel = None /\ rep.rows = 0) BY <1>1 DEF Good, SelectInv, At
  <2>2. job = "soak" /\ todo' # <<>> => Head(todo').op \notin Strict("soak") BY <1>2 DEF Link, Strict
  <2>. QED BY <2>1, <2>2
<1>9. job = "soak" => view.active = 0 /\ goal.bank = 0 /\ rep.rows = 0 BY <1>1 DEF Good, SelectInv
<1>10. SelectInv' BY <1>1, <1>6, <1>7, <1>8, <1>9 DEF SelectInv
<1>11. EndInv' BY <1>1 DEF EndInv
<1>. QED BY <1>3, <1>5, <1>10, <1>11 DEF Good

LEMMA MeasureGood ==
    ASSUME WorkType, Good, job # "idle", todo # <<>>, Head(todo).op = "measure", todo' = Tail(todo), rep' = rep,
           traffic' = "measured", torn' = (torn \/ TornIn(sw, goal)), UNCHANGED <<job, sw, view, goal>>
    PROVE  Good'
<1>1. traffic # "measured" /\ (job = "soak" => Has("measure", todo)) /\ ~rep.clean /\ ~torn BY NotYet
<1>2. /\ Linked(job, view.active, todo') /\ FreshFrom(2, todo') /\ Ordered(job, todo') /\ Ending(todo')
      /\ Ops(todo') \subseteq Ops(todo) /\ todo' # <<>>
      /\ Link(job, view.active, Head(todo), Head(todo'))
      /\ \A i \in 1..Len(todo') : Later(job, "measure", todo'[i].op)
      /\ Head(todo') = todo'[1]
  <2>1. todo' # <<>> BY NextHead DEF Good
  <2>2. Head(todo') = todo[2] /\ todo'[1] = todo[2] BY <2>1, NextHead DEF Good
  <2>3. Head(todo') = todo'[1] BY <2>2
  <2>. QED BY <2>1, <2>3, NextHead DEF Good
<1>3. \A b \in Bank : goal.rules[b] \subseteq sw.bank[b] BY DEF Good, RulesInv, At
<1>4. goal.bank \in Bank BY DEF WorkType, Wanted
<1>5. torn' => sw.sel # goal.bank BY <1>1, <1>3, <1>4 DEF TornIn
<1>6. RulesInv' BY <1>3, PopRules DEF Good
<1>7. CASE job = "performance"
  <2>1. sw.sel = goal.bank BY <1>7 DEF Good, SelectInv, At
  <2>2. Head(todo').op = "end" BY <1>2, <1>7 DEF Link
  <2>3. At("end")' /\ ~At("selected")' /\ ~At("measure")' BY <1>2, <2>2 DEF At
  <2>4. ListInv' BY <1>2, <1>7 DEF Good, ListInv
  <2>5. SelectInv' BY <1>7, <2>3 DEF SelectInv
  <2>6. EndInv' BY <1>1, <1>5, <2>1 DEF EndInv
  <2>. QED BY <1>6, <2>4, <2>5, <2>6 DEF Good
<1>8. CASE job = "soak"
  <2>1. \A i \in 1..Len(todo') : todo'[i].op = "turn" BY <1>2, <1>8 DEF Later
  <2>2. 1 \in 1..Len(todo')
    <3>1. todo' \in Seq(WStep) BY HeadType
    <3>. QED BY <1>2, <3>1, Lengths
  <2>3. Head(todo').op = "turn" BY <1>2, <2>1, <2>2
  <2>4. Ops(todo') \subseteq {"turn"} /\ ~Has("measure", todo') BY <2>1 DEF Ops, Has
  <2>5. ListInv'
    <3>1. Ops(todo') \subseteq MeasuredOps /\ "end" \notin Ops(todo') BY <2>4 DEF MeasuredOps
    <3>. QED BY <1>2, <1>8, <2>1, <2>4, <3>1 DEF ListInv
  <2>6. /\ sw.sel = goal.bank \/ (sw.sel = None /\ rep.rows = 0)
        /\ view.active = 0 /\ goal.bank = 0 /\ rep.rows = 0
    BY <1>1, <1>8 DEF Good, SelectInv, At
  <2>7. ~At("selected")' /\ ~At("cleanup")' BY <2>3 DEF At
  <2>8. Head(todo').op \notin Strict("soak") /\ Head(todo').op \notin {"flip", "selected"} BY <2>3 DEF Strict
  <2>9. SelectInv' BY <1>8, <2>4, <2>6, <2>7, <2>8 DEF SelectInv
  <2>10. EndInv' BY <1>1, <1>5, <1>8, <2>6 DEF EndInv
  <2>. QED BY <1>6, <2>5, <2>9, <2>10 DEF Good
<1>. QED BY <1>7, <1>8 DEF WorkType

LEMMA BeginsStep ==
    ASSUME WorkType, Whole, job # "idle", TrafficBegins PROVE WorkType' /\ Whole' /\ Quiet
<1>1. todo # <<>> /\ Head(todo).op \in {"warmup", "measure"} BY DEF TrafficBegins, At
<1>2. Advance /\ NoFault /\ UNCHANGED <<job, sw, view, turn, goal, stream, verdict>> BY DEF TrafficBegins, NoFault
<1>3. todo' \in Seq(WStep) /\ rep' \in Report /\ rep' = rep /\ todo' = Tail(todo) BY <1>1, <1>2, AdvanceType DEF Advance
<1>4. torn' \in BOOLEAN /\ traffic' \in {"no", "warmup", "measured"} BY DEF TrafficBegins, WorkType
<1>5. WorkType' BY <1>2, <1>3, <1>4, TrafficType
<1>6. Good => Good'
  <2>1. CASE Head(todo).op = "warmup"
    <3>1. traffic' = "warmup" /\ torn' = torn BY <1>1, <2>1 DEF TrafficBegins, At, WorkType
    <3>. QED BY <1>1, <1>2, <1>3, <2>1, <3>1, WarmupGood
  <2>2. CASE Head(todo).op = "measure"
    <3>1. traffic' = "measured" /\ torn' = (torn \/ TornIn(sw, goal)) BY <1>1, <2>2 DEF TrafficBegins, At
    <3>. QED BY <1>1, <1>2, <1>3, <2>2, <3>1, MeasureGood
  <2>. QED BY <1>1, <2>1, <2>2
<1>7. Whole' BY <1>2, <1>3, <1>6 DEF Whole, Failing
<1>. QED BY <1>2, <1>3, <1>5, <1>7 DEF Quiet

LEMMA EndGood ==
    ASSUME WorkType, Good, job # "idle", todo # <<>>, Head(todo).op = "end", todo' = Tail(todo), traffic' = "no",
           rep'.rows = rep.rows, rep'.clean = rep.clean, UNCHANGED <<job, sw, view, goal, torn>>
    PROVE  Good'
<1>1. /\ Linked(job, view.active, todo') /\ FreshFrom(2, todo') /\ Ordered(job, todo') /\ Ending(todo')
      /\ Ops(todo') \subseteq Ops(todo) /\ "end" \in Ops(todo) /\ (Has("measure", todo) <=> Has("measure", todo'))
      /\ todo' # <<>> => Link(job, view.active, Head(todo), Head(todo'))
  BY NextHead DEF Good
<1>2. job = "soak" /\ ~Has("measure", todo) => Ops(todo) \subseteq CleanOps
  <2>1. {"end", "cleanup"} \subseteq CleanOps BY DEF CleanOps
  <2>. QED BY <1>1, <2>1 DEF Good, ListInv
<1>3. ListInv' BY <1>1, <1>2 DEF Good, ListInv
<1>4. \A b \in Bank : goal.rules[b] \subseteq sw.bank[b] BY DEF Good, RulesInv, At
<1>5. RulesInv' BY <1>4, PopRules DEF Good
<1>6. ~At("selected")' BY <1>1 DEF At, Link
<1>7. ~(job = "performance" /\ At("measure")') BY <1>1 DEF At, Link, Strict
<1>8. job = "soak" /\ Has("measure", todo) =>
        \/ sw.sel = goal.bank
        \/ sw.sel = None /\ rep.rows = 0 /\ (todo' # <<>> => Head(todo').op \notin Strict("soak"))
  <2>1. job = "soak" /\ Has("measure", todo) => sw.sel = goal.bank \/ (sw.sel = None /\ rep.rows = 0) BY DEF Good, SelectInv, At
  <2>2. job = "soak" /\ todo' # <<>> => Head(todo').op \notin Strict("soak") BY <1>1 DEF Link, Strict
  <2>. QED BY <2>1, <2>2
<1>9. job = "soak" /\ Has("measure", todo) => view.active = 0 /\ goal.bank = 0 /\ ~torn /\ rep.rows = 0 BY DEF Good, SelectInv
<1>10. SelectInv' BY <1>1, <1>6, <1>7, <1>8, <1>9 DEF SelectInv
<1>11. ~rep.clean BY <1>1 DEF Good, EndInv
<1>12. torn => job = "soak" /\ rep.rows = 0 /\ sw.sel = None BY DEF Good, EndInv, At
<1>13. EndInv' BY <1>11, <1>12 DEF EndInv
<1>. QED BY <1>3, <1>5, <1>10, <1>13 DEF Good

LEMMA EndsStep ==
    ASSUME WorkType, Whole, job # "idle", TrafficEnds PROVE WorkType' /\ Whole' /\ Quiet
<1>1. todo # <<>> /\ Head(todo).op = "end" BY DEF TrafficEnds, At
<1>2. /\ traffic' = "no" /\ (Fault \/ NoFault)
      /\ UNCHANGED <<job, sw, view, turn, goal, torn, stream, verdict>>
  BY DEF TrafficEnds
<1>3. (\E c \in BOOLEAN : Note(c)) \/ (todo' = <<>> /\ rep' = [rep EXCEPT !.err = TRUE])
  <2>. DEFINE c == Forwarded
  <2>1. c \in BOOLEAN
    <3>1. sw.infra \in BOOLEAN BY DEF WorkType, Switch
    <3>. QED BY <3>1 DEF Forwarded
  <2>2. Note(c) \/ Note(FALSE) \/ (todo' = <<>> /\ rep' = [rep EXCEPT !.err = TRUE]) BY DEF TrafficEnds
  <2>. HIDE DEF c
  <2>. QED BY <2>1, <2>2
<1>4. torn' \in BOOLEAN BY <1>2 DEF WorkType
<1>5. CASE \E c \in BOOLEAN : Note(c)
  <2>1. PICK c \in BOOLEAN : Note(c) BY <1>5
  <2>2. /\ todo' \in Seq(WStep) /\ todo' = Tail(todo) /\ rep' \in Report /\ rep'.rows = rep.rows /\ rep'.clean = rep.clean
        /\ rep'.err = rep.err /\ (rep'.bad <=> rep.bad \/ ~c)
    BY <1>1, <2>1, NoteType
  <2>3. WorkType' BY <1>2, <1>4, <2>2, TrafficType
  <2>4. Good => Good' BY <1>1, <1>2, <2>2, EndGood
  <2>5. Failing => Failing' BY <2>2 DEF Failing
  <2>6. Whole' BY <1>2, <2>4, <2>5 DEF Whole
  <2>. QED BY <1>2, <2>2, <2>3, <2>6 DEF Quiet
<1>6. CASE todo' = <<>> /\ rep' = [rep EXCEPT !.err = TRUE]
  <2>1. todo' \in Seq(WStep) BY <1>6
  <2>2. PICK r \in Report : r = rep BY DEF WorkType
  <2>3. [r EXCEPT !.err = TRUE] \in Report BY DEF Report
  <2>4. [r EXCEPT !.err = TRUE].err = TRUE BY DEF Report
  <2>5. rep' \in Report /\ rep'.err BY <1>6, <2>2, <2>3, <2>4
  <2>6. WorkType' BY <1>2, <1>4, <2>1, <2>5, TrafficType
  <2>7. Whole' BY <2>5 DEF Whole, Failing
  <2>. QED BY <1>2, <2>5, <2>6, <2>7 DEF Quiet
<1>. QED BY <1>3, <1>5, <1>6

(* What a new list of steps is.                                            *)
LEMMA ShapeIs ==
    ASSUME NEW kind, NEW active, NEW s, NEW f, NEW l, NEW ops, NEW banks, Shape(kind, active, s, f, l, ops, banks),
           l.op \notin {"flip", "write", "measure"}
    PROVE  /\ s \in Seq(WStep) /\ s # <<>> /\ Head(s) = f /\ f.op \in ops
           /\ Linked(kind, active, s) /\ FreshFrom(2, s) /\ Ordered(kind, s) /\ Ending(s) /\ Ops(s) \subseteq ops
           /\ f.op = "write" => Fresh(s[1], s[2])
           /\ \A i \in 1..Len(s) : s[i].op \in {"delete", "write", "readback", "row"} => s[i].bank \in banks
<1>1. s \in Seq(WStep) /\ s # <<>> /\ s[1] = f /\ s[Len(s)] = l BY DEF Shape
<1>2. PICK n \in Nat : n = Len(s) /\ n >= 1 BY <1>1, Lengths
<1>3. Head(s) = f BY <1>1
<1>4. \A i \in 1..n : s[i].op \in ops /\ (s[i].op \in Banked => s[i].bank \in banks) BY <1>2 DEF Shape
<1>5. f.op \in ops
  <2>1. 1 \in 1..n BY <1>2
  <2>. QED BY <1>1, <1>4, <2>1
<1>6. \A i \in 1..n - 1 : Fresh(s[i], s[i + 1]) BY <1>2 DEF Shape, FreshFrom
<1>7. FreshFrom(2, s)
  <2>1. \A i \in 2..n - 1 : i \in 1..n - 1 BY <1>2
  <2>. QED BY <1>2, <1>6, <2>1 DEF FreshFrom
<1>8. Ending(s) BY <1>1 DEF Ending
<1>9. Ops(s) \subseteq ops BY <1>2, <1>4 DEF Ops
<1>10. f.op = "write" => Fresh(s[1], s[2])
  <2>. HAVE f.op = "write"
  <2>1. n # 1 BY <1>1, <1>2
  <2>2. 1 \in 1..n - 1 BY <1>2, <2>1
  <2>3. Fresh(s[1], s[1 + 1]) BY <1>6, <2>2
  <2>. QED BY <2>3
<1>11. \A i \in 1..Len(s) : s[i].op \in {"delete", "write", "readback", "row"} => s[i].bank \in banks
  BY <1>2, <1>4 DEF Banked
<1>12. Linked(kind, active, s) /\ Ordered(kind, s) BY DEF Shape
<1>. QED BY <1>1, <1>3, <1>5, <1>7, <1>8, <1>9, <1>10, <1>11, <1>12

(* A turn is the last step of its list.                                    *)
LEMMA LastTurn ==
    ASSUME WorkType, Good, job # "idle", todo # <<>>, Head(todo).op = "turn"
    PROVE  /\ "turn" \in Ops(todo) /\ ~Has("measure", todo) /\ ~rep.clean
           /\ (job = "soak" => traffic = "measured") /\ (job = "performance" => traffic # "measured")
<1>1. PICK n \in Nat : n = Len(todo) /\ n >= 1 BY HeadType
<1>2. Head(todo) = todo[1] /\ 1 \in 1..n BY <1>1, HeadType
<1>3. "turn" \in Ops(todo) BY <1>1, <1>2, OpsIs
<1>4. ASSUME NEW i \in 1..n PROVE todo[i].op # "measure"
  <2>1. CASE i = 1 BY <1>2, <2>1
  <2>2. CASE i # 1
    <3>1. 1 < i BY <1>1, <2>2
    <3>2. Later(job, todo[1].op, todo[i].op) BY <1>1, <1>2, <3>1 DEF Good, ListInv, Ordered
    <3>. QED BY <1>2, <3>2 DEF Later
  <2>. QED BY <2>1, <2>2
<1>5. ~Has("measure", todo) BY <1>1, <1>4 DEF Has
<1>6. ~rep.clean BY <1>3 DEF Good, EndInv
<1>7. job = "soak" => traffic = "measured" BY <1>3, <1>5 DEF Good, ListInv, CleanOps
<1>8. job = "performance" => traffic # "measured" BY DEF Good, SelectInv, At
<1>. QED BY <1>3, <1>5, <1>6, <1>7, <1>8

LEMMA TurnGood ==
    ASSUME WorkType, Good, job # "idle", todo # <<>>, Head(todo).op = "turn", UNCHANGED <<job, sw, view, rep, traffic, goal, torn>>,
           NEW f, NEW l, NEW ops, NEW banks, Shape(job, view.active, todo', f, l, ops, banks),
           l.op \notin {"flip", "write", "measure"}, f.op \in {"set", "delete", "write", "metrics", "end"},
           job = "performance" => ops \subseteq PerfOps,
           job = "soak" => \/ ops \subseteq MeasuredOps \ {"end"} /\ banks = {1 - view.active}
                           \/ ops \subseteq {"end", "cleanup"}
    PROVE  Good'
<1>1. /\ "turn" \in Ops(todo) /\ ~Has("measure", todo) /\ ~rep.clean
      /\ (job = "soak" => traffic = "measured") /\ (job = "performance" => traffic # "measured")
  BY LastTurn
<1>2. /\ todo' \in Seq(WStep) /\ todo' # <<>> /\ Head(todo') = f
      /\ Linked(job, view.active, todo') /\ FreshFrom(2, todo') /\ Ordered(job, todo') /\ Ending(todo') /\ Ops(todo') \subseteq ops
      /\ f.op = "write" => Fresh(todo'[1], todo'[2])
      /\ \A i \in 1..Len(todo') : todo'[i].op \in {"delete", "write", "readback", "row"} => todo'[i].bank \in banks
  BY ShapeIs
<1>3. job = "performance" \/ job = "soak" BY DEF WorkType
<1>4. job = "soak" => ~Has("measure", todo')
  <2>1. job = "soak" => "measure" \notin ops BY DEF MeasuredOps, Strict
  <2>. QED BY <1>2, <2>1 DEF Has, Ops
<1>5. \A i \in 1..Len(todo') : todo'[i].op \in ops BY <1>2 DEF Ops
<1>6. ListInv'
  <2>1. CASE job = "performance" BY <1>2, <2>1 DEF ListInv
  <2>2. CASE job = "soak" /\ ops \subseteq MeasuredOps \ {"end"} /\ banks = {1 - view.active}
    BY <1>1, <1>2, <1>4, <2>2 DEF ListInv
  <2>3. CASE job = "soak" /\ ops \subseteq {"end", "cleanup"}
    <3>1. Ops(todo') \subseteq MeasuredOps BY <1>2, <2>3 DEF MeasuredOps
    <3>2. \A i \in 1..Len(todo') : todo'[i].op \notin {"delete", "write", "readback", "row"} BY <1>5, <2>3
    <3>3. Ops(todo') \subseteq {"end", "cleanup"} BY <1>2, <2>3
    <3>. QED BY <1>1, <1>2, <1>4, <2>3, <3>1, <3>2, <3>3 DEF ListInv
  <2>. QED BY <1>3, <2>1, <2>2, <2>3
<1>7. \A b \in Bank : goal.rules[b] \subseteq sw.bank[b] BY DEF Good, RulesInv, At
<1>8. /\ At("write")' => f.op = "write" 
      /\ ~At("readback")' /\ ~At("initial")' /\ ~At("selected")' /\ ~At("measure")' /\ ~At("cleanup")'
  BY <1>2 DEF At
<1>9. RulesInv' BY <1>2, <1>7, <1>8 DEF RulesInv
<1>10. job = "soak" => \/ sw.sel = goal.bank
                       \/ sw.sel = None /\ rep.rows = 0
  BY <1>1 DEF Good, SelectInv, At
<1>11. Head(todo').op \notin Strict("soak") BY <1>2 DEF Strict
<1>12. job = "soak" => goal.bank = view.active BY <1>1 DEF Good, SelectInv, Strict
<1>13. SelectInv' BY <1>1, <1>4, <1>8, <1>10, <1>11, <1>12 DEF SelectInv
<1>14. torn => job = "soak" /\ rep.rows = 0 /\ sw.sel = None BY DEF Good, EndInv, At
<1>15. EndInv' BY <1>1, <1>14 DEF EndInv
<1>. QED BY <1>6, <1>9, <1>13, <1>15 DEF Good

(* The list of a turn, and the one that follows the last.                  *)
LEMMA TurnShape ==
    ASSUME WorkType, job # "idle", turn < Turns
    PROVE  \E f, ops, banks :
             /\ Shape(job, view.active, TurnSteps(turn + 1), f, Op("turn"), ops, banks)
             /\ f.op \in {"set", "delete", "write", "metrics"}
             /\ job = "performance" => ops \subseteq PerfOps
             /\ job = "soak" => ops \subseteq MeasuredOps \ {"end"} /\ banks = {1 - view.active}
<1>1. turn + 1 \in Nat \ {0} /\ view \in Local BY DEF WorkType
<1>2. PICK k \in Nat \ {0} : k = turn + 1 BY <1>1
<1>3. CASE job = "performance"
  <2>1. Shape("performance", view.active, PerformanceTurn(k), Op("set"), Op("turn"), PerfOps, Bank) BY PerformanceTurnShape
  <2>2. TurnSteps(turn + 1) = PerformanceTurn(k) BY <1>2, <1>3 DEF TurnSteps
  <2>3. Op("set") \in WStep /\ Op("set").op = "set" BY OpType DEF OpNames
  <2>. QED BY <1>3, <2>1, <2>2, <2>3
<1>4. CASE job = "soak"
  <2>1. PICK f \in WStep : /\ f.op \in {"delete", "write", "metrics"}
                           /\ Shape("soak", view.active, SoakTurn(k), f, Op("turn"), ActOps \cup {"row"} \cup CalmOps,
                                    {1 - view.active})
    BY <1>1, SoakTurnShape
  <2>2. TurnSteps(turn + 1) = SoakTurn(k) BY <1>2, <1>4 DEF TurnSteps
  <2>3. ActOps \cup {"row"} \cup CalmOps \subseteq MeasuredOps \ {"end"} BY DEF ActOps, CalmOps, MeasuredOps, Strict
  <2>. QED BY <1>4, <2>1, <2>2, <2>3
<1>. QED BY <1>3, <1>4 DEF WorkType

LEMMA TurnType ==
    ASSUME WorkType, todo' \in Seq(WStep), view' \in Local, turn' \in Nat, turn' \in 0..NTurns \cup 0..NSamples,
           UNCHANGED <<job, sw, rep, traffic, goal, torn, stream, verdict, faults>>
    PROVE  WorkType'
BY DEF WorkType

LEMMA NextTurnStep ==
    ASSUME WorkType, Whole, job # "idle", NextTurn PROVE WorkType' /\ Whole' /\ Quiet
<1>1. todo # <<>> /\ Head(todo).op = "turn" /\ turn < Turns BY DEF NextTurn, At
<1>2. /\ turn' = turn + 1 /\ todo' = TurnSteps(turn + 1)
      /\ UNCHANGED <<job, sw, view, rep, traffic, goal, torn, stream, verdict, faults>>
  BY DEF NextTurn
<1>3. PICK f, ops, banks :
             /\ Shape(job, view.active, TurnSteps(turn + 1), f, Op("turn"), ops, banks)
             /\ f.op \in {"set", "delete", "write", "metrics"}
             /\ job = "performance" => ops \subseteq PerfOps
             /\ job = "soak" => ops \subseteq MeasuredOps \ {"end"} /\ banks = {1 - view.active}
  BY <1>1, TurnShape
<1>4. Shape(job, view.active, todo', f, Op("turn"), ops, banks) BY <1>2, <1>3
<1>5. Op("turn").op = "turn" BY OpType
<1>6. todo' \in Seq(WStep) BY <1>4 DEF Shape
<1>7. turn' \in Nat /\ turn' \in 0..NTurns \cup 0..NSamples
  <2>1. PICK t \in Nat, a \in Nat, b \in Nat : t = turn /\ a = NTurns /\ b = NSamples BY Totals DEF WorkType
  <2>2. t < a \/ t < b BY <1>1, <2>1 DEF Turns
  <2>3. t + 1 \in 0..a \cup 0..b BY <2>2
  <2>. QED BY <1>2, <2>1, <2>3
<1>8. WorkType' BY <1>2, <1>6, <1>7, TurnType DEF WorkType
<1>9. Good => Good' BY <1>1, <1>2, <1>3, <1>4, <1>5, TurnGood
<1>10. Whole' BY <1>2, <1>9 DEF Whole, Failing
<1>. QED BY <1>2, <1>8, <1>10 DEF Quiet

LEMMA TurnsOverStep ==
    ASSUME WorkType, Whole, job # "idle", TurnsOver PROVE WorkType' /\ Whole' /\ Quiet
<1>1. todo # <<>> /\ Head(todo).op = "turn" BY DEF TurnsOver, At
<1>2. /\ todo' = IF job = "soak" THEN <<Op("end"), Op("cleanup")>> ELSE Teardown
      /\ UNCHANGED <<job, sw, view, rep, traffic, turn, goal, torn, stream, verdict, faults>>
  BY DEF TurnsOver
<1>3. CASE job = "performance"
  <2>1. Shape("performance", view.active, Teardown, Op("set"), Op("residual"), {"set", "verify", "residual"}, Bank)
    BY TeardownShape
  <2>2. Shape(job, view.active, todo', Op("set"), Op("residual"), {"set", "verify", "residual"}, Bank) BY <1>2, <1>3, <2>1
  <2>3. Op("set").op = "set" /\ Op("residual").op = "residual" /\ {"set", "verify", "residual"} \subseteq PerfOps
    BY OpType DEF PerfOps
  <2>4. Good => Good' BY <1>1, <1>2, <1>3, <2>2, <2>3, TurnGood
  <2>5. todo' \in Seq(WStep) BY <2>2 DEF Shape
  <2>. QED BY <1>2, <2>4, <2>5, TurnType DEF Whole, Failing, WorkType, Quiet
<1>4. CASE job = "soak"
  <2>1. /\ Op("end") \in WStep /\ Op("end").op = "end" /\ Op("cleanup") \in WStep /\ Op("cleanup").op = "cleanup"
        /\ "end" \notin Banked /\ "cleanup" \notin Banked
    BY OpType DEF OpNames, Banked
  <2>2. Link("soak", view.active, Op("end"), Op("cleanup")) /\ Fresh(Op("end"), Op("cleanup")) BY <2>1 DEF Link, Strict, Fresh
  <2>3. Later("soak", "end", "cleanup") BY DEF Later
  <2>4. Shape("soak", view.active, <<Op("end"), Op("cleanup")>>, Op("end"), Op("cleanup"), {"end", "cleanup"}, Bank)
    BY <2>1, <2>2, <2>3, Shape2
  <2>5. Shape(job, view.active, todo', Op("end"), Op("cleanup"), {"end", "cleanup"}, Bank) BY <1>2, <1>4, <2>4
  <2>6. Good => Good' BY <1>1, <1>2, <1>4, <2>1, <2>5, TurnGood
  <2>7. todo' \in Seq(WStep) BY <2>5 DEF Shape
  <2>. QED BY <1>2, <2>6, <2>7, TurnType DEF Whole, Failing, WorkType, Quiet
<1>. QED BY <1>3, <1>4 DEF WorkType

LEMMA CleanUpStep ==
    ASSUME WorkType, Whole, job # "idle", CleanUp PROVE WorkType' /\ Whole' /\ Quiet
<1>1. todo # <<>> /\ Head(todo).op = "cleanup" BY DEF CleanUp, At
<1>2. /\ todo' = SoakCleanup /\ view' = [view EXCEPT !.rules = [b \in Bank |-> <<>>]]
      /\ UNCHANGED <<job, sw, rep, traffic, turn, goal, torn, stream, verdict, faults>>
  BY DEF CleanUp
<1>3. view' \in Local /\ view'.active = view.active
  <2>1. PICK v \in Local : v = view BY DEF WorkType
  <2>2. [b \in Bank |-> <<>>] \in [Bank -> Seq(Entry)] OBVIOUS
  <2>3. [v EXCEPT !.rules = [b \in Bank |-> <<>>]] \in Local BY <2>2 DEF Local
  <2>4. [v EXCEPT !.rules = [b \in Bank |-> <<>>]].active = v.active BY DEF Local
  <2>. QED BY <1>2, <2>1, <2>3, <2>4
<1>4. PICK f \in WStep : Shape("soak", view.active, todo', f, Op("drain"), CleanOps, Bank)
  BY <1>2, SoakCleanupShape DEF WorkType
<1>5. Op("drain").op = "drain" BY OpType
<1>6. /\ todo' \in Seq(WStep) /\ todo' # <<>> /\ Head(todo') = f /\ f.op \in CleanOps
      /\ Linked("soak", view.active, todo') /\ FreshFrom(2, todo') /\ Ordered("soak", todo') /\ Ending(todo')
      /\ Ops(todo') \subseteq CleanOps
  BY <1>4, <1>5, ShapeIs
<1>7. WorkType' BY <1>2, <1>3, <1>6, TurnType DEF WorkType
<1>8. ASSUME Good PROVE Good'
  <2>1. "cleanup" \in Ops(todo)
    <3>1. Head(todo) = todo[1] /\ 1 \in 1..Len(todo) BY <1>1, HeadType
    <3>. QED BY <1>1, <3>1, OpsIs
  <2>2. job = "soak" BY <1>8, <2>1 DEF Good, ListInv, PerfOps, WorkType
  <2>3. ~Has("measure", todo) BY <1>8, <2>1, <2>2 DEF Good, ListInv, SetupOps
  <2>4. traffic # "measured" BY <1>1, <1>8, <2>2 DEF Good, SelectInv, At
  <2>5. ~Has("measure", todo') BY <1>6 DEF Has, Ops, CleanOps
  <2>6. ListInv' BY <1>2, <1>3, <1>6, <2>2, <2>4, <2>5 DEF ListInv
  <2>7. ~At("write")' /\ ~At("readback")' /\ ~At("initial")' /\ ~At("selected")' BY <1>6 DEF At, CleanOps
  <2>8. \A b \in Bank : goal.rules[b] \subseteq sw.bank[b] BY <1>1, <1>8 DEF Good, RulesInv, At
  <2>9. RulesInv' BY <1>2, <2>7, <2>8 DEF RulesInv
  <2>10. SelectInv' BY <1>2, <2>2, <2>4, <2>5, <2>7 DEF SelectInv
  <2>11. ~rep.clean BY <1>8, <2>1 DEF Good, EndInv
  <2>12. torn => job = "soak" /\ rep.rows = 0 /\ sw.sel = None BY <1>1, <1>8 DEF Good, EndInv, At
  <2>13. EndInv' BY <1>2, <2>11, <2>12 DEF EndInv
  <2>. QED BY <2>6, <2>9, <2>10, <2>13 DEF Good
<1>9. Whole' BY <1>2, <1>8 DEF Whole, Failing
<1>. QED BY <1>2, <1>7, <1>9 DEF Quiet

(* The verdict: a workload that is not FAIL was whole.                     *)
LEMMA CloseStep ==
    ASSUME WorkType, Whole, HintInv, Close
    PROVE  WorkType' /\ Whole' /\ HintInv' /\ Judge' /\ job' = "idle" /\ todo' = <<>> /\ sw' = sw
<1>1. /\ job # "idle" /\ todo = <<>> /\ job' = "idle" /\ traffic' = "no"
      /\ verdict' = IF ~Passed THEN "FAIL" ELSE IF formal THEN "PASS" ELSE "HOLD"
      /\ UNCHANGED <<todo, sw, view, rep, turn, goal, torn, stream, faults>>
  BY DEF Close
<1>2. WorkType' BY <1>1 DEF WorkType
<1>3. HintInv' BY <1>1 DEF HintInv, At
<1>4. Whole' BY <1>1 DEF Whole
<1>5. ASSUME Passed PROVE ~torn /\ Empty /\ ~stream.lost
  <2>1. ~rep.err /\ ~rep.bad /\ rep.clean /\ (job = "soak" => rep.rows = ExpectedCycles)
    BY <1>5 DEF Passed, SoakPassed, PerformancePassed
  <2>2. Good BY <1>1, <2>1 DEF Whole, Failing
  <2>3. Empty BY <2>1, <2>2 DEF Good, EndInv
  <2>4. ~torn
    <3>1. job = "soak" => rep.rows # 0 BY <2>1, Totals
    <3>. QED BY <1>1, <2>2, <3>1 DEF Good, EndInv, At
  <2>5. ~stream.lost BY <1>1, <2>1 DEF HintInv, At
  <2>. QED BY <2>3, <2>4, <2>5
<1>6. verdict' \in {"PASS", "HOLD"} => Passed BY <1>1
<1>7. Empty' = Empty BY <1>1 DEF Empty
<1>8. Judge' BY <1>1, <1>5, <1>6, <1>7 DEF Judge
<1>. QED BY <1>1, <1>2, <1>3, <1>4, <1>8

-----------------------------------------------------------------------------
(* All steps of a workload.                                                *)
WorkInv == WorkType /\ Whole /\ HintInv /\ Judge

LEMMA WorkloadKeeps ==
    ASSUME WorkInv, job = "idle" => todo = <<>>, WorkloadStep
    PROVE  WorkInv' /\ job # "idle" /\ job' \in {job, "idle"} /\ (job' = "idle" => todo' = <<>>)
<1>. USE DEF WorkInv
<1>1. CASE Close
  <2>1. job # "idle" BY <1>1 DEF Close
  <2>. QED BY <1>1, <2>1, CloseStep
<1>2. CASE drain_supplemental_hints
  <2>1. job # "idle" BY <1>2 DEF drain_supplemental_hints, DrainOne, DrainEnds, At
  <2>2. WorkType' /\ Whole' /\ HintInv' /\ UNCHANGED <<job, verdict>>
    BY <1>2, <2>1, DrainOneStep, DrainEndsStep DEF drain_supplemental_hints
  <2>3. Judge' BY <2>1, <2>2 DEF Judge
  <2>. QED BY <2>1, <2>2, <2>3
<1>3. CASE ~Close /\ ~drain_supplemental_hints
  <2>1. job # "idle" /\ ~At("drain")
    <3>1. \E op \in OpNames \ {"drain"} : At(op)
      <4>1. set_pipeline \/ verify_pipeline_identity \/ install_infrastructure \/ write_rules \/ delete_rules =>
              At("set") \/ At("verify") \/ At("infra") \/ At("write") \/ At("delete")
        <5>1. write_rules => At("write") BY DEF write_rules
        <5>2. delete_rules => At("delete") BY DEF delete_rules
        <5>3. set_pipeline => At("set") BY DEF set_pipeline
        <5>4. verify_pipeline_identity => At("verify") BY DEF verify_pipeline_identity
        <5>5. install_infrastructure => At("infra") BY DEF install_infrastructure
        <5>. QED BY <5>1, <5>2, <5>3, <5>4, <5>5
      <4>2. exact_rule_readback \/ InitialReadback \/ FlipSelector \/ read_policy_bank \/ OverlayInsert =>
              At("readback") \/ At("initial") \/ At("flip") \/ At("selected") \/ At("overlay")
        BY DEF exact_rule_readback, InitialReadback, FlipSelector, read_policy_bank, OverlayInsert
      <4>3. OverlayDrop \/ OverlayDelete \/ single_packet_outcome \/ BaselineProbe \/ AppendRow =>
              At("dropped") \/ At("expire") \/ At("forwarded") \/ At("probe") \/ At("row")
        BY DEF OverlayDrop, OverlayDelete, single_packet_outcome, BaselineProbe, AppendRow
      <4>4. Residual1 \/ Residual \/ Metrics \/ TrafficBegins \/ TrafficEnds =>
              At("residual1") \/ At("residual") \/ At("metrics") \/ At("warmup") \/ At("measure") \/ At("end")
        BY DEF Residual1, Residual, Metrics, TrafficBegins, TrafficEnds
      <4>5. NextTurn \/ TurnsOver \/ CleanUp => At("turn") \/ At("cleanup") BY DEF NextTurn, TurnsOver, CleanUp
      <4>. QED BY <1>3, <4>1, <4>2, <4>3, <4>4, <4>5 DEF WorkloadStep, OpNames
    <3>. QED BY <3>1 DEF At
  <2>2. WorkType' /\ Whole' /\ Quiet
    <3>1. CASE set_pipeline \/ verify_pipeline_identity \/ install_infrastructure
      BY <2>1, <3>1, SetStep, VerifyStep, InfraStep
    <3>2. CASE write_rules \/ delete_rules BY <2>1, <3>2, WriteStep, EmptyWriteStep, DeleteStep
    <3>3. CASE exact_rule_readback \/ InitialReadback \/ FlipSelector \/ read_policy_bank
      BY <2>1, <3>3, ReadbackStep, InitialStep, FlipStep, SelectedStep
    <3>4. CASE OverlayInsert \/ OverlayDrop \/ OverlayDelete \/ single_packet_outcome \/ BaselineProbe \/ Residual1
      BY <2>1, <3>4, OverlayStep, NotingSteps
    <3>5. CASE AppendRow \/ Residual \/ Metrics BY <2>1, <3>5, RowStep, ResidualStep, MetricsStep
    <3>6. CASE TrafficBegins \/ TrafficEnds \/ NextTurn \/ TurnsOver \/ CleanUp
      BY <2>1, <3>6, BeginsStep, EndsStep, NextTurnStep, TurnsOverStep, CleanUpStep
    <3>. QED BY <1>3, <3>1, <3>2, <3>3, <3>4, <3>5, <3>6 DEF WorkloadStep
  <2>3. HintInv' BY <2>1, <2>2, HintQuiet
  <2>4. job' = job BY <2>2 DEF Quiet
  <2>5. Judge' BY <2>1, <2>4 DEF Judge
  <2>. QED BY <2>1, <2>2, <2>3, <2>4, <2>5
<1>. QED BY <1>1, <1>2, <1>3

(* A stage that leaves the workload alone, changes the switch only, or     *)
(* forgets the workload.                                                   *)
LEMMA IdleKeeps ==
    ASSUME WorkInv, UNCHANGED idle, Fault \/ NoFault
    PROVE  WorkInv'
<1>. USE DEF WorkInv, idle
<1>1. WorkType' BY FaultType DEF WorkType
<1>2. Whole' BY SameGood
<1>3. HintInv' BY DEF HintInv, At
<1>4. Judge' BY DEF Judge, Empty
<1>. QED BY <1>1, <1>2, <1>3, <1>4

LEMMA LoadedEmpty ==
    /\ Blank \in Switch /\ [Blank EXCEPT !.loaded = TRUE] \in Switch
    /\ Blank.bank = [b \in Bank |-> {}] /\ ~Blank.overlay
    /\ [Blank EXCEPT !.loaded = TRUE].bank = [b \in Bank |-> {}] /\ ~[Blank EXCEPT !.loaded = TRUE].overlay
<1>1. Blank \in Switch /\ [Blank EXCEPT !.loaded = TRUE] \in Switch BY SwitchType
<1>. QED BY <1>1 DEF Blank

LEMMA SwitchKeeps ==
    ASSUME WorkInv, job = "idle", sw' \in {Blank, [Blank EXCEPT !.loaded = TRUE]}, Fault \/ NoFault,
           UNCHANGED <<job, todo, view, rep, traffic, turn, goal, torn, stream, verdict>>
    PROVE  WorkInv'
<1>. USE DEF WorkInv
<1>1. WorkType' BY FaultType, LoadedEmpty DEF WorkType
<1>2. Whole' BY DEF Whole
<1>3. HintInv' BY DEF HintInv, At
<1>4. Empty' BY LoadedEmpty DEF Empty
<1>5. Judge' BY <1>4 DEF Judge
<1>. QED BY <1>1, <1>2, <1>3, <1>5

LEMMA ForgetType ==
    ASSUME Forget
    PROVE  /\ view' \in Local /\ rep' \in Report /\ goal' \in Wanted /\ stream' \in Channel /\ traffic' = "no" /\ turn' = 0
           /\ torn' = FALSE /\ verdict' = "none" /\ ~stream'.lost /\ turn' \in 0..NTurns \cup 0..NSamples
<1>1. view' = View0 /\ rep' = Report0 /\ goal' = Goal0 /\ stream' = Stream0 /\ traffic' = "no" /\ turn' = 0
      /\ torn' = FALSE /\ verdict' = "none" BY DEF Forget
<1>2. View0 \in Local BY DEF View0, Local, Bank
<1>3. Report0 \in Report BY DEF Report0, Report
<1>4. Stream0 \in Channel /\ ~Stream0.lost BY Numbers DEF Stream0, Channel
<1>5. 0 \in 0..NTurns BY Totals
<1>. QED BY <1>1, <1>2, <1>3, <1>4, <1>5, WantedType

LEMMA ForgetKeeps ==
    ASSUME Forget, job' = "idle", todo' = <<>>, sw' \in Switch, faults \in 0..NFaults, Fault \/ NoFault
    PROVE  WorkInv'
<1>1. WorkType' BY ForgetType, FaultType DEF WorkType
<1>2. Whole' BY DEF Whole
<1>3. HintInv' BY ForgetType DEF HintInv
<1>4. Judge' BY ForgetType DEF Judge
<1>. QED BY <1>1, <1>2, <1>3, <1>4 DEF WorkInv

-----------------------------------------------------------------------------
(* The stages of the shell and their order.                                *)
LEMMA RankIs ==
    /\ Rank["preflight"] = 1 /\ Rank["environment"] = 2 /\ Rank["unit"] = 3 /\ Rank["p4testgen"] = 4 /\ Rank["mininet"] = 5
    /\ Rank["compiler"] = 6 /\ Rank["functional"] = 7 /\ Rank["performance"] = 8 /\ Rank["measured"] = 9 /\ Rank["crash"] = 10
    /\ Rank["recovery"] = 11 /\ Rank["lifecycle"] = 12 /\ Rank["soak"] = 13 /\ Rank["soaked"] = 14 /\ Rank["supply"] = 15
    /\ Rank["aggregate"] = 16 /\ Rank["exit"] = 17 /\ Rank["end"] = 18
BY DEF Rank
LEMMA UntilIs ==
    /\ Until["environment"] = 2 /\ Until["unit"] = 3 /\ Until["p4testgen"] = 4 /\ Until["mininet"] = 5 /\ Until["compiler"] = 6
    /\ Until["functional"] = 7 /\ Until["performance"] = 9 /\ Until["crash"] = 10 /\ Until["recovery"] = 11
    /\ Until["lifecycle"] = 12 /\ Until["soak"] = 14
BY DEF Until
LEMMA UntilType == \A p \in Checked : Until[p] \in Int
<1>. TAKE p \in Checked
<1>1. p = "environment" \/ p = "unit" \/ p = "p4testgen" \/ p = "mininet" \/ p = "compiler" \/ p = "functional"
      \/ p = "performance" \/ p = "crash" \/ p = "recovery" \/ p = "lifecycle" \/ p = "soak" BY DEF Checked
<1>. QED BY <1>1, UntilIs
LEMMA StagesAre ==
    /\ Len(Stages) = 17 /\ DOMAIN Stages = 1..17
    /\ Stages[1] = "preflight" /\ Stages[2] = "environment" /\ Stages[3] = "unit" /\ Stages[4] = "p4testgen"
    /\ Stages[5] = "mininet" /\ Stages[6] = "compiler" /\ Stages[7] = "functional" /\ Stages[8] = "performance"
    /\ Stages[9] = "measured" /\ Stages[10] = "crash" /\ Stages[11] = "recovery" /\ Stages[12] = "lifecycle"
    /\ Stages[13] = "soak" /\ Stages[14] = "soaked" /\ Stages[15] = "supply" /\ Stages[16] = "aggregate" /\ Stages[17] = "exit"
BY DEF Stages
LEMMA StageRank == \A j \in 1..17 : Rank[Stages[j]] = j
<1>. TAKE j \in 1..17
<1>1. j = 1 \/ j = 2 \/ j = 3 \/ j = 4 \/ j = 5 \/ j = 6 \/ j = 7 \/ j = 8 \/ j = 9 \/ j = 10 \/ j = 11 \/ j = 12 \/ j = 13
      \/ j = 14 \/ j = 15 \/ j = 16 \/ j = 17 OBVIOUS
<1>. QED BY <1>1, RankIs, StagesAre
LEMMA NextStage == ASSUME NEW k \in 1..16 PROVE After(Stages[k]) = Stages[k + 1]
<1>. DEFINE P(i) == i \in 2..17 /\ Stages[i - 1] = Stages[k]
<1>1. k + 1 \in 2..17 /\ (k + 1) - 1 = k OBVIOUS
<1>2. \A i \in 2..17 : Stages[i - 1] = Stages[k] => i = k + 1
  <2>. TAKE i \in 2..17
  <2>. HAVE Stages[i - 1] = Stages[k]
  <2>1. i - 1 \in 1..17 /\ k \in 1..17 OBVIOUS
  <2>2. i - 1 = k BY <2>1, StageRank
  <2>. QED BY <2>2
<1>3. (CHOOSE i \in 2..17 : Stages[i - 1] = Stages[k]) = k + 1 BY <1>1, <1>2
<1>. QED BY <1>3, StagesAre DEF After
LEMMA AfterIs ==
    /\ After("preflight") = "environment" /\ After("environment") = "unit" /\ After("unit") = "p4testgen"
    /\ After("p4testgen") = "mininet" /\ After("mininet") = "compiler" /\ After("compiler") = "functional"
    /\ After("functional") = "performance" /\ After("performance") = "measured" /\ After("measured") = "crash"
    /\ After("crash") = "recovery" /\ After("recovery") = "lifecycle" /\ After("lifecycle") = "soak"
    /\ After("soak") = "soaked" /\ After("soaked") = "supply" /\ After("supply") = "aggregate" /\ After("aggregate") = "exit"
<1>1. /\ After(Stages[1]) = Stages[2] /\ After(Stages[2]) = Stages[3] /\ After(Stages[3]) = Stages[4]
      /\ After(Stages[4]) = Stages[5] /\ After(Stages[5]) = Stages[6] /\ After(Stages[6]) = Stages[7]
      /\ After(Stages[7]) = Stages[8] /\ After(Stages[8]) = Stages[9] /\ After(Stages[9]) = Stages[10]
      /\ After(Stages[10]) = Stages[11] /\ After(Stages[11]) = Stages[12] /\ After(Stages[12]) = Stages[13]
      /\ After(Stages[13]) = Stages[14] /\ After(Stages[14]) = Stages[15] /\ After(Stages[15]) = Stages[16]
      /\ After(Stages[16]) = Stages[17]
  <2>1. \A k \in 1..16 : After(Stages[k]) = Stages[k + 1] BY NextStage
  <2>. QED BY <2>1
<1>. QED BY <1>1, StagesAre

Leaving == {"preflight", "environment", "unit", "p4testgen", "mininet", "compiler", "functional", "performance", "measured",
            "crash", "recovery", "lifecycle", "soak", "soaked", "supply", "aggregate"}
StageSet == Leaving \cup {"exit", "end"}
LEMMA Moves ==
    ASSUME NEW s \in Leaving
    PROVE  /\ After(s) \in Leaving \cup {"exit"} /\ Rank[After(s)] = Rank[s] + 1 /\ Rank[s] \in 1..16
           /\ After(s) = "exit" <=> s = "aggregate"
           /\ After(s) = "lifecycle" <=> s = "recovery"
           /\ After(s) = "soak" <=> s = "lifecycle"
BY AfterIs, RankIs DEF Leaving

FileResult == {"none", "old", "PASS", "FAIL", "HOLD"}
LEMMA WroteIs ==
    ASSUME ShellType, NEW p \in Phases, NEW r \in FileResult \ {"old"}, Wrote(p, r)
    PROVE  /\ file' \in [Phases -> FileResult] /\ (r # "none" => file'[p] = r)
           /\ \A q \in Phases : (file'[q] = "old" => file[q] = "old") /\ (q # p => file'[q] = file[q])
<1>1. file \in [Phases -> FileResult] BY DEF ShellType, FileResult
<1>. QED BY <1>1 DEF Wrote, FileResult

(* The shell goes on to the next stage.                                    *)
ShellInv == ShellType /\ MinInv /\ FreshInv
LEMMA Onward ==
    ASSUME ShellInv, NEW s \in Leaving \ {"mininet", "aggregate"}, at = s, at' = After(s), bad' \in BOOLEAN, bad => bad',
           file' \in [Phases -> FileResult], \A q \in Phases : file'[q] = "old" => file[q] = "old",
           file'["mininet"] = "PASS" => file["mininet"] = "PASS",
           \A q \in Checked : Until[q] = Rank[s] /\ ~bad' => file'[q] # "old",
           UNCHANGED <<exit, reused, formal, agg, mn>>, life' \in [n : 0..NCycles, bad : BOOLEAN],
           smp' \in [on : BOOLEAN, until : Nat],
           sup' \in [failed : SUBSET (ToSet(Groups) \cup {"offline"}), unfixed : BOOLEAN, step : 0..Len(Groups) + 3]
    PROVE  ShellInv'
<1>. USE DEF ShellInv
<1>1. /\ at' \in Leaving /\ Rank[at'] = Rank[at] + 1 /\ Rank[at] \in 1..16 BY Moves
<1>2. ShellType' BY <1>1 DEF ShellType, Leaving, FileResult
<1>3. MinInv'
  <2>1. file'["mininet"] = "PASS" => Rank[at] > 5 /\ ~mn'.box /\ ~mn'.net BY RankIs DEF MinInv
  <2>2. file'["mininet"] = "PASS" => Rank[at'] > 5 BY <1>1, <2>1
  <2>3. mn'.step > MCleanup' => mn'.end \in {"PASS", "FAIL"} BY DEF MinInv, MCleanup
  <2>. QED BY <2>1, <2>2, <2>3, RankIs DEF MinInv
<1>4. at # "end" /\ at' # "end" /\ at' # "exit" BY <1>1 DEF Leaving
<1>5. \A p \in Phases : file'[p] = "old" => reused' BY DEF FreshInv
<1>6. exit' = -1 BY <1>4 DEF FreshInv
<1>7. ~bad' => \A p \in Checked : file'[p] = "old" => Rank[at'] <= Until[p]
  <2>. SUFFICES ASSUME ~bad', NEW p \in Checked, file'[p] = "old" PROVE Rank[at'] <= Until[p] OBVIOUS
  <2>1. p \in Phases BY DEF Checked, Phases
  <2>2. file[p] = "old" BY <2>1
  <2>3. Rank[at] <= Until[p] BY <1>4, <2>2 DEF FreshInv
  <2>4. Until[p] # Rank[at] OBVIOUS
  <2>5. Until[p] \in Int BY UntilType
  <2>6. Rank[at] \in Int BY <1>1
  <2>7. PICK u \in Int : u = Until[p] BY <2>5
  <2>8. PICK v \in Int : v = Rank[at] BY <2>6
  <2>9. v <= u /\ u # v BY <2>3, <2>4, <2>7, <2>8
  <2>10. v + 1 <= u BY <2>9
  <2>. QED BY <1>1, <2>7, <2>8, <2>10
<1>8. FreshInv' BY <1>4, <1>5, <1>6, <1>7 DEF FreshInv
<1>. QED BY <1>2, <1>3, <1>8

LEMMA WhereMoves ==
    ASSUME Where, NEW s \in Leaving \ {"lifecycle"}, at = s, at' = After(s), job = "idle", UNCHANGED <<job, todo, life>>
    PROVE  Where'
<1>1. at' # "soak" /\ (at' = "lifecycle" => at = "recovery") BY Moves
<1>2. at \notin {"lifecycle", "end"} => ~(life.n > 0) BY DEF Where
<1>3. at # "end" /\ at # "lifecycle" BY DEF Leaving
<1>. QED BY <1>1, <1>2, <1>3 DEF Where

LEMMA IdleStage ==
    ASSUME Where, at \notin {"measured", "soaked"}, job \in {"idle", "performance", "soak"} PROVE job = "idle" /\ todo = <<>>
BY DEF Where

QInv == WorkInv /\ ShellInv /\ Where

(* A stage that ends with the file of its phase.                           *)
LEMMA PhaseEnds ==
    ASSUME ShellInv, NEW s \in Leaving \ {"mininet", "aggregate"}, NEW p \in Phases \ {"mininet"},
           \A q \in Checked : Until[q] = Rank[s] => q = p,
           NEW st \in BOOLEAN, NEW r \in FileResult \ {"old"}, r = "none" => st \/ p = "supply",
           Leave(s, st), Wrote(p, r), UNCHANGED <<exit, reused, formal, agg, mn>>, life' \in [n : 0..NCycles, bad : BOOLEAN],
           smp' \in [on : BOOLEAN, until : Nat],
           sup' \in [failed : SUBSET (ToSet(Groups) \cup {"offline"}), unfixed : BOOLEAN, step : 0..Len(Groups) + 3]
    PROVE  ShellInv' /\ at = s /\ at' = After(s)
<1>1. at = s /\ at' = After(s) /\ bad' = (bad \/ st) BY DEF Leave
<1>2. bad' \in BOOLEAN /\ (bad => bad') /\ (st => bad') BY <1>1
<1>3. /\ file' \in [Phases -> FileResult] /\ (r # "none" => file'[p] = r)
      /\ \A q \in Phases : (file'[q] = "old" => file[q] = "old") /\ (q # p => file'[q] = file[q])
  BY WroteIs DEF ShellInv
<1>4. "mininet" \in Phases BY DEF Phases
<1>5. \A q \in Checked : Until[q] = Rank[s] /\ ~bad' => file'[q] # "old"
  <2>. SUFFICES ASSUME NEW q \in Checked, Until[q] = Rank[s], ~bad' PROVE file'[q] # "old" OBVIOUS
  <2>1. q = p /\ q # "supply" BY DEF Checked
  <2>2. r # "none" BY <1>2, <2>1
  <2>. QED BY <1>3, <2>1, <2>2
<1>6. ShellInv' BY <1>1, <1>2, <1>3, <1>4, <1>5, Onward
<1>. QED BY <1>1, <1>6

-----------------------------------------------------------------------------
(* One lemma for each group of stages.                                     *)
LEMMA RestTypes ==
    ASSUME ShellType
    PROVE  /\ life \in [n : 0..NCycles, bad : BOOLEAN] /\ smp \in [on : BOOLEAN, until : Nat]
           /\ sup \in [failed : SUBSET (ToSet(Groups) \cup {"offline"}), unfixed : BOOLEAN, step : 0..Len(Groups) + 3]
           /\ file \in [Phases -> FileResult] /\ bad \in BOOLEAN
BY DEF ShellType, FileResult

LEMMA NoPhase ==
    /\ \A q \in Checked : Until[q] # Rank["preflight"]
    /\ \A q \in Checked : Until[q] # Rank["performance"]
    /\ \A q \in Checked : Until[q] # Rank["soak"]
    /\ \A q \in Checked : Until[q] # Rank["supply"]
BY RankIs, UntilIs DEF Checked
LEMMA OnePhase ==
    /\ \A q \in Checked : Until[q] = Rank["environment"] => q = "environment"
    /\ \A q \in Checked : Until[q] = Rank["unit"] => q = "unit"
    /\ \A q \in Checked : Until[q] = Rank["p4testgen"] => q = "p4testgen"
    /\ \A q \in Checked : Until[q] = Rank["mininet"] => q = "mininet"
    /\ \A q \in Checked : Until[q] = Rank["compiler"] => q = "compiler"
    /\ \A q \in Checked : Until[q] = Rank["functional"] => q = "functional"
    /\ \A q \in Checked : Until[q] = Rank["measured"] => q = "performance"
    /\ \A q \in Checked : Until[q] = Rank["crash"] => q = "crash"
    /\ \A q \in Checked : Until[q] = Rank["recovery"] => q = "recovery"
    /\ \A q \in Checked : Until[q] = Rank["lifecycle"] => q = "lifecycle"
    /\ \A q \in Checked : Until[q] = Rank["soaked"] => q = "soak"
BY RankIs, UntilIs DEF Checked

LEMMA PreflightStep == ASSUME QInv, Preflight PROVE QInv'
<1>. USE DEF QInv
<1>1. /\ at = "preflight" /\ at' = After("preflight") /\ bad' = (bad \/ FALSE) /\ UNCHANGED idle /\ UNCHANGED file /\ NoFault
      /\ UNCHANGED <<mn, life, smp, sup, agg, exit, reused, formal>>
  BY DEF Preflight, Leave, rest, NoFault
<1>2. bad \in BOOLEAN BY RestTypes DEF ShellInv
<1>3. bad' = bad BY <1>1, <1>2
<1>4. "preflight" \in Leaving \ {"mininet", "aggregate"} /\ "preflight" # "lifecycle" BY DEF Leaving
<1>5. ShellInv' BY <1>1, <1>2, <1>3, <1>4, NoPhase, RestTypes, Onward DEF ShellInv
<1>6. WorkInv' BY <1>1, IdleKeeps
<1>7. job = "idle" BY <1>1, IdleStage DEF WorkInv, WorkType
<1>8. Where' BY <1>1, <1>4, <1>7, WhereMoves DEF idle
<1>. QED BY <1>5, <1>6, <1>8

(* The stages that write their file and leave the switch alone.            *)
LEMMA QuietPhase ==
    ASSUME QInv, NEW s \in {"environment", "unit", "p4testgen", "compiler"}, NEW st \in BOOLEAN,
           NEW r \in FileResult \ {"old"}, r = "none" => st, Leave(s, st), Wrote(s, r), Fault \/ NoFault,
           UNCHANGED idle, UNCHANGED rest
    PROVE  QInv'
<1>. USE DEF QInv
<1>1. UNCHANGED <<mn, life, smp, sup, agg, exit, reused, formal>> BY DEF rest
<1>2. s \in Leaving \ {"mininet", "aggregate"} /\ s # "lifecycle" /\ s \in Phases \ {"mininet"} /\ s \notin {"measured", "soaked"}
  BY DEF Leaving, Phases
<1>3. \A q \in Checked : Until[q] = Rank[s] => q = s BY OnePhase
<1>4. ShellInv' /\ at = s /\ at' = After(s) BY <1>1, <1>2, <1>3, RestTypes, PhaseEnds DEF ShellInv
<1>5. WorkInv' BY IdleKeeps
<1>6. job = "idle" BY <1>2, <1>4, IdleStage DEF WorkInv, WorkType
<1>7. Where' BY <1>1, <1>2, <1>4, <1>6, WhereMoves DEF idle
<1>. QED BY <1>4, <1>5, <1>7

LEMMA QuietStages ==
    ASSUME QInv, ProbeEnvironment \/ Unit \/ RecordP4Testgen \/ Compiler PROVE QInv'
<1>1. {"PASS", "FAIL", "none"} \subseteq FileResult \ {"old"} BY DEF FileResult
<1>2. ASSUME NEW p \in {"unit", "p4testgen", "compiler"}, RecordCommand(p) PROVE QInv'
  <2>1. UNCHANGED idle /\ UNCHANGED rest BY <1>2 DEF RecordCommand
  <2>2. \/ Leave(p, FALSE) /\ Wrote(p, "PASS") /\ NoFault
        \/ Leave(p, TRUE) /\ Fault /\ Wrote(p, "FAIL") BY <1>2 DEF RecordCommand
  <2>3. CASE Leave(p, FALSE) /\ Wrote(p, "PASS") /\ NoFault BY <1>1, <2>1, <2>3, QuietPhase
  <2>4. CASE Leave(p, TRUE) /\ Fault /\ Wrote(p, "FAIL") BY <1>1, <2>1, <2>4, QuietPhase
  <2>. QED BY <2>2, <2>3, <2>4
<1>3. CASE ProbeEnvironment
  <2>1. UNCHANGED idle /\ UNCHANGED rest BY <1>3 DEF ProbeEnvironment
  <2>2. \/ Leave("environment", FALSE) /\ Wrote("environment", "PASS") /\ NoFault
        \/ Leave("environment", TRUE) /\ Fault /\ \E r \in {"FAIL", "none"} : Wrote("environment", r)
    BY <1>3 DEF ProbeEnvironment
  <2>3. CASE Leave("environment", FALSE) /\ Wrote("environment", "PASS") /\ NoFault BY <1>1, <2>1, <2>3, QuietPhase
  <2>4. CASE Leave("environment", TRUE) /\ Fault /\ \E r \in {"FAIL", "none"} : Wrote("environment", r)
    <3>1. PICK r \in {"FAIL", "none"} : Wrote("environment", r) BY <2>4
    <3>. QED BY <1>1, <2>1, <2>4, <3>1, QuietPhase
  <2>. QED BY <2>2, <2>3, <2>4
<1>. QED BY <1>2, <1>3 DEF Unit, RecordP4Testgen, Compiler

(* The stages that write their file and leave a new switch.                *)
LEMMA SwitchPhase ==
    ASSUME QInv, NEW s \in {"functional", "crash", "recovery"}, NEW st \in BOOLEAN,
           NEW r \in FileResult \ {"old"}, r = "none" => st, Leave(s, st), Wrote(s, r), Fault \/ NoFault,
           sw' \in {Blank, [Blank EXCEPT !.loaded = TRUE]},
           UNCHANGED <<job, todo, view, rep, traffic, turn, goal, torn, stream, verdict>>, UNCHANGED rest
    PROVE  QInv'
<1>. USE DEF QInv
<1>1. UNCHANGED <<mn, life, smp, sup, agg, exit, reused, formal>> BY DEF rest
<1>2. s \in Leaving \ {"mininet", "aggregate"} /\ s # "lifecycle" /\ s \in Phases \ {"mininet"} /\ s \notin {"measured", "soaked"}
  BY DEF Leaving, Phases
<1>3. \A q \in Checked : Until[q] = Rank[s] => q = s BY OnePhase
<1>4. ShellInv' /\ at = s /\ at' = After(s) BY <1>1, <1>2, <1>3, RestTypes, PhaseEnds DEF ShellInv
<1>5. job = "idle" BY <1>2, <1>4, IdleStage DEF WorkInv, WorkType
<1>6. WorkInv' BY <1>5, SwitchKeeps
<1>7. Where' BY <1>1, <1>2, <1>4, <1>5, WhereMoves
<1>. QED BY <1>4, <1>6, <1>7

LEMMA SwitchStages == ASSUME QInv, Suite("functional") \/ Crash \/ Suite("recovery") PROVE QInv'
<1>1. {"PASS", "FAIL", "none"} \subseteq FileResult \ {"old"} BY DEF FileResult
<1>2. ASSUME NEW s \in {"functional", "recovery"}, Suite(s) PROVE QInv'
  <2>1. /\ sw' = [Blank EXCEPT !.loaded = TRUE] /\ UNCHANGED rest
        /\ UNCHANGED <<job, todo, view, rep, traffic, turn, goal, torn, stream, verdict>>
    BY <1>2 DEF Suite
  <2>2. \/ Leave(s, FALSE) /\ Wrote(s, "PASS") /\ NoFault
        \/ Leave(s, TRUE) /\ Fault /\ \E r \in {"FAIL", "none"} : Wrote(s, r) BY <1>2 DEF Suite
  <2>3. CASE Leave(s, FALSE) /\ Wrote(s, "PASS") /\ NoFault BY <1>1, <2>1, <2>3, SwitchPhase
  <2>4. CASE Leave(s, TRUE) /\ Fault /\ \E r \in {"FAIL", "none"} : Wrote(s, r)
    <3>1. PICK r \in {"FAIL", "none"} : Wrote(s, r) BY <2>4
    <3>. QED BY <1>1, <2>1, <2>4, <3>1, SwitchPhase
  <2>. QED BY <2>2, <2>3, <2>4
<1>3. CASE Crash
  <2>1. /\ sw' = Blank /\ UNCHANGED rest
        /\ UNCHANGED <<job, todo, view, rep, traffic, turn, goal, torn, stream, verdict>>
    BY <1>3 DEF Crash
  <2>2. \/ Leave("crash", FALSE) /\ Wrote("crash", "PASS") /\ NoFault
        \/ Leave("crash", TRUE) /\ Fault /\ Wrote("crash", "FAIL") BY <1>3 DEF Crash
  <2>3. CASE Leave("crash", FALSE) /\ Wrote("crash", "PASS") /\ NoFault BY <1>1, <2>1, <2>3, SwitchPhase
  <2>4. CASE Leave("crash", TRUE) /\ Fault /\ Wrote("crash", "FAIL") BY <1>1, <2>1, <2>4, SwitchPhase
  <2>. QED BY <2>2, <2>3, <2>4
<1>. QED BY <1>2, <1>3

LEMMA CycleStep == ASSUME QInv, LifecycleCycle PROVE QInv'
<1>. USE DEF QInv
<1>1. /\ at = "lifecycle" /\ life.n < NCycles /\ sw' = Blank /\ (Fault \/ NoFault)
      /\ UNCHANGED <<job, todo, view, rep, traffic, turn, goal, torn, stream, verdict, at, file, mn, smp, sup, agg, exit, reused, formal>>
  BY DEF LifecycleCycle
<1>2. job = "idle" BY <1>1, IdleStage DEF WorkInv, WorkType
<1>3. WorkInv' BY <1>1, <1>2, SwitchKeeps
<1>4. PICK l \in [n : 0..NCycles, bad : BOOLEAN] : l = life BY RestTypes DEF ShellInv
<1>5. life' \in [n : 0..NCycles, bad : BOOLEAN]
  <2>1. l.n \in 0..NCycles /\ NCycles \in Nat BY Numbers
  <2>2. l.n + 1 \in 0..NCycles BY <1>1, <1>4, <2>1
  <2>3. [l EXCEPT !.n = @ + 1] \in [n : 0..NCycles, bad : BOOLEAN] BY <2>2
  <2>4. \A b \in BOOLEAN : [n |-> l.n + 1, bad |-> b] \in [n : 0..NCycles, bad : BOOLEAN] BY <2>2
  <2>5. \A x \in ProbeFailures : (l.bad \/ ~(x = "none" /\ reused)) \in BOOLEAN OBVIOUS
  <2>6. life' = [life EXCEPT !.n = @ + 1] => life' \in [n : 0..NCycles, bad : BOOLEAN] BY <1>4, <2>3
  <2>7. ASSUME NEW x \in ProbeFailures, life' = [n |-> life.n + 1, bad |-> life.bad \/ ~(x = "none" /\ reused)]
        PROVE  life' \in [n : 0..NCycles, bad : BOOLEAN]
    <3>1. PICK b \in BOOLEAN : b = (l.bad \/ ~(x = "none" /\ reused)) BY <2>5
    <3>. QED BY <1>4, <2>4, <2>7, <3>1
  <2>8. \/ life' = [life EXCEPT !.n = @ + 1]
        \/ \E x \in ProbeFailures : life' = [n |-> life.n + 1, bad |-> life.bad \/ ~(x = "none" /\ reused)]
    BY Zenon DEF LifecycleCycle
  <2>. QED BY <2>6, <2>7, <2>8, Zenon
<1>6. bad' \in BOOLEAN /\ (bad => bad')
  <2>1. bad \in BOOLEAN BY RestTypes DEF ShellInv
  <2>2. bad' = bad \/ bad' = TRUE BY Zenon DEF LifecycleCycle
  <2>. QED BY <2>1, <2>2
<1>7. ShellType' BY <1>1, <1>5, <1>6 DEF ShellInv, ShellType
<1>8. MinInv' BY <1>1 DEF ShellInv, MinInv
<1>9. FreshInv' BY <1>1, <1>6 DEF ShellInv, FreshInv
<1>10. Where' BY <1>1, <1>2 DEF Where
<1>. QED BY <1>3, <1>7, <1>8, <1>9, <1>10 DEF ShellInv

LEMMA FinalizeLifecycleStep == ASSUME QInv, FinalizeLifecycle PROVE QInv'
<1>. USE DEF QInv
<1>. DEFINE r == IF life.bad THEN "FAIL" ELSE "PASS"
<1>1. /\ at = "lifecycle" /\ life.n = NCycles /\ Leave("lifecycle", life.bad) /\ Wrote("lifecycle", r)
      /\ life' = [n |-> 0, bad |-> FALSE] /\ UNCHANGED idle /\ UNCHANGED <<mn, smp, sup, agg, exit, reused, formal>> /\ NoFault
  BY DEF FinalizeLifecycle, NoFault
<1>2. r \in FileResult \ {"old"} /\ r # "none" BY DEF FileResult
<1>3. life.bad \in BOOLEAN BY RestTypes DEF ShellInv
<1>4. "lifecycle" \in Leaving \ {"mininet", "aggregate"} /\ "lifecycle" \in Phases \ {"mininet"} BY DEF Leaving, Phases
<1>5. life' \in [n : 0..NCycles, bad : BOOLEAN] /\ life'.n = 0 BY <1>1, Numbers
<1>. HIDE DEF r
<1>6. ShellInv' /\ at' = After("lifecycle") BY <1>1, <1>2, <1>3, <1>4, <1>5, OnePhase, RestTypes, PhaseEnds DEF ShellInv
<1>7. WorkInv' BY <1>1, IdleKeeps
<1>8. job = "idle" /\ todo = <<>> BY <1>1, IdleStage DEF WorkInv, WorkType
<1>9. sw = Blank BY <1>1, Numbers DEF Where
<1>10. at' = "soak" BY <1>6, AfterIs
<1>11. Where' BY <1>1, <1>5, <1>8, <1>9, <1>10 DEF Where, idle
<1>. QED BY <1>6, <1>7, <1>11
-----------------------------------------------------------------------------
(* The Mininet stage.                                                      *)
LEMMA MinSteps == Len(MininetSteps) = 15 /\ MCleanup = 16
BY DEF MininetSteps, MCleanup

SameRun(m, n) == m \in MinType /\ m.step = n.step /\ m.tries = n.tries /\ m.end = n.end
LEMMA MinParts ==
    ASSUME NEW m \in MinType
    PROVE  /\ SameRun(m, m) /\ SameRun([m EXCEPT !.box = TRUE, !.id = TRUE], m)
           /\ \A v \in BOOLEAN : SameRun([m EXCEPT !.net = v], m)
           /\ \A v \in BOOLEAN : SameRun([m EXCEPT !.box = v], m)
           /\ \A v \in BOOLEAN : SameRun([m EXCEPT !.link = v], m)
           /\ \A v \in BOOLEAN : SameRun([m EXCEPT !.ready = v], m)
           /\ \A v \in BOOLEAN : SameRun([m EXCEPT !.overlay = v], m)
           /\ \A v \in BOOLEAN : SameRun([m EXCEPT !.errors = v], m)
BY DEF SameRun, MinType
LEMMA MinMoves ==
    ASSUME NEW m \in MinType
    PROVE  /\ m.step < MCleanup + 3 => LET n == [m EXCEPT !.step = @ + 1] IN n \in MinType /\ n.step = m.step + 1 /\ n.end = m.end
           /\ LET n == [m EXCEPT !.step = MCleanup, !.end = "FAIL"] IN n \in MinType /\ n.step = MCleanup
           /\ m.tries < Attempts - 1 => LET n == [m EXCEPT !.tries = @ + 1] IN n \in MinType /\ n.step = m.step /\ n.end = m.end
<1>1. PICK k \in Nat : k = m.step /\ k <= 19
  <2>1. m.step \in 0..MCleanup + 3 BY DEF MinType
  <2>. QED BY <2>1, MinSteps
<1>2. m.step < MCleanup + 3 => k + 1 \in 0..MCleanup + 3 BY <1>1, MinSteps
<1>3. m.step < MCleanup + 3 => LET n == [m EXCEPT !.step = @ + 1] IN n \in MinType /\ n.step = m.step + 1 /\ n.end = m.end
  BY <1>1, <1>2 DEF MinType
<1>4. MCleanup \in 0..MCleanup + 3 BY MinSteps
<1>5. LET n == [m EXCEPT !.step = MCleanup, !.end = "FAIL"] IN n \in MinType /\ n.step = MCleanup BY <1>4 DEF MinType
<1>6. m.tries < Attempts - 1 => m.tries + 1 \in 0..Attempts - 1
  <2>1. m.tries \in 0..Attempts - 1 BY DEF MinType
  <2>2. Attempts \in Nat BY QualificationAssumption
  <2>. QED BY <2>1, <2>2
<1>7. m.tries < Attempts - 1 => LET n == [m EXCEPT !.tries = @ + 1] IN n \in MinType /\ n.step = m.step /\ n.end = m.end
  BY <1>6 DEF MinType
<1>. QED BY <1>3, <1>5, <1>7

(* Within the stage: the file is not there yet.                            *)
LEMMA MinStay ==
    ASSUME QInv, at = "mininet", MKeep, Fault \/ NoFault, mn' \in MinType, mn'.step > MCleanup => mn'.end \in {"PASS", "FAIL"}
    PROVE  QInv'
<1>. USE DEF QInv
<1>1. UNCHANGED idle /\ UNCHANGED <<life, smp, sup, agg, exit, reused, formal, file, bad, at>> BY DEF MKeep
<1>2. WorkInv' BY <1>1, IdleKeeps
<1>3. ShellType' BY <1>1 DEF ShellInv, ShellType
<1>4. file["mininet"] # "PASS" BY RankIs DEF ShellInv, MinInv
<1>5. MinInv' BY <1>1, <1>4 DEF MinInv, MCleanup
<1>6. FreshInv' BY <1>1 DEF ShellInv, FreshInv
<1>7. Where' BY <1>1 DEF Where, idle
<1>. QED BY <1>2, <1>3, <1>5, <1>6, <1>7 DEF ShellInv

LEMMA MinAdvances ==
    ASSUME QInv, at = "mininet", NEW m, SameRun(m, mn), mn.step < MCleanup, MTo(m), Fault \/ NoFault
    PROVE  QInv'
<1>1. mn' = [m EXCEPT !.step = @ + 1] /\ MKeep BY DEF MTo
<1>2. PICK k \in Nat : k = mn.step /\ k < 16
  <2>1. mn.step \in 0..MCleanup + 3 BY DEF QInv, ShellInv, ShellType, MinType
  <2>. QED BY <2>1, MinSteps
<1>3. m \in MinType /\ m.step = k BY <1>2 DEF SameRun
<1>4. k < MCleanup + 3 BY <1>2, MinSteps
<1>5. mn' \in MinType /\ mn'.step = k + 1 BY <1>1, <1>3, <1>4, MinMoves
<1>6. ~(mn'.step > MCleanup) BY <1>2, <1>5, MinSteps
<1>. QED BY <1>1, <1>5, <1>6, MinStay

LEMMA MinRaises ==
    ASSUME QInv, at = "mininet", NEW m \in MinType, mn' = [m EXCEPT !.step = MCleanup, !.end = "FAIL"], MKeep, Fault \/ NoFault
    PROVE  QInv'
<1>1. mn' \in MinType /\ mn'.step = MCleanup BY MinMoves
<1>2. ~(mn'.step > MCleanup) BY <1>1, MinSteps
<1>. QED BY <1>1, <1>2, MinStay

(* The stage ends with its file, or without one and with a bad status.     *)
LEMMA MinLeaves ==
    ASSUME QInv, NEW st \in BOOLEAN, NEW r \in FileResult \ {"old"}, Leave("mininet", st), Wrote("mininet", r), r = "none" => st,
           r = "PASS" => ~mn'.box /\ ~mn'.net, mn' \in MinType, mn'.step = 0,
           UNCHANGED idle, UNCHANGED <<life, smp, sup, agg, exit, reused, formal>>, Fault \/ NoFault
    PROVE  QInv'
<1>. USE DEF QInv
<1>1. at = "mininet" /\ at' = "compiler" /\ bad' = (bad \/ st) BY AfterIs DEF Leave
<1>2. bad' \in BOOLEAN /\ (bad => bad') /\ (st => bad') BY <1>1
<1>3. "mininet" \in Phases BY DEF Phases
<1>4. /\ file' \in [Phases -> FileResult] /\ (r # "none" => file'["mininet"] = r)
      /\ \A q \in Phases : (file'[q] = "old" => file[q] = "old") /\ (q # "mininet" => file'[q] = file[q])
  BY <1>3, WroteIs DEF ShellInv
<1>5. WorkInv' BY IdleKeeps
<1>6. ShellType' BY <1>1, <1>2, <1>4 DEF ShellInv, ShellType, FileResult
<1>7. file["mininet"] # "PASS" BY <1>1, RankIs DEF ShellInv, MinInv
<1>8. r = "none" => file' = file BY DEF Wrote
<1>9. Rank[at'] > Rank["mininet"]' BY <1>1, RankIs
<1>10. ~(mn'.step > MCleanup) BY MinSteps
<1>11. MinInv' BY <1>4, <1>7, <1>8, <1>9, <1>10 DEF MinInv, MCleanup
<1>12. \A p \in Phases : file'[p] = "old" => reused' BY <1>4 DEF ShellInv, FreshInv
<1>13. exit' = -1 BY <1>1 DEF ShellInv, FreshInv
<1>14. ~bad' => \A p \in Checked : file'[p] = "old" => Rank[at'] <= Until[p]
  <2>. SUFFICES ASSUME ~bad', NEW p \in Checked, file'[p] = "old" PROVE Rank[at'] <= Until[p] OBVIOUS
  <2>1. p \in Phases BY DEF Checked, Phases
  <2>2. file[p] = "old" BY <1>4, <2>1
  <2>3. Rank["mininet"] <= Until[p] BY <1>1, <1>2, <2>2 DEF ShellInv, FreshInv
  <2>4. p # "mininet" BY <1>2, <1>4
  <2>5. Until[p] # Rank["mininet"] BY <2>4, OnePhase
  <2>6. PICK u \in Int : u = Until[p] BY UntilType
  <2>7. 5 <= u /\ u # 5 BY <2>3, <2>5, <2>6, RankIs
  <2>8. 6 <= u BY <2>7
  <2>. QED BY <1>1, <2>6, <2>8, RankIs
<1>15. FreshInv' BY <1>1, <1>12, <1>13, <1>14 DEF FreshInv
<1>16. job = "idle" BY <1>1, IdleStage DEF WorkInv, WorkType
<1>17. "mininet" \in Leaving \ {"lifecycle"} BY DEF Leaving
<1>18. Where' BY <1>1, <1>16, <1>17, AfterIs, WhereMoves DEF idle
<1>. QED BY <1>5, <1>6, <1>11, <1>15, <1>18 DEF ShellInv

LEMMA MinType0 ==
    ASSUME ShellType
    PROVE  /\ mn \in MinType /\ mn.step \in 0..19 /\ mn.box \in BOOLEAN /\ mn.net \in BOOLEAN /\ mn.errors \in BOOLEAN
           /\ mn.id \in BOOLEAN /\ mn.end \in {"", "PASS", "FAIL"}
<1>1. mn \in MinType BY DEF ShellType
<1>2. mn.step \in 0..MCleanup + 3 BY <1>1 DEF MinType
<1>3. mn.step \in 0..19 BY <1>2, MinSteps
<1>4. /\ mn.box \in BOOLEAN /\ mn.net \in BOOLEAN /\ mn.errors \in BOOLEAN
      /\ mn.id \in BOOLEAN /\ mn.end \in {"", "PASS", "FAIL"} BY <1>1 DEF MinType
<1>. QED BY <1>1, <1>3, <1>4

LEMMA MinAt ==
    ASSUME QInv, NEW k \in {"build", "run", "check", "move", "setup", "forward", "insert", "drop", "counter", "delete", "down", "up"},
           MStep(k)
    PROVE  at = "mininet" /\ mn.step < MCleanup
<1>1. at = "mininet" /\ mn.step \in 1..15 BY MinSteps DEF MStep
<1>. QED BY <1>1, MinSteps

(* A step of main: it is done, or it raises with some of its effect.       *)
LEMMA MinStepKeeps ==
    ASSUME QInv, NEW k \in {"build", "run", "check", "move", "setup", "forward", "insert", "drop", "counter", "delete", "down", "up"},
           MStep(k), NEW m, SameRun(m, mn),
           (MTo(m) /\ (Fault \/ NoFault)) \/ MRaise(m)
    PROVE  QInv'
<1>1. at = "mininet" /\ mn.step < MCleanup BY MinAt
<1>2. CASE MTo(m) /\ (Fault \/ NoFault) BY <1>1, <1>2, MinAdvances
<1>3. CASE MRaise(m)
  <2>1. m \in MinType BY DEF SameRun
  <2>. QED BY <1>1, <1>3, <2>1, MinRaises DEF MRaise
<1>. QED BY <1>2, <1>3

LEMMA ControllerKeeps ==
    ASSUME QInv, NEW k \in {"setup", "insert", "counter", "delete"}, NEW m, SameRun(m, mn), Controller(k, m)
    PROVE  QInv'
<1>1. MStep(k) /\ ((MTo(m) /\ NoFault) \/ MRaise(mn) \/ MRaise(m)) BY DEF Controller
<1>2. SameRun(mn, mn) BY MinType0, MinParts DEF QInv, ShellInv
<1>. QED BY <1>1, <1>2, MinStepKeeps

LEMMA MainSteps ==
    ASSUME QInv, MininetBuild \/ MininetRun \/ MininetCheck \/ MininetMove PROVE QInv'
<1>1. mn \in MinType BY MinType0 DEF QInv, ShellInv
<1>2. CASE MininetBuild
  <2>1. MStep("build") BY <1>2 DEF MininetBuild
  <2>2. PICK v \in BOOLEAN : (MTo([mn EXCEPT !.net = v]) /\ NoFault) \/ MRaise([mn EXCEPT !.net = v])
    BY <1>2, Zenon DEF MininetBuild
  <2>. QED BY <1>1, <2>1, <2>2, MinParts, MinStepKeeps
<1>3. CASE MininetRun
  <2>1. MStep("run") BY <1>3 DEF MininetRun
  <2>2. CASE MTo([mn EXCEPT !.box = TRUE, !.id = TRUE]) /\ NoFault BY <1>1, <2>1, <2>2, MinParts, MinStepKeeps
  <2>3. ASSUME NEW v \in BOOLEAN, MRaise([mn EXCEPT !.box = v]) PROVE QInv' BY <1>1, <2>1, <2>3, MinParts, MinStepKeeps
  <2>. QED BY <1>3, <2>2, <2>3, Zenon DEF MininetRun
<1>4. CASE MininetCheck BY <1>1, <1>4, MinParts, MinStepKeeps DEF MininetCheck
<1>5. CASE MininetMove
  <2>1. MStep("move") BY <1>5 DEF MininetMove
  <2>2. CASE MTo([mn EXCEPT !.link = TRUE]) /\ NoFault BY <1>1, <2>1, <2>2, MinParts, MinStepKeeps
  <2>3. CASE MRaise(mn) BY <1>1, <2>1, <2>3, MinParts, MinStepKeeps
  <2>. QED BY <1>5, <2>2, <2>3 DEF MininetMove
<1>. QED BY <1>2, <1>3, <1>4, <1>5

LEMMA ControllerSteps ==
    ASSUME QInv, InvokeSetup \/ InvokeInsert \/ InvokeDelete \/ InvokeCounter PROVE QInv'
<1>1. mn \in MinType BY MinType0 DEF QInv, ShellInv
<1>2. CASE InvokeSetup
  <2>1. CASE Controller("setup", [mn EXCEPT !.ready = TRUE]) BY <1>1, <2>1, MinParts, ControllerKeeps
  <2>2. CASE MStep("setup") /\ Fault /\ MTo(mn) BY <1>1, <2>2, MinParts, MinStepKeeps
  <2>3. CASE MStep("setup") /\ Fault /\ mn.tries < Attempts - 1 /\ mn' = [mn EXCEPT !.tries = @ + 1] /\ MKeep
    <3>1. at = "mininet" /\ mn.step < MCleanup BY <2>3, MinAt
    <3>2. mn' \in MinType /\ mn'.step = mn.step BY <1>1, <2>3, MinMoves
    <3>3. mn.step \in 0..19 BY MinType0 DEF QInv, ShellInv
    <3>4. ~(mn'.step > MCleanup) BY <3>1, <3>2, <3>3, MinSteps
    <3>. QED BY <2>3, <3>1, <3>2, <3>4, MinStay
  <2>. QED BY <1>2, <2>1, <2>2, <2>3 DEF InvokeSetup
<1>3. CASE InvokeInsert
  <2>1. SameRun([mn EXCEPT !.overlay = TRUE], mn) BY <1>1, MinParts
  <2>. QED BY <1>3, <2>1, ControllerKeeps DEF InvokeInsert
<1>4. CASE InvokeDelete
  <2>1. SameRun([mn EXCEPT !.overlay = FALSE], mn) BY <1>1, MinParts
  <2>. QED BY <1>4, <2>1, ControllerKeeps DEF InvokeDelete
<1>5. CASE InvokeCounter BY <1>1, <1>5, MinParts, ControllerKeeps DEF InvokeCounter
<1>. QED BY <1>2, <1>3, <1>4, <1>5

LEMMA TrafficSteps ==
    ASSUME QInv, SendAndObserve("forward") \/ SendAndObserve("drop") \/ LinkState("down") \/ LinkState("up") PROVE QInv'
<1>1. mn \in MinType BY MinType0 DEF QInv, ShellInv
<1>2. ASSUME NEW k \in {"forward", "drop"}, SendAndObserve(k) PROVE QInv'
  <2>1. MStep(k) BY <1>2 DEF SendAndObserve
  <2>2. CASE MTo(mn) /\ NoFault BY <1>1, <2>1, <2>2, MinParts, MinStepKeeps
  <2>3. CASE mn' = [mn EXCEPT !.step = MCleanup, !.end = "FAIL"] /\ MKeep /\ NoFault BY <1>1, <2>1, <2>3, MinAt, MinRaises
  <2>4. CASE MRaise(mn) BY <1>1, <2>1, <2>4, MinParts, MinStepKeeps
  <2>5. (MTo(mn) /\ NoFault) \/ (mn' = [mn EXCEPT !.step = MCleanup, !.end = "FAIL"] /\ MKeep /\ NoFault) \/ MRaise(mn)
    BY <1>2 DEF SendAndObserve
  <2>. QED BY <2>2, <2>3, <2>4, <2>5
<1>3. ASSUME NEW k \in {"down", "up"}, LinkState(k) PROVE QInv'
  <2>1. MStep(k) BY <1>3 DEF LinkState
  <2>2. PICK up \in BOOLEAN : up = (k = "up") OBVIOUS
  <2>3. CASE MTo([mn EXCEPT !.link = up]) /\ NoFault BY <1>1, <2>1, <2>3, MinParts, MinStepKeeps
  <2>4. ASSUME NEW v \in BOOLEAN, MRaise([mn EXCEPT !.link = v]) PROVE QInv' BY <1>1, <2>1, <2>4, MinParts, MinStepKeeps
  <2>5. (MTo([mn EXCEPT !.link = up]) /\ NoFault) \/ \E l \in BOOLEAN : MRaise([mn EXCEPT !.link = l])
    BY <1>3, <2>2 DEF LinkState
  <2>. QED BY <2>3, <2>4, <2>5
<1>. QED BY <1>2, <1>3

(* What the clean-up leaves behind.                                        *)
LEMMA LeftType ==
    ASSUME NEW m \in MinType
    PROVE  LET n == [NoMininet EXCEPT !.box = m.box, !.net = m.net]
           IN  n \in MinType /\ n.step = 0 /\ n.box = m.box /\ n.net = m.net
<1>1. 0 \in 0..MCleanup + 3 BY MinSteps
<1>2. 0 \in 0..Attempts - 1 BY QualificationAssumption
<1>3. NoMininet \in MinType BY <1>1, <1>2 DEF NoMininet, MinType
<1>4. m.box \in BOOLEAN /\ m.net \in BOOLEAN BY DEF MinType
<1>5. [NoMininet EXCEPT !.box = m.box, !.net = m.net] \in MinType BY <1>3, <1>4 DEF MinType
<1>. QED BY <1>5 DEF NoMininet
LEMMA MinGone ==
    ASSUME QInv, NEW m \in MinType, Fault, MGone(m) PROVE QInv'
<1>1. mn' = [NoMininet EXCEPT !.box = m.box, !.net = m.net] BY DEF MGone, MLeft
<1>2. mn' \in MinType /\ mn'.step = 0 BY <1>1, LeftType
<1>3. /\ Leave("mininet", TRUE) /\ UNCHANGED file /\ UNCHANGED idle /\ UNCHANGED <<life, smp, sup, agg, exit, reused, formal>>
  BY DEF MGone
<1>4. Wrote("mininet", "none") BY <1>3 DEF Wrote
<1>5. "none" \in FileResult \ {"old"} BY DEF FileResult
<1>. QED BY <1>2, <1>3, <1>4, <1>5, MinLeaves

(* A step of the clean-up that goes on to the next one.                    *)
LEMMA MinCleans ==
    ASSUME QInv, at = "mininet", NEW m \in MinType, m.step = mn.step, mn.step \in 16..18, m.end \in {"PASS", "FAIL"}, MTo(m),
           Fault \/ NoFault
    PROVE  QInv'
<1>1. mn' = [m EXCEPT !.step = @ + 1] /\ MKeep BY DEF MTo
<1>2. m.step < MCleanup + 3 BY MinSteps
<1>3. mn' \in MinType /\ mn'.end = m.end BY <1>1, <1>2, MinMoves
<1>. QED BY <1>1, <1>3, MinStay

LEMMA MinEnd == ASSUME QInv, mn.step > MCleanup PROVE mn.end \in {"PASS", "FAIL"}
BY DEF QInv, ShellInv, MinInv

LEMMA LogsStep == ASSUME QInv, MininetLogs PROVE QInv'
<1>. DEFINE m == [mn EXCEPT !.end = IF @ = "" THEN "PASS" ELSE @]
<1>1. at = "mininet" /\ mn.step = 16 BY MinSteps DEF MininetLogs
<1>2. mn \in MinType /\ mn.end \in {"", "PASS", "FAIL"} BY MinType0 DEF QInv, ShellInv
<1>3. m \in MinType /\ m.step = mn.step /\ m.end \in {"PASS", "FAIL"} BY <1>2 DEF MinType
<1>4. (MTo(m) /\ NoFault) \/ (Fault /\ MGone(mn)) BY DEF MininetLogs
<1>5. mn.step \in 16..18 BY <1>1
<1>. HIDE DEF m
<1>6. CASE MTo(m) /\ NoFault BY <1>1, <1>3, <1>5, <1>6, MinCleans
<1>7. CASE Fault /\ MGone(mn) BY <1>2, <1>7, MinGone
<1>. QED BY <1>4, <1>6, <1>7

LEMMA RemoveStep == ASSUME QInv, MininetRemove PROVE QInv'
<1>1. at = "mininet" /\ mn.step = 17 BY MinSteps DEF MininetRemove
<1>2. mn \in MinType /\ mn.box \in BOOLEAN /\ mn.id \in BOOLEAN BY MinType0 DEF QInv, ShellInv
<1>3. mn.end \in {"PASS", "FAIL"} BY <1>1, MinSteps, MinEnd
<1>4. mn.step \in 16..18 BY <1>1
<1>5. PICK gone \in BOOLEAN : gone = (mn.box /\ ~mn.id) BY <1>2
<1>6. \/ MTo([mn EXCEPT !.box = gone]) /\ NoFault
      \/ MTo([mn EXCEPT !.errors = TRUE]) /\ Fault
      \/ Fault /\ \E b \in BOOLEAN : MGone([mn EXCEPT !.box = b])
  BY <1>5 DEF MininetRemove
<1>7. ASSUME NEW m, SameRun(m, mn), MTo(m), Fault \/ NoFault PROVE QInv'
  BY <1>1, <1>3, <1>4, <1>7, MinCleans DEF SameRun
<1>8. CASE MTo([mn EXCEPT !.box = gone]) /\ NoFault
  <2>1. SameRun([mn EXCEPT !.box = gone], mn) BY <1>2, MinParts
  <2>. QED BY <1>7, <1>8, <2>1
<1>9. CASE MTo([mn EXCEPT !.errors = TRUE]) /\ Fault
  <2>1. SameRun([mn EXCEPT !.errors = TRUE], mn) BY <1>2, MinParts
  <2>. QED BY <1>7, <1>9, <2>1
<1>10. CASE Fault /\ \E b \in BOOLEAN : MGone([mn EXCEPT !.box = b])
  <2>1. PICK b \in BOOLEAN : MGone([mn EXCEPT !.box = b]) BY <1>10
  <2>2. [mn EXCEPT !.box = b] \in MinType BY <1>2, MinParts DEF SameRun
  <2>. QED BY <1>10, <2>1, <2>2, MinGone
<1>. QED BY <1>6, <1>8, <1>9, <1>10

LEMMA StopStep == ASSUME QInv, MininetStop PROVE QInv'
<1>1. at = "mininet" /\ mn.step = 18 BY MinSteps DEF MininetStop
<1>2. mn \in MinType /\ mn.errors \in BOOLEAN BY MinType0 DEF QInv, ShellInv
<1>3. mn.end \in {"PASS", "FAIL"} BY <1>1, MinSteps, MinEnd
<1>4. mn.step \in 16..18 BY <1>1
<1>5. ASSUME NEW m, SameRun(m, mn), MTo(m), Fault \/ NoFault PROVE QInv'
  BY <1>1, <1>3, <1>4, <1>5, MinCleans DEF SameRun
<1>6. CASE MTo([mn EXCEPT !.net = FALSE]) /\ NoFault
  <2>1. SameRun([mn EXCEPT !.net = FALSE], mn) BY <1>2, MinParts
  <2>. QED BY <1>5, <1>6, <2>1
<1>7. ASSUME NEW e \in BOOLEAN, Fault, MTo([mn EXCEPT !.errors = @ \/ e]) PROVE QInv'
  <2>1. PICK v \in BOOLEAN : v = (mn.errors \/ e) BY <1>2
  <2>2. MTo([mn EXCEPT !.errors = v]) BY <1>7, <2>1
  <2>3. SameRun([mn EXCEPT !.errors = v], mn) BY <1>2, MinParts
  <2>. QED BY <1>5, <1>7, <2>2, <2>3
<1>. QED BY <1>6, <1>7 DEF MininetStop

(* A phase that passed has no residue.                                     *)
LEMMA WriteFileStep == ASSUME QInv, MininetWrite PROVE QInv'
<1>1. mn.step = 19 BY MinSteps DEF MininetWrite
<1>2. mn \in MinType BY MinType0 DEF QInv, ShellInv
<1>3. mn.end \in {"PASS", "FAIL"} BY <1>1, MinSteps, MinEnd
<1>4. CASE Fault /\ MGone(mn) BY <1>2, <1>4, MinGone
<1>5. CASE /\ LET result == IF Residue THEN "FAIL" ELSE mn.end IN Leave("mininet", result # "PASS") /\ Wrote("mininet", result)
           /\ MLeft(mn) /\ UNCHANGED <<idle, life, smp, sup, agg, exit, reused, formal, faults>>
  <2>1. PICK r \in {"PASS", "FAIL"} : r = IF Residue THEN "FAIL" ELSE mn.end BY <1>3
  <2>2. PICK st \in BOOLEAN : st = (r # "PASS") OBVIOUS
  <2>3. Leave("mininet", st) /\ Wrote("mininet", r) BY <1>5, <2>1, <2>2
  <2>4. mn' \in MinType /\ mn'.step = 0 /\ mn'.box = mn.box /\ mn'.net = mn.net BY <1>2, <1>5, LeftType DEF MLeft
  <2>5. r = "PASS" => ~mn'.box /\ ~mn'.net BY <2>1, <2>4 DEF Residue
  <2>6. r \in FileResult \ {"old"} /\ r # "none" BY DEF FileResult
  <2>7. UNCHANGED idle /\ UNCHANGED <<life, smp, sup, agg, exit, reused, formal>> /\ NoFault BY <1>5 DEF NoFault
  <2>. QED BY <2>3, <2>4, <2>5, <2>6, <2>7, MinLeaves
<1>. QED BY <1>4, <1>5 DEF MininetWrite

LEMMA CompileStep == ASSUME QInv, MininetCompile PROVE QInv'
<1>1. at = "mininet" /\ mn.step = 0 BY DEF MininetCompile
<1>2. mn \in MinType BY MinType0 DEF QInv, ShellInv
<1>3. mn.step < MCleanup BY <1>1, MinSteps
<1>4. CASE MTo(mn) /\ NoFault BY <1>1, <1>2, <1>3, <1>4, MinParts, MinAdvances
<1>5. CASE Leave("mininet", TRUE) /\ Fault /\ UNCHANGED <<idle, mn, life, smp, sup, agg, exit, reused, formal, file>>
  <2>1. Wrote("mininet", "none") BY <1>5 DEF Wrote
  <2>2. "none" \in FileResult \ {"old"} BY DEF FileResult
  <2>3. UNCHANGED idle /\ UNCHANGED <<life, smp, sup, agg, exit, reused, formal>> /\ mn' = mn BY <1>5
  <2>. QED BY <1>1, <1>2, <1>5, <2>1, <2>2, <2>3, MinLeaves
<1>. QED BY <1>4, <1>5 DEF MininetCompile

LEMMA MininetKeeps == ASSUME QInv, MininetStep \/ MininetFinally PROVE QInv'
BY CompileStep, MainSteps, ControllerSteps, TrafficSteps, LogsStep, RemoveStep, StopStep, WriteFileStep
   DEF MininetStep, MininetFinally
-----------------------------------------------------------------------------
(* A workload starts.                                                      *)
LEMMA Measures == Has("measure", SoakSetup)
<1>. DEFINE a == Prepare \o <<Step("write", 0, make_baseline_rules(Initial, 1)), Step("initial", 0, make_baseline_rules(Initial, 1))>> \o Warmup
            t == <<Op("measure"), Op("turn")>>
<1>1. a \in Seq(WStep)
  <2>1. make_baseline_rules(Initial, 1) \in Seq(Entry)
    <3>1. Initial \in Nat /\ 1 \in Int BY Numbers
    <3>. QED BY <3>1, RulesType
  <2>. DEFINE w == <<Step("write", 0, make_baseline_rules(Initial, 1)), Step("initial", 0, make_baseline_rules(Initial, 1))>>
  <2>2. 0 \in Bank BY DEF Bank
  <2>3. w \in Seq(WStep)
    <3>1. \A r \in Seq(Entry) : Step("write", 0, r) \in WStep /\ Step("initial", 0, r) \in WStep BY <2>2, StepType DEF OpNames
    <3>2. \A x, y \in WStep : <<x, y>> \in Seq(WStep) OBVIOUS
    <3>. QED BY <2>1, <3>1, <3>2
  <2>. HIDE DEF w
  <2>4. Prepare \in Seq(WStep) /\ Warmup \in Seq(WStep) BY PrepareShape, WarmupShape DEF Shape
  <2>. QED BY <2>3, <2>4 DEF w
<1>. HIDE DEF a
<1>2. t \in Seq(WStep) /\ Len(t) = 2 /\ t[1] = Op("measure") BY OpType DEF OpNames
<1>. HIDE DEF t
<1>3. PICK n \in Nat : n = Len(a) BY <1>1
<1>4. Len(a \o t) = n + 2 /\ (a \o t)[n + 1] = t[1]
  <2>1. Len(a \o t) = Len(a) + Len(t) BY <1>1, <1>2, ConcatProperties
  <2>2. \A i \in 1..Len(a) + Len(t) : (a \o t)[i] = IF i <= Len(a) THEN a[i] ELSE t[i - Len(a)]
    BY <1>1, <1>2, ConcatProperties
  <2>3. \A i \in 1..n + 2 : (a \o t)[i] = IF i <= n THEN a[i] ELSE t[i - n] BY <1>2, <1>3, <2>2
  <2>4. n + 1 \in 1..n + 2 /\ ~(n + 1 <= n) /\ (n + 1) - n = 1 OBVIOUS
  <2>. QED BY <1>2, <1>3, <2>1, <2>3, <2>4
<1>5. n + 1 \in 1..Len(a \o t) BY <1>4
<1>6. (a \o t)[n + 1].op = "measure" BY <1>2, <1>4 DEF Op, Step
<1>7. SoakSetup = a \o t BY DEF SoakSetup, a, t
<1>. QED BY <1>5, <1>6, <1>7 DEF Has

LEMMA StartLists ==
    ASSUME NEW kind \in {"performance", "soak"}, NEW t, t = IF kind = "soak" THEN SoakSetup ELSE PerformanceSetup
    PROVE  /\ t \in Seq(WStep) /\ t # <<>> /\ Head(t).op = "set"
           /\ Linked(kind, 0, t) /\ FreshFrom(2, t) /\ Ordered(kind, t) /\ Ending(t)
           /\ Ops(t) \subseteq (IF kind = "soak" THEN SetupOps ELSE PerfOps) /\ (kind = "soak" => Has("measure", t))
<1>1. Op("set").op = "set" /\ Op("turn").op \notin {"flip", "write", "measure"} BY DEF Op, Step
<1>2. CASE kind = "soak" BY <1>1, <1>2, SoakSetupShape, ShapeIs, Measures
<1>3. CASE kind = "performance"
  <2>1. {"set", "verify", "infra", "warmup", "end", "drain", "turn"} \subseteq PerfOps BY DEF PerfOps
  <2>2. t = PerformanceSetup BY <1>3
  <2>3. Shape("performance", 0, t, Op("set"), Op("turn"), {"set", "verify", "infra", "warmup", "end", "drain", "turn"}, Bank)
    BY <2>2, PerformanceSetupShape
  <2>. QED BY <1>1, <1>3, <2>1, <2>3, ShapeIs
<1>. QED BY <1>2, <1>3

LEMMA StartGood ==
    ASSUME NEW kind \in {"performance", "soak"}, Start(kind), sw' \in Switch, kind = "soak" => sw' = Blank
    PROVE  Good' /\ todo' \in Seq(WStep)
<1>1. /\ todo' \in Seq(WStep) /\ todo' # <<>> /\ Head(todo').op = "set"
      /\ Linked(kind, 0, todo') /\ FreshFrom(2, todo') /\ Ordered(kind, todo') /\ Ending(todo')
      /\ Ops(todo') \subseteq (IF kind = "soak" THEN SetupOps ELSE PerfOps) /\ (kind = "soak" => Has("measure", todo'))
  BY StartLists DEF Start
<1>2. job' = kind /\ view' = View0 /\ rep' = Report0 /\ goal' = Goal0 /\ traffic' = "no" /\ torn' = FALSE BY DEF Start, Forget
<1>3. view'.active = 0 /\ rep'.rows = 0 /\ ~rep'.clean /\ goal'.bank = 0 /\ (\A b \in Bank : goal'.rules[b] = {})
  BY <1>2 DEF View0, Report0, Goal0
<1>4. ListInv' BY <1>1, <1>2, <1>3 DEF ListInv
<1>5. ~At("write")' /\ ~At("readback")' /\ ~At("initial")' /\ ~At("selected")' /\ ~At("measure")' /\ ~At("cleanup")'
  BY <1>1 DEF At
<1>6. RulesInv' BY <1>3, <1>5 DEF RulesInv
<1>7. kind = "soak" => sw'.sel = None /\ Head(todo').op \notin Strict("soak") BY <1>1 DEF Blank, Strict
<1>8. SelectInv' BY <1>2, <1>3, <1>5, <1>7 DEF SelectInv
<1>9. EndInv' BY <1>2, <1>3 DEF EndInv
<1>. QED BY <1>1, <1>4, <1>6, <1>8, <1>9 DEF Good

LEMMA StartStep == ASSUME QInv, NEW k \in {"performance", "soak"}, StartWorkload(k, k) PROVE QInv'
<1>. USE DEF QInv
<1>1. /\ at = k /\ at' = After(k) /\ smp' = [on |-> TRUE, until |-> 0]
      /\ UNCHANGED <<sw, mn, life, sup, agg, exit, reused, formal, file, bad>>
  BY DEF StartWorkload
<1>2. job = "idle" /\ todo = <<>> BY <1>1, IdleStage DEF WorkInv, WorkType
<1>3. k \in Leaving \ {"mininet", "aggregate"} /\ k # "lifecycle" BY DEF Leaving
<1>4. smp' \in [on : BOOLEAN, until : Nat] BY <1>1
<1>5. ShellInv' BY <1>1, <1>3, <1>4, NoPhase, RestTypes, Onward DEF ShellInv
<1>6. sw \in Switch /\ faults \in 0..NFaults BY DEF WorkInv, WorkType
<1>7. at' = IF k = "soak" THEN "soaked" ELSE "measured" BY <1>1, AfterIs
<1>8. ~(life.n > 0) BY <1>1 DEF Where
<1>9. CASE ArbitrateFails
  <2>1. Fault /\ Forget /\ job' = "idle" /\ todo' = <<>> BY <1>2, <1>9 DEF ArbitrateFails
  <2>2. WorkInv' BY <1>1, <1>6, <2>1, ForgetKeeps
  <2>3. Where' BY <1>1, <1>7, <1>8, <2>1 DEF Where
  <2>. QED BY <1>5, <2>2, <2>3
<1>10. CASE Start(k) /\ NoFault
  <2>1. Forget /\ job' = k BY <1>10 DEF Start
  <2>2. k = "soak" => sw' = Blank BY <1>1 DEF Where
  <2>3. Good' /\ todo' \in Seq(WStep) BY <1>1, <1>6, <1>10, <2>2, StartGood
  <2>4. WorkType' BY <1>1, <1>6, <1>10, <2>1, <2>3, ForgetType, FaultType DEF WorkType
  <2>5. Whole' BY <2>3 DEF Whole
  <2>6. HintInv' BY <2>1, ForgetType DEF HintInv
  <2>7. Judge' BY <2>1 DEF Judge
  <2>8. Where' BY <1>1, <1>7, <1>8, <2>1 DEF Where
  <2>. QED BY <1>5, <2>4, <2>5, <2>6, <2>7, <2>8 DEF WorkInv
<1>. QED BY <1>9, <1>10 DEF StartWorkload
-----------------------------------------------------------------------------
(* The workload has ended and is judged.                                   *)
SamplerOff == [on |-> FALSE, until |-> 0]
LEMMA FinalizePhase ==
    ASSUME QInv, NEW s \in {"measured", "soaked"}, NEW p \in {"performance", "soak"}, (s = "measured") <=> (p = "performance"),
           NEW st \in BOOLEAN, NEW r \in FileResult \ {"old"}, r = "none" => st, Leave(s, st), Wrote(p, r), Fault \/ NoFault,
           job = "idle", Forget, sw' \in Switch, smp' = SamplerOff, UNCHANGED <<job, todo>>,
           UNCHANGED <<mn, life, sup, agg, exit, reused, formal>>
    PROVE  QInv'
<1>. USE DEF QInv
<1>1. s \in Leaving \ {"mininet", "aggregate"} /\ s # "lifecycle" /\ p \in Phases \ {"mininet"} BY DEF Leaving, Phases
<1>2. \A q \in Checked : Until[q] = Rank[s] => q = p BY OnePhase
<1>3. smp' \in [on : BOOLEAN, until : Nat] BY DEF SamplerOff
<1>4. ShellInv' /\ at = s /\ at' = After(s) BY <1>1, <1>2, <1>3, RestTypes, PhaseEnds DEF ShellInv
<1>5. todo = <<>> BY DEF Where
<1>6. WorkInv' BY <1>5, ForgetKeeps DEF WorkInv, WorkType
<1>7. Where' BY <1>1, <1>4, WhereMoves
<1>. QED BY <1>4, <1>6, <1>7

LEMMA FinalizePerformanceStep == ASSUME QInv, FinalizePerformance PROVE QInv'
<1>1. /\ job = "idle" /\ smp' = SamplerOff /\ Forget /\ UNCHANGED <<job, todo>> /\ sw' = sw
      /\ UNCHANGED <<mn, life, sup, agg, exit, reused, formal>>
  BY DEF FinalizePerformance, SamplerOff
<1>2. sw' \in Switch BY <1>1 DEF QInv, WorkInv, WorkType
<1>3. ASSUME NEW st \in BOOLEAN, NEW r \in {"none", "PASS", "FAIL", "HOLD"}, r = "none" => st, Leave("measured", st),
             Wrote("performance", r), Fault \/ NoFault
      PROVE  QInv'
  <2>1. r \in FileResult \ {"old"} BY DEF FileResult
  <2>. QED BY <1>1, <1>2, <1>3, <2>1, FinalizePhase
<1>4. CASE Leave("measured", TRUE) /\ NoFault /\ (UNCHANGED file \/ (reused /\ Wrote("performance", "PASS")))
  <2>1. UNCHANGED file => Wrote("performance", "none") BY DEF Wrote
  <2>. QED BY <1>3, <1>4, <2>1
<1>5. ASSUME verdict # "none", NEW over \in BOOLEAN, IF over THEN Fault ELSE NoFault,
             LET result == IF verdict = "FAIL" \/ over \/ ~ResourceChecks THEN "FAIL" ELSE verdict
             IN  Wrote("performance", result) /\ Leave("measured", result = "FAIL")
      PROVE  QInv'
  <2>1. verdict \in {"PASS", "FAIL", "HOLD"} BY <1>5 DEF QInv, WorkInv, WorkType
  <2>2. PICK r \in {"PASS", "FAIL", "HOLD"} : r = IF verdict = "FAIL" \/ over \/ ~ResourceChecks THEN "FAIL" ELSE verdict BY <2>1
  <2>3. PICK st \in BOOLEAN : st = (r = "FAIL") OBVIOUS
  <2>4. Wrote("performance", r) /\ Leave("measured", st) BY <1>5, <2>2, <2>3
  <2>. QED BY <1>3, <1>5, <2>4
<1>. QED BY <1>4, <1>5 DEF FinalizePerformance

LEMMA FinalizeSoakStep == ASSUME QInv, FinalizeSoak PROVE QInv'
<1>1. /\ job = "idle" /\ smp' = SamplerOff /\ Forget /\ UNCHANGED <<job, todo>> /\ sw' = Blank
      /\ UNCHANGED <<mn, life, sup, agg, exit, reused, formal>>
  BY DEF FinalizeSoak, SamplerOff
<1>2. sw' \in Switch BY <1>1, LoadedEmpty
<1>3. ASSUME NEW st \in BOOLEAN, NEW r \in {"none", "PASS", "FAIL", "HOLD"}, r = "none" => st, Leave("soaked", st),
             Wrote("soak", r), Fault \/ NoFault
      PROVE  QInv'
  <2>1. r \in FileResult \ {"old"} BY DEF FileResult
  <2>. QED BY <1>1, <1>2, <1>3, <2>1, FinalizePhase
<1>4. UNCHANGED file => Wrote("soak", "none") BY DEF Wrote
<1>5. CASE Leave("soaked", TRUE) /\ NoFault /\ (UNCHANGED file \/ (reused /\ Wrote("soak", "HOLD"))) BY <1>3, <1>4, <1>5
<1>6. CASE EvidenceRefused BY <1>3, <1>4, <1>6 DEF EvidenceRefused
<1>7. ASSUME NEW violation \in BOOLEAN, IF violation THEN Fault ELSE NoFault, Wrote("soak", Judged(violation)),
             Leave("soaked", verdict = "FAIL")
      PROVE  QInv'
  <2>1. PICK r \in {"PASS", "FAIL", "HOLD"} : r = Judged(violation) BY DEF Judged
  <2>2. PICK st \in BOOLEAN : st = (verdict = "FAIL") OBVIOUS
  <2>3. Wrote("soak", r) /\ Leave("soaked", st) BY <1>7, <2>1, <2>2
  <2>. QED BY <1>3, <1>7, <2>3
<1>. QED BY <1>5, <1>6, <1>7 DEF FinalizeSoak

-----------------------------------------------------------------------------
(* The supply chain.                                                       *)
SupplyType == [failed : SUBSET (ToSet(Groups) \cup {"offline"}), unfixed : BOOLEAN, step : 0..Len(Groups) + 3]
LEMMA GroupsAre ==
    /\ Len(Groups) = 5 /\ ToSet(Groups) = {"signature", "sbom", "scan", "provenance", "inventory"}
<1>1. DOMAIN Groups = 1..5 /\ Len(Groups) = 5 /\ Groups[1] = "signature" /\ Groups[2] = "sbom" /\ Groups[3] = "scan"
      /\ Groups[4] = "provenance" /\ Groups[5] = "inventory" BY DEF Groups
<1>2. ToSet(Groups) = {Groups[i] : i \in 1..5} BY <1>1 DEF ToSet
<1>3. 1..5 = {1, 2, 3, 4, 5} OBVIOUS
<1>. QED BY <1>1, <1>2, <1>3

LEMMA SupplyStays ==
    ASSUME QInv, at = "supply", SupplyKeep, Fault \/ NoFault, UNCHANGED <<at, bad, file>>, sup' \in SupplyType
    PROVE  QInv'
<1>. USE DEF QInv
<1>1. UNCHANGED idle /\ UNCHANGED <<mn, life, smp, agg, exit, reused, formal>> BY DEF SupplyKeep
<1>2. WorkInv' BY <1>1, IdleKeeps
<1>3. ShellType' BY <1>1 DEF ShellInv, ShellType, SupplyType
<1>4. MinInv' BY <1>1 DEF ShellInv, MinInv, MCleanup
<1>5. FreshInv' BY <1>1 DEF ShellInv, FreshInv
<1>6. Where' BY <1>1 DEF Where, idle
<1>. QED BY <1>2, <1>3, <1>4, <1>5, <1>6 DEF ShellInv

LEMMA SupplyMoves ==
    ASSUME NEW s \in SupplyType, s.step < Len(Groups) + 3
    PROVE  [s EXCEPT !.step = @ + 1] \in SupplyType
<1>1. PICK k \in Nat : k = s.step
  <2>1. s.step \in 0..Len(Groups) + 3 BY DEF SupplyType
  <2>. QED BY <2>1, GroupsAre
<1>2. k + 1 \in 0..Len(Groups) + 3 BY <1>1, GroupsAre
<1>. QED BY <1>1, <1>2 DEF SupplyType

LEMMA SupplyLeaves ==
    ASSUME QInv, SupplyKeep, Fault \/ NoFault, NEW st \in BOOLEAN, NEW r \in {"none", "PASS", "FAIL", "HOLD"},
           Leave("supply", st), Wrote("supply", r), sup' \in SupplyType
    PROVE  QInv'
<1>. USE DEF QInv
<1>1. UNCHANGED idle /\ UNCHANGED <<mn, life, smp, agg, exit, reused, formal>> BY DEF SupplyKeep
<1>2. "supply" \in Leaving \ {"mininet", "aggregate"} /\ "supply" \in Phases \ {"mininet"} BY DEF Leaving, Phases
<1>3. r \in FileResult \ {"old"} BY DEF FileResult
<1>4. ShellInv' /\ at = "supply" /\ at' = After("supply")
  BY <1>1, <1>2, <1>3, NoPhase, RestTypes, PhaseEnds DEF ShellInv, SupplyType
<1>5. WorkInv' BY <1>1, IdleKeeps
<1>6. job = "idle" BY <1>4, IdleStage DEF WorkInv, WorkType
<1>7. Where' BY <1>1, <1>2, <1>4, <1>6, WhereMoves DEF idle
<1>. QED BY <1>4, <1>5, <1>7

LEMMA SupplySteps ==
    ASSUME QInv, SupplyGate \/ SupplyTool \/ RecordOffline \/ CreateManifest \/ SupplyChecks \/ SupplyResult PROVE QInv'
<1>1. PICK s \in SupplyType : s = sup BY DEF QInv, ShellInv, ShellType, SupplyType
<1>2. s.step \in 0..8 BY GroupsAre DEF SupplyType
<1>3. ASSUME at = "supply", sup.step < 8, NEW t \in SupplyType, t.step = sup.step, SupplyStep(t), SupplyKeep, Fault \/ NoFault
      PROVE  QInv'
  <2>1. sup' = [t EXCEPT !.step = @ + 1] /\ UNCHANGED <<at, bad, file>> BY <1>3 DEF SupplyStep
  <2>2. t.step < Len(Groups) + 3 BY <1>3, GroupsAre
  <2>3. sup' \in SupplyType BY <2>1, <2>2, SupplyMoves
  <2>. QED BY <1>3, <2>1, <2>3, SupplyStays
<1>4. Supply0 \in SupplyType BY GroupsAre DEF Supply0, SupplyType
<1>5. CASE SupplyGate
  <2>1. at = "supply" /\ sup.step = 0 /\ SupplyKeep BY <1>5 DEF SupplyGate
  <2>2. CASE SupplyStep(sup) /\ NoFault BY <1>1, <1>3, <2>1, <2>2
  <2>3. CASE Fault /\ Leave("supply", TRUE) /\ Wrote("supply", "FAIL") /\ UNCHANGED sup BY <1>1, <2>1, <2>3, SupplyLeaves
  <2>4. CASE Leave("supply", FALSE) /\ Wrote("supply", "HOLD") /\ UNCHANGED sup /\ NoFault BY <1>1, <2>1, <2>4, SupplyLeaves
  <2>. QED BY <1>5, <2>2, <2>3, <2>4 DEF SupplyGate
<1>6. CASE SupplyTool
  <2>1. Fault /\ sup' = Supply0 /\ UNCHANGED file /\ SupplyKeep BY <1>6 DEF SupplyTool
  <2>2. Wrote("supply", "none") BY <2>1 DEF Wrote
  <2>3. PICK two \in {sup.step <= 2, FALSE} : Leave("supply", ~two) BY <1>6 DEF SupplyTool
  <2>4. PICK st \in BOOLEAN : st = ~two OBVIOUS
  <2>5. Leave("supply", st) BY <2>3, <2>4
  <2>. QED BY <1>4, <2>1, <2>2, <2>5, SupplyLeaves
<1>7. CASE RecordOffline
  <2>1. at = "supply" /\ sup.step = 1 /\ SupplyKeep BY <1>7 DEF RecordOffline
  <2>2. CASE SupplyStep(sup) /\ NoFault BY <1>1, <1>3, <2>1, <2>2
  <2>3. ASSUME NEW again \in BOOLEAN, Fault, SupplyStep([sup EXCEPT !.failed = IF again THEN {"offline"} ELSE {}]) PROVE QInv'
    <3>. DEFINE t == [sup EXCEPT !.failed = IF again THEN {"offline"} ELSE {}]
    <3>1. t \in SupplyType /\ t.step = sup.step BY <1>1 DEF SupplyType
    <3>2. SupplyStep(t) BY <2>3
    <3>. HIDE DEF t
    <3>. QED BY <1>3, <2>1, <2>3, <3>1, <3>2
  <2>. QED BY <1>7, <2>2, <2>3 DEF RecordOffline
<1>8. CASE CreateManifest BY <1>1, <1>3, <1>8 DEF CreateManifest
<1>9. ASSUME NEW g \in {"signature", "sbom", "scan", "provenance", "inventory"}, NEW o, SupplyCheck(g, o) PROVE QInv'
  <2>1. at = "supply" /\ sup.step - 2 \in 1..5 /\ SupplyKeep BY <1>9, GroupsAre DEF SupplyCheck
  <2>2. sup.step < 8 BY <1>1, <1>2, <2>1
  <2>3. CASE SupplyStep(sup) /\ NoFault BY <1>1, <1>3, <2>1, <2>2, <2>3
  <2>4. CASE Fault /\ SupplyStep([sup EXCEPT !.failed = @ \cup {g}])
    <3>. DEFINE t == [sup EXCEPT !.failed = @ \cup {g}]
    <3>1. t \in SupplyType /\ t.step = sup.step BY <1>1, GroupsAre DEF SupplyType
    <3>2. SupplyStep(t) BY <2>4
    <3>. HIDE DEF t
    <3>. QED BY <1>3, <2>1, <2>2, <2>4, <3>1, <3>2
  <2>5. CASE Fault /\ SupplyStep([sup EXCEPT !.unfixed = TRUE])
    <3>. DEFINE t == [sup EXCEPT !.unfixed = TRUE]
    <3>1. t \in SupplyType /\ t.step = sup.step BY <1>1 DEF SupplyType
    <3>2. SupplyStep(t) BY <2>5
    <3>. HIDE DEF t
    <3>. QED BY <1>3, <2>1, <2>2, <2>5, <3>1, <3>2
  <2>. QED BY <1>9, <2>3, <2>4, <2>5 DEF SupplyCheck
<1>10. CASE SupplyChecks
  BY <1>9, <1>10 DEF SupplyChecks, SignatureChecks, SbomChecks, ScanChecks, ProvenanceChecks, InventoryChecks
<1>11. CASE SupplyResult
  <2>1. PICK r \in {"PASS", "FAIL", "HOLD"} : r = IF sup.failed # {} THEN "FAIL" ELSE IF sup.unfixed THEN "HOLD" ELSE "PASS"
    OBVIOUS
  <2>2. PICK st \in BOOLEAN : st = (r = "FAIL") OBVIOUS
  <2>3. Wrote("supply", r) /\ Leave("supply", st) /\ sup' = Supply0 /\ NoFault /\ SupplyKeep BY <1>11, <2>1, <2>2 DEF SupplyResult
  <2>. QED BY <1>4, <2>3, SupplyLeaves
<1>. QED BY <1>5, <1>6, <1>7, <1>8, <1>10, <1>11

-----------------------------------------------------------------------------
(* The aggregate and the end.                                              *)
AggType == [failed : BOOLEAN, step : 0..4, wrote : {"none", "PASS", "FAIL", "HOLD"}]

LEMMA AggregateCheckStep ==
    ASSUME QInv, NEW k \in 0..3, AggregateCheck(k), AggregateKeep PROVE QInv'
<1>. USE DEF QInv
<1>1. /\ at = "aggregate" /\ agg.step = k /\ UNCHANGED <<at, bad, file>> /\ (Fault \/ NoFault)
      /\ agg' = [agg EXCEPT !.step = @ + 1] \/ agg' = [agg EXCEPT !.step = @ + 1, !.failed = TRUE]
  BY DEF AggregateCheck
<1>2. UNCHANGED idle /\ UNCHANGED <<mn, life, smp, sup, exit, reused, formal>> BY DEF AggregateKeep
<1>3. PICK a \in AggType : a = agg BY DEF ShellInv, ShellType, AggType
<1>4. a.step = k /\ k + 1 \in 0..4 BY <1>1, <1>3
<1>5. agg' \in AggType BY <1>1, <1>3, <1>4 DEF AggType
<1>6. WorkInv' BY <1>1, <1>2, IdleKeeps
<1>7. ShellType' BY <1>1, <1>2, <1>5 DEF ShellInv, ShellType, AggType
<1>8. MinInv' BY <1>1, <1>2 DEF ShellInv, MinInv, MCleanup
<1>9. FreshInv' BY <1>1, <1>2 DEF ShellInv, FreshInv
<1>10. Where' BY <1>1, <1>2 DEF Where, idle
<1>. QED BY <1>6, <1>7, <1>8, <1>9, <1>10 DEF ShellInv

(* A status that is good goes with a document that is not FAIL: every      *)
(* phase was loaded, and none failed.                                      *)
LEMMA AggregateLeaves ==
    ASSUME QInv, NEW st \in BOOLEAN, Leave("aggregate", st), UNCHANGED file, AggregateKeep, agg' \in AggType, Fault \/ NoFault,
           ~st => agg'.wrote = "HOLD" \/ (agg'.wrote = "PASS" /\ AllPass)
    PROVE  QInv'
<1>. USE DEF QInv
<1>1. UNCHANGED idle /\ UNCHANGED <<mn, life, smp, sup, exit, reused, formal>> BY DEF AggregateKeep
<1>2. at = "aggregate" /\ at' = "exit" /\ bad' = (bad \/ st) BY AfterIs DEF Leave
<1>3. bad' \in BOOLEAN /\ (bad => bad') /\ (st => bad') BY <1>2
<1>4. WorkInv' BY <1>1, IdleKeeps
<1>5. ShellType' BY <1>1, <1>2, <1>3 DEF ShellInv, ShellType, AggType
<1>6. MinInv' BY <1>1, <1>2, RankIs DEF ShellInv, MinInv, MCleanup
<1>7. ~bad' => agg'.wrote = "HOLD" \/ (agg'.wrote = "PASS" /\ AllPass') BY <1>3 DEF AllPass, load_phase
<1>8. exit' = -1 BY <1>1, <1>2 DEF ShellInv, FreshInv
<1>9. \A p \in Phases : file'[p] = "old" => reused' BY <1>1 DEF ShellInv, FreshInv
<1>10. ~bad => \A p \in Checked : file[p] # "old"
  <2>. SUFFICES ASSUME ~bad, NEW p \in Checked, file[p] = "old" PROVE FALSE OBVIOUS
  <2>1. Rank["aggregate"] <= Until[p] BY <1>2 DEF ShellInv, FreshInv
  <2>. QED BY <2>1, RankIs, UntilIs DEF Checked
<1>11. FreshInv' BY <1>2, <1>3, <1>7, <1>8, <1>9, <1>10 DEF FreshInv
<1>12. job = "idle" BY <1>2, IdleStage DEF WorkInv, WorkType
<1>13. "aggregate" \in Leaving \ {"lifecycle"} BY DEF Leaving
<1>14. Where' BY <1>1, <1>2, <1>12, <1>13, AfterIs, WhereMoves DEF idle
<1>. QED BY <1>4, <1>5, <1>6, <1>11, <1>14 DEF ShellInv

LEMMA AggregateSteps == ASSUME QInv, AggregateChecks \/ AggregateWrite PROVE QInv'
<1>1. PICK a \in AggType : a = agg BY DEF QInv, ShellInv, ShellType, AggType
<1>2. ASSUME NEW k, AggregateEnds(k), AggregateKeep PROVE QInv'
  <2>1. Fault /\ Leave("aggregate", TRUE) /\ agg' = agg /\ file' = file BY <1>2 DEF AggregateEnds
  <2>. QED BY <1>1, <1>2, <2>1, AggregateLeaves
<1>3. CASE AggregateChecks
  BY <1>2, <1>3, AggregateCheckStep DEF AggregateChecks, HostFilter, Bindings, Findings, derive_operational_completion
<1>4. CASE /\ at = "aggregate" /\ agg.step = 4 /\ agg' = [agg EXCEPT !.wrote = Overall]
           /\ Leave("aggregate", Overall = "FAIL") /\ UNCHANGED file /\ NoFault /\ AggregateKeep
  <2>1. Overall \in {"PASS", "FAIL", "HOLD"} BY DEF Overall
  <2>2. agg' \in AggType /\ agg'.wrote = Overall BY <1>1, <1>4, <2>1 DEF AggType
  <2>3. PICK st \in BOOLEAN : st = (Overall = "FAIL") OBVIOUS
  <2>4. Leave("aggregate", st) BY <1>4, <2>3
  <2>5. Overall = "PASS" => AllPass
    <3>1. \A p \in Phases : load_phase(p) \in {"PASS", "FAIL", "HOLD"}
      <4>. TAKE p \in Phases
      <4>1. file[p] \in {"none", "old", "PASS", "FAIL", "HOLD"} BY DEF QInv, ShellInv, ShellType
      <4>. QED BY <4>1 DEF load_phase
    <3>. QED BY <3>1 DEF Overall, AllPass
  <2>. QED BY <1>4, <2>1, <2>2, <2>3, <2>4, <2>5, AggregateLeaves
<1>. QED BY <1>2, <1>3, <1>4 DEF AggregateWrite

(* An exit with 0: the document is PASS, and no file of a phase but the    *)
(* supply chain is older than this run.                                    *)
LEMMA ExitStep == ASSUME QInv, Exit PROVE QInv'
<1>. USE DEF QInv
<1>1. /\ at = "exit" /\ at' = "end" /\ sw' = Blank /\ exit' = IF bad THEN 1 ELSE IF agg.wrote = "HOLD" THEN 2 ELSE 0
      /\ UNCHANGED <<job, todo, view, rep, traffic, turn, goal, torn, stream, verdict>> /\ NoFault
      /\ UNCHANGED <<reused, formal, file, bad, mn, life, smp, sup, agg>>
  BY DEF Exit, NoFault
<1>2. job = "idle" /\ todo = <<>> BY <1>1, IdleStage DEF WorkInv, WorkType
<1>3. WorkInv' BY <1>1, <1>2, SwitchKeeps
<1>4. exit' \in {0, 1, 2} BY <1>1
<1>5. ShellType' BY <1>1, <1>4 DEF ShellInv, ShellType
<1>6. MinInv' BY <1>1, RankIs DEF ShellInv, MinInv, MCleanup
<1>7. ASSUME exit' = 0, NEW p \in Phases PROVE file'[p] = "PASS" \/ (p = "supply" /\ reused')
  <2>1. ~bad /\ agg.wrote # "HOLD" BY <1>1, <1>7
  <2>2. AllPass BY <1>1, <2>1 DEF ShellInv, FreshInv
  <2>3. load_phase(p) = "PASS" BY <2>2 DEF AllPass
  <2>4. file[p] \in {"none", "old", "PASS", "FAIL", "HOLD"} BY DEF ShellInv, ShellType
  <2>5. file[p] = "PASS" \/ file[p] = "old" BY <2>3, <2>4 DEF load_phase
  <2>6. CASE file[p] = "old"
    <3>1. reused BY <2>6 DEF ShellInv, FreshInv
    <3>2. p \notin Checked
      <4>. SUFFICES ASSUME p \in Checked PROVE FALSE OBVIOUS
      <4>1. Rank["exit"] <= Until[p] BY <1>1, <2>1, <2>6 DEF ShellInv, FreshInv
      <4>. QED BY <4>1, RankIs, UntilIs DEF Checked
    <3>3. p = "supply" BY <3>2 DEF Phases, Checked
    <3>. QED BY <1>1, <3>1, <3>3
  <2>. QED BY <1>1, <2>5, <2>6
<1>8. FreshInv' BY <1>1, <1>7 DEF ShellInv, FreshInv
<1>9. Where' BY <1>1, <1>2 DEF Where
<1>. QED BY <1>3, <1>5, <1>6, <1>8, <1>9 DEF ShellInv

LEMMA AbortStep == ASSUME QInv, Abort PROVE QInv'
<1>. USE DEF QInv
<1>1. /\ at' = "end" /\ exit' = 1 /\ sw' = Blank /\ job' = "idle" /\ todo' = <<>> /\ Forget /\ Fault
      /\ UNCHANGED <<reused, formal, file, bad, mn, life, smp, sup, agg>>
  BY DEF Abort
<1>2. WorkInv' BY <1>1, LoadedEmpty, ForgetKeeps DEF WorkInv, WorkType
<1>3. ShellType' BY <1>1 DEF ShellInv, ShellType
<1>4. MinInv' BY <1>1, RankIs DEF ShellInv, MinInv, MCleanup
<1>5. FreshInv' BY <1>1 DEF ShellInv, FreshInv
<1>6. Where' BY <1>1 DEF Where
<1>. QED BY <1>2, <1>3, <1>4, <1>5, <1>6 DEF ShellInv

LEMMA SamplerStep == ASSUME QInv, SamplerStops PROVE QInv'
<1>. USE DEF QInv
<1>1. /\ smp' = [on |-> FALSE, until |-> turn] /\ Fault /\ UNCHANGED idle
      /\ UNCHANGED <<mn, life, sup, agg, exit, reused, formal, file, bad, at>>
  BY DEF SamplerStops
<1>2. WorkInv' BY <1>1, IdleKeeps
<1>3. smp' \in [on : BOOLEAN, until : Nat] BY <1>1 DEF WorkInv, WorkType
<1>4. ShellType' BY <1>1, <1>3 DEF ShellInv, ShellType
<1>5. MinInv' BY <1>1 DEF ShellInv, MinInv, MCleanup
<1>6. FreshInv' BY <1>1 DEF ShellInv, FreshInv, AllPass, load_phase
<1>7. Where' BY <1>1 DEF Where, idle
<1>. QED BY <1>2, <1>4, <1>5, <1>6, <1>7 DEF ShellInv

(* A step of the workload or of its stream leaves the shell alone.         *)
LEMMA ShellKept == ASSUME ShellInv, UNCHANGED shell PROVE ShellInv'
<1>1. UNCHANGED <<at, reused, formal, file, bad, mn, life, smp, sup, agg, exit>> BY DEF shell
<1>2. ShellType' BY <1>1 DEF ShellInv, ShellType
<1>3. MinInv' BY <1>1 DEF ShellInv, MinInv, MCleanup
<1>4. FreshInv' BY <1>1 DEF ShellInv, FreshInv, AllPass, load_phase
<1>. QED BY <1>2, <1>3, <1>4 DEF ShellInv

LEMMA RunningWhere ==
    ASSUME Where, WorkType, job # "idle", UNCHANGED <<at, life>>, job' \in {job, "idle"}, job' = "idle" => todo' = <<>>
    PROVE  Where'
<1>1. at \in {"measured", "soaked"} BY DEF Where, WorkType
<1>. QED BY <1>1 DEF Where

LEMMA WorkloadStage == ASSUME QInv, Workload \/ Stream PROVE QInv'
<1>. USE DEF QInv
<1>1. UNCHANGED shell BY DEF Workload, Stream
<1>2. UNCHANGED <<at, life>> BY <1>1 DEF shell
<1>3. ShellInv' BY <1>1, ShellKept
<1>4. CASE Workload
  <2>1. job = "idle" => todo = <<>> BY DEF Where
  <2>2. WorkInv' /\ job # "idle" /\ job' \in {job, "idle"} /\ (job' = "idle" => todo' = <<>>)
    BY <1>4, <2>1, WorkloadKeeps DEF Workload
  <2>3. Where' BY <1>2, <2>2, RunningWhere DEF WorkInv
  <2>. QED BY <1>3, <2>2, <2>3
<1>5. CASE Stream
  <2>1. ConsumeStream /\ job # "idle" BY <1>5 DEF Stream, ConsumeStream
  <2>2. WorkType' /\ Whole' /\ HintInv' /\ UNCHANGED <<job, todo>> BY <2>1, ConsumeStep DEF WorkInv
  <2>3. Judge' BY <2>1, <2>2 DEF Judge
  <2>4. Where' BY <1>2, <2>1, <2>2, RunningWhere DEF WorkInv
  <2>. QED BY <1>3, <2>2, <2>3, <2>4 DEF WorkInv
<1>. QED BY <1>4, <1>5

-----------------------------------------------------------------------------
(* The inductive invariant.                                                *)
LEMMA QInvInit == QInit => QInv
<1>. SUFFICES ASSUME QInit PROVE QInv OBVIOUS
<1>1. /\ job = "idle" /\ todo = <<>> /\ sw = Blank /\ traffic = "no" /\ turn = 0 /\ torn = FALSE
      /\ view = View0 /\ rep = Report0 /\ goal = Goal0 /\ stream = Stream0 /\ verdict = "none" /\ faults = 0
      /\ at = "preflight" /\ reused \in BOOLEAN /\ formal \in BOOLEAN
      /\ file = [p \in Phases |-> IF reused THEN "old" ELSE "none"]
      /\ bad = FALSE /\ mn = NoMininet /\ life = [n |-> 0, bad |-> FALSE]
      /\ smp = [on |-> FALSE, until |-> 0] /\ sup = Supply0
      /\ agg = [failed |-> FALSE, step |-> 0, wrote |-> "none"] /\ exit = -1
  BY DEF QInit, WorkloadInit
<1>2. View0 \in Local /\ Report0 \in Report /\ Stream0 \in Channel /\ ~Stream0.lost
  BY Numbers DEF View0, Local, Bank, Report0, Report, Stream0, Channel
<1>3. 0 \in 0..NTurns /\ 0 \in 0..NFaults /\ 0 \in Nat BY Totals, Numbers
<1>4. <<>> \in Seq(WStep) OBVIOUS
<1>5. WorkType BY <1>1, <1>2, <1>3, <1>4, LoadedEmpty, WantedType DEF WorkType
<1>6. WorkInv BY <1>1, <1>2, <1>5 DEF WorkInv, Whole, HintInv, Judge
<1>7. NoMininet \in MinType
  <2>1. 0 \in 0..MCleanup + 3 BY MinSteps
  <2>2. 0 \in 0..Attempts - 1 BY QualificationAssumption
  <2>. QED BY <2>1, <2>2 DEF NoMininet, MinType
<1>8. Supply0 \in SupplyType BY GroupsAre DEF Supply0, SupplyType
<1>9. life \in [n : 0..NCycles, bad : BOOLEAN] BY <1>1, Numbers
<1>10. file \in [Phases -> {"none", "old", "PASS", "FAIL", "HOLD"}] BY <1>1
<1>11. ShellType
  <2>1. smp \in [on : BOOLEAN, until : Nat] BY <1>1
  <2>2. agg \in [failed : BOOLEAN, step : 0..4, wrote : {"none", "PASS", "FAIL", "HOLD"}] BY <1>1
  <2>3. sup \in [failed : SUBSET (ToSet(Groups) \cup {"offline"}), unfixed : BOOLEAN, step : 0..Len(Groups) + 3]
    BY <1>1, <1>8 DEF SupplyType
  <2>4. mn \in MinType /\ bad \in BOOLEAN /\ exit \in {-1, 0, 1, 2} BY <1>1, <1>7
  <2>. QED BY <1>1, <1>9, <1>10, <2>1, <2>2, <2>3, <2>4 DEF ShellType
<1>12. "mininet" \in Phases BY DEF Phases
<1>13. mn.step = 0 BY <1>1 DEF NoMininet
<1>14. MinInv BY <1>1, <1>12, <1>13, MinSteps DEF MinInv
<1>15. \A p \in Checked : Rank["preflight"] <= Until[p] BY RankIs, UntilIs DEF Checked
<1>16. FreshInv BY <1>1, <1>15 DEF FreshInv
<1>17. Where BY <1>1 DEF Where
<1>. QED BY <1>6, <1>11, <1>14, <1>16, <1>17 DEF QInv, ShellInv

LEMMA QInvNext == QInv /\ [Next]_vars => QInv'
<1>. SUFFICES ASSUME QInv, [Next]_vars PROVE QInv' OBVIOUS
<1>1. CASE Stage
  BY <1>1, PreflightStep, QuietStages, MininetKeeps, SwitchStages, StartStep, FinalizePerformanceStep, CycleStep,
     FinalizeLifecycleStep, FinalizeSoakStep, SupplySteps, AggregateSteps, ExitStep DEF Stage
<1>2. CASE UNCHANGED vars
  <2>1. UNCHANGED idle /\ UNCHANGED shell /\ NoFault BY <1>2 DEF vars, idle, shell, NoFault
  <2>2. WorkInv' BY <2>1, IdleKeeps DEF QInv
  <2>3. ShellInv' BY <2>1, ShellKept DEF QInv
  <2>4. Where' BY <2>1 DEF QInv, Where, idle, shell
  <2>. QED BY <2>2, <2>3, <2>4 DEF QInv
<1>. QED BY <1>1, <1>2, AbortStep, SamplerStep, WorkloadStage DEF Next

LEMMA QInvAlways == Spec => []QInv
BY QInvInit, QInvNext, PTL DEF Spec

LEMMA QInvTypes == QInv => QTypeOK
<1>. SUFFICES ASSUME QInv PROVE QTypeOK OBVIOUS
<1>1. WorkType /\ ShellType BY DEF QInv, WorkInv, ShellInv
<1>2. at \in ToSet(Stages) \cup {"end"}
  <2>1. ToSet(Stages) = {Stages[i] : i \in 1..17} BY StagesAre DEF ToSet
  <2>2. \A i \in 1..17 : Stages[i] \in ToSet(Stages) BY <2>1
  <2>3. Leaving \cup {"exit"} \subseteq ToSet(Stages) BY <2>2, StagesAre DEF Leaving
  <2>4. at \in Leaving \cup {"exit", "end"} BY <1>1 DEF ShellType, Leaving
  <2>. QED BY <2>3, <2>4
<1>3. sw.sel \in Bank \cup {None} /\ view.active \in Bank /\ stream.len \in 0..QueueMax /\ stream.got \in 0..DrainMax
  BY <1>1 DEF WorkType, Switch, Local, Channel
<1>4. mn.step \in 0..MCleanup + 3 /\ mn.tries \in 0..Attempts - 1 /\ life.n \in 0..NCycles BY <1>1 DEF ShellType, MinType
<1>5. mn.tries < Attempts BY <1>4, QualificationAssumption
<1>6. sup.failed \subseteq ToSet(Groups) \cup {"offline"} /\ agg.wrote \in {"none", "PASS", "FAIL", "HOLD"} BY <1>1 DEF ShellType
<1>. QED BY <1>1, <1>2, <1>3, <1>4, <1>5, <1>6 DEF QTypeOK, WorkType, ShellType

(* A workload that is not FAIL took no digest off its queue that it did    *)
(* not answer over a stream that was up, and a Mininet phase that is PASS  *)
(* left neither container nor hosts behind, whatever the rule counts, the  *)
(* limits of the queue and of the drain, and the number of faults.         *)
THEOREM HintsAreAnswered == Spec => []QualInv
<1>1. QInv => HintsAnswered BY DEF QInv, WorkInv, Judge, HintsAnswered, Accepted
<1>2. QInv => MininetClean BY DEF QInv, ShellInv, MinInv, MininetClean
<1>3. QInv => QualInv BY <1>1, <1>2, QInvTypes DEF QualInv
<1>. QED BY <1>3, QInvAlways, PTL

(* A workload that is not FAIL measured traffic only against the bank that *)
(* it had selected with every rule of that bank in place, and left the     *)
(* tables empty: whichever of the calls of p4runtime_client.py failed, did *)
(* half of its work or was acknowledged and not done.                      *)
THEOREM AcceptedIsWhole == Spec => []AcceptedWhole
<1>1. QInv => AcceptedWhole BY DEF QInv, WorkInv, Judge, AcceptedWhole, Accepted
<1>. QED BY <1>1, QInvAlways, PTL

(* run-module-e2e.sh exits with 0 only when every phase wrote PASS in this *)
(* run, for a run id used again too, but for the supply chain.             *)
THEOREM ZeroIsFresh == Spec => []ExitZeroIsFresh
<1>1. QInv => ExitZeroIsFresh BY DEF QInv, ShellInv, FreshInv, ExitZeroIsFresh
<1>. QED BY <1>1, QInvAlways, PTL
=============================================================================
