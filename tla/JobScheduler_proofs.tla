-------------------------- MODULE JobScheduler_proofs --------------------------
(***************************************************************************)
(* Theorems about JobScheduler for every set of jobs, timetable and grace, *)
(* and for every bound on the clock, the starts and the faults.            *)
(***************************************************************************)
EXTENDS JobScheduler, SequenceTheorems, WellFoundedInduction, TLAPS

USE SchedulerAssumptions

--------------------------------------------------------------------------------
(* Instants and rows. *)

LEMMA LeastMember ==
  ASSUME NEW S, S \subseteq Nat, S # {}
  PROVE  Min(S) \in S /\ \A x \in S : Min(S) <= x
<1>1. PICK x \in S : \A y \in S : ~(<<y, x>> \in OpToRel(<, Nat))
  BY NatLessThanWellFounded, WFMin
<1>2. ASSUME NEW y \in S PROVE x <= y
  <2>1. <<y, x>> \in Nat \X Nat /\ <<y, x>>[1] = y /\ <<y, x>>[2] = x OBVIOUS
  <2>2. ~(y < x) BY <1>1, <2>1 DEF OpToRel
  <2>3. QED BY <2>2
<1>3. QED BY <1>2 DEF Min

LEMMA GreatestMember ==
  ASSUME NEW n \in Nat, NEW S, S \subseteq 0..n, S # {}
  PROVE  Max(S) \in S /\ \A x \in S : x <= Max(S)
<1> DEFINE T == {n - x : x \in S}
<1>1. T \subseteq Nat /\ T # {}
  <2>1. \A x \in S : x \in 0..n OBVIOUS
  <2>2. \A x \in 0..n : n - x \in Nat OBVIOUS
  <2>3. QED BY <2>1, <2>2
<1>2. PICK y \in T : \A z \in T : y <= z BY <1>1, LeastMember
<1>3. PICK x \in S : y = n - x OBVIOUS
<1>4. \A z \in S : n - z \in T OBVIOUS
<1>5. ASSUME NEW z \in S PROVE z <= x
  <2>1. n - x <= n - z BY <1>2, <1>3, <1>4
  <2>2. n \in Nat /\ x \in 0..n /\ z \in 0..n OBVIOUS
  <2> HIDE DEF T
  <2>3. QED BY <2>1, <2>2, SMT
<1>6. \E m \in S : \A z \in S : m >= z BY <1>5, SMT
<1>7. Max(S) \in S /\ \A z \in S : Max(S) >= z BY <1>6, Zenon DEF Max
<1>8. QED BY <1>7, SMT

\* The scheduler waits for a fire that is yet to come.
LEMMA NextIsLater ==
  ASSUME NEW j \in Job, NEW t \in 0..Horizon
  PROVE  NextAfter(j, t) \in 1..Never /\ t < NextAfter(j, t)
<1> DEFINE S == {f \in Due[j] : f > t} \cup {Never}
<1>1. Due[j] \subseteq 1..Horizon BY DEF Never
<1>2. S \subseteq Nat /\ S # {} BY <1>1 DEF Never
<1>3. Min(S) \in S BY <1>2, LeastMember
<1>4. \A x \in S : x \in 1..Never /\ t < x BY <1>1 DEF Never
<1>5. QED BY <1>3, <1>4 DEF NextAfter

\* What is counted as missed is later than every row of the job.
LEMMA MissedIsLater ==
  ASSUME TypeOK, NEW j \in Job, NEW until \in 0..Horizon
  PROVE  /\ Missed(j, until) \subseteq 1..Horizon
         /\ \A f \in Missed(j, until) :
              /\ f <= until
              /\ \A i \in DOMAIN rows : rows[i].job = j => rows[i].started < f
<1> DEFINE S == {rows[i].started : i \in RowsOf(j)}
<1>1. Due[j] \subseteq 1..Horizon OBVIOUS
<1>2. CASE RowsOf(j) = {} BY <1>2 DEF Missed
<1>3. CASE RowsOf(j) # {}
  <2>1. \A i \in DOMAIN rows : rows[i] \in Row
    BY LenProperties, ElementOfSeq DEF TypeOK
  <2>2. S \subseteq 0..Horizon /\ S # {} BY <1>3, <2>1 DEF RowsOf, Row
  <2>3. Max(S) \in 0..Horizon /\ \A x \in S : x <= Max(S) BY <2>2, GreatestMember
  <2>4. \A i \in DOMAIN rows : rows[i].job = j => rows[i].started \in S BY DEF RowsOf
  <2>5. Missed(j, until) = {f \in Due[j] : f > Max(S) /\ f <= until} BY <1>3 DEF Missed
  <2>6. PICK m \in 0..Horizon : m = Max(S) BY <2>3
  <2>7. \A i \in DOMAIN rows : rows[i].job = j => rows[i].started <= m
    BY <2>3, <2>4, <2>6
  <2>8. \A i \in DOMAIN rows : rows[i].started \in 0..Horizon BY <2>1 DEF Row
  <2>9. Missed(j, until) = {f \in Due[j] : f > m /\ f <= until} BY <2>5, <2>6
  <2> HIDE DEF S
  <2>10. ASSUME NEW f \in Missed(j, until)
         PROVE  /\ f \in 1..Horizon /\ f <= until
                /\ \A i \in DOMAIN rows : rows[i].job = j => rows[i].started < f
    <3>1. f \in 1..Horizon /\ f > m /\ f <= until BY <1>1, <2>9
    <3>2. QED BY <3>1, <2>7, <2>8
  <2>11. QED BY <2>10
<1>4. QED BY <1>2, <1>3

LEMMA RowsType ==
  ASSUME TypeOK
  PROVE  /\ Len(rows) \in Nat /\ DOMAIN rows = 1..Len(rows)
         /\ \A i \in DOMAIN rows : rows[i] \in Row
  BY LenProperties, ElementOfSeq DEF TypeOK

LEMMA AppendRow ==
  ASSUME TypeOK, NEW e \in Row, rows' = Append(rows, e)
  PROVE  /\ rows' \in Seq(Row) /\ Len(rows') = Len(rows) + 1
         /\ DOMAIN rows' = DOMAIN rows \cup {Len(rows) + 1}
         /\ Len(rows) + 1 \notin DOMAIN rows
         /\ \A i \in DOMAIN rows : rows'[i] = rows[i]
         /\ rows'[Len(rows) + 1] = e
<1>1. rows' \in Seq(Row) /\ Len(rows') = Len(rows) + 1
      /\ \A i \in 1..Len(rows) : rows'[i] = rows[i]
      /\ rows'[Len(rows) + 1] = e
  BY AppendProperties DEF TypeOK
<1>2. DOMAIN rows' = 1..Len(rows') BY <1>1, LenProperties
<1>3. QED BY <1>1, <1>2, RowsType

LEMMA EntryType ==
  ASSUME NEW j \in Job, NEW s \in Status, NEW t \in 0..Horizon, NEW F \in SUBSET (1..Horizon)
  PROVE  /\ Entry(j, s, t, F) \in Row
         /\ Entry(j, s, t, F).job = j /\ Entry(j, s, t, F).status = s
         /\ Entry(j, s, t, F).started = t /\ Entry(j, s, t, F).fires = F
  BY DEF Entry, Row

LEMMA RunType ==
  ASSUME TypeOK, NEW j \in Job
  PROVE  /\ run[j] \in Run /\ run[j].row \in 0..Len(rows)
         /\ run[j].step \in {"idle", "begin", "job", "recording"}
         /\ run[j].fires \in SUBSET (1..Horizon) /\ run[j].started \in 0..Horizon
         /\ run[j].outcome \in {"none", "ended", "cancelled"}
<1>1. run[j] \in Run /\ run[j].row \in 0..Len(rows) BY DEF TypeOK
<1>2. QED BY <1>1 DEF Run

LEMMA IdleType ==
  /\ Idle \in Run /\ Idle.row = 0 /\ Idle.fires = {} /\ Idle.started = 0
  /\ Idle.step = "idle" /\ Idle.outcome = "none"
  BY DEF Idle, Run

\* Rows are never lost, and what they are about never changes.
RowsKept ==
  \A i \in DOMAIN rows :
    /\ i \in DOMAIN rows' /\ rows'[i].job = rows[i].job
    /\ rows'[i].started = rows[i].started /\ rows'[i].fires = rows[i].fires

\* Finishing rows in place: only a status changes.
LEMMA FinishRow ==
  ASSUME TypeOK, NEW r \in DOMAIN rows, NEW s \in Status,
         rows' = [rows EXCEPT ![r].status = s]
  PROVE  /\ rows' \in Seq(Row) /\ Len(rows') = Len(rows) /\ DOMAIN rows' = DOMAIN rows
         /\ RowsKept
         /\ \A i \in DOMAIN rows : i # r => rows'[i] = rows[i]
         /\ rows'[r].status = s
<1> DEFINE e == [rows[r] EXCEPT !.status = s]
<1>1. rows[r] \in Row BY RowsType
<1>2. e \in Row /\ e.job = rows[r].job /\ e.started = rows[r].started
      /\ e.fires = rows[r].fires /\ e.status = s
  BY <1>1 DEF Row
<1>3. rows' = [rows EXCEPT ![r] = e] OBVIOUS
<1>4. r \in 1..Len(rows) /\ rows \in Seq(Row) BY RowsType DEF TypeOK
<1> HIDE DEF e
<1>5. rows' \in Seq(Row) /\ Len(rows') = Len(rows)
      /\ \A i \in 1..Len(rows) : rows'[i] = IF i = r THEN e ELSE rows[i]
  <2> DEFINE q == [rows EXCEPT ![r] = e]
  <2>1. q \in Seq(Row) /\ Len(q) = Len(rows)
        /\ \A i \in 1..Len(rows) : q[i] = IF i = r THEN e ELSE rows[i]
    BY <1>2, <1>4, ExceptSeq
  <2>2. rows' = q BY <1>3
  <2> HIDE DEF q
  <2>3. QED BY <2>1, <2>2
<1>6. DOMAIN rows' = DOMAIN rows BY <1>5, LenProperties, RowsType
<1>7. QED BY <1>2, <1>4, <1>5, <1>6, RowsType DEF RowsKept

--------------------------------------------------------------------------------
(* The invariant holds initially. *)

LEMMA InitIInv == Init => IInv
<1> SUFFICES ASSUME Init PROVE IInv OBVIOUS
<1>1. rows = <<>> /\ DOMAIN rows = {} /\ Len(rows) = 0 /\ rows \in Seq(Row)
  <2>1. rows = <<>> BY DEF Init
  <2>2. rows \in Seq(Row) /\ Len(rows) = 0 BY <2>1, EmptySeq
  <2>3. DOMAIN rows = 1..0 BY <2>2, LenProperties
  <2>4. QED BY <2>1, <2>2, <2>3
<1>2. \A j \in Job : run[j] = Idle BY DEF Init
<1>3. TypeOK BY <1>1, <1>2, IdleType DEF Init, TypeOK, Never
<1>4. PastInv BY <1>1, <1>2, IdleType DEF Init, PastInv, Past
<1>5. OwnInv BY <1>1, <1>2, IdleType DEF Init, OwnInv
<1>6. AheadInv /\ Evidence
  BY <1>1, <1>2 DEF Init, AheadInv, Evidence, RunLeavesEvidence, RunningHasOwner
<1>7. OneVoice BY <1>1, <1>2 DEF Init, OneVoice, SpokenForOnce
<1>8. QED BY <1>3, <1>4, <1>5, <1>6, <1>7 DEF IInv

--------------------------------------------------------------------------------
(* Steps that leave the rows and whatever is in flight alone. *)

LEMMA QuietStep ==
  ASSUME IInv, UNCHANGED <<rows, run, background, begun>>,
         \/ Tick \/ Start \/ TakeStock \/ ReconcileFails \/ Shutdown
         \/ UNCHANGED vars
  PROVE  IInv'
<1> USE DEF Tick, Start, TakeStock, ReconcileFails, Shutdown, Fault, vars, process
<1>0. TypeOK /\ PastInv /\ AheadInv /\ OwnInv /\ OneVoice /\ Evidence BY DEF IInv
<1>1. TypeOK'
  <2>1. now' \in 0..Horizon /\ asOf' \in 0..Horizon BY <1>0 DEF TypeOK
  <2>2. starts' \in 0..MaxStarts BY <1>0 DEF TypeOK
  <2>3. faults' \in 0..MaxFaults BY <1>0 DEF TypeOK
  <2>4. /\ phase' \in {"down", "starting", "marked", "counting", "open", "draining"}
        /\ todo' \subseteq Job /\ next' = next
    BY <1>0 DEF TypeOK
  <2> HIDE DEF Tick, Start, TakeStock, ReconcileFails, Shutdown, Fault, vars, process
  <2>5. QED BY <1>0, <2>1, <2>2, <2>3, <2>4 DEF TypeOK
<1>2. now' \in Nat /\ now <= now' /\ asOf' <= now' /\ asOf' \in Nat
  BY <1>0 DEF TypeOK, PastInv
<1>3. PastInv'
  <2>1. \A s, F : s \in 0..Horizon /\ Past(s, F) => Past(s, F)'
    BY <1>0, <1>2 DEF Past, TypeOK
  <2>2. \A i \in DOMAIN rows : rows[i].started \in 0..Horizon
    BY <1>0, RowsType DEF Row
  <2>3. \A e \in background : e.started \in 0..Horizon BY <1>0 DEF TypeOK, Row
  <2>4. \A j \in Job : run[j].started \in 0..Horizon BY <1>0, RunType
  <2> HIDE DEF Tick, Start, TakeStock, ReconcileFails, Shutdown
  <2>5. QED BY <1>0, <1>2, <2>1, <2>2, <2>3, <2>4 DEF PastInv, Past
<1>4. AheadInv' BY <1>0 DEF AheadInv
<1>5. OwnInv' BY <1>0 DEF OwnInv
<1>6. OneVoice' BY <1>0 DEF OneVoice, SpokenForOnce
<1>7. Evidence'
  <2>1. faults' = 0 => faults = 0 BY <1>0 DEF TypeOK
  <2>2. RunLeavesEvidence'
    BY <1>0, <2>1 DEF Evidence, RunLeavesEvidence, RowsOf
  <2>3. RunningHasOwner' BY <1>0, <2>1 DEF Evidence, RunningHasOwner
  <2>4. phase' \in {"marked", "counting"} /\ faults' = 0
          => \A i \in DOMAIN rows : rows[i].status # "running"
    BY <1>0, <2>1 DEF Evidence, TypeOK
  <2>5. QED BY <2>2, <2>3, <2>4 DEF Evidence
<1>8. QED BY <1>1, <1>3, <1>4, <1>5, <1>6, <1>7 DEF IInv

--------------------------------------------------------------------------------
(* The ends of a process, and its opening. *)

\* Whatever was in flight is gone; the rows stay.
LEMMA GoingDown == ASSUME IInv, Drained \/ Dies PROVE IInv'
<1>0. TypeOK /\ PastInv /\ AheadInv /\ OwnInv /\ OneVoice /\ Evidence BY DEF IInv
<1>1. /\ phase' = "down" /\ background' = {} /\ next' = [j \in Job |-> Never]
      /\ now' = now /\ asOf' = asOf /\ starts' = starts /\ rows' = rows
      /\ begun' = begun /\ faults' = faults /\ todo' \subseteq Job
  BY <1>0 DEF Drained, Dies, TypeOK
<1>2. run' = [j \in Job |-> Idle]
  <2>1. CASE Drained
    <3>1. run \in [Job -> Run] BY <1>0 DEF TypeOK
    <3>2. QED BY <2>1, <3>1 DEF Drained
  <2>2. CASE Dies BY <2>2 DEF Dies
  <2>3. QED BY <2>1, <2>2
<1>3. \A j \in Job : run'[j] = Idle BY <1>2
<1>4. TypeOK'
  <2>1. run' \in [Job -> Run] /\ \A j \in Job : run'[j].row \in 0..Len(rows)
    BY <1>0, <1>2, RowsType, IdleType
  <2>2. next' \in [Job -> 1..Never] BY <1>1 DEF Never
  <2>3. QED BY <1>0, <1>1, <2>1, <2>2 DEF TypeOK
<1>5. PastInv'
  <2>1. now \in Nat BY <1>0 DEF TypeOK
  <2>2. QED BY <1>0, <1>1, <1>3, <2>1, IdleType DEF PastInv, Past
<1>6. AheadInv' BY <1>1 DEF AheadInv
<1>7. OwnInv' BY <1>1, <1>3, IdleType DEF OwnInv
<1>8. OneVoice'
  <2>1. \A i \in DOMAIN rows : rows[i].job \in Job BY <1>0, RowsType DEF Row
  <2>2. QED BY <1>0, <1>1, <1>3, <2>1, IdleType DEF OneVoice, SpokenForOnce
<1>9. Evidence'
  BY <1>0, <1>1 DEF Evidence, RunLeavesEvidence, RunningHasOwner, RowsOf
<1>10. QED BY <1>4, <1>5, <1>6, <1>7, <1>8, <1>9 DEF IInv

\* What the scheduler waits for is later than now, hence than every row.
LEMMA Opening == ASSUME IInv, Open PROVE IInv'
<1>0. TypeOK /\ PastInv /\ AheadInv /\ OwnInv /\ OneVoice /\ Evidence BY DEF IInv
<1>1. /\ phase = "counting" /\ phase' = "open" /\ todo' = todo
      /\ next' = [j \in Job |-> NextAfter(j, now)]
      /\ now' = now /\ asOf' = asOf /\ starts' = starts /\ rows' = rows /\ run' = run
      /\ background' = background /\ begun' = begun /\ faults' = faults
  BY DEF Open
<1>2. background = {} /\ \A j \in Job : run[j] = Idle BY <1>0, <1>1 DEF OwnInv
<1>3. \A j \in Job : NextAfter(j, now) \in 1..Never /\ now < NextAfter(j, now)
  BY <1>0, NextIsLater DEF TypeOK
<1>4. TypeOK'
  <2>1. next' \in [Job -> 1..Never] BY <1>1, <1>3
  <2>2. QED BY <1>0, <1>1, <2>1 DEF TypeOK
<1>5. PastInv' BY <1>0, <1>1 DEF PastInv, Past
<1>6. AheadInv'
  <2>1. ASSUME NEW i \in DOMAIN rows, NEW f \in rows[i].fires
        PROVE  f < next'[rows[i].job]
    <3>1. rows[i] \in Row BY <1>0, RowsType
    <3>2. f \in 1..Horizon /\ rows[i].started \in 0..Horizon /\ rows[i].job \in Job
      BY <3>1 DEF Row
    <3>3. f <= rows[i].started /\ rows[i].started <= now BY <1>0 DEF PastInv, Past
    <3>4. now \in 0..Horizon BY <1>0 DEF TypeOK
    <3>5. next'[rows[i].job] = NextAfter(rows[i].job, now) BY <1>1, <3>2
    <3>6. QED BY <1>3, <3>2, <3>3, <3>4, <3>5 DEF Never
  <2>2. QED BY <1>1, <1>2, <2>1, IdleType DEF AheadInv
<1>7. OwnInv' BY <1>0, <1>1, <1>2 DEF OwnInv
<1>8. OneVoice' BY <1>0, <1>1 DEF OneVoice, SpokenForOnce
<1>9. Evidence'
  BY <1>0, <1>1 DEF Evidence, RunLeavesEvidence, RunningHasOwner, RowsOf
<1>10. QED BY <1>4, <1>5, <1>6, <1>7, <1>8, <1>9 DEF IInv

--------------------------------------------------------------------------------
(* Startup. *)

LEMMA Marking == ASSUME IInv, MarkInterrupted PROVE IInv'
<1>0. TypeOK /\ PastInv /\ AheadInv /\ OwnInv /\ OneVoice /\ Evidence BY DEF IInv
<1>1. /\ phase = "starting" /\ phase' = "marked" /\ todo' = todo /\ next' = next
      /\ now' = now /\ asOf' = asOf /\ starts' = starts /\ run' = run
      /\ background' = background /\ begun' = begun /\ faults' = faults
  BY DEF MarkInterrupted
<1>2. background = {} /\ \A j \in Job : run[j] = Idle BY <1>0, <1>1 DEF OwnInv
<1>3. /\ DOMAIN rows' = DOMAIN rows
      /\ \A i \in DOMAIN rows :
           /\ rows'[i] \in Row /\ rows'[i].job = rows[i].job
           /\ rows'[i].started = rows[i].started /\ rows'[i].fires = rows[i].fires
           /\ rows'[i].status # "running"
           /\ rows[i].status # "running" => rows'[i] = rows[i]
           /\ rows[i].status = "running" => rows'[i].status = "interrupted"
  <2>1. DOMAIN rows' = DOMAIN rows
        /\ \A i \in DOMAIN rows :
             rows'[i] = IF rows[i].status = "running"
                        THEN [rows[i] EXCEPT !.status = "interrupted"] ELSE rows[i]
    BY DEF MarkInterrupted
  <2>2. ASSUME NEW i \in DOMAIN rows
        PROVE  /\ rows'[i] \in Row /\ rows'[i].job = rows[i].job
               /\ rows'[i].started = rows[i].started /\ rows'[i].fires = rows[i].fires
               /\ rows'[i].status # "running"
               /\ rows[i].status # "running" => rows'[i] = rows[i]
               /\ rows[i].status = "running" => rows'[i].status = "interrupted"
    <3>1. rows[i] \in Row BY <1>0, RowsType
    <3>2. CASE rows[i].status = "running"
      <4>1. rows'[i] = [rows[i] EXCEPT !.status = "interrupted"] BY <2>1, <3>2
      <4>2. QED BY <3>1, <3>2, <4>1 DEF Row, Status
    <3>3. CASE rows[i].status # "running"
      <4>1. rows'[i] = rows[i] BY <2>1, <3>3
      <4>2. QED BY <3>1, <3>3, <4>1
    <3>4. QED BY <3>2, <3>3
  <2>3. QED BY <2>1, <2>2
<1>4. rows' \in Seq(Row) /\ Len(rows') = Len(rows)
  <2>1. rows' = [i \in 1..Len(rows) |-> rows'[i]]
    BY <1>0, <1>3, RowsType DEF MarkInterrupted
  <2>2. \A i \in 1..Len(rows) : rows'[i] \in Row BY <1>0, <1>3, RowsType
  <2>3. Len(rows) \in Nat BY <1>0, RowsType
  <2>4. rows' \in [1..Len(rows) -> Row] BY <2>1, <2>2
  <2>5. rows' \in Seq(Row) BY <2>3, <2>4, SeqDef
  <2>6. QED BY <1>3, <2>3, <2>5, LenProperties, RowsType, <1>0
<1>5. TypeOK' BY <1>0, <1>1, <1>4 DEF TypeOK
<1>6. PastInv' BY <1>0, <1>1, <1>3 DEF PastInv, Past
<1>7. AheadInv' BY <1>1 DEF AheadInv
<1>8. OwnInv' BY <1>1, <1>2, IdleType DEF OwnInv
<1>9. OneVoice'
  <2>1. \A i \in DOMAIN rows : rows[i].job \in Job BY <1>0, RowsType DEF Row
  <2>2. QED BY <1>0, <1>1, <1>2, <1>3, <2>1, IdleType DEF OneVoice, SpokenForOnce
<1>10. Evidence'
  <2>1. RunLeavesEvidence'
    <3>1. ASSUME faults = 0, NEW j \in Job, NEW f \in begun[j]
          PROVE  \E i \in RowsOf(j)' : f \in rows'[i].fires
                                       /\ rows'[i].status \notin {"skipped", "misfired"}
      <4>1. PICK i \in DOMAIN rows : rows[i].job = j /\ f \in rows[i].fires
                                     /\ rows[i].status \notin {"skipped", "misfired"}
        BY <1>0, <3>1 DEF Evidence, RunLeavesEvidence, RowsOf
      <4>2. QED BY <1>3, <4>1 DEF RowsOf
    <3>2. QED BY <1>1, <3>1 DEF RunLeavesEvidence
  <2>2. QED BY <1>1, <1>3, <2>1 DEF Evidence, RunningHasOwner
<1>11. QED BY <1>5, <1>6, <1>7, <1>8, <1>9, <1>10 DEF IInv

\* A missed fire is later than every row of its job: nobody spoke for it yet.
LEMMA AccountingForMissed ==
  ASSUME IInv, NEW j \in Job, RecordMissed(j)
  PROVE  IInv'
<1> DEFINE F == Missed(j, asOf)
           e == Entry(j, "misfired", asOf, F)
<1>0. TypeOK /\ PastInv /\ AheadInv /\ OwnInv /\ OneVoice /\ Evidence BY DEF IInv
<1>1. /\ phase = "counting" /\ phase' = "counting" /\ todo' \subseteq Job /\ next' = next
      /\ now' = now /\ asOf' = asOf /\ starts' = starts /\ run' = run
      /\ background' = background /\ begun' = begun
      /\ faults' \in 0..MaxFaults /\ (faults' = 0 => faults = 0)
      /\ rows' = rows \/ rows' = Append(rows, e)
  BY <1>0 DEF RecordMissed, Fault, TypeOK
<1>2. background = {} /\ \A k \in Job : run[k] = Idle BY <1>0, <1>1 DEF OwnInv
<1>3. CASE rows' = rows
  <2>1. TypeOK' BY <1>0, <1>1, <1>3 DEF TypeOK
  <2>2. PastInv' /\ AheadInv' /\ OwnInv'
    BY <1>0, <1>1, <1>3 DEF PastInv, Past, AheadInv, OwnInv
  <2>3. OneVoice' BY <1>0, <1>1, <1>3 DEF OneVoice, SpokenForOnce
  <2>4. Evidence'
    BY <1>0, <1>1, <1>3 DEF Evidence, RunLeavesEvidence, RunningHasOwner, RowsOf
  <2>5. QED BY <2>1, <2>2, <2>3, <2>4 DEF IInv
<1>4. CASE rows' = Append(rows, e)
  <2>1. /\ F \in SUBSET (1..Horizon) /\ asOf \in 0..Horizon
        /\ \A f \in F : /\ f <= asOf
                        /\ \A i \in DOMAIN rows : rows[i].job = j => rows[i].started < f
    BY <1>0, MissedIsLater DEF TypeOK
  <2> HIDE DEF F
  <2>2. /\ e \in Row /\ e.job = j /\ e.status = "misfired" /\ e.started = asOf /\ e.fires = F
    BY <2>1, EntryType DEF Status
  <2> HIDE DEF e
  <2> DEFINE n == Len(rows) + 1
  <2>3. /\ rows' \in Seq(Row) /\ Len(rows') = n /\ DOMAIN rows' = DOMAIN rows \cup {n}
        /\ n \notin DOMAIN rows /\ \A i \in DOMAIN rows : rows'[i] = rows[i]
        /\ rows'[n] = e
    BY <1>0, <1>4, <2>2, AppendRow
  <2>4. Len(rows) \in Nat /\ n \in Nat /\ n # 0 BY <1>0, RowsType
  <2> HIDE DEF n
  <2>5. TypeOK'
    <3>1. \A k \in Job : run'[k].row \in 0..Len(rows')
      BY <1>1, <1>2, <2>3, <2>4, IdleType
    <3>2. QED BY <1>0, <1>1, <2>3, <3>1 DEF TypeOK
  <2>6. PastInv' BY <1>0, <1>1, <2>1, <2>2, <2>3 DEF PastInv, Past
  <2>7. AheadInv' BY <1>1 DEF AheadInv
  <2>8. OwnInv' BY <1>1, <1>2, IdleType DEF OwnInv
  <2>9. OneVoice'
    <3>1. \A i \in DOMAIN rows : rows[i].job = j => rows[i].fires \cap F = {}
      <4>1. ASSUME NEW i \in DOMAIN rows, rows[i].job = j, NEW f \in F, f \in rows[i].fires
            PROVE  FALSE
        <5>1. f <= rows[i].started BY <1>0, <4>1 DEF PastInv, Past
        <5>2. rows[i].started < f BY <2>1, <4>1
        <5>3. f \in 1..Horizon BY <2>1
        <5>4. rows[i].started \in 0..Horizon BY <1>0, RowsType DEF Row
        <5>5. QED BY <5>1, <5>2, <5>3, <5>4
      <4>2. QED BY <4>1
    <3>2. SpokenForOnce' BY <1>0, <2>2, <2>3, <3>1 DEF OneVoice, SpokenForOnce
    <3>3. \A i \in DOMAIN rows' : rows'[i].job \in Job
      BY <1>0, <2>2, <2>3, RowsType DEF Row
    <3>4. QED BY <1>1, <1>2, <3>2, <3>3, IdleType DEF OneVoice
  <2>10. Evidence'
    <3>1. RunLeavesEvidence'
      BY <1>0, <1>1, <2>3 DEF Evidence, RunLeavesEvidence, RowsOf
    <3>2. QED BY <1>0, <1>1, <2>2, <2>3, <3>1 DEF Evidence, RunningHasOwner
  <2>11. QED BY <2>5, <2>6, <2>7, <2>8, <2>9, <2>10 DEF IInv
<1>5. QED BY <1>1, <1>3, <1>4

--------------------------------------------------------------------------------
(* A row written without a run. *)

LEMMA WritingInBackground ==
  ASSUME IInv, NEW e \in background, RecordBackground(e)
  PROVE  IInv'
<1>0. TypeOK /\ PastInv /\ AheadInv /\ OwnInv /\ OneVoice /\ Evidence BY DEF IInv
<1>1. /\ phase' = phase /\ todo' = todo /\ next' = next
      /\ now' = now /\ asOf' = asOf /\ starts' = starts /\ run' = run
      /\ background' = background \ {e} /\ begun' = begun
      /\ faults' \in 0..MaxFaults /\ (faults' = 0 => faults = 0)
      /\ rows' = rows \/ rows' = Append(rows, e)
  BY <1>0 DEF RecordBackground, Fault, TypeOK, process
<1>2. e \in Row /\ e.job \in Job /\ e.status \in {"skipped", "misfired"}
  BY <1>0 DEF TypeOK, OwnInv, Row
<1>3. phase \in {"open", "draining"} BY <1>0 DEF OwnInv
<1>4. CASE rows' = rows
  <2>1. TypeOK' BY <1>0, <1>1, <1>4 DEF TypeOK
  <2>2. PastInv' /\ AheadInv' /\ OwnInv'
    BY <1>0, <1>1, <1>4 DEF PastInv, Past, AheadInv, OwnInv
  <2>3. OneVoice' BY <1>0, <1>1, <1>4 DEF OneVoice, SpokenForOnce
  <2>4. Evidence'
    BY <1>0, <1>1, <1>4 DEF Evidence, RunLeavesEvidence, RunningHasOwner, RowsOf
  <2>5. QED BY <2>1, <2>2, <2>3, <2>4 DEF IInv
<1>5. CASE rows' = Append(rows, e)
  <2> DEFINE n == Len(rows) + 1
  <2>1. /\ rows' \in Seq(Row) /\ Len(rows') = n /\ DOMAIN rows' = DOMAIN rows \cup {n}
        /\ n \notin DOMAIN rows /\ \A i \in DOMAIN rows : rows'[i] = rows[i]
        /\ rows'[n] = e
    BY <1>0, <1>2, <1>5, AppendRow
  <2>2. /\ Len(rows) \in Nat /\ n \in Nat /\ n > Len(rows)
        /\ \A i \in DOMAIN rows : rows[i].job \in Job
    BY <1>0, RowsType DEF Row
  <2>3. \A k \in Job : run[k].row \in 0..Len(rows) /\ run[k].row # n
    BY <1>0, <2>2, RunType
  <2>4. \A k \in Job : run[k].row # 0 => run[k].row \in DOMAIN rows
    BY <1>0, <2>2, <2>3, RowsType
  <2>5. TypeOK'
    <3>1. \A k \in Job : run'[k].row \in 0..Len(rows') BY <1>1, <2>1, <2>2, <2>3
    <3>2. QED BY <1>0, <1>1, <2>1, <3>1 DEF TypeOK
  <2> HIDE DEF n
  <2>6. PastInv' BY <1>0, <1>1, <2>1 DEF PastInv, Past
  <2>7. AheadInv' BY <1>0, <1>1, <2>1 DEF AheadInv
  <2>8. OwnInv' BY <1>0, <1>1, <2>1, <2>4 DEF OwnInv
  <2>9. OneVoice'
    <3>1. \A i \in DOMAIN rows : rows[i].job = e.job => rows[i].fires \cap e.fires = {}
      BY <1>0 DEF OneVoice
    <3>2. SpokenForOnce' BY <1>0, <2>1, <3>1 DEF OneVoice, SpokenForOnce
    <3>3. e.fires \cap run[e.job].fires = {} BY <1>0 DEF OneVoice
    <3>4. ASSUME NEW d \in background, d # e, NEW i \in DOMAIN rows', rows'[i].job = d.job
          PROVE  rows'[i].fires \cap d.fires = {}
      <4>1. CASE i \in DOMAIN rows BY <1>0, <2>1, <3>4, <4>1 DEF OneVoice
      <4>2. CASE i = n BY <1>0, <2>1, <3>4, <4>2 DEF OneVoice
      <4>3. QED BY <2>1, <4>1, <4>2
    <3>5. \A i \in DOMAIN rows' :
            run'[rows'[i].job].row # i => rows'[i].fires \cap run'[rows'[i].job].fires = {}
      BY <1>0, <1>1, <2>1, <3>3 DEF OneVoice
    <3>6. \A d \in background' :
            /\ d.fires \cap run'[d.job].fires = {}
            /\ \A c \in background' : c # d /\ c.job = d.job => c.fires \cap d.fires = {}
      BY <1>0, <1>1 DEF OneVoice
    <3>7. QED BY <1>1, <3>2, <3>4, <3>5, <3>6 DEF OneVoice
  <2>10. Evidence'
    <3>1. RunLeavesEvidence'
      BY <1>0, <1>1, <2>1 DEF Evidence, RunLeavesEvidence, RowsOf
    <3>2. RunningHasOwner' BY <1>0, <1>1, <1>2, <2>1 DEF Evidence, RunningHasOwner
    <3>3. QED BY <1>1, <1>3, <3>1, <3>2 DEF Evidence
  <2>11. QED BY <2>5, <2>6, <2>7, <2>8, <2>9, <2>10 DEF IInv
<1>6. QED BY <1>1, <1>4, <1>5

--------------------------------------------------------------------------------
(* The scheduler wakes. *)

\* The fires it wakes for are later than whatever was spoken for, and the next one
\* is later than these.
LEMMA Waking ==
  ASSUME IInv, NEW j \in Job, WakeUp(j)
  PROVE  IInv'
<1> DEFINE F == {f \in Due[j] : f >= next[j] /\ f <= now}
           B == [step |-> "begin", row |-> 0, fires |-> F, started |-> now,
                 outcome |-> "none"]
<1>0. TypeOK /\ PastInv /\ AheadInv /\ OwnInv /\ OneVoice /\ Evidence BY DEF IInv
<1>1. /\ phase = "open" /\ phase' = "open" /\ todo' = todo
      /\ next' = [next EXCEPT ![j] = NextAfter(j, now)] /\ next[j] <= now
      /\ now' = now /\ asOf' = asOf /\ starts' = starts /\ rows' = rows
      /\ begun' = begun /\ faults' = faults
  BY DEF WakeUp, process
<1>2. \/ /\ run' = run
         /\ \E s \in {"skipped", "misfired"} :
              background' = background \cup {Entry(j, s, now, F)}
      \/ /\ run[j] = Idle /\ run' = [run EXCEPT ![j] = B] /\ background' = background
  BY DEF WakeUp
<1>3. /\ now \in 0..Horizon /\ next \in [Job -> 1..Never] /\ run \in [Job -> Run]
      /\ F \subseteq 1..Horizon /\ \A f \in F : next[j] <= f /\ f <= now
  <2>1. Due[j] \subseteq 1..Horizon OBVIOUS
  <2>2. QED BY <1>0, <2>1 DEF TypeOK
<1> HIDE DEF F
<1>4. /\ B \in Run /\ B.row = 0 /\ B.fires = F /\ B.started = now /\ B.step = "begin"
      /\ B.outcome = "none"
  BY <1>3 DEF Run
<1> HIDE DEF B
<1>5. NextAfter(j, now) \in 1..Never /\ now < NextAfter(j, now) BY <1>3, NextIsLater
<1>6. /\ next' \in [Job -> 1..Never] /\ next'[j] = NextAfter(j, now)
      /\ \A k \in Job : k # j => next'[k] = next[k]
  BY <1>1, <1>3, <1>5
<1>7. \A k \in Job : next[k] <= next'[k] /\ next[k] \in Nat /\ next'[k] \in Nat
  <2>1. \A k \in Job : next[k] \in 1..Never /\ next'[k] \in 1..Never BY <1>3, <1>6
  <2>2. next[j] <= next'[j] BY <1>1, <1>3, <1>5, <1>6, <2>1 DEF Never
  <2>3. QED BY <1>6, <2>1, <2>2 DEF Never
\* Nobody spoke for these fires.
<1>8. /\ \A i \in DOMAIN rows : rows[i].job = j => rows[i].fires \cap F = {}
      /\ \A e \in background : e.job = j => e.fires \cap F = {}
      /\ run[j].fires \cap F = {}
  <2>1. \A f \in F : ~(f < next[j])
    <3>1. next[j] \in Nat BY <1>7
    <3>2. QED BY <1>3, <3>1
  <2>2. QED BY <1>0, <1>1, <2>1 DEF AheadInv
<1>9. \A f \in F : f < next'[j] BY <1>3, <1>5, <1>6, <1>7
<1>10. /\ \A i \in DOMAIN rows : rows[i].job \in Job /\ rows[i].fires \subseteq Nat
       /\ \A e \in background : e.job \in Job /\ e.fires \subseteq Nat
       /\ \A k \in Job : run[k].fires \subseteq Nat
  <2>1. 1..Horizon \subseteq Nat OBVIOUS
  <2>2. \A i \in DOMAIN rows : rows[i] \in Row BY <1>0, RowsType
  <2>3. \A e \in background : e \in Row BY <1>0 DEF TypeOK
  <2>4. \A r \in Row : r.job \in Job /\ r.fires \in SUBSET (1..Horizon) BY DEF Row
  <2>5. \A k \in Job : run[k].fires \in SUBSET (1..Horizon) BY <1>0, RunType
  <2>6. QED BY <2>1, <2>2, <2>3, <2>4, <2>5
<1>11. /\ \A i \in DOMAIN rows : \A f \in rows[i].fires : f < next'[rows[i].job]
       /\ \A e \in background : \A f \in e.fires : f < next'[e.job]
       /\ \A k \in Job : \A f \in run[k].fires : f < next'[k]
  <2>1. \A k \in Job : \A f \in Nat : f < next[k] => f < next'[k] BY <1>7
  <2>2. QED BY <1>0, <1>1, <1>10, <2>1 DEF AheadInv
<1>12. ASSUME run' = run, NEW s \in {"skipped", "misfired"},
              background' = background \cup {Entry(j, s, now, F)}
       PROVE  IInv'
  <2> DEFINE e == Entry(j, s, now, F)
  <2>1. /\ e \in Row /\ e.job = j /\ e.status = s /\ e.started = now /\ e.fires = F
    BY <1>3, EntryType DEF Status
  <2>2. background' = background \cup {e} BY <1>12
  <2> HIDE DEF e
  <2>3. TypeOK' BY <1>0, <1>1, <1>6, <1>12, <2>1, <2>2 DEF TypeOK
  <2>4. PastInv'
    <3>1. Past(e.started, e.fires)
      <4>1. now <= now /\ \A f \in F : f <= now BY <1>3
      <4>2. QED BY <2>1, <4>1 DEF Past
    <3>2. QED BY <1>0, <1>1, <1>12, <2>2, <3>1 DEF PastInv, Past
  <2>5. AheadInv' BY <1>1, <1>9, <1>11, <1>12, <2>1, <2>2 DEF AheadInv
  <2>6. OwnInv' BY <1>0, <1>1, <1>12, <2>1, <2>2 DEF OwnInv
  <2>7. OneVoice'
    <3>1. SpokenForOnce' BY <1>0, <1>1 DEF OneVoice, SpokenForOnce
    <3>2. QED BY <1>0, <1>1, <1>8, <1>12, <2>1, <2>2, <3>1 DEF OneVoice
  <2>8. Evidence'
    BY <1>0, <1>1, <1>12 DEF Evidence, RunLeavesEvidence, RunningHasOwner, RowsOf
  <2>9. QED BY <2>3, <2>4, <2>5, <2>6, <2>7, <2>8 DEF IInv
<1>13. ASSUME run[j] = Idle, run' = [run EXCEPT ![j] = B], background' = background
       PROVE  IInv'
  <2>1. /\ run' \in [Job -> Run] /\ run'[j] = B /\ \A k \in Job : k # j => run'[k] = run[k]
    BY <1>3, <1>4, <1>13
  <2>2. TypeOK'
    <3>1. \A k \in Job : run'[k].row \in 0..Len(rows)
      BY <1>0, <1>4, <2>1, RunType, RowsType
    <3>2. QED BY <1>0, <1>1, <1>6, <1>13, <2>1, <3>1 DEF TypeOK
  <2>3. PastInv'
    <3>1. Past(B.started, B.fires)
      <4>1. now <= now /\ \A f \in F : f <= now BY <1>3
      <4>2. QED BY <1>4, <4>1 DEF Past
    <3>2. QED BY <1>0, <1>1, <1>13, <2>1, <3>1 DEF PastInv, Past
  <2>4. AheadInv' BY <1>1, <1>4, <1>9, <1>11, <1>13, <2>1 DEF AheadInv
  <2>5. OwnInv' BY <1>0, <1>1, <1>4, <1>13, <2>1 DEF OwnInv
  <2>6. OneVoice'
    <3>1. SpokenForOnce' BY <1>0, <1>1 DEF OneVoice, SpokenForOnce
    <3>2. \A i \in DOMAIN rows :
            run'[rows[i].job].row # i => rows[i].fires \cap run'[rows[i].job].fires = {}
      BY <1>0, <1>4, <1>8, <1>10, <2>1 DEF OneVoice
    <3>3. \A e \in background : e.fires \cap run'[e.job].fires = {}
      BY <1>0, <1>4, <1>8, <1>10, <2>1 DEF OneVoice
    <3>4. QED BY <1>0, <1>1, <1>13, <3>1, <3>2, <3>3 DEF OneVoice
  <2>7. Evidence'
    <3>1. RunLeavesEvidence' BY <1>0, <1>1 DEF Evidence, RunLeavesEvidence, RowsOf
    <3>2. RunningHasOwner'
      <4>1. run[j].row = 0 /\ 0 \notin DOMAIN rows BY <1>0, <1>13, IdleType, RowsType
      <4>2. QED BY <1>0, <1>1, <1>10, <2>1, <4>1 DEF Evidence, RunningHasOwner
    <3>3. QED BY <1>1, <3>1, <3>2 DEF Evidence
  <2>8. QED BY <2>2, <2>3, <2>4, <2>5, <2>6, <2>7 DEF IInv
<1>14. QED BY <1>2, <1>12, <1>13

--------------------------------------------------------------------------------
(* A run. *)

\* The run takes its running row, or goes on without one.
LEMMA Beginning ==
  ASSUME IInv, NEW j \in Job, Begin(j)
  PROVE  IInv'
<1> DEFINE e == Entry(j, "running", run[j].started, run[j].fires)
           n == Len(rows) + 1
           Enters(id) ==
             /\ run' = [run EXCEPT ![j].step = "job", ![j].row = id]
             /\ begun' = [begun EXCEPT ![j] = @ \cup run[j].fires]
<1>0. TypeOK /\ PastInv /\ AheadInv /\ OwnInv /\ OneVoice /\ Evidence BY DEF IInv
<1>1. /\ phase = "open" /\ phase' = "open" /\ todo' = todo /\ next' = next
      /\ now' = now /\ asOf' = asOf /\ starts' = starts /\ background' = background
      /\ run[j].step = "begin"
  BY DEF Begin, At, process
<1>2. \/ rows' = Append(rows, e) /\ Enters(n) /\ faults' = faults
      \/ rows' = rows /\ Enters(0) /\ faults < MaxFaults /\ faults' = faults + 1
  BY DEF Begin, Enter, Fault
<1>3. /\ run[j] \in Run /\ run \in [Job -> Run] /\ run[j].row = 0
      /\ run[j].fires \in SUBSET (1..Horizon) /\ run[j].started \in 0..Horizon
  BY <1>0, <1>1, RunType DEF TypeOK, OwnInv
<1>4. ASSUME NEW id \in Nat, Enters(id)
      PROVE  /\ run' \in [Job -> Run] /\ \A k \in Job : k # j => run'[k] = run[k]
             /\ run'[j].step = "job" /\ run'[j].row = id
             /\ run'[j].fires = run[j].fires /\ run'[j].started = run[j].started
             /\ begun' \in [Job -> SUBSET (1..Horizon)]
             /\ begun'[j] = begun[j] \cup run[j].fires
             /\ \A k \in Job : k # j => begun'[k] = begun[k]
  <2>1. run'[j] = [run[j] EXCEPT !.step = "job", !.row = id] BY <1>3, <1>4
  <2>2. run'[j] \in Run /\ run'[j].step = "job" /\ run'[j].row = id
        /\ run'[j].fires = run[j].fires /\ run'[j].started = run[j].started
    BY <1>3, <2>1 DEF Run
  <2>3. run' = [run EXCEPT ![j] = run'[j]] BY <1>3, <1>4
  <2>4. begun \in [Job -> SUBSET (1..Horizon)] BY <1>0 DEF TypeOK
  <2>5. QED BY <1>3, <1>4, <2>2, <2>3, <2>4
<1>5. /\ Len(rows) \in Nat /\ n \in Nat /\ DOMAIN rows = 1..Len(rows) /\ n > Len(rows)
      /\ \A i \in DOMAIN rows : rows[i].job \in Job
      /\ \A k \in Job : run[k].row \in 0..Len(rows) /\ run[k].row # n
  BY <1>0, RowsType, RunType DEF Row
<1>6. CASE rows' = Append(rows, e) /\ Enters(n) /\ faults' = faults
  <2>1. /\ e \in Row /\ e.job = j /\ e.status = "running" /\ e.started = run[j].started
        /\ e.fires = run[j].fires
    BY <1>3, EntryType DEF Status
  <2> HIDE DEF e
  <2>2. /\ rows' \in Seq(Row) /\ Len(rows') = n /\ DOMAIN rows' = DOMAIN rows \cup {n}
        /\ n \notin DOMAIN rows /\ \A i \in DOMAIN rows : rows'[i] = rows[i]
        /\ rows'[n] = e
    BY <1>0, <1>6, <2>1, AppendRow
  <2>3. /\ run' \in [Job -> Run] /\ \A k \in Job : k # j => run'[k] = run[k]
        /\ run'[j].step = "job" /\ run'[j].row = n
        /\ run'[j].fires = run[j].fires /\ run'[j].started = run[j].started
        /\ begun' \in [Job -> SUBSET (1..Horizon)]
        /\ begun'[j] = begun[j] \cup run[j].fires
        /\ \A k \in Job : k # j => begun'[k] = begun[k]
    BY <1>4, <1>5, <1>6
  <2>4. TypeOK'
    <3>1. \A k \in Job : run'[k].row \in 0..Len(rows') BY <1>5, <2>2, <2>3
    <3>2. QED BY <1>0, <1>1, <1>6, <2>2, <2>3, <3>1 DEF TypeOK
  <2> HIDE DEF n
  <2>5. PastInv' BY <1>0, <1>1, <2>1, <2>2, <2>3 DEF PastInv, Past
  <2>6. AheadInv' BY <1>0, <1>1, <2>1, <2>2, <2>3 DEF AheadInv
  <2>7. OwnInv'
    <3>1. \A k \in Job : k # j /\ run[k].row # 0 => run[k].row \in DOMAIN rows BY <1>5
    <3>2. QED BY <1>0, <1>1, <2>1, <2>2, <2>3, <3>1 DEF OwnInv
  <2>8. OneVoice'
    <3>1. 0 \notin DOMAIN rows BY <1>5
    <3>2. \A i \in DOMAIN rows : rows[i].job = j => rows[i].fires \cap e.fires = {}
      BY <1>0, <1>3, <2>1, <3>1 DEF OneVoice
    <3>3. SpokenForOnce' BY <1>0, <2>1, <2>2, <3>2 DEF OneVoice, SpokenForOnce
    <3>4. \A i \in DOMAIN rows' :
            run'[rows'[i].job].row # i => rows'[i].fires \cap run'[rows'[i].job].fires = {}
      <4>1. ASSUME NEW i \in DOMAIN rows, rows[i].job = j
            PROVE  rows'[i].fires \cap run'[j].fires = {}
        BY <2>1, <2>2, <2>3, <3>2, <4>1
      <4>2. ASSUME NEW i \in DOMAIN rows, rows[i].job # j, run'[rows[i].job].row # i
            PROVE  rows'[i].fires \cap run'[rows[i].job].fires = {}
        <5>1. run'[rows[i].job] = run[rows[i].job] BY <1>5, <2>3, <4>2
        <5>2. rows[i].fires \cap run[rows[i].job].fires = {} BY <1>0, <4>2, <5>1 DEF OneVoice
        <5>3. QED BY <2>2, <5>1, <5>2
      <4>3. run'[rows'[n].job].row = n BY <2>1, <2>2, <2>3
      <4>4. QED BY <2>2, <4>1, <4>2, <4>3
    <3>5. \A d \in background : d.job \in Job BY <1>0 DEF TypeOK, Row
    <3>6. \A d \in background : d.fires \cap run'[d.job].fires = {}
      BY <1>0, <2>3, <3>5 DEF OneVoice
    <3>7. \A d \in background : \A i \in DOMAIN rows' :
            rows'[i].job = d.job => rows'[i].fires \cap d.fires = {}
      BY <1>0, <2>1, <2>2 DEF OneVoice
    <3>8. QED BY <1>0, <1>1, <3>3, <3>4, <3>6, <3>7 DEF OneVoice
  <2>9. Evidence'
    <3>1. ASSUME faults = 0, NEW k \in Job, NEW f \in begun'[k]
          PROVE  \E i \in RowsOf(k)' : f \in rows'[i].fires
                                       /\ rows'[i].status \notin {"skipped", "misfired"}
      <4>1. CASE f \in begun[k]
        <5>1. PICK i \in DOMAIN rows : rows[i].job = k /\ f \in rows[i].fires
                                       /\ rows[i].status \notin {"skipped", "misfired"}
          BY <1>0, <3>1, <4>1 DEF Evidence, RunLeavesEvidence, RowsOf
        <5>2. QED BY <2>2, <5>1 DEF RowsOf
      <4>2. CASE f \notin begun[k]
        <5>1. k = j /\ f \in e.fires BY <2>1, <2>3, <3>1, <4>2
        <5>2. QED BY <2>1, <2>2, <5>1 DEF RowsOf
      <4>3. QED BY <4>1, <4>2
    <3>2. RunLeavesEvidence' BY <1>6, <3>1 DEF RunLeavesEvidence
    <3>3. RunningHasOwner'
      <4>1. 0 \notin DOMAIN rows BY <1>5
      <4>2. QED
        BY <1>0, <1>1, <1>3, <1>5, <1>6, <2>1, <2>2, <2>3, <4>1 DEF Evidence, RunningHasOwner
    <3>4. QED BY <1>1, <3>2, <3>3 DEF Evidence
  <2>10. QED BY <2>4, <2>5, <2>6, <2>7, <2>8, <2>9 DEF IInv
<1>7. CASE rows' = rows /\ Enters(0) /\ faults < MaxFaults /\ faults' = faults + 1
  <2> HIDE DEF e, n
  <2>1. /\ run' \in [Job -> Run] /\ \A k \in Job : k # j => run'[k] = run[k]
        /\ run'[j].step = "job" /\ run'[j].row = 0
        /\ run'[j].fires = run[j].fires /\ run'[j].started = run[j].started
        /\ begun' \in [Job -> SUBSET (1..Horizon)]
    BY <1>4, <1>7
  <2>2. faults' \in 0..MaxFaults /\ faults' # 0 BY <1>0, <1>7 DEF TypeOK
  <2>3. TypeOK'
    <3>1. \A k \in Job : run'[k].row \in 0..Len(rows) BY <1>5, <2>1
    <3>2. QED BY <1>0, <1>1, <1>7, <2>1, <2>2, <3>1 DEF TypeOK
  <2>4. PastInv' BY <1>0, <1>1, <1>7, <2>1 DEF PastInv, Past
  <2>5. AheadInv' BY <1>0, <1>1, <1>7, <2>1 DEF AheadInv
  <2>6. OwnInv' BY <1>0, <1>1, <1>7, <2>1 DEF OwnInv
  <2>7. OneVoice'
    <3>1. \A i \in DOMAIN rows : rows[i].job \in Job BY <1>5
    <3>2. \A d \in background : d.job \in Job BY <1>0 DEF TypeOK, Row
    <3>3. \A k \in Job : run'[k].row = run[k].row /\ run'[k].fires = run[k].fires
      BY <1>3, <2>1
    <3>4. SpokenForOnce' BY <1>0, <1>7 DEF OneVoice, SpokenForOnce
    <3>5. \A i \in DOMAIN rows' :
            run'[rows'[i].job].row # i => rows'[i].fires \cap run'[rows'[i].job].fires = {}
      <4>1. \A i \in DOMAIN rows :
              run[rows[i].job].row # i => rows[i].fires \cap run[rows[i].job].fires = {}
        BY <1>0 DEF OneVoice
      <4>2. \A i \in DOMAIN rows : /\ run'[rows[i].job].row = run[rows[i].job].row
                                   /\ run'[rows[i].job].fires = run[rows[i].job].fires
        BY <3>1, <3>3
      <4>3. rows' = rows BY <1>7
      <4>4. QED BY <4>1, <4>2, <4>3
    <3>6. \A d \in background' : d.fires \cap run'[d.job].fires = {}
      BY <1>0, <1>1, <3>2, <3>3 DEF OneVoice
    <3>7. \A d \in background' :
            /\ \A i \in DOMAIN rows' : rows'[i].job = d.job => rows'[i].fires \cap d.fires = {}
            /\ \A c \in background' : c # d /\ c.job = d.job => c.fires \cap d.fires = {}
      BY <1>0, <1>1, <1>7 DEF OneVoice
    <3>8. QED BY <3>4, <3>5, <3>6, <3>7 DEF OneVoice
  <2>8. Evidence' BY <2>2, <1>1 DEF Evidence, RunLeavesEvidence, RunningHasOwner
  <2>9. QED BY <2>3, <2>4, <2>5, <2>6, <2>7, <2>8 DEF IInv
<1>8. QED BY <1>2, <1>6, <1>7

LEMMA Ending ==
  ASSUME IInv, NEW j \in Job, FunctionEnds(j)
  PROVE  IInv'
<1>0. TypeOK /\ PastInv /\ AheadInv /\ OwnInv /\ OneVoice /\ Evidence BY DEF IInv
<1>1. /\ phase' = phase /\ todo' = todo /\ next' = next /\ now' = now /\ asOf' = asOf
      /\ starts' = starts /\ background' = background /\ rows' = rows /\ begun' = begun
      /\ faults' = faults /\ run[j].step = "job"
  BY DEF FunctionEnds, At, process
<1>2. run[j] \in Run /\ run \in [Job -> Run] BY <1>0 DEF TypeOK
<1>3. /\ run' \in [Job -> Run] /\ \A k \in Job : k # j => run'[k] = run[k]
      /\ run'[j].step = "recording" /\ run'[j].outcome # "none" /\ run'[j].row = run[j].row
      /\ run'[j].fires = run[j].fires /\ run'[j].started = run[j].started
  <2>1. PICK o \in {"ended", "cancelled"} :
          run' = [run EXCEPT ![j].step = "recording", ![j].outcome = o]
    <3>1. CASE phase = "draining" BY <3>1 DEF FunctionEnds
    <3>2. CASE phase # "draining" BY <3>2 DEF FunctionEnds
    <3>3. QED BY <3>1, <3>2
  <2>2. run'[j] = [run[j] EXCEPT !.step = "recording", !.outcome = o] BY <1>2, <2>1
  <2>3. /\ run'[j] \in Run /\ run'[j].step = "recording" /\ run'[j].outcome # "none"
        /\ run'[j].row = run[j].row /\ run'[j].fires = run[j].fires
        /\ run'[j].started = run[j].started
    BY <1>2, <2>2 DEF Run
  <2>4. run' = [run EXCEPT ![j] = run'[j]] BY <1>2, <2>1
  <2>5. QED BY <1>2, <2>3, <2>4
<1>4. /\ \A i \in DOMAIN rows : rows[i].job \in Job
      /\ \A d \in background : d.job \in Job
      /\ \A k \in Job : run'[k].row = run[k].row /\ run'[k].fires = run[k].fires
                        /\ run'[k].started = run[k].started
  BY <1>0, <1>3, RowsType DEF TypeOK, Row
<1>5. TypeOK' BY <1>0, <1>1, <1>3, <1>4 DEF TypeOK
<1>6. PastInv' /\ AheadInv' BY <1>0, <1>1, <1>4 DEF PastInv, Past, AheadInv
<1>7. OwnInv'
  <2>1. phase \in {"open", "draining"} BY <1>0, <1>1, IdleType DEF OwnInv
  <2>2. QED BY <1>0, <1>1, <1>3, <1>4, <2>1 DEF OwnInv
<1>8. OneVoice' BY <1>0, <1>1, <1>4 DEF OneVoice, SpokenForOnce
<1>9. Evidence'
  BY <1>0, <1>1, <1>4 DEF Evidence, RunLeavesEvidence, RunningHasOwner, RowsOf
<1>10. QED BY <1>5, <1>6, <1>7, <1>8, <1>9 DEF IInv

\* A run is over: it had a row, or one was appended for it, or neither.
LEMMA RunGone ==
  ASSUME IInv, NEW j \in Job, run[j].step # "idle",
         run' = [run EXCEPT ![j] = Idle],
         UNCHANGED <<now, process, next, background, begun>>,
         faults' \in 0..MaxFaults, faults' = 0 => faults = 0,
         NEW s \in {"running", "ended", "cancelled"},
         \/ rows' = rows
         \/ run[j].row = 0 /\ rows' = Append(rows, Entry(j, s, run[j].started, run[j].fires))
         \/ run[j].row # 0 /\ rows' = [rows EXCEPT ![run[j].row].status = s]
  PROVE  /\ TypeOK' /\ PastInv' /\ AheadInv' /\ OwnInv' /\ OneVoice' /\ RunLeavesEvidence'
         /\ phase \in {"open", "draining"}
<1>0. TypeOK /\ PastInv /\ AheadInv /\ OwnInv /\ OneVoice /\ Evidence BY DEF IInv
<1>1. /\ phase' = phase /\ todo' = todo /\ next' = next /\ now' = now /\ asOf' = asOf
      /\ starts' = starts /\ background' = background /\ begun' = begun
  BY DEF process
<1>2. phase \in {"open", "draining"} BY <1>0, IdleType DEF OwnInv
<1>3. /\ run' \in [Job -> Run] /\ run'[j] = Idle /\ \A k \in Job : k # j => run'[k] = run[k]
  BY <1>0, IdleType DEF TypeOK
<1>4. /\ Len(rows) \in Nat /\ DOMAIN rows = 1..Len(rows)
      /\ \A i \in DOMAIN rows : rows[i].job \in Job
      /\ \A k \in Job : run[k].row \in 0..Len(rows)
      /\ \A d \in background : d.job \in Job
      /\ s \in Status /\ run[j].fires \in SUBSET (1..Horizon) /\ run[j].started \in 0..Horizon
  BY <1>0, RowsType, RunType DEF TypeOK, Row, Status
\* The part of the invariant about the rows, for each way they may have changed.
<1>5. ASSUME rows' \in Seq(Row), Len(rows) <= Len(rows'), Len(rows') \in Nat,
             PastInv', AheadInv', OneVoice', RunLeavesEvidence',
             \A k \in Job : k # j /\ run[k].row # 0 => rows'[run[k].row] = rows[run[k].row]
      PROVE  TypeOK' /\ OwnInv'
  <2>1. \A k \in Job : run'[k].row \in 0..Len(rows') BY <1>3, <1>4, <1>5, IdleType
  <2>2. TypeOK' BY <1>0, <1>1, <1>3, <1>5, <2>1 DEF TypeOK
  <2>3. OwnInv' BY <1>0, <1>1, <1>2, <1>3, <1>5, IdleType DEF OwnInv
  <2>4. QED BY <2>2, <2>3
<1>6. \A i \in DOMAIN rows : rows[i].fires \cap run'[rows[i].job].fires = {}
                             \/ run'[rows[i].job].row = i
  <2>1. ASSUME NEW i \in DOMAIN rows, rows[i].job = j
        PROVE  rows[i].fires \cap run'[rows[i].job].fires = {}
    BY <1>3, <2>1, IdleType
  <2>2. ASSUME NEW i \in DOMAIN rows, rows[i].job # j, run'[rows[i].job].row # i
        PROVE  rows[i].fires \cap run'[rows[i].job].fires = {}
    <3>1. run'[rows[i].job] = run[rows[i].job] BY <1>3, <1>4, <2>2
    <3>2. QED BY <1>0, <2>2, <3>1 DEF OneVoice
  <2>3. QED BY <2>1, <2>2
<1>7. \A d \in background : d.fires \cap run'[d.job].fires = {}
  <2>1. ASSUME NEW d \in background, d.job = j
        PROVE  d.fires \cap run'[d.job].fires = {}
    BY <1>3, <2>1, IdleType
  <2>2. ASSUME NEW d \in background, d.job # j
        PROVE  d.fires \cap run'[d.job].fires = {}
    BY <1>0, <1>3, <1>4, <2>2 DEF OneVoice
  <2>3. QED BY <2>1, <2>2
<1>8. \A k \in Job : run'[k].fires \subseteq run[k].fires BY <1>3, IdleType
<1>9. \A k \in Job : Past(run[k].started, run[k].fires)
                      => Past(run'[k].started, run'[k].fires)
  <2>1. now \in Nat BY <1>0 DEF TypeOK
  <2>2. QED BY <1>3, <2>1, IdleType DEF Past
<1>10. CASE rows' = rows
  <2>1. PastInv' BY <1>0, <1>1, <1>9, <1>10 DEF PastInv, Past
  <2>2. AheadInv' BY <1>0, <1>1, <1>8, <1>10 DEF AheadInv
  <2>3. OneVoice' BY <1>0, <1>1, <1>6, <1>7, <1>10 DEF OneVoice, SpokenForOnce
  <2>4. RunLeavesEvidence'
    BY <1>0, <1>1, <1>10 DEF Evidence, RunLeavesEvidence, RowsOf
  <2>5. rows' \in Seq(Row) /\ Len(rows) <= Len(rows') /\ Len(rows') \in Nat
    BY <1>0, <1>4, <1>10 DEF TypeOK
  <2>6. QED BY <1>2, <1>5, <1>10, <2>1, <2>2, <2>3, <2>4, <2>5
<1>11. CASE /\ run[j].row = 0
            /\ rows' = Append(rows, Entry(j, s, run[j].started, run[j].fires))
  <2> DEFINE e == Entry(j, s, run[j].started, run[j].fires)
             n == Len(rows) + 1
  <2>1. /\ e \in Row /\ e.job = j /\ e.status = s /\ e.started = run[j].started
        /\ e.fires = run[j].fires
    BY <1>4, EntryType
  <2>2. rows' = Append(rows, e) BY <1>11
  <2> HIDE DEF e
  <2>3. /\ rows' \in Seq(Row) /\ Len(rows') = n /\ DOMAIN rows' = DOMAIN rows \cup {n}
        /\ n \notin DOMAIN rows /\ \A i \in DOMAIN rows : rows'[i] = rows[i]
        /\ rows'[n] = e
    BY <1>0, <2>1, <2>2, AppendRow
  <2>4. n \in Nat /\ Len(rows) <= n /\ 0 \notin DOMAIN rows BY <1>4
  <2> HIDE DEF n
  <2>5. PastInv'
    <3>1. Past(e.started, e.fires) BY <1>0, <2>1 DEF PastInv
    <3>2. \A i \in DOMAIN rows' : Past(rows'[i].started, rows'[i].fires)
      BY <1>0, <2>3, <3>1 DEF PastInv
    <3>3. QED BY <1>0, <1>1, <1>9, <3>2 DEF PastInv, Past
  <2>6. AheadInv' BY <1>0, <1>1, <1>8, <2>1, <2>3 DEF AheadInv
  <2>7. OneVoice'
    <3>1. \A i \in DOMAIN rows : rows[i].job = j => rows[i].fires \cap e.fires = {}
      BY <1>0, <1>11, <2>1, <2>4 DEF OneVoice
    <3>2. SpokenForOnce' BY SMTT(20), <1>0, <2>1, <2>3, <3>1 DEF OneVoice, SpokenForOnce
    <3>3. \A i \in DOMAIN rows' :
            run'[rows'[i].job].row # i => rows'[i].fires \cap run'[rows'[i].job].fires = {}
      <4>1. rows'[n].fires \cap run'[rows'[n].job].fires = {}
        BY <1>3, <2>1, <2>3, IdleType
      <4>2. QED BY <1>6, <2>3, <4>1
    <3>4. \A d \in background : \A i \in DOMAIN rows' :
            rows'[i].job = d.job => rows'[i].fires \cap d.fires = {}
      BY SMTT(20), <1>0, <2>1, <2>3 DEF OneVoice
    <3>5. QED BY <1>0, <1>1, <1>7, <3>2, <3>3, <3>4 DEF OneVoice
  <2>8. RunLeavesEvidence'
    <3>1. ASSUME faults = 0, NEW k \in Job, NEW f \in begun[k]
          PROVE  \E i \in RowsOf(k)' : f \in rows'[i].fires
                                       /\ rows'[i].status \notin {"skipped", "misfired"}
      <4>1. PICK i \in DOMAIN rows : rows[i].job = k /\ f \in rows[i].fires
                                     /\ rows[i].status \notin {"skipped", "misfired"}
        BY <1>0, <3>1 DEF Evidence, RunLeavesEvidence, RowsOf
      <4>2. QED BY <2>3, <4>1 DEF RowsOf
    <3>2. QED BY <1>1, <3>1 DEF RunLeavesEvidence
  <2>9. \A k \in Job : k # j /\ run[k].row # 0 => rows'[run[k].row] = rows[run[k].row]
    BY <1>4, <2>3
  <2>10. QED BY <1>2, <1>5, <2>3, <2>4, <2>5, <2>6, <2>7, <2>8, <2>9
<1>12. CASE run[j].row # 0 /\ rows' = [rows EXCEPT ![run[j].row].status = s]
  <2> DEFINE r == run[j].row
  <2>1. r \in DOMAIN rows
    <3>1. r \in 0..Len(rows) /\ r # 0 /\ Len(rows) \in Nat BY <1>4, <1>12
    <3> HIDE DEF r
    <3>2. r \in 1..Len(rows) BY <3>1
    <3>3. QED BY <1>4, <3>2
  <2>2. rows' = [rows EXCEPT ![r].status = s] BY <1>12
  <2>3. rows[r].job = j BY <1>0, <1>12 DEF OwnInv
  <2> HIDE DEF r
  <2>4. /\ rows' \in Seq(Row) /\ Len(rows') = Len(rows) /\ DOMAIN rows' = DOMAIN rows
        /\ RowsKept
        /\ \A i \in DOMAIN rows : i # r => rows'[i] = rows[i]
        /\ rows'[r].status = s
    BY <1>0, <1>4, <2>1, <2>2, FinishRow
  <2>5. PastInv'
    <3>1. \A i \in DOMAIN rows' : Past(rows'[i].started, rows'[i].fires)
      BY <1>0, <2>4 DEF PastInv, RowsKept
    <3>2. QED BY <1>0, <1>1, <1>9, <3>1 DEF PastInv, Past
  <2>6. AheadInv' BY <1>0, <1>1, <1>8, <2>4 DEF AheadInv, RowsKept
  <2>7. OneVoice'
    <3>1. SpokenForOnce'
      <4>1. SpokenForOnce BY <1>0 DEF OneVoice
      <4>2. ASSUME NEW i \in DOMAIN rows, NEW k \in DOMAIN rows, i # k,
                   rows'[i].job = rows'[k].job
            PROVE  rows'[i].fires \cap rows'[k].fires = {}
        <5>1. rows[i].fires \cap rows[k].fires = {}
          BY <2>4, <4>1, <4>2 DEF SpokenForOnce, RowsKept
        <5>2. QED BY <2>4, <5>1 DEF RowsKept
      <4>3. QED BY <2>4, <4>2 DEF SpokenForOnce
    <3>2. \A i \in DOMAIN rows' :
            run'[rows'[i].job].row # i => rows'[i].fires \cap run'[rows'[i].job].fires = {}
      BY <1>6, <2>4 DEF RowsKept
    <3>3. \A d \in background : \A i \in DOMAIN rows' :
            rows'[i].job = d.job => rows'[i].fires \cap d.fires = {}
      BY ZenonT(30), <1>0, <2>4 DEF OneVoice, RowsKept
    <3>4. QED BY <1>0, <1>1, <1>7, <3>1, <3>2, <3>3 DEF OneVoice
  <2>8. RunLeavesEvidence'
    <3>1. ASSUME faults = 0, NEW k \in Job, NEW f \in begun[k]
          PROVE  \E i \in RowsOf(k)' : f \in rows'[i].fires
                                       /\ rows'[i].status \notin {"skipped", "misfired"}
      <4>1. PICK i \in DOMAIN rows : rows[i].job = k /\ f \in rows[i].fires
                                     /\ rows[i].status \notin {"skipped", "misfired"}
        BY <1>0, <3>1 DEF Evidence, RunLeavesEvidence, RowsOf
      <4>2. rows'[i].status \notin {"skipped", "misfired"} BY <2>4, <4>1
      <4>3. QED BY <2>4, <4>1, <4>2 DEF RowsOf, RowsKept
    <3>2. QED BY <1>1, <3>1 DEF RunLeavesEvidence
  <2>9. \A k \in Job : k # j /\ run[k].row # 0 => rows'[run[k].row] = rows[run[k].row]
    <3>1. ASSUME NEW k \in Job, k # j, run[k].row # 0 PROVE rows'[run[k].row] = rows[run[k].row]
      <4>1. rows[run[k].row].job = k /\ run[k].row \in DOMAIN rows
        BY <1>0, <1>4, <3>1 DEF OwnInv
      <4>2. QED BY <2>3, <2>4, <3>1, <4>1
    <3>2. QED BY <3>1
  <2>10. Len(rows) <= Len(rows') /\ Len(rows') \in Nat
    <3>1. Len(rows) \in Nat BY <1>4
    <3>2. Len(rows') = Len(rows) BY <2>4
    <3>3. QED BY <3>1, <3>2
  <2>11. QED BY <1>2, <1>5, <2>4, <2>5, <2>6, <2>7, <2>8, <2>9, <2>10
<1>13. QED BY <1>10, <1>11, <1>12

LEMMA Recording ==
  ASSUME IInv, NEW j \in Job, Record(j)
  PROVE  IInv'
<1>0. TypeOK /\ PastInv /\ AheadInv /\ OwnInv /\ OneVoice /\ Evidence BY DEF IInv
<1>1. /\ run[j].step = "recording" /\ run' = [run EXCEPT ![j] = Idle]
      /\ UNCHANGED <<now, process, next, background, begun>>
      /\ faults' \in 0..MaxFaults /\ (faults' = 0 => faults = 0)
  BY <1>0 DEF Record, At, Fault, TypeOK
<1>2. run[j].outcome \in {"running", "ended", "cancelled"} /\ run[j].outcome # "running"
  BY <1>0, <1>1, RunType DEF OwnInv
<1>3. \/ rows' = rows /\ faults' = faults + 1
      \/ run[j].row = 0
         /\ rows' = Append(rows, Entry(j, run[j].outcome, run[j].started, run[j].fires))
      \/ run[j].row # 0 /\ rows' = [rows EXCEPT ![run[j].row].status = run[j].outcome]
  BY DEF Record, Written, Fault
<1>4. /\ TypeOK' /\ PastInv' /\ AheadInv' /\ OwnInv' /\ OneVoice' /\ RunLeavesEvidence'
      /\ phase \in {"open", "draining"}
  BY <1>1, <1>2, <1>3, RunGone
<1>5. RunningHasOwner'
  <2>1. SUFFICES ASSUME phase = "open", faults = 0, faults' = 0,
                        NEW i \in DOMAIN rows', rows'[i].status = "running"
                 PROVE  run'[rows'[i].job].row = i
    BY <1>1 DEF RunningHasOwner, process
  <2>2. /\ \A k \in DOMAIN rows : rows[k].status = "running" => run[rows[k].job].row = k
        /\ \A k \in DOMAIN rows : rows[k].job \in Job
        /\ DOMAIN rows = 1..Len(rows) /\ Len(rows) \in Nat
        /\ run[j].row \in 0..Len(rows)
        /\ \A k \in Job : k # j => run'[k] = run[k]
    BY <1>0, <1>1, <2>1, RowsType, RunType DEF Evidence, RunningHasOwner, Row, TypeOK
  <2>3. ~(rows' = rows /\ faults' = faults + 1) BY <2>1
  <2>4. CASE /\ run[j].row = 0
             /\ rows' = Append(rows, Entry(j, run[j].outcome, run[j].started, run[j].fires))
    <3> DEFINE e == Entry(j, run[j].outcome, run[j].started, run[j].fires)
    <3>1. e \in Row /\ e.status = run[j].outcome
      BY <1>0, <1>2, EntryType, RunType DEF Status
    <3>2. rows' = Append(rows, e) BY <2>4
    <3> HIDE DEF e
    <3>3. /\ DOMAIN rows' = DOMAIN rows \cup {Len(rows) + 1}
          /\ \A k \in DOMAIN rows : rows'[k] = rows[k]
          /\ rows'[Len(rows) + 1] = e
      BY <1>0, <3>1, <3>2, AppendRow
    <3>4. i \in DOMAIN rows /\ rows'[i] = rows[i] BY <1>2, <2>1, <3>1, <3>3
    <3>5. rows[i].job # j /\ run[rows[i].job].row = i BY <2>1, <2>2, <2>4, <3>4
    <3>6. QED BY <2>2, <3>4, <3>5
  <2>5. CASE run[j].row # 0 /\ rows' = [rows EXCEPT ![run[j].row].status = run[j].outcome]
    <3> DEFINE r == run[j].row
               o == run[j].outcome
    <3>1. r \in DOMAIN rows
      <4>1. r \in 0..Len(rows) /\ r # 0 /\ Len(rows) \in Nat BY <2>2, <2>5
      <4> HIDE DEF r
      <4>2. r \in 1..Len(rows) BY <4>1
      <4>3. QED BY <2>2, <4>2
    <3>2. rows' = [rows EXCEPT ![r].status = o] BY <2>5
    <3>3. o \in Status /\ o # "running" BY <1>2 DEF Status
    <3> HIDE DEF o
    <3>4. /\ DOMAIN rows' = DOMAIN rows
          /\ \A k \in DOMAIN rows : k # r => rows'[k] = rows[k]
          /\ rows'[r].status = o
      BY ZenonT(30), <1>0, <3>1, <3>2, <3>3, FinishRow
    <3>5. i \in DOMAIN rows /\ i # r /\ rows'[i] = rows[i] BY <2>1, <3>3, <3>4
    <3>6. rows[i].job # j /\ run[rows[i].job].row = i BY <2>1, <2>2, <3>5
    <3>7. QED BY <2>2, <3>5, <3>6
  <2>6. QED BY <1>3, <2>3, <2>4, <2>5
<1>6. Evidence' BY <1>1, <1>4, <1>5 DEF Evidence, process
<1>7. QED BY <1>4, <1>6 DEF IInv

LEMMA Cutting ==
  ASSUME IInv, NEW j \in Job, CutShort(j)
  PROVE  IInv'
<1>0. TypeOK /\ PastInv /\ AheadInv /\ OwnInv /\ OneVoice /\ Evidence BY DEF IInv
<1>1. /\ phase = "draining" /\ run' = [run EXCEPT ![j] = Idle]
      /\ UNCHANGED <<now, process, next, background, begun>> /\ faults' = faults
      /\ run[j].step \in {"begin", "recording"}
  BY DEF CutShort, At
<1>2. faults' \in 0..MaxFaults BY <1>0, <1>1 DEF TypeOK
<1>3. PICK s \in {"running", "ended", "cancelled"} :
        \/ rows' = rows
        \/ run[j].row = 0 /\ rows' = Append(rows, Entry(j, s, run[j].started, run[j].fires))
        \/ run[j].row # 0 /\ rows' = [rows EXCEPT ![run[j].row].status = s]
  <2>1. CASE run[j].step = "begin"
    <3>1. run[j].row = 0 BY <1>0, <2>1 DEF OwnInv
    <3>2. rows' \in {rows, Append(rows, Entry(j, "running", run[j].started, run[j].fires))}
      BY <2>1 DEF CutShort, At
    <3>3. QED BY <3>1, <3>2
  <2>2. CASE run[j].step = "recording"
    <3>1. run[j].outcome \in {"running", "ended", "cancelled"}
      BY <1>0, <2>2, RunType DEF OwnInv
    <3>2. rows' \in {rows, Written(j)} BY <2>2 DEF CutShort, At
    <3>3. QED BY <3>1, <3>2 DEF Written
  <2>3. QED BY <1>1, <2>1, <2>2
<1>4. TypeOK' /\ PastInv' /\ AheadInv' /\ OwnInv' /\ OneVoice' /\ RunLeavesEvidence'
  BY <1>1, <1>2, <1>3, RunGone
<1>5. Evidence' BY <1>1, <1>4 DEF Evidence, RunningHasOwner, process
<1>6. QED BY <1>4, <1>5 DEF IInv

--------------------------------------------------------------------------------
(* Every step, and the theorems. *)

LEMMA NextStep == IInv /\ [Next]_vars => IInv'
<1> SUFFICES ASSUME IInv, [Next]_vars PROVE IInv' OBVIOUS
<1>1. CASE Tick \/ Start \/ TakeStock \/ ReconcileFails \/ Shutdown \/ UNCHANGED vars
  <2>1. UNCHANGED <<rows, run, background, begun>>
    BY <1>1 DEF Tick, Start, TakeStock, ReconcileFails, Shutdown, vars
  <2>2. QED BY <1>1, <2>1, QuietStep
<1>2. CASE MarkInterrupted BY <1>2, Marking
<1>3. CASE Open BY <1>3, Opening
<1>4. CASE \E j \in Job : RecordMissed(j) BY <1>4, AccountingForMissed
<1>5. CASE \E j \in Job : WakeUp(j) BY <1>5, Waking
<1>6. CASE \E j \in Job : Begin(j) BY <1>6, Beginning
<1>7. CASE \E j \in Job : FunctionEnds(j) BY <1>7, Ending
<1>8. CASE \E j \in Job : Record(j) BY <1>8, Recording
<1>9. CASE \E j \in Job : CutShort(j) BY <1>9, Cutting
<1>10. CASE \E e \in background : RecordBackground(e) BY <1>10, WritingInBackground
<1>11. CASE Drained \/ Dies BY <1>11, GoingDown
<1>12. QED
  BY <1>1, <1>2, <1>3, <1>4, <1>5, <1>6, <1>7, <1>8, <1>9, <1>10, <1>11
  DEF Next, StartStep, JobStep

LEMMA OutcomeKept ==
  ASSUME IInv, [Next]_vars, NEW i \in DOMAIN rows, rows[i].status # "running"
  PROVE  rows'[i] = rows[i]
<1>0. TypeOK /\ OwnInv BY DEF IInv
<1>1. ASSUME NEW e \in Row, rows' = Append(rows, e) PROVE rows'[i] = rows[i]
  BY <1>0, <1>1, AppendRow
<1>2. \A j \in Job : \A s \in Status : \A F \in SUBSET (1..Horizon) : \A t \in 0..Horizon :
        Entry(j, s, t, F) \in Row
  BY EntryType
<1>3. ASSUME NEW j \in Job, run[j].step = "recording", rows' = Written(j)
      PROVE  rows'[i] = rows[i]
  <2>1. run[j].outcome \in Status BY <1>0, <1>3, RunType DEF OwnInv, Status
  <2>2. CASE run[j].row = 0
    <3>1. Entry(j, run[j].outcome, run[j].started, run[j].fires) \in Row
      BY <1>0, <1>2, <2>1, RunType
    <3>2. QED BY <1>1, <1>3, <2>2, <3>1 DEF Written
  <2>3. CASE run[j].row # 0
    <3>1. rows[run[j].row].status = "running" BY <1>0, <2>3 DEF OwnInv
    <3>2. run[j].row # i BY <3>1
    <3>3. rows' = [rows EXCEPT ![run[j].row].status = run[j].outcome] BY <1>3, <2>3 DEF Written
    <3>4. QED BY <3>2, <3>3
  <2>4. QED BY <2>2, <2>3
<1>4. ASSUME NEW j \in Job, RecordMissed(j) PROVE rows'[i] = rows[i]
  <2>1. Entry(j, "misfired", asOf, Missed(j, asOf)) \in Row
    BY <1>0, <1>2, MissedIsLater DEF TypeOK, Status
  <2>2. QED BY <1>1, <1>4, <2>1 DEF RecordMissed
<1>5. ASSUME NEW j \in Job, Begin(j) \/ CutShort(j), ~(run[j].step = "recording")
      PROVE  rows'[i] = rows[i]
  <2>1. Entry(j, "running", run[j].started, run[j].fires) \in Row
    BY <1>0, <1>2, RunType DEF Status
  <2>2. rows' = rows \/ rows' = Append(rows, Entry(j, "running", run[j].started, run[j].fires))
    BY <1>5 DEF Begin, CutShort, At
  <2>3. QED BY <1>1, <2>1, <2>2
<1>6. ASSUME NEW j \in Job, Record(j) \/ CutShort(j), run[j].step = "recording"
      PROVE  rows'[i] = rows[i]
  <2>1. rows' = rows \/ rows' = Written(j) BY <1>6 DEF Record, CutShort, At
  <2>2. QED BY <1>3, <1>6, <2>1
<1>7. ASSUME NEW e \in background, RecordBackground(e) PROVE rows'[i] = rows[i]
  BY <1>0, <1>1, <1>7 DEF RecordBackground, TypeOK
<1>8. ASSUME MarkInterrupted PROVE rows'[i] = rows[i] BY <1>8 DEF MarkInterrupted
<1>9. CASE \/ Tick \/ Start \/ TakeStock \/ Open \/ ReconcileFails \/ Shutdown \/ Drained
           \/ Dies \/ UNCHANGED vars \/ \E j \in Job : WakeUp(j) \/ FunctionEnds(j)
  BY <1>9 DEF Tick, Start, TakeStock, Open, ReconcileFails, Shutdown, Drained, Dies, vars,
              WakeUp, FunctionEnds
<1>10. \A j \in Job : /\ Record(j) => run[j].step = "recording"
                      /\ Begin(j) => ~(run[j].step = "recording")
  BY DEF Record, Begin, At
<1>11. QED
  BY <1>4, <1>5, <1>6, <1>7, <1>8, <1>9, <1>10 DEF Next, StartStep, JobStep

\* The inductive invariant holds of every behaviour of the scheduler.
THEOREM Invariance == Spec => []IInv
  BY InitIInv, NextStep, PTL DEF Spec

\* The state of scheduler.py stays well formed: a run names a row that exists.
THEOREM TypeCorrect == Spec => []TypeOK
<1>1. IInv => TypeOK BY DEF IInv
<1>2. QED BY <1>1, Invariance, PTL

\* No fire of a cron job is reported by two rows of job_runs.
THEOREM OneRowPerFire == Spec => []SpokenForOnce
<1>1. IInv => SpokenForOnce BY DEF IInv, OneVoice
<1>2. QED BY <1>1, Invariance, PTL

\* With a database that takes writes, no execution of a job function goes
\* unrecorded, whatever happens to the process.
THEOREM ExecutionsLeaveRows == Spec => []RunLeavesEvidence
<1>1. IInv => RunLeavesEvidence BY DEF IInv, Evidence
<1>2. QED BY <1>1, Invariance, PTL

\* With a database that takes writes, what job_runs shows as running while the
\* scheduler is up is being run by it.
THEOREM RunningIsOwned == Spec => []RunningHasOwner
<1>1. IInv => RunningHasOwner BY DEF IInv, Evidence
<1>2. QED BY <1>1, Invariance, PTL

\* The outcome recorded for a run is never rewritten, neither by a startup nor by
\* another run.
THEOREM OutcomesAreFinal == Spec => OutcomeFinal
<1>1. IInv /\ [Next]_vars
        => [\A i \in DOMAIN rows : rows[i].status # "running" => rows'[i] = rows[i]]_vars
  BY OutcomeKept
<1>2. QED BY <1>1, Invariance, PTL DEF Spec, OutcomeFinal
================================================================================
