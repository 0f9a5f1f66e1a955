------------------------------ MODULE JobScheduler ------------------------------
(***************************************************************************)
(* The job_runs history that dudamel/scheduler.py keeps of its cron jobs:  *)
(* what fires, what is skipped or missed, what a dead process leaves and   *)
(* what the next start makes of it.                                        *)
(*                                                                         *)
(* now is a tick of the clock; a job is due at some ticks, and a step taken *)
(* while now = t happens after what was due at t.  A fire is named by its  *)
(* tick.  Each row keeps, besides what the table stores, the fires it is   *)
(* the record of.                                                          *)
(***************************************************************************)
EXTENDS Naturals, Sequences, FiniteSets, FiniteSetsExt

CONSTANTS
  Job,         \* ids of the registered cron jobs
  Due,         \* the ticks at which each is due
  Grace,       \* misfire_grace_time
  Horizon,     \* bound: the last tick
  MaxStarts,   \* bound: starts of the process
  MaxFaults    \* bound: database errors

ASSUME SchedulerAssumptions ==
  /\ Due \in [Job -> SUBSET (1..Horizon)]
  /\ {Grace, Horizon, MaxStarts, MaxFaults} \subseteq Nat

VARIABLES
  now,
  phase,       \* what the process is doing
  starts,      \* times it was started
  asOf, todo,  \* startup: the instant it accounts up to, and for which jobs still
  next,        \* the fire APScheduler waits for
  rows,        \* job_runs; the id of a row is its position
  run,         \* the execution in flight of each job
  background,  \* _background_tasks: rows to be written without a run
  begun,       \* history: the fires whose job function was entered
  faults       \* database errors so far

process == <<phase, starts, asOf, todo>>
vars == <<now, phase, starts, asOf, todo, next, rows, run, background, begun, faults>>

Never == Horizon + 1
\* A run "ended" when its function returned, raised or timed out.
Status == {"running", "ended", "cancelled", "interrupted", "skipped", "misfired"}
Row == [job : Job, status : Status, started : 0..Horizon, fires : SUBSET (1..Horizon)]
Run == [step : {"idle", "begin", "job", "recording"}, row : Nat, fires : SUBSET (1..Horizon),
        started : 0..Horizon, outcome : {"none", "ended", "cancelled"}]
Idle == [step |-> "idle", row |-> 0, fires |-> {}, started |-> 0, outcome |-> "none"]

Init ==
  /\ now = 0 /\ phase = "down" /\ starts = 0 /\ asOf = 0 /\ todo = {}
  /\ next = [j \in Job |-> Never]
  /\ rows = <<>> /\ run = [j \in Job |-> Idle] /\ background = {}
  /\ begun = [j \in Job |-> {}] /\ faults = 0

Tick ==
  /\ now < Horizon /\ now' = now + 1
  /\ UNCHANGED <<process, next, rows, run, background, begun, faults>>

\* SQLite refuses a write: locked for longer than busy_timeout, or disposed.
Fault == faults < MaxFaults /\ faults' = faults + 1

NextAfter(j, t) == Min({f \in Due[j] : f > t} \cup {Never})
RowsOf(j) == {i \in DOMAIN rows : rows[i].job = j}
Entry(j, status, started, fires) ==
  [job |-> j, status |-> status, started |-> started, fires |-> fires]

(***************************************************************************)
(* start(): make the history honest, then let the scheduler run.           *)
(***************************************************************************)
Start ==
  /\ phase = "down" /\ starts < MaxStarts
  /\ phase' = "starting" /\ starts' = starts + 1
  /\ UNCHANGED <<now, asOf, todo, next, rows, run, background, begun, faults>>

\* Slip: one row is looked for.
MarkInterrupted_OneRow ==
  /\ phase = "starting" /\ phase' = "marked"
  /\ LET left == {i \in DOMAIN rows : rows[i].status = "running"}
     IN  rows' = IF left = {} THEN rows ELSE [rows EXCEPT ![Max(left)].status = "interrupted"]
  /\ UNCHANGED <<now, starts, asOf, todo, next, run, background, begun, faults>>

MarkInterrupted ==
  /\ phase = "starting" /\ phase' = "marked"
  /\ rows' = [i \in DOMAIN rows |->
                IF rows[i].status = "running"
                THEN [rows[i] EXCEPT !.status = "interrupted"] ELSE rows[i]]
  /\ UNCHANGED <<now, starts, asOf, todo, next, run, background, begun, faults>>

\* Slip: the window is closed at both ends.
Missed_Closed(j, until) ==
  IF RowsOf(j) = {} THEN {}
  ELSE {f \in Due[j] : f >= Max({rows[i].started : i \in RowsOf(j)}) /\ f <= until}

\* The fires of j in (latest row, until]; a job without a row is new.
Missed(j, until) ==
  IF RowsOf(j) = {} THEN {}
  ELSE {f \in Due[j] : f > Max({rows[i].started : i \in RowsOf(j)}) /\ f <= until}

TakeStock ==
  /\ phase = "marked" /\ phase' = "counting"
  /\ asOf' = now /\ todo' = {j \in Job : Missed(j, now) # {}}
  /\ UNCHANGED <<now, starts, next, rows, run, background, begun, faults>>

RecordMissed(j) ==
  /\ phase = "counting" /\ j \in todo
  /\ todo' = todo \ {j}
  /\ \/ /\ rows' = Append(rows, Entry(j, "misfired", asOf, Missed(j, asOf)))
        /\ UNCHANGED faults
     \/ Fault /\ UNCHANGED rows
  /\ UNCHANGED <<now, phase, starts, asOf, next, run, background, begun>>

\* Reconciling is best-effort.
ReconcileFails ==
  /\ phase \in {"starting", "marked"} /\ Fault
  /\ phase' = "counting" /\ todo' = {}
  /\ UNCHANGED <<now, starts, asOf, next, rows, run, background, begun>>

\* The job store is in memory: every next fire is computed from now.
Open ==
  /\ phase = "counting" /\ todo = {}
  /\ phase' = "open"
  /\ next' = [j \in Job |-> NextAfter(j, now)]
  /\ UNCHANGED <<now, starts, asOf, todo, rows, run, background, begun, faults>>

(***************************************************************************)
(* APScheduler wakes for a job: coalesce, max_instances = 1, and the grace.*)
(* What stands for the latest of several fires stands for all of them.     *)
(***************************************************************************)
WakeUp(j) ==
  /\ phase = "open" /\ next[j] <= now
  /\ next' = [next EXCEPT ![j] = NextAfter(j, now)]
  /\ LET fires == {f \in Due[j] : f >= next[j] /\ f <= now}
         note(status) == /\ background' = background \cup {Entry(j, status, now, fires)}
                         /\ UNCHANGED run
     IN  IF run[j] # Idle THEN note("skipped")
         ELSE IF now - Max(fires) > Grace THEN note("misfired")
         ELSE /\ run' = [run EXCEPT ![j] = [step |-> "begin", row |-> 0, fires |-> fires,
                                            started |-> now, outcome |-> "none"]]
              /\ UNCHANGED background
  /\ UNCHANGED <<now, process, rows, begun, faults>>

RecordBackground(entry) ==
  /\ entry \in background /\ background' = background \ {entry}
  /\ \/ rows' = Append(rows, entry) /\ UNCHANGED faults
     \/ Fault /\ UNCHANGED rows
  /\ UNCHANGED <<now, process, next, run, begun>>

(***************************************************************************)
(* _run_job.                                                               *)
(***************************************************************************)
At(j, step) == run[j].step = step

\* The job function is entered.
Enter(j, id) ==
  /\ run' = [run EXCEPT ![j].step = "job", ![j].row = id]
  /\ begun' = [begun EXCEPT ![j] = @ \cup run[j].fires]

\* Slip: the running row is left to the end of the run.
Begin_NoRow(j) ==
  /\ phase = "open" /\ At(j, "begin")
  /\ Enter(j, 0) /\ UNCHANGED <<rows, faults>>
  /\ UNCHANGED <<now, process, next, background>>

\* The running row first; a job is not skipped because it could not be written.
Begin(j) ==
  /\ phase = "open" /\ At(j, "begin")
  /\ \/ /\ rows' = Append(rows, Entry(j, "running", run[j].started, run[j].fires))
        /\ Enter(j, Len(rows) + 1) /\ UNCHANGED faults
     \/ Fault /\ Enter(j, 0) /\ UNCHANGED rows
  /\ UNCHANGED <<now, process, next, background>>

\* shutdown() cancels a run that is inside its function.
FunctionEnds(j) ==
  /\ At(j, "job")
  /\ run' = [run EXCEPT ![j].step = "recording",
                        ![j].outcome = IF phase = "draining" THEN "cancelled" ELSE "ended"]
  /\ UNCHANGED <<now, process, next, rows, background, begun, faults>>

\* Slip: the outcome is a row of its own.
Written_Insert(j) ==
  Append(rows, Entry(j, run[j].outcome, run[j].started, run[j].fires))

\* Slip: the row finished is the latest of the job.
Written_Latest(j) ==
  IF run[j].row = 0
  THEN Append(rows, Entry(j, run[j].outcome, run[j].started, run[j].fires))
  ELSE [rows EXCEPT ![Max(RowsOf(j))].status = run[j].outcome]

\* Finish the running row, or insert a complete one when there is none.
Written(j) ==
  IF run[j].row = 0
  THEN Append(rows, Entry(j, run[j].outcome, run[j].started, run[j].fires))
  ELSE [rows EXCEPT ![run[j].row].status = run[j].outcome]

Record(j) ==
  /\ At(j, "recording")
  /\ phase = "open" \/ run[j].outcome = "cancelled"
  /\ run' = [run EXCEPT ![j] = Idle]
  /\ \/ rows' = Written(j) /\ UNCHANGED faults
     \/ Fault /\ UNCHANGED rows
  /\ UNCHANGED <<now, process, next, background, begun>>

(***************************************************************************)
(* Ends of the process.                                                    *)
(***************************************************************************)
Shutdown ==
  /\ phase = "open" /\ phase' = "draining"
  /\ UNCHANGED <<now, starts, asOf, todo, next, rows, run, background, begun, faults>>

\* The cancellation finds a run at one of its own writes, which was committed or
\* was not; neither is inside the handler that records a cancelled run.
CutShort(j) ==
  /\ phase = "draining"
  /\ \/ /\ At(j, "begin")
        /\ rows' \in {rows, Append(rows, Entry(j, "running", run[j].started, run[j].fires))}
     \/ /\ At(j, "recording") /\ run[j].outcome = "ended"
        /\ rows' \in {rows, Written(j)}
  /\ run' = [run EXCEPT ![j] = Idle]
  /\ UNCHANGED <<now, process, next, background, begun, faults>>

Drained ==
  /\ phase = "draining" /\ background = {} /\ \A j \in Job : run[j] = Idle
  /\ phase' = "down"
  /\ next' = [j \in Job |-> Never]
  /\ UNCHANGED <<now, starts, asOf, todo, rows, run, background, begun, faults>>

\* A crash, a kill, a power loss; or _DRAIN_TIMEOUT, after which the database goes.
Dies ==
  /\ phase # "down" /\ phase' = "down"
  /\ next' = [j \in Job |-> Never] /\ todo' = {}
  /\ run' = [j \in Job |-> Idle] /\ background' = {}
  /\ UNCHANGED <<now, starts, asOf, rows, begun, faults>>

StartStep == Start \/ MarkInterrupted \/ TakeStock \/ Open \/ \E j \in Job : RecordMissed(j)
JobStep(j) == Begin(j) \/ FunctionEnds(j) \/ Record(j) \/ CutShort(j)

Next ==
  \/ Tick \/ StartStep \/ ReconcileFails
  \/ \E j \in Job : WakeUp(j) \/ JobStep(j)
  \/ \E entry \in background : RecordBackground(entry)
  \/ Shutdown \/ Drained \/ Dies

Spec == Init /\ [][Next]_vars

\* Tasks run, job functions end (their timeout bounds them), and a process that
\* went down is started again.
FairSpec == /\ Spec
            /\ WF_vars(StartStep) /\ WF_vars(Drained)
            /\ \A j \in Job : WF_vars(JobStep(j))
            /\ WF_vars(\E entry \in background : RecordBackground(entry))

(***************************************************************************)
(* Properties.                                                             *)
(***************************************************************************)
TypeOK ==
  /\ now \in 0..Horizon /\ asOf \in 0..Horizon
  /\ phase \in {"down", "starting", "marked", "counting", "open", "draining"}
  /\ starts \in 0..MaxStarts /\ faults \in 0..MaxFaults /\ todo \subseteq Job
  /\ next \in [Job -> 1..Never]
  /\ rows \in Seq(Row)
  /\ run \in [Job -> Run] /\ \A j \in Job : run[j].row \in 0..Len(rows)
  /\ background \subseteq Row
  /\ begun \in [Job -> SUBSET (1..Horizon)]

\* No fire is reported twice: whatever ran, was skipped or was missed, across
\* crashes, half-finished startups and lost writes, one row at most is about it.
SpokenForOnce ==
  \A i, k \in DOMAIN rows :
    i # k /\ rows[i].job = rows[k].job => rows[i].fires \cap rows[k].fires = {}

\* As long as the database takes writes, a job function that was entered has left
\* a row of its own, whenever the process dies, and no start reports it missed.
RunLeavesEvidence ==
  faults = 0 =>
    \A j \in Job : \A f \in begun[j] :
      \E i \in RowsOf(j) : f \in rows[i].fires /\ rows[i].status \notin {"skipped", "misfired"}

\* While the scheduler runs, a row that says running is the row of the run in
\* flight of its job: nothing a dead process left is shown as alive.
RunningHasOwner ==
  phase = "open" /\ faults = 0 =>
    \A i \in DOMAIN rows : rows[i].status = "running" =>
      run[rows[i].job].row = i

\* An outcome is final: a startup does not turn it into interrupted, and a run
\* whose row was declared interrupted does not write to it.
OutcomeFinal ==
  [][\A i \in DOMAIN rows : rows[i].status # "running" => rows'[i] = rows[i]]_vars

\* A run that started is settled: no fire's row says running for ever.
Has(j, f, status) == \E i \in RowsOf(j) : f \in rows[i].fires /\ rows[i].status \in status
RowsSettle ==
  \A j \in Job : \A f \in Due[j] :
    [](faults = 0 /\ starts < MaxStarts)
      => (Has(j, f, {"running"}) ~> Has(j, f, {"ended", "cancelled", "interrupted"}))

(***************************************************************************)
(* Why the invariants hold: the inductive invariant of the proofs.         *)
(***************************************************************************)
\* Whoever speaks for a fire does so after it was due.
Past(started, fires) == started <= now /\ \A f \in fires : f <= started
PastInv ==
  /\ asOf <= now
  /\ \A i \in DOMAIN rows : Past(rows[i].started, rows[i].fires)
  /\ \A e \in background : Past(e.started, e.fires)
  /\ \A j \in Job : Past(run[j].started, run[j].fires)

\* What the scheduler waits for is later than whatever is spoken for.
AheadInv ==
  phase = "open" =>
    /\ \A i \in DOMAIN rows : \A f \in rows[i].fires : f < next[rows[i].job]
    /\ \A e \in background : \A f \in e.fires : f < next[e.job]
    /\ \A j \in Job : \A f \in run[j].fires : f < next[j]

\* A run owns the running row it wrote, a row written without a run tells of none,
\* and nothing is in flight of a process that is not up.
OwnInv ==
  /\ \A e \in background : e.status \in {"skipped", "misfired"}
  /\ \A j \in Job :
       /\ run[j].step = "idle" => run[j] = Idle
       /\ run[j].step = "begin" => run[j].row = 0
       /\ run[j].step = "recording" => run[j].outcome # "none"
       /\ run[j].row # 0 => rows[run[j].row].job = j /\ rows[run[j].row].status = "running"
  /\ phase \notin {"open", "draining"} => background = {} /\ \A j \in Job : run[j] = Idle

\* A fire has one speaker: a row, a run (with its row), or a write to come.
OneVoice ==
  /\ SpokenForOnce
  /\ \A i \in DOMAIN rows :
       run[rows[i].job].row # i => rows[i].fires \cap run[rows[i].job].fires = {}
  /\ \A e \in background :
       /\ e.fires \cap run[e.job].fires = {}
       /\ \A i \in DOMAIN rows : rows[i].job = e.job => rows[i].fires \cap e.fires = {}
       /\ \A d \in background : d # e /\ d.job = e.job => d.fires \cap e.fires = {}

Evidence ==
  /\ RunLeavesEvidence
  /\ RunningHasOwner
  /\ phase \in {"marked", "counting"} /\ faults = 0 =>
       \A i \in DOMAIN rows : rows[i].status # "running"

IInv == TypeOK /\ PastInv /\ AheadInv /\ OwnInv /\ OneVoice /\ Evidence

\* Documented, and violated: the window startup accounts for ends where the
\* scheduler's begins, so that every later fire of a job with a row is waited for
\* or was handled.
WindowsMeet ==
  phase = "open" =>
    \A j \in Job : \A f \in Due[j] :
      asOf < f /\ f < next[j] /\ (\E i \in RowsOf(j) : rows[i].started <= asOf)
        => \/ Has(j, f, Status) \/ f \in run[j].fires
           \/ \E entry \in background : entry.job = j /\ f \in entry.fires
================================================================================
