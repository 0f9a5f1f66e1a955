------------------------------ MODULE Migrations ------------------------------
(***************************************************************************)
(* The schema of one SQLite file: lanes of revisions applied one by one,   *)
(* the copies taken before, and the processes that do it.  A migrator is   *)
(* the gate of a starting instance or a `dudamel db migrate`; nothing but  *)
(* the file itself is shared between migrators, and a migrator can fail or *)
(* die between any two of the steps below.                                 *)
(***************************************************************************)
EXTENDS Naturals, Sequences, FiniteSets, SequencesExt

CONSTANTS
  LaneOrder,   \* the lanes in the order they are applied: core, the suite apps, the project
  Project,     \* the project's own lane, whose revisions are files of the project
  Release,     \* the installable versions of the program
  First,       \* the release that created the database
  Heads,       \* Heads[r][l]: the newest revision of lane l shipped by release r
  Defects,     \* the sets of lanes whose revisions may fail on every attempt
  Migrator,    \* the processes that may migrate
  Kept,        \* BACKUPS_KEPT
  MaxProject,  \* bound: revisions the project ever generates
  MaxEvents    \* bound: what is done to the processes, and what goes wrong in them

ASSUME MigrationsAssumption ==
  /\ Kept \in Nat \ {0}
  /\ {MaxProject, MaxEvents} \subseteq Nat
  /\ LaneOrder \in Seq(Range(LaneOrder)) /\ Project \in Range(LaneOrder)
  /\ First \in Release
  /\ Defects \subseteq SUBSET Range(LaneOrder)
  /\ \A r \in Release, l \in Range(LaneOrder) : Heads[r][l] \in Nat

VARIABLES
  recorded,     \* the revision each lane's version table records
  data,         \* how often app data was written
  backups,      \* the copies beside the file, oldest first
  projectHead,  \* the newest revision file under the project's migrations/
  broken,       \* the lanes whose revisions fail on every attempt, for this database
  mig,          \* what each migrator is doing
  events        \* how much of it there was

migrationVars == <<recorded, data, backups, projectHead, broken, mig, events>>

Lane == Range(LaneOrder)
Revisions == 0..MaxProject \cup {Heads[r][l] : r \in Release, l \in Lane}

\* A copy exists under its final name as soon as it is opened, and is torn
\* until the whole file is in it.
Copying(p) == [status |-> "copying", owner |-> p]
Torn == [status |-> "torn"]
Holding == [status |-> "done", state |-> recorded, data |-> data]

Copies ==
  {Torn} \cup {Copying(p) : p \in Migrator}
    \cup [status : {"done"}, state : [Lane -> Revisions], data : 0..MaxEvents]

Idle == [phase |-> "idle"]
Phases == {"idle", "check", "copy", "apply", "generate", "done", "failed"}

\* The head of every lane for a process that imported release r.
HeadsFor(r) == [l \in Lane |-> IF l = Project THEN projectHead ELSE Heads[r][l]]

\* Compared for inequality: a database ahead of the scripts is pending as well.
Pending(r) == recorded # HeadsFor(r)

NewestIsCurrent ==
  /\ backups # <<>>
  /\ Last(backups).status = "done"
  /\ Last(backups).state = recorded

PruneBackups(copies) ==
  IF Len(copies) > Kept THEN SubSeq(copies, Len(copies) - Kept + 1, Len(copies)) ELSE copies

\* What becomes of the copy p is taking.
Turned(copies, p, into) ==
  [i \in DOMAIN copies |-> IF copies[i] = Copying(p) THEN into ELSE copies[i]]

MigrationsInit ==
  /\ recorded = [l \in Lane |-> IF l = Project THEN 0 ELSE Heads[First][l]]
  /\ data = 0
  /\ backups = <<>>
  /\ projectHead = 0
  /\ broken \in Defects
  /\ mig = [p \in Migrator |-> Idle]
  /\ events = 0

-----------------------------------------------------------------------------
(* One pass of upgrade_database.  first: the pass that may take the copy of  *)
(* the run; taken: whether the run has one.                                  *)

At(p, phase) == mig[p].phase = phase
Goto(p, phase) == mig' = [mig EXCEPT ![p] = [@ EXCEPT !.phase = phase]]

\* The gate awaits the outcome in another thread; a command ends with it.
Return(p, outcome) ==
  mig' = [mig EXCEPT ![p] = IF @.pass = "gate" THEN [phase |-> outcome] ELSE Idle]

Begin(p, r, pass) ==
  /\ mig[p] = Idle
  /\ mig' = [mig EXCEPT ![p] = [phase |-> "check", code |-> r, pass |-> pass,
                                taken |-> FALSE, lane |-> 0, at |-> 0]]

SkipBackup(p) ==
  /\ At(p, "check")
  /\ mig[p].taken \/ ~Pending(mig[p].code) \/ NewestIsCurrent
  /\ Goto(p, "apply")
  /\ UNCHANGED <<recorded, data, backups, projectHead, broken, events>>

\* Slip: one backup file, overwritten by the next.
OpenBackup_Overwrites(p) ==
  /\ At(p, "check")
  /\ ~mig[p].taken /\ Pending(mig[p].code) /\ ~NewestIsCurrent
  /\ backups' = <<Copying(p)>>
  /\ Goto(p, "copy")
  /\ UNCHANGED <<recorded, data, projectHead, broken, events>>

OpenBackup(p) ==
  /\ At(p, "check")
  /\ ~mig[p].taken /\ Pending(mig[p].code) /\ ~NewestIsCurrent
  /\ backups' = Append(backups, Copying(p))
  /\ Goto(p, "copy")
  /\ UNCHANGED <<recorded, data, projectHead, broken, events>>

TakeBackup(p) ==
  /\ At(p, "copy")
  /\ backups' = PruneBackups(Turned(backups, p, Holding))
  /\ mig' = [mig EXCEPT ![p] = [@ EXCEPT !.phase = "apply", !.taken = TRUE]]
  /\ UNCHANGED <<recorded, data, projectHead, broken, events>>

Lanes(p) == HeadsFor(mig[p].code)
CurrentLane(p) == LaneOrder[mig[p].lane]
FollowingLane(p) == LaneOrder[mig[p].lane + 1]

Applying(p) == At(p, "apply") /\ mig[p].lane > 0 /\ mig[p].at < Lanes(p)[CurrentLane(p)]
LaneFinished(p) == At(p, "apply") /\ ~Applying(p)

\* command.upgrade reads where the lane stands; a revision its scripts do not
\* have is an error.
EnterLane(p) ==
  /\ LaneFinished(p)
  /\ mig[p].lane < Len(LaneOrder)
  /\ recorded[FollowingLane(p)] <= Lanes(p)[FollowingLane(p)]
  /\ mig' = [mig EXCEPT ![p] = [mig[p] EXCEPT !.lane = @ + 1, !.at = recorded[FollowingLane(p)]]]
  /\ UNCHANGED <<recorded, data, backups, projectHead, broken, events>>

\* A revision another migrator applied meanwhile collides with this one.
ApplyRevision(p) ==
  /\ Applying(p)
  /\ CurrentLane(p) \notin broken
  /\ recorded[CurrentLane(p)] = mig[p].at
  /\ recorded' = [recorded EXCEPT ![CurrentLane(p)] = @ + 1]
  /\ mig' = [mig EXCEPT ![p] = [mig[p] EXCEPT !.at = @ + 1]]
  /\ UNCHANGED <<data, backups, projectHead, broken, events>>

\* Every lane is at its head.  The command goes on to look for changed models.
LanesDone(p) ==
  /\ LaneFinished(p)
  /\ mig[p].lane = Len(LaneOrder)
  /\ IF mig[p].pass = "first pass"
     THEN Goto(p, "generate")
     ELSE Return(p, "done")
  /\ UNCHANGED <<recorded, data, backups, projectHead, broken, events>>

\* The second pass takes the copy only when the first did not.
SecondPass(p) ==
  mig' = [mig EXCEPT ![p] = [@ EXCEPT !.phase = "check", !.pass = "second pass", !.lane = 0]]

GenerateRevision(p) ==
  /\ At(p, "generate")
  /\ projectHead < MaxProject
  /\ projectHead' = projectHead + 1
  /\ SecondPass(p)
  /\ UNCHANGED <<recorded, data, backups, broken, events>>

NothingGenerated(p) ==
  /\ At(p, "generate")
  /\ SecondPass(p)
  /\ UNCHANGED <<recorded, data, backups, projectHead, broken, events>>

Event == events < MaxEvents /\ events' = events + 1

MustFail(p) ==
  \/ /\ LaneFinished(p)
     /\ mig[p].lane < Len(LaneOrder)
     /\ recorded[FollowingLane(p)] > Lanes(p)[FollowingLane(p)]
  \/ Applying(p) /\ (recorded[CurrentLane(p)] # mig[p].at \/ CurrentLane(p) \in broken)

GiveUp(p) ==
  /\ Return(p, "failed")
  /\ backups' = Turned(backups, p, Torn)
  /\ UNCHANGED <<recorded, data, projectHead, broken>>

RevisionCollides(p) == MustFail(p) /\ GiveUp(p) /\ UNCHANGED events

\* The copy fails (a full disk), a revision fails, or a destructive diff is refused.
StepFails(p) ==
  /\ At(p, "copy") \/ Applying(p) \/ At(p, "generate")
  /\ Event
  /\ GiveUp(p)

\* The process of p is gone; a copy it was taking stays behind, torn.
Dies(p) ==
  /\ mig' = [mig EXCEPT ![p] = Idle]
  /\ backups' = Turned(backups, p, Torn)
  /\ UNCHANGED <<recorded, data, projectHead, broken>>

Write ==
  /\ Event
  /\ data' = data + 1
  /\ UNCHANGED <<recorded, backups, projectHead, broken, mig>>

Migrate(p) ==
  \/ SkipBackup(p) \/ OpenBackup(p) \/ TakeBackup(p)
  \/ EnterLane(p) \/ ApplyRevision(p) \/ LanesDone(p)
  \/ GenerateRevision(p) \/ NothingGenerated(p)
  \/ RevisionCollides(p) \/ StepFails(p)

===============================================================================
