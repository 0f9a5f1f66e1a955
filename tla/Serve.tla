--------------------------------- MODULE Serve ---------------------------------
(***************************************************************************)
(* The life of `dudamel run` processes over one data directory, beside     *)
(* `dudamel db migrate` commands and an operator who installs releases:    *)
(* the instance lock, the ordered start (schema gate, MCP mount, jobs, web, *)
(* Telegram), the ordered shutdown, signals, cancellations and crashes.    *)
(***************************************************************************)
EXTENDS Migrations, Mounting

CONSTANTS
  Instance,     \* processes running serve()
  Command,      \* processes running `dudamel db migrate`
  Nobody,       \* not a process: the lock is free
  AutoMigrate   \* the values [database] auto_migrate may have

ASSUME ServeAssumption ==
  /\ Migrator = Instance \cup Command
  /\ Instance \cap Command = {}
  /\ Nobody \notin Migrator
  /\ AutoMigrate \subseteq BOOLEAN

VARIABLES
  holder,     \* who holds the flock
  pc,         \* where each serve() is
  code,       \* the release and the setting each process started with
  parts,      \* what of each instance takes work: jobs, web, telegram
  stuck,      \* parts whose stop raised
  stop,       \* stop_event
  cancelled,  \* a cancellation was delivered since the lock was taken
  cutShort,   \* a cancellation cut the shutdown short
  listed,     \* what the servers mounted so far listed
  registry,   \* the tool registry of each instance
  disposed,   \* the database engine was disposed
  release     \* the installed release

serveVars == <<holder, pc, code, parts, stuck, stop, cancelled, cutShort, listed,
               registry, disposed, release>>
vars == <<migrationVars, serveVars>>

Part == {"jobs", "web", "telegram"}
Starting == {"gate", "mount", "jobs", "web", "telegram"}
Stopping == {"stop telegram", "stop web", "drain", "stop jobs", "stop runtime"}
Places == {"off", "serving", "release", "exiting"} \cup Starting \cup Stopping

NoCode == [release |-> "none", auto |-> FALSE]

Init ==
  /\ MigrationsInit
  /\ holder = Nobody
  /\ pc = [p \in Instance |-> "off"]
  /\ code = [p \in Instance |-> NoCode]
  /\ parts = [p \in Instance |-> {}]
  /\ stuck = [p \in Instance |-> {}]
  /\ stop = [p \in Instance |-> FALSE]
  /\ cancelled = [p \in Instance |-> FALSE]
  /\ cutShort = [p \in Instance |-> FALSE]
  /\ listed = [p \in Instance |-> <<>>]
  /\ registry = [p \in Instance |-> NativeRegistry]
  /\ disposed = [p \in Instance |-> FALSE]
  /\ release = First

From(p, place, next) == pc[p] = place /\ pc' = [pc EXCEPT ![p] = next]
\* Slip: a failed start lets the lock go without stopping what it started.
Unwind_ReleasesFirst(p, place) == From(p, place, "release")
Unwind(p, place) == From(p, place, "stop telegram")

-----------------------------------------------------------------------------
(* Start. *)

\* A process that does not get the lock raises AlreadyRunningError and leaves
\* no trace; there is no step for it.
Acquire(p) ==
  /\ holder = Nobody
  /\ holder' = p
  /\ From(p, "off", "gate")
  /\ \E auto \in AutoMigrate :
       /\ code' = [code EXCEPT ![p] = [release |-> release, auto |-> auto]]
       /\ IF auto THEN Begin(p, release, "gate") ELSE UNCHANGED mig
  /\ UNCHANGED <<recorded, data, backups, projectHead, broken, events>>
  /\ registry' = [registry EXCEPT ![p] = NativeRegistry]
  /\ UNCHANGED <<parts, stuck, stop, cancelled, cutShort, listed, disposed, release>>

\* Slip: the gate swallows the migration's error.
GateOpen_AnyEnd(p) ==
  IF code[p].auto THEN At(p, "done") \/ At(p, "failed") ELSE ~Pending(code[p].release)

GateOpen(p) ==
  IF code[p].auto THEN At(p, "done") ELSE ~Pending(code[p].release)

GateShut(p) ==
  IF code[p].auto THEN At(p, "failed") ELSE Pending(code[p].release)

PassGate(p) ==
  /\ From(p, "gate", "mount")
  /\ GateOpen(p)
  /\ mig' = [mig EXCEPT ![p] = Idle]
  /\ UNCHANGED <<recorded, data, backups, projectHead, broken, events, holder, code, parts, stuck, stop,
                 cancelled, cutShort, listed, registry, disposed, release>>

RefuseToStart(p) ==
  /\ Unwind(p, "gate")
  /\ GateShut(p)
  /\ mig' = [mig EXCEPT ![p] = Idle]
  /\ UNCHANGED <<recorded, data, backups, projectHead, broken, events, holder, code, parts, stuck, stop,
                 cancelled, cutShort, listed, registry, disposed, release>>

NextServer(p) == Len(listed[p]) + 1

Lists(p, list) == listed' = [listed EXCEPT ![p] = Append(@, list)]

MountServer(p) ==
  /\ pc[p] = "mount"
  /\ NextServer(p) <= Len(ServerOrder)
  /\ \/ /\ \E list \in Listings[ServerOrder[NextServer(p)]] : Lists(p, list)
        /\ UNCHANGED events
     \/ Event /\ Lists(p, Failed)
  /\ UNCHANGED <<recorded, data, backups, projectHead, broken, mig, holder, pc, code, parts, stuck, stop, cancelled, cutShort,
                 registry, disposed, release>>

AddTools(p) ==
  /\ NextServer(p) > Len(ServerOrder)
  /\ IF Collides(registry[p], Mounted(listed[p]))
     THEN Unwind(p, "mount") /\ UNCHANGED registry
     ELSE /\ From(p, "mount", "jobs")
          /\ registry' = [registry EXCEPT ![p] = AddMcpTools(@, Mounted(listed[p]))]
  /\ UNCHANGED <<migrationVars, holder, code, parts, stuck, stop, cancelled, cutShort, listed,
                 disposed, release>>

StartPart(p, part, place, next) ==
  /\ From(p, place, next)
  /\ parts' = [parts EXCEPT ![p] = @ \cup {part}]
  /\ UNCHANGED <<migrationVars, holder, code, stuck, stop, cancelled, cutShort, listed,
                 registry, disposed, release>>

StartJobs(p) == StartPart(p, "jobs", "jobs", "web")
StartWeb(p) == StartPart(p, "web", "web", "telegram")
StartTelegram(p) == StartPart(p, "telegram", "telegram", "serving")

\* No token, or an interface that raised: the rest runs without it.
WithoutTelegram(p) ==
  /\ From(p, "telegram", "serving")
  /\ UNCHANGED <<migrationVars, holder, code, parts, stuck, stop, cancelled, cutShort, listed,
                 registry, disposed, release>>

\* The scheduler raises, the port is taken, the web surface refuses its settings.
StartFails(p) ==
  /\ Event
  /\ \E place \in {"jobs", "web"} : Unwind(p, place)
  /\ UNCHANGED <<recorded, data, backups, projectHead, broken, mig, holder, code, parts, stuck, stop, cancelled, cutShort, listed,
                 registry, disposed, release>>

-----------------------------------------------------------------------------
(* Stop. *)

StopSeen(p) ==
  /\ stop[p]
  /\ Unwind(p, "serving")
  /\ UNCHANGED <<migrationVars, holder, code, parts, stuck, stop, cancelled, cutShort, listed,
                 registry, disposed, release>>

StopPart(p, part, place, next) ==
  /\ From(p, place, next)
  /\ \/ parts' = [parts EXCEPT ![p] = @ \ {part}] /\ UNCHANGED <<stuck, events>>
     \/ /\ part \in parts[p]
        /\ Event
        /\ stuck' = [stuck EXCEPT ![p] = @ \cup {part}]
        /\ UNCHANGED parts
  /\ UNCHANGED <<recorded, data, backups, projectHead, broken, mig, holder, code, stop, cancelled, cutShort, listed, registry,
                 disposed, release>>

StopTelegram(p) == StopPart(p, "telegram", "stop telegram", "stop web")
StopWeb(p) == StopPart(p, "web", "stop web", "drain")

\* Slip: the database is let go before the jobs are stopped.
Drained_RuntimeFirst(p) ==
  /\ From(p, "drain", "stop runtime")
  /\ UNCHANGED <<migrationVars, holder, code, parts, stuck, stop, cancelled, cutShort, listed,
                 registry, disposed, release>>

Drained(p) ==
  /\ From(p, "drain", "stop jobs")
  /\ UNCHANGED <<migrationVars, holder, code, parts, stuck, stop, cancelled, cutShort, listed,
                 registry, disposed, release>>

StopJobs(p) ==
  /\ From(p, "stop jobs", "stop runtime")
  /\ parts' = [parts EXCEPT ![p] = @ \ {"jobs"}]
  /\ UNCHANGED <<migrationVars, holder, code, stuck, stop, cancelled, cutShort, listed, registry,
                 disposed, release>>

StopRuntime(p) ==
  /\ From(p, "stop runtime", "release")
  /\ disposed' = [disposed EXCEPT ![p] = TRUE]
  /\ UNCHANGED <<migrationVars, holder, code, parts, stuck, stop, cancelled, cutShort, listed,
                 registry, release>>

\* What serve() created goes out of use with it.
Forget(p) ==
  /\ stop' = [stop EXCEPT ![p] = FALSE]
  /\ cancelled' = [cancelled EXCEPT ![p] = FALSE]
  /\ listed' = [listed EXCEPT ![p] = <<>>]
  /\ registry' = [registry EXCEPT ![p] = NativeRegistry]

ReleaseLock(p) ==
  /\ From(p, "release", "exiting")
  /\ holder' = Nobody
  /\ Forget(p)
  /\ UNCHANGED <<migrationVars, code, parts, stuck, cutShort, disposed, release>>

Gone(p) ==
  /\ pc' = [pc EXCEPT ![p] = "off"]
  /\ code' = [code EXCEPT ![p] = NoCode]
  /\ parts' = [parts EXCEPT ![p] = {}]
  /\ stuck' = [stuck EXCEPT ![p] = {}]
  /\ cutShort' = [cutShort EXCEPT ![p] = FALSE]
  /\ disposed' = [disposed EXCEPT ![p] = FALSE]
  /\ Forget(p)
  /\ UNCHANGED release

\* The event loop is closed: the executor's thread is joined, whatever is left
\* of the parts is cancelled.
Exit(p) ==
  /\ pc[p] = "exiting"
  /\ mig[p].phase \in {"idle", "done", "failed"}
  /\ Dies(p)
  /\ Gone(p)
  /\ UNCHANGED <<holder, events>>

-----------------------------------------------------------------------------
(* What the surroundings do. *)

\* Repeated signals, and those of the shutdown, change nothing.
Signal(p) ==
  /\ pc[p] \in Starting \cup {"serving"}
  /\ ~stop[p]
  /\ stop' = [stop EXCEPT ![p] = TRUE]
  /\ UNCHANGED <<migrationVars, holder, pc, code, parts, stuck, cancelled, cutShort, listed,
                 registry, disposed, release>>

\* Where the CancelledError is raised decides what it does.
CancelStart(p) ==
  /\ \E place \in {"gate", "jobs", "web", "serving"} : Unwind(p, place)
  /\ UNCHANGED <<parts, cutShort, listed>>

\* The interface may have begun to poll.
CancelTelegram(p) ==
  /\ Unwind(p, "telegram")
  /\ parts' \in {parts, [parts EXCEPT ![p] = @ \cup {"telegram"}]}
  /\ UNCHANGED <<cutShort, listed>>

\* mount() takes it for the failure of the server it is mounting.
CancelMount(p) ==
  /\ pc[p] = "mount"
  /\ NextServer(p) <= Len(ServerOrder)
  /\ Lists(p, Failed)
  /\ UNCHANGED <<pc, parts, cutShort>>

\* The drain and the scheduler's own wait swallow it ...
CancelDrain(p) ==
  /\ \/ From(p, "drain", "stop jobs") /\ UNCHANGED parts
     \/ /\ From(p, "stop jobs", "stop runtime")
        /\ parts' = [parts EXCEPT ![p] = @ \ {"jobs"}]
  /\ UNCHANGED <<cutShort, listed>>

\* ... and it escapes _stop_quietly, past every step still to come.
CancelStop(p) ==
  /\ \E place \in {"stop telegram", "stop web", "stop runtime"} : From(p, place, "release")
  /\ cutShort' = [cutShort EXCEPT ![p] = TRUE]
  /\ UNCHANGED <<parts, listed>>

Cancel(p) ==
  /\ Event
  /\ cancelled' = [cancelled EXCEPT ![p] = TRUE]
  /\ \/ CancelStart(p) \/ CancelTelegram(p) \/ CancelMount(p) \/ CancelDrain(p) \/ CancelStop(p)
  /\ UNCHANGED <<recorded, data, backups, projectHead, broken, mig, holder, code, stuck, stop, registry,
                 disposed, release>>

\* The kernel drops the lock of a dead process.
Crash(p) ==
  /\ pc[p] # "off"
  /\ Event
  /\ holder' = IF holder = p THEN Nobody ELSE holder
  /\ Dies(p)
  /\ Gone(p)

RunCommand(c) ==
  /\ Event
  /\ Begin(c, release, "first pass")
  /\ UNCHANGED <<recorded, data, backups, projectHead, broken, serveVars>>

CommandDies(c) ==
  /\ mig[c] # Idle
  /\ Event
  /\ Dies(c)
  /\ UNCHANGED <<holder, pc, code, parts, stuck, stop, cancelled, cutShort, listed, registry,
                 disposed, release>>

Deploy ==
  /\ Event
  /\ \E r \in Release \ {release} : release' = r
  /\ UNCHANGED <<recorded, data, backups, projectHead, broken, mig, holder, pc, code, parts, stuck, stop, cancelled, cutShort,
                 listed, registry, disposed>>

WriteData ==
  /\ \E p \in Instance : parts[p] # {}
  /\ Write
  /\ UNCHANGED serveVars

ServeStep(p) ==
  \/ PassGate(p) \/ RefuseToStart(p) \/ MountServer(p) \/ AddTools(p)
  \/ StartJobs(p) \/ StartWeb(p) \/ StartTelegram(p) \/ WithoutTelegram(p) \/ StartFails(p)
  \/ StopSeen(p) \/ StopTelegram(p) \/ StopWeb(p) \/ Drained(p) \/ StopJobs(p) \/ StopRuntime(p)
  \/ ReleaseLock(p) \/ Exit(p)

MigrateStep(p) == Migrate(p) /\ UNCHANGED serveVars

Next ==
  \/ \E p \in Instance : Acquire(p) \/ ServeStep(p) \/ Signal(p) \/ Cancel(p) \/ Crash(p)
  \/ \E c \in Command : RunCommand(c) \/ CommandDies(c)
  \/ \E p \in Migrator : MigrateStep(p)
  \/ Deploy
  \/ WriteData

Spec == Init /\ [][Next]_vars

\* The event loop runs what is ready and the migration thread its statements.
FairSpec ==
  /\ Spec
  /\ \A p \in Instance : WF_vars(ServeStep(p))
  /\ \A p \in Migrator : WF_vars(MigrateStep(p))

-----------------------------------------------------------------------------

TypeOK ==
  /\ recorded \in [Lane -> Revisions]
  /\ data \in 0..MaxEvents
  /\ Range(backups) \subseteq Copies
  /\ projectHead \in 0..MaxProject
  /\ \A p \in Migrator : mig[p].phase \in Phases
  /\ holder \in Instance \cup {Nobody}
  /\ pc \in [Instance -> Places]
  /\ parts \in [Instance -> SUBSET Part]
  /\ stuck \in [Instance -> SUBSET Part]

\* Two instances never take work at once: whatever takes work belongs to the
\* instance that holds the lock, unless its stop raised or was cut short.
PartsUnderLock ==
  \A p \in Instance :
    parts[p] # {} /\ holder # p => cutShort[p] \/ parts[p] \subseteq stuck[p]

\* Work is taken only over a schema that has every revision the program ships,
\* whichever process applied it, in whatever order the lanes failed before.
NeverBehind ==
  \A p \in Instance : parts[p] # {} =>
    \A l \in Lane \ {Project} : recorded[l] >= Heads[code[p].release][l]

\* The copies are the undo: while the file is between two releases, a complete
\* copy of it as some release left it is still there, however often a start
\* failed half-way and was tried again, as long as the copies taken since, torn
\* and half-migrated ones included, leave a place free.
AtRelease(state) == \E r \in Release : \A l \in Lane \ {Project} : state[l] = Heads[r][l]

Saved == \E i \in DOMAIN backups : backups[i].status = "done" /\ AtRelease(backups[i].state)

UndoExists == ~AtRelease(recorded) => Saved \/ Len(backups) >= Kept

\* A name belongs to the program, or to the first mounted server that lists a
\* fit tool of that name and still had room; a refused batch registers nothing.
Offers(list, n) == \E i \in DOMAIN list : list[i].name = n /\ list[i].fit
Room(p, s) == Cardinality({n \in DOMAIN registry[p] : registry[p][n] = s}) < ToolCap

FirstMountWins ==
  \A p \in Instance : "jobs" \in parts[p] =>
    \A k \in DOMAIN listed[p], n \in ToolName :
      Offers(listed[p][k], n) /\ Room(p, ServerOrder[k]) =>
        /\ n \notin Native
        /\ n \in DOMAIN registry[p]
        /\ \E j \in 1..k : registry[p][n] = ServerOrder[j] /\ Offers(listed[p][j], n)

\* Intake ends before jobs do, and the database is let go last: nothing of the
\* instance runs on a disposed engine unless its own stop raised.
ShutdownInOrder ==
  \A p \in Instance :
    /\ disposed[p] => parts[p] \subseteq stuck[p]
    /\ pc[p] \in {"stop runtime", "release"} /\ ~cutShort[p] => parts[p] \subseteq stuck[p]

\* _newest_backup_is_current skips a copy because nothing writes app data while
\* a migration is pending, so that an unchanged migration state is an unchanged
\* database.
SkippedCopyIsFresh ==
  [][\A p \in Migrator :
       /\ mig[p].phase = "check" /\ mig'[p].phase = "apply"
       /\ ~mig[p].taken /\ Pending(mig[p].code)
       => Last(backups).data = data]_vars

\* serve() runs until it is stopped, and a cancellation of its task is a stop
\* request like a signal.
CancelStops == \A p \in Instance : cancelled[p] ~> holder # p

===============================================================================
