------------------------------ MODULE Serve_proofs ------------------------------
(***************************************************************************)
(* Theorems about Serve for every number of instances and commands, every  *)
(* set of releases and lanes, and every bound on what goes wrong.          *)
(***************************************************************************)
EXTENDS Serve, SetInduction, FiniteSetTheorems, SequenceTheorems, TLAPS

USE ServeAssumption

--------------------------------------------------------------------------------
(* What runs where. *)

LifeTypes ==
  /\ pc \in [Instance -> Places]
  /\ parts \in [Instance -> SUBSET Part]
  /\ stuck \in [Instance -> SUBSET Part]
  /\ cutShort \in [Instance -> BOOLEAN]
  /\ disposed \in [Instance -> BOOLEAN]

\* The parts that may be running when a process is at a place.
MayRun(place) ==
  CASE place = "web" -> {"jobs"}
    [] place \in {"telegram", "stop web"} -> {"jobs", "web"}
    [] place \in {"serving", "stop telegram"} -> Part
    [] place \in {"drain", "stop jobs"} -> {"jobs"}
    [] OTHER -> {}

Life(p) ==
  /\ holder = p <=> pc[p] \notin {"off", "exiting"}
  /\ pc[p] = "off" => parts[p] = {} /\ stuck[p] = {}
  /\ parts[p] \subseteq MayRun(pc[p]) \cup stuck[p] \/ cutShort[p]
  /\ cutShort[p] => pc[p] \in {"release", "exiting"} /\ ~disposed[p]
  /\ disposed[p] => pc[p] \in {"release", "exiting"}

LifeInv == LifeTypes /\ \A p \in Instance : Life(p)

USE DEF Places, Part, Starting, Stopping

LEMMA InitLife == Init => LifeInv
BY DEF Init, LifeInv, LifeTypes, Life

\* A process that does nothing keeps its part of the invariant.
Rests(q) ==
  /\ pc'[q] = pc[q] /\ parts'[q] = parts[q] /\ stuck'[q] = stuck[q]
  /\ cutShort'[q] = cutShort[q] /\ disposed'[q] = disposed[q]
  /\ holder' = q <=> holder = q

LEMMA Resting ==
  ASSUME NEW q \in Instance, Life(q), Rests(q)
  PROVE  Life(q)'
BY DEF Life, Rests

LEMMA OneMoves ==
  ASSUME LifeInv, NEW p \in Instance, LifeTypes', Life(p)',
         \A q \in Instance \ {p} : Rests(q)
  PROVE  LifeInv'
BY Resting DEF LifeInv

LEMMA Starts ==
  ASSUME LifeInv, NEW p \in Instance,
         \/ Acquire(p) \/ PassGate(p) \/ RefuseToStart(p) \/ MountServer(p) \/ AddTools(p)
         \/ StartJobs(p) \/ StartWeb(p) \/ StartTelegram(p) \/ WithoutTelegram(p) \/ StartFails(p)
  PROVE  LifeInv'
<1> USE DEF LifeInv, LifeTypes, From, Unwind
<1>1. CASE Acquire(p)
  <2>0. LifeTypes' BY <1>1 DEF Acquire
  <2>1. \A q \in Instance \ {p} : Rests(q)
    <3>1. \A q \in Instance : q # Nobody OBVIOUS
    <3>2. /\ pc' = [pc EXCEPT ![p] = "gate"] /\ holder = Nobody /\ holder' = p
          /\ UNCHANGED <<parts, stuck, cutShort, disposed>>
      BY <1>1 DEF Acquire
    <3>3. QED BY <3>1, <3>2 DEF Rests
  <2>2. Life(p)' BY <1>1 DEF Acquire, Life, MayRun
  <2>3. QED BY <2>0, <2>1, <2>2, OneMoves
<1>2. CASE PassGate(p) \/ RefuseToStart(p) \/ WithoutTelegram(p) \/ StartFails(p)
  <2>1. LifeTypes' /\ \A q \in Instance \ {p} : Rests(q)
    BY <1>2 DEF PassGate, RefuseToStart, WithoutTelegram, StartFails, Rests
  <2>2. Life(p)'
    <3>1. CASE PassGate(p) BY <3>1 DEF PassGate, Life, MayRun
    <3>2. CASE RefuseToStart(p) BY <3>2 DEF RefuseToStart, Life, MayRun
    <3>3. CASE WithoutTelegram(p) BY <3>3 DEF WithoutTelegram, Life, MayRun
    <3>4. CASE StartFails(p)
      <4>1. /\ pc[p] \in {"jobs", "web"} /\ pc'[p] = "stop telegram"
            /\ UNCHANGED <<holder, parts, stuck, cutShort, disposed>>
        BY <3>4 DEF StartFails
      <4>2. ~cutShort[p] /\ parts[p] \subseteq Part BY <4>1 DEF Life
      <4>3. MayRun(pc'[p]) = Part BY <4>1 DEF MayRun
      <4>4. QED BY <4>1, <4>2, <4>3 DEF Life
    <3>5. QED BY <1>2, <3>1, <3>2, <3>3, <3>4
  <2>3. QED BY <2>1, <2>2, OneMoves
<1>3. CASE MountServer(p)
  <2>1. LifeTypes' /\ \A q \in Instance \ {p} : Rests(q) BY <1>3 DEF MountServer, Rests
  <2>2. Life(p)' BY <1>3 DEF MountServer, Life
  <2>3. QED BY <2>1, <2>2, OneMoves
<1>4. CASE AddTools(p)
  <2>1. LifeTypes' /\ \A q \in Instance \ {p} : Rests(q)
    <3>1. /\ pc' \in {[pc EXCEPT ![p] = "jobs"], [pc EXCEPT ![p] = "stop telegram"]}
          /\ UNCHANGED <<holder, code, parts, stuck, stop, cancelled, cutShort, disposed>>
      BY <1>4 DEF AddTools
    <3>2. QED BY <3>1 DEF Rests
  <2>2. /\ pc[p] = "mount" /\ pc'[p] \in {"stop telegram", "jobs"}
        /\ UNCHANGED <<holder, parts, stuck, cutShort, disposed>>
    BY <1>4 DEF AddTools
  <2>4. Life(p)' BY <2>2 DEF Life, MayRun
  <2>5. QED BY <2>1, <2>4, OneMoves
<1>5. CASE StartJobs(p)
  <2>1. LifeTypes' /\ \A q \in Instance \ {p} : Rests(q) BY <1>5 DEF StartJobs, StartPart, Rests
  <2>2. Life(p)' BY <1>5 DEF StartJobs, StartPart, Life, MayRun
  <2>3. QED BY <2>1, <2>2, OneMoves
<1>6. CASE StartWeb(p)
  <2>1. LifeTypes' /\ \A q \in Instance \ {p} : Rests(q) BY <1>6 DEF StartWeb, StartPart, Rests
  <2>2. Life(p)' BY <1>6 DEF StartWeb, StartPart, Life, MayRun
  <2>3. QED BY <2>1, <2>2, OneMoves
<1>7. CASE StartTelegram(p)
  <2>1. LifeTypes' /\ \A q \in Instance \ {p} : Rests(q) BY <1>7 DEF StartTelegram, StartPart, Rests
  <2>2. Life(p)' BY <1>7 DEF StartTelegram, StartPart, Life, MayRun
  <2>3. QED BY <2>1, <2>2, OneMoves
<1>8. QED BY <1>1, <1>2, <1>3, <1>4, <1>5, <1>6, <1>7

LEMMA Stops ==
  ASSUME LifeInv, NEW p \in Instance,
         \/ StopSeen(p) \/ StopTelegram(p) \/ StopWeb(p) \/ Drained(p) \/ StopJobs(p)
         \/ StopRuntime(p) \/ ReleaseLock(p) \/ Exit(p)
  PROVE  LifeInv'
<1> USE DEF LifeInv, LifeTypes, From, Unwind
<1>1. CASE StopSeen(p) \/ Drained(p)
  <2>1. LifeTypes' /\ \A q \in Instance \ {p} : Rests(q) BY <1>1 DEF StopSeen, Drained, Rests
  <2>2. Life(p)'
    <3>1. CASE StopSeen(p) BY <3>1 DEF StopSeen, Life, MayRun
    <3>2. CASE Drained(p) BY <3>2 DEF Drained, Life, MayRun
    <3>3. QED BY <1>1, <3>1, <3>2
  <2>3. QED BY <2>1, <2>2, OneMoves
<1>2. ASSUME NEW part \in {"telegram", "web"}, NEW place \in {"stop telegram", "stop web"},
             NEW next \in {"stop web", "drain"}, StopPart(p, part, place, next),
             MayRun(place) \ {part} \subseteq MayRun(next)
      PROVE  LifeInv'
  <2>1. /\ pc[p] = place /\ pc' = [pc EXCEPT ![p] = next]
        /\ UNCHANGED <<holder, cutShort, disposed>>
        /\ \/ parts' = [parts EXCEPT ![p] = @ \ {part}] /\ stuck' = stuck
           \/ parts' = parts /\ stuck' = [stuck EXCEPT ![p] = @ \cup {part}]
    BY <1>2 DEF StopPart
  <2>2. parts'[p] \in SUBSET Part /\ stuck'[p] \in SUBSET Part
    <3>1. CASE parts' = [parts EXCEPT ![p] = @ \ {part}] /\ stuck' = stuck BY <3>1
    <3>2. CASE parts' = parts /\ stuck' = [stuck EXCEPT ![p] = @ \cup {part}]
      <4>1. stuck'[p] = stuck[p] \cup {part} BY <3>2
      <4>2. QED BY <3>2, <4>1
    <3>3. QED BY <2>1, <3>1, <3>2
  <2>3. \A q \in Instance \ {p} : pc'[q] = pc[q] /\ parts'[q] = parts[q] /\ stuck'[q] = stuck[q]
    BY <2>1
  <2>4. LifeTypes'
    <3>1. DOMAIN parts' = Instance /\ DOMAIN stuck' = Instance
          /\ parts' = [q \in Instance |-> parts'[q]] /\ stuck' = [q \in Instance |-> stuck'[q]]
      BY <2>1
    <3>2. QED BY <2>1, <2>2, <2>3, <3>1
  <2>5. ~cutShort[p] /\ parts[p] \subseteq MayRun(place) \cup stuck[p] BY <2>1 DEF Life
  <2>6. parts'[p] \subseteq MayRun(next) \cup stuck'[p]
    <3>1. CASE parts' = [parts EXCEPT ![p] = @ \ {part}] /\ stuck' = stuck
      <4>1. parts'[p] = parts[p] \ {part} /\ stuck'[p] = stuck[p] BY <3>1
      <4>2. QED BY <1>2, <2>5, <4>1
    <3>2. CASE parts' = parts /\ stuck' = [stuck EXCEPT ![p] = @ \cup {part}]
      <4>1. parts'[p] = parts[p] /\ stuck'[p] = stuck[p] \cup {part} BY <3>2
      <4>2. QED BY <1>2, <2>5, <4>1
    <3>3. QED BY <2>1, <3>1, <3>2
  <2>7. Life(p)' BY <2>1, <2>5, <2>6 DEF Life
  <2>8. \A q \in Instance \ {p} : Rests(q) BY <2>1, <2>3 DEF Rests
  <2>9. QED BY <2>4, <2>7, <2>8, OneMoves
<1>3. CASE StopTelegram(p) BY <1>2, <1>3 DEF StopTelegram, MayRun
<1>4. CASE StopWeb(p) BY <1>2, <1>4 DEF StopWeb, MayRun
<1>5. CASE StopJobs(p)
  <2>1. LifeTypes' /\ \A q \in Instance \ {p} : Rests(q) BY <1>5 DEF StopJobs, Rests
  <2>2. Life(p)' BY <1>5 DEF StopJobs, Life, MayRun
  <2>3. QED BY <2>1, <2>2, OneMoves
<1>6. CASE StopRuntime(p)
  <2>1. LifeTypes' /\ \A q \in Instance \ {p} : Rests(q) BY <1>6 DEF StopRuntime, Rests
  <2>2. Life(p)' BY <1>6 DEF StopRuntime, Life, MayRun
  <2>3. QED BY <2>1, <2>2, OneMoves
<1>7. CASE ReleaseLock(p)
  <2>1. /\ pc[p] = "release" /\ pc' = [pc EXCEPT ![p] = "exiting"] /\ holder' = Nobody
        /\ UNCHANGED <<parts, stuck, cutShort, disposed>>
    BY <1>7 DEF ReleaseLock
  <2>2. \A q \in Instance : q # Nobody OBVIOUS
  <2>3. holder = p BY <2>1 DEF Life
  <2>4. LifeTypes' BY <2>1
  <2>5. \A q \in Instance \ {p} : Rests(q) BY <2>1, <2>2, <2>3 DEF Rests
  <2>6. Life(p)' BY <2>1, <2>2 DEF Life, MayRun
  <2>7. QED BY <2>4, <2>5, <2>6, OneMoves
<1>8. CASE Exit(p)
  <2>1. LifeTypes' /\ \A q \in Instance \ {p} : Rests(q) BY <1>8 DEF Exit, Gone, Rests
  <2>2. Life(p)' BY <1>8 DEF Exit, Gone, Life, MayRun
  <2>3. QED BY <2>1, <2>2, OneMoves
<1>9. QED BY <1>1, <1>3, <1>4, <1>5, <1>6, <1>7, <1>8

LEMMA Cancels ==
  ASSUME LifeInv, NEW p \in Instance, Cancel(p)
  PROVE  LifeInv'
<1> USE DEF LifeInv, LifeTypes, From, Unwind
<1>1. UNCHANGED <<holder, stuck, disposed>> BY DEF Cancel
<1>2. CASE CancelStart(p)
  <2>1. LifeTypes' /\ \A q \in Instance \ {p} : Rests(q) BY <1>1, <1>2 DEF CancelStart, Rests
  <2>2. /\ pc[p] \in {"gate", "jobs", "web", "serving"} /\ pc'[p] = "stop telegram"
        /\ UNCHANGED <<holder, parts, stuck, cutShort, disposed>>
    BY <1>1, <1>2 DEF CancelStart
  <2>3. ~cutShort[p] /\ parts[p] \subseteq Part BY <2>2 DEF Life
  <2>4. MayRun(pc'[p]) = Part BY <2>2 DEF MayRun
  <2>5. Life(p)' BY <2>2, <2>3, <2>4 DEF Life
  <2>6. QED BY <2>1, <2>5, OneMoves
<1>3. CASE CancelTelegram(p)
  <2>1. /\ pc[p] = "telegram" /\ pc' = [pc EXCEPT ![p] = "stop telegram"] /\ cutShort' = cutShort
        /\ \/ parts' = parts
           \/ parts' = [parts EXCEPT ![p] = @ \cup {"telegram"}]
    BY <1>3 DEF CancelTelegram
  <2>2. \/ parts' = parts
        \/ parts' = [parts EXCEPT ![p] = parts[p] \cup {"telegram"}]
           /\ parts[p] \cup {"telegram"} \in SUBSET Part
    BY <2>1
  <2>3. LifeTypes'
    <3>1. parts' \in [Instance -> SUBSET Part]
      <4>1. CASE parts' = parts BY <4>1
      <4>2. CASE /\ parts' = [parts EXCEPT ![p] = parts[p] \cup {"telegram"}]
                 /\ parts[p] \cup {"telegram"} \in SUBSET Part
        <5> DEFINE both == parts[p] \cup {"telegram"}
        <5>1. both \in SUBSET Part BY <4>2
        <5> HIDE DEF both
        <5>2. [parts EXCEPT ![p] = both] \in [Instance -> SUBSET Part] BY <5>1
        <5>3. QED BY <4>2, <5>2 DEF both
      <4>3. QED BY <2>2, <4>1, <4>2
    <3>2. pc' \in [Instance -> Places] BY <2>1
    <3>3. QED BY <1>1, <2>1, <3>1, <3>2
  <2>4. \A q \in Instance \ {p} : Rests(q) BY <1>1, <2>1, <2>2 DEF Rests
  <2>5. MayRun(pc'[p]) = Part BY <2>1 DEF MayRun
  <2>6. Life(p)' BY <1>1, <2>1, <2>3, <2>5 DEF Life
  <2>7. QED BY <2>3, <2>4, <2>6, OneMoves
<1>4. CASE CancelMount(p)
  <2>1. UNCHANGED <<pc, parts, cutShort>> BY <1>4 DEF CancelMount
  <2>2. QED BY <1>1, <2>1 DEF Life
<1>5. CASE CancelDrain(p)
  <2>1. cutShort' = cutShort BY <1>5 DEF CancelDrain
  <2>2. CASE pc[p] = "drain" /\ pc' = [pc EXCEPT ![p] = "stop jobs"] /\ parts' = parts
    <3>1. LifeTypes' /\ \A q \in Instance \ {p} : Rests(q) BY <1>1, <2>1, <2>2 DEF Rests
    <3>2. Life(p)' BY <1>1, <2>1, <2>2 DEF Life, MayRun
    <3>3. QED BY <3>1, <3>2, OneMoves
  <2>3. CASE /\ pc[p] = "stop jobs" /\ pc' = [pc EXCEPT ![p] = "stop runtime"]
             /\ parts' = [parts EXCEPT ![p] = @ \ {"jobs"}]
    <3>1. LifeTypes' /\ \A q \in Instance \ {p} : Rests(q) BY <1>1, <2>1, <2>3 DEF Rests
    <3>2. Life(p)' BY <1>1, <2>1, <2>3 DEF Life, MayRun
    <3>3. QED BY <3>1, <3>2, OneMoves
  <2>4. QED BY <1>5, <2>2, <2>3 DEF CancelDrain
<1>6. CASE CancelStop(p)
  <2>1. /\ pc[p] \in {"stop telegram", "stop web", "stop runtime"}
        /\ pc' = [pc EXCEPT ![p] = "release"]
        /\ cutShort' = [cutShort EXCEPT ![p] = TRUE]
        /\ UNCHANGED <<holder, parts, stuck, disposed>>
    BY <1>1, <1>6 DEF CancelStop
  <2>2. LifeTypes' BY <2>1
  <2>3. \A q \in Instance \ {p} : Rests(q) BY <2>1 DEF Rests
  <2>4. Life(p)' BY <2>1 DEF Life, MayRun
  <2>5. QED BY <2>2, <2>3, <2>4, OneMoves
<1>7. QED BY <1>2, <1>3, <1>4, <1>5, <1>6 DEF Cancel

LEMMA Crashes ==
  ASSUME LifeInv, NEW p \in Instance, Crash(p)
  PROVE  LifeInv'
<1> USE DEF LifeInv, LifeTypes
<1>1. /\ pc' = [pc EXCEPT ![p] = "off"]
      /\ parts' = [parts EXCEPT ![p] = {}] /\ stuck' = [stuck EXCEPT ![p] = {}]
      /\ cutShort' = [cutShort EXCEPT ![p] = FALSE] /\ disposed' = [disposed EXCEPT ![p] = FALSE]
      /\ holder' = IF holder = p THEN Nobody ELSE holder
  BY DEF Crash, Gone
<1>2. \A q \in Instance : q # Nobody OBVIOUS
<1>3. LifeTypes' BY <1>1
<1>4. \A q \in Instance \ {p} : Rests(q) BY <1>1, <1>2 DEF Rests
<1>5. Life(p)' BY <1>1, <1>2 DEF Life, MayRun
<1>6. QED BY <1>3, <1>4, <1>5, OneMoves

LEMMA LifeStep == LifeInv /\ [Next]_vars => LifeInv'
<1> SUFFICES ASSUME LifeInv, [Next]_vars PROVE LifeInv' OBVIOUS
<1>1. ASSUME NEW p \in Instance, ServeStep(p) \/ Acquire(p) PROVE LifeInv'
  BY <1>1, Starts, Stops DEF ServeStep
<1>2. ASSUME NEW p \in Instance, Cancel(p) \/ Crash(p) PROVE LifeInv' BY <1>2, Cancels, Crashes
<1>3. ASSUME UNCHANGED <<holder, pc, parts, stuck, cutShort, disposed>> PROVE LifeInv'
  BY <1>3 DEF LifeInv, LifeTypes, Life
<1>4. ASSUME NEW p \in Instance, Signal(p) PROVE LifeInv' BY <1>3, <1>4 DEF Signal
<1>5. ASSUME NEW c \in Command, RunCommand(c) \/ CommandDies(c) PROVE LifeInv'
  BY <1>3, <1>5 DEF RunCommand, CommandDies, serveVars
<1>6. ASSUME NEW p \in Migrator, MigrateStep(p) PROVE LifeInv'
  BY <1>3, <1>6 DEF MigrateStep, serveVars
<1>7. CASE Deploy \/ WriteData BY <1>3, <1>7 DEF Deploy, WriteData, serveVars
<1>8. CASE UNCHANGED vars BY <1>3, <1>8 DEF vars, serveVars
<1>9. QED BY <1>1, <1>2, <1>4, <1>5, <1>6, <1>7, <1>8 DEF Next

LEMMA LifeAlways == Spec => []LifeInv
<1>1. QED BY InitLife, LifeStep, PTL DEF Spec

\* Two instances never take work at once: whatever takes work belongs to the
\* instance that holds the lock, unless its stop raised or was cut short.
THEOREM OneInstanceWorks == Spec => []PartsUnderLock
<1>1. LifeInv => PartsUnderLock BY DEF LifeInv, Life, MayRun, PartsUnderLock
<1>2. QED BY <1>1, LifeAlways, PTL

\* Intake ends before jobs do, and the database is let go last.
THEOREM OrderedShutdown == Spec => []ShutdownInOrder
<1>1. LifeInv => ShutdownInOrder BY DEF LifeInv, Life, MayRun, ShutdownInOrder
<1>2. QED BY <1>1, LifeAlways, PTL

--------------------------------------------------------------------------------
(* What the schema has.  A pass of a migrator leaves every lane it has been  *)
(* through at the head its release ships, and nothing ever moves a lane back.*)

Run == [phase : {"check", "copy", "apply", "generate"}, code : Release,
        pass : {"gate", "first pass", "second pass"}, taken : BOOLEAN,
        lane : 0..Len(LaneOrder), at : Nat]
Ended == {[phase |-> "idle"], [phase |-> "done"], [phase |-> "failed"]}

SchemaTypes ==
  /\ recorded \in [Lane -> Nat]
  /\ projectHead \in Nat
  /\ mig \in [Migrator -> Run \cup Ended]
  /\ release \in Release
  /\ pc \in [Instance -> Places]
  /\ code \in [Instance -> [release : Release \cup {"none"}, auto : BOOLEAN]]
  /\ parts \in [Instance -> SUBSET Part]

Has(l, n) == l # Project => recorded[l] >= n
HasAll(r) == \A l \in Lane : Has(l, Heads[r][l])

\* Where a migrator's pass has got to.
Passed(m) ==
  m \in Run =>
    /\ \A k \in 1..Len(LaneOrder) : k < m.lane => Has(LaneOrder[k], Heads[m.code][LaneOrder[k]])
    /\ m.lane > 0 => Has(LaneOrder[m.lane], m.at)
    /\ m.phase = "generate" => m.pass = "first pass"

AtGate(p) ==
  pc[p] = "gate" =>
    /\ code[p].release \in Release
    /\ code[p].auto =>
         \/ mig[p] \in Run /\ mig[p].pass = "gate" /\ mig[p].code = code[p].release
         \/ mig[p] = [phase |-> "done"] /\ HasAll(code[p].release)
         \/ mig[p] = [phase |-> "failed"]

BeyondGate(p) ==
  parts[p] # {} \/ pc[p] \in {"mount", "jobs", "web", "telegram", "serving"} =>
    code[p].release \in Release /\ HasAll(code[p].release)

SchemaInv ==
  /\ SchemaTypes
  /\ \A m \in Migrator : Passed(mig[m])
  /\ \A p \in Instance : AtGate(p) /\ BeyondGate(p)

LEMMA Lanes1 ==
  /\ Len(LaneOrder) \in Nat
  /\ \A k \in 1..Len(LaneOrder) : LaneOrder[k] \in Lane
  /\ \A l \in Lane : \E k \in 1..Len(LaneOrder) : LaneOrder[k] = l
  /\ Project \in Lane
<1>1. LaneOrder \in Seq(Lane) /\ Project \in Lane BY MigrationsAssumption DEF Lane
<1>2. Len(LaneOrder) \in Nat /\ DOMAIN LaneOrder = 1..Len(LaneOrder) BY <1>1, LenProperties
<1>3. QED BY <1>1, <1>2 DEF Lane, Range

LEMMA HeadsType == \A r \in Release, l \in Lane : Heads[r][l] \in Nat
BY MigrationsAssumption DEF Lane

LEMMA NotRun == \A m \in Ended : m \notin Run /\ m.phase \in {"idle", "done", "failed"}
<1>1. \A m \in Ended : m.phase \in {"idle", "done", "failed"} BY DEF Ended
<1>2. \A m \in Run : m.phase \in {"check", "copy", "apply", "generate"} BY DEF Run
<1>3. QED BY <1>1, <1>2

LEMMA InitSchema == Init => SchemaInv
<1> SUFFICES ASSUME Init PROVE SchemaInv OBVIOUS
<1> USE DEF Init, MigrationsInit
<1>1. SchemaTypes BY HeadsType, MigrationsAssumption DEF SchemaTypes, NoCode, Idle, Ended
<1>2. \A m \in Migrator : Passed(mig[m]) BY NotRun DEF Passed, Idle, Ended
<1>3. \A p \in Instance : AtGate(p) /\ BeyondGate(p) BY DEF AtGate, BeyondGate
<1>4. QED BY <1>1, <1>2, <1>3 DEF SchemaInv

\* Lanes only move forward.
Forward == recorded' \in [Lane -> Nat] /\ \A l \in Lane : recorded'[l] >= recorded[l]

LEMMA HasForward ==
  ASSUME SchemaTypes, Forward, NEW l \in Lane, NEW n \in Nat, Has(l, n)
  PROVE  Has(l, n)'
<1>1. recorded[l] \in Nat /\ recorded'[l] \in Nat /\ recorded'[l] >= recorded[l]
  BY DEF SchemaTypes, Forward
<1>2. QED BY <1>1 DEF Has

LEMMA HasAllForward ==
  ASSUME SchemaTypes, Forward, NEW r \in Release, HasAll(r)
  PROVE  HasAll(r)'
<1>1. \A l \in Lane : Heads[r][l] \in Nat BY HeadsType
<1>2. QED BY <1>1, HasForward DEF HasAll

LEMMA StandsStill ==
  ASSUME SchemaInv, UNCHANGED <<recorded, projectHead>>
  PROVE  Forward /\ projectHead' \in Nat
<1>1. recorded \in [Lane -> Nat] /\ projectHead \in Nat BY DEF SchemaInv, SchemaTypes
<1>2. QED BY <1>1 DEF Forward

LEMMA PassedForward ==
  ASSUME SchemaTypes, Forward, NEW m \in Run \cup Ended, Passed(m)
  PROVE  Passed(m)'
<1> SUFFICES ASSUME m \in Run PROVE Passed(m)' BY DEF Passed
<1>1. \A k \in 1..Len(LaneOrder) : LaneOrder[k] \in Lane /\ Heads[m.code][LaneOrder[k]] \in Nat
  BY Lanes1, HeadsType DEF Run
<1>2. m.at \in Nat /\ m.lane \in 0..Len(LaneOrder) BY DEF Run
<1>3. ASSUME NEW k \in 1..Len(LaneOrder), k < m.lane
      PROVE  Has(LaneOrder[k], Heads[m.code][LaneOrder[k]])'
  BY <1>1, <1>3, HasForward DEF Passed
<1>4. ASSUME m.lane > 0 PROVE Has(LaneOrder[m.lane], m.at)'
  <2>1. m.lane \in 1..Len(LaneOrder) BY <1>2, <1>4, Lanes1
  <2>2. QED BY <1>1, <1>2, <1>4, <2>1, HasForward DEF Passed
<1>5. QED BY <1>3, <1>4 DEF Passed

\* What may become of a migrator in one step of its own.
Follows(p, m) ==
  \/ m \in Run /\ m.code = mig[p].code /\ (mig[p].pass = "gate" => m.pass = "gate")
  \/ m = [phase |-> "failed"]
  \/ m = [phase |-> "idle"] /\ mig[p].pass # "gate"
  \/ m = [phase |-> "done"] /\ \E r \in Release : r = mig[p].code /\ HasAll(r)'

LEMMA OneMigrates ==
  ASSUME SchemaInv, NEW p \in Migrator, NEW m \in Run \cup Ended,
         mig[p] \in Run, mig' = [mig EXCEPT ![p] = m], Follows(p, m), Passed(m)',
         Forward, projectHead' \in Nat, UNCHANGED <<release, pc, code, parts>>
  PROVE  SchemaInv'
<1> USE DEF SchemaInv
<1>1. SchemaTypes' BY DEF SchemaTypes, Forward
<1>2. ASSUME NEW q \in Migrator PROVE Passed(mig[q])'
  <2>1. CASE q = p
    <3>1. mig'[q] = m BY <2>1 DEF SchemaTypes
    <3>2. QED BY <3>1 DEF Passed, Has
  <2>2. CASE q # p
    <3>1. mig'[q] = mig[q] /\ mig[q] \in Run \cup Ended BY <2>2 DEF SchemaTypes
    <3>2. ASSUME NEW n \in Run \cup Ended, Passed(n) PROVE Passed(n)' BY <3>2, PassedForward
    <3>3. QED BY <3>1, <3>2 DEF Passed, Has
  <2>3. QED BY <2>1, <2>2
<1>3. ASSUME NEW r \in Release, HasAll(r) PROVE HasAll(r)' BY <1>3, HasAllForward
<1>4. ASSUME NEW q \in Instance PROVE BeyondGate(q)'
  BY <1>3 DEF BeyondGate, HasAll, Has
<1>5. ASSUME NEW q \in Instance, pc[q] = "gate" PROVE AtGate(q)'
  <2>1. AtGate(q) /\ code'[q] = code[q] /\ code[q].release \in Release BY <1>5 DEF AtGate
  <2>2. CASE q = p
    <3>1. mig'[q] = m BY <2>2 DEF SchemaTypes
    <3>2. code[q].auto => mig[q].pass = "gate" /\ mig[q].code = code[q].release
      BY <1>5, <2>1, <2>2, NotRun DEF AtGate, Ended
    <3>3. ASSUME code[q].auto
          PROVE  \/ m \in Run /\ m.pass = "gate" /\ m.code = code[q].release
                 \/ m = [phase |-> "done"] /\ HasAll(code[q].release)'
                 \/ m = [phase |-> "failed"]
      <4>1. mig[p].pass = "gate" /\ mig[p].code = code[q].release BY <2>2, <3>2, <3>3
      <4>2. ASSUME NEW r \in Release, r = mig[p].code, HasAll(r)' PROVE HasAll(code[q].release)'
        BY <2>1, <4>1, <4>2 DEF HasAll, Has
      <4>3. QED BY <4>1, <4>2 DEF Follows
    <3>4. QED BY <2>1, <3>1, <3>3 DEF AtGate, HasAll, Has
  <2>3. CASE q # p
    <3>1. mig'[q] = mig[q] BY <2>3 DEF SchemaTypes
    <3>2. QED BY <1>3, <1>5, <2>1, <3>1 DEF AtGate, HasAll, Has
  <2>4. QED BY <2>2, <2>3
<1>6. QED BY <1>1, <1>2, <1>4, <1>5 DEF AtGate

LEMMA LaneAtHead ==
  ASSUME SchemaInv, NEW p \in Migrator, mig[p] \in Run, LaneFinished(p), mig[p].lane > 0
  PROVE  LET l == LaneOrder[mig[p].lane] IN Has(l, Heads[mig[p].code][l])
<1> DEFINE l == LaneOrder[mig[p].lane]
<1>1. /\ mig[p].lane \in 1..Len(LaneOrder) /\ l \in Lane /\ mig[p].at \in Nat
      /\ mig[p].code \in Release
  <2>1. mig[p].lane \in 0..Len(LaneOrder) /\ mig[p].at \in Nat /\ mig[p].code \in Release
    BY DEF Run
  <2>2. mig[p].lane \in 1..Len(LaneOrder) BY <2>1, Lanes1
  <2>3. QED BY <2>1, <2>2, Lanes1
<1>2. Has(l, mig[p].at) BY DEF SchemaInv, Passed
<1>3. ~(mig[p].at < HeadsFor(mig[p].code)[l])
  BY DEF LaneFinished, Applying, Lanes, CurrentLane
<1>4. l # Project => HeadsFor(mig[p].code)[l] = Heads[mig[p].code][l] BY <1>1 DEF HeadsFor
<1>5. Heads[mig[p].code][l] \in Nat BY <1>1, HeadsType
<1>6. recorded[l] \in Nat BY <1>1 DEF SchemaInv, SchemaTypes
<1>7. QED BY <1>1, <1>2, <1>3, <1>4, <1>5, <1>6 DEF Has

\* A step that leaves the lanes and the place in them alone.
LEMMA Idles ==
  ASSUME SchemaInv, NEW p \in Migrator, NEW m \in Run \cup Ended,
         mig[p] \in Run, mig' = [mig EXCEPT ![p] = m],
         \/ m \in Ended
         \/ /\ m.code = mig[p].code /\ m.pass = mig[p].pass /\ m.phase # "generate"
            /\ m.lane = mig[p].lane /\ m.at = mig[p].at,
         m \in Ended => Follows(p, m),
         UNCHANGED <<recorded, projectHead, release, pc, code, parts>>
  PROVE  SchemaInv'
<1>1. Forward /\ projectHead' \in Nat BY StandsStill
<1>2. Passed(mig[p]) BY DEF SchemaInv
<1>3. Passed(m)
  <2>1. CASE m \in Ended BY <2>1, NotRun DEF Passed
  <2>2. CASE m \notin Ended BY <1>2, <2>2 DEF Passed
  <2>3. QED BY <2>1, <2>2
<1>4. Passed(m)' BY <1>1, <1>3, PassedForward DEF SchemaInv
<1>5. Follows(p, m)
  <2>1. CASE m \in Ended BY <2>1
  <2>2. CASE m \notin Ended BY <2>2 DEF Follows
  <2>3. QED BY <2>1, <2>2
<1>6. QED BY <1>1, <1>4, <1>5, OneMigrates

LEMMA Migrates ==
  ASSUME SchemaInv, NEW p \in Migrator, MigrateStep(p)
  PROVE  SchemaInv'
<1>1. mig[p] \in Run
  <2>1. mig[p].phase \in {"check", "copy", "apply", "generate"}
    BY DEF MigrateStep, Migrate, SkipBackup, OpenBackup, TakeBackup, EnterLane, LaneFinished,
           ApplyRevision, Applying, LanesDone, GenerateRevision, NothingGenerated,
           RevisionCollides, MustFail, StepFails, At
  <2>2. QED BY <2>1, NotRun DEF SchemaInv, SchemaTypes
<1>2. UNCHANGED <<release, pc, code, parts>> BY DEF MigrateStep, serveVars
<1>3. /\ mig[p].code \in Release /\ mig[p].pass \in {"gate", "first pass", "second pass"}
      /\ DOMAIN mig[p] = {"phase", "code", "pass", "taken", "lane", "at"}
  BY <1>1 DEF Run
<1>4. /\ Len(LaneOrder) \in Nat /\ mig[p].lane \in 0..Len(LaneOrder)
      /\ mig[p].lane \in Nat /\ mig[p].at \in Nat
  <2>1. mig[p].lane \in 0..Len(LaneOrder) /\ mig[p].at \in Nat BY <1>1 DEF Run
  <2>2. QED BY <2>1, Lanes1
<1>5. CASE SkipBackup(p) \/ OpenBackup(p) \/ TakeBackup(p)
  <2>1. PICK m \in Run : /\ mig' = [mig EXCEPT ![p] = m]
                         /\ m.code = mig[p].code /\ m.pass = mig[p].pass /\ m.phase # "generate"
                         /\ m.lane = mig[p].lane /\ m.at = mig[p].at
    <3>1. CASE SkipBackup(p)
      <4>1. [mig[p] EXCEPT !.phase = "apply"] \in Run BY <1>1 DEF Run
      <4>2. QED BY <1>1, <3>1, <4>1 DEF SkipBackup, Goto, Run
    <3>2. CASE OpenBackup(p)
      <4>1. [mig[p] EXCEPT !.phase = "copy"] \in Run BY <1>1 DEF Run
      <4>2. QED BY <1>1, <3>2, <4>1 DEF OpenBackup, Goto, Run
    <3>3. CASE TakeBackup(p)
      <4>1. [mig[p] EXCEPT !.phase = "apply", !.taken = TRUE] \in Run BY <1>1 DEF Run
      <4>2. QED BY <1>1, <3>3, <4>1 DEF TakeBackup, Run
    <3>4. QED BY <1>5, <3>1, <3>2, <3>3
  <2>2. UNCHANGED <<recorded, projectHead>> BY <1>5 DEF SkipBackup, OpenBackup, TakeBackup
  <2>3. m \notin Ended BY NotRun
  <2>4. QED BY <1>1, <1>2, <2>1, <2>2, <2>3, Idles
<1>6. CASE RevisionCollides(p) \/ StepFails(p)
  <2>1. PICK m \in Ended : mig' = [mig EXCEPT ![p] = m] /\ Follows(p, m)
    BY <1>1, <1>3, <1>6 DEF RevisionCollides, StepFails, GiveUp, Return, Ended, Follows, Idle
  <2>2. UNCHANGED <<recorded, projectHead>> BY <1>6 DEF RevisionCollides, StepFails, GiveUp
  <2>3. QED BY <1>1, <1>2, <2>1, <2>2, Idles
<1>7. CASE EnterLane(p)
  <2> DEFINE next == LaneOrder[mig[p].lane + 1]
  <2>1. /\ LaneFinished(p) /\ mig[p].lane < Len(LaneOrder)
        /\ UNCHANGED <<recorded, projectHead>>
        /\ mig' = [mig EXCEPT ![p] = [mig[p] EXCEPT !.lane = @ + 1, !.at = recorded[next]]]
    BY <1>7 DEF EnterLane, FollowingLane
  <2>2. mig[p].lane + 1 \in 1..Len(LaneOrder) /\ mig[p].lane + 1 \in 0..Len(LaneOrder)
    <3>1. mig[p].lane < Len(LaneOrder) BY <2>1
    <3>2. mig[p].lane \in Nat BY <1>4
    <3>3. QED BY <1>4, <3>1, <3>2
  <2>3. next \in Lane /\ recorded[next] \in Nat
    <3>1. next \in Lane BY <2>2, Lanes1
    <3>2. QED BY <3>1 DEF SchemaInv, SchemaTypes
  <2>4. PICK m \in Run :
          /\ mig' = [mig EXCEPT ![p] = m]
          /\ m.code = mig[p].code /\ m.pass = mig[p].pass /\ m.phase = mig[p].phase
          /\ m.lane = mig[p].lane + 1 /\ m.at = recorded[next]
    <3> DEFINE n == [mig[p] EXCEPT !.lane = @ + 1, !.at = recorded[next]]
    <3>1. n \in Run BY <1>1, <2>2, <2>3 DEF Run
    <3>2. /\ n.code = mig[p].code /\ n.pass = mig[p].pass /\ n.phase = mig[p].phase
          /\ n.lane = mig[p].lane + 1 /\ n.at = recorded[next]
      BY <1>3
    <3>3. QED BY <2>1, <3>1, <3>2
  <2>5. m.phase # "generate" BY <2>1, <2>4 DEF LaneFinished, At
  <2>6. Has(LaneOrder[m.lane], m.at) BY <2>3, <2>4 DEF Has
  <2>7. ASSUME NEW k \in 1..Len(LaneOrder), k < m.lane
        PROVE  Has(LaneOrder[k], Heads[m.code][LaneOrder[k]])
    <3>1. CASE k < mig[p].lane BY <1>1, <2>4, <3>1 DEF SchemaInv, Passed
    <3>2. CASE k = mig[p].lane BY <1>1, <2>1, <2>4, <3>2, LaneAtHead
    <3>3. k \in Nat /\ mig[p].lane \in Nat BY <1>4
    <3>4. k < mig[p].lane + 1 BY <2>4, <2>7
    <3>5. k < mig[p].lane \/ k = mig[p].lane BY <3>3, <3>4
    <3>6. QED BY <3>1, <3>2, <3>5
  <2>8. Passed(m) BY <2>5, <2>6, <2>7 DEF Passed
  <2>9. Forward /\ projectHead' \in Nat BY <2>1, StandsStill
  <2>10. Passed(m)' BY <2>8, <2>9, PassedForward DEF SchemaInv
  <2>11. Follows(p, m) BY <2>4 DEF Follows
  <2>12. QED BY <1>1, <1>2, <2>4, <2>9, <2>10, <2>11, OneMigrates
<1>8. CASE ApplyRevision(p)
  <2> DEFINE l == LaneOrder[mig[p].lane]
  <2>1. /\ mig[p].phase = "apply" /\ mig[p].lane > 0
        /\ recorded[l] = mig[p].at /\ recorded' = [recorded EXCEPT ![l] = @ + 1]
        /\ mig' = [mig EXCEPT ![p] = [mig[p] EXCEPT !.at = @ + 1]]
        /\ projectHead' = projectHead
    BY <1>8 DEF ApplyRevision, Applying, At, CurrentLane
  <2>2. mig[p].lane \in 1..Len(LaneOrder)
    <3>1. mig[p].lane > 0 BY <2>1
    <3>2. QED BY <1>4, <3>1
  <2>3. l \in Lane /\ recorded \in [Lane -> Nat] /\ projectHead \in Nat
    BY <2>2, Lanes1 DEF SchemaInv, SchemaTypes
  <2>4. PICK m \in Run :
          /\ mig' = [mig EXCEPT ![p] = m]
          /\ m.code = mig[p].code /\ m.pass = mig[p].pass /\ m.phase = mig[p].phase
          /\ m.lane = mig[p].lane /\ m.at = mig[p].at + 1
    <3> DEFINE n == [mig[p] EXCEPT !.at = @ + 1]
    <3>0. mig[p].at + 1 \in Nat BY <1>4
    <3>1. n \in Run BY <1>1, <3>0 DEF Run
    <3>2. /\ n.code = mig[p].code /\ n.pass = mig[p].pass /\ n.phase = mig[p].phase
          /\ n.lane = mig[p].lane /\ n.at = mig[p].at + 1
      BY <1>3
    <3>3. QED BY <2>1, <3>1, <3>2
  <2>5. Forward /\ projectHead' \in Nat
    <3>1. recorded[l] + 1 \in Nat BY <2>3
    <3>2. \A o \in Lane : recorded'[o] = IF o = l THEN recorded[l] + 1 ELSE recorded[o] BY <2>1, <2>3
    <3>3. recorded' \in [Lane -> Nat] BY <2>1, <2>3, <3>1
    <3>4. QED BY <2>1, <2>3, <3>2, <3>3 DEF Forward
  <2>6. ASSUME NEW k \in 1..Len(LaneOrder), k < m.lane
        PROVE  Has(LaneOrder[k], Heads[m.code][LaneOrder[k]])'
    <3>1. Has(LaneOrder[k], Heads[m.code][LaneOrder[k]]) BY <1>1, <2>4, <2>6 DEF SchemaInv, Passed
    <3>2. LaneOrder[k] \in Lane /\ m.code \in Release BY Lanes1 DEF Run
    <3>3. Heads[m.code][LaneOrder[k]] \in Nat BY <3>2, HeadsType
    <3>4. QED BY <2>5, <3>1, <3>2, <3>3, HasForward DEF SchemaInv
  <2>7. Has(LaneOrder[m.lane], m.at)' BY <2>1, <2>3, <2>4 DEF Has
  <2>8. Passed(m)' BY <2>1, <2>4, <2>6, <2>7 DEF Passed
  <2>9. Follows(p, m) BY <2>4 DEF Follows
  <2>10. QED BY <1>1, <1>2, <2>4, <2>5, <2>8, <2>9, OneMigrates
<1>9. CASE LanesDone(p)
  <2>1. /\ LaneFinished(p) /\ mig[p].phase = "apply" /\ mig[p].lane = Len(LaneOrder)
        /\ UNCHANGED <<recorded, projectHead>>
    BY <1>9 DEF LanesDone, LaneFinished, At
  <2>2. Forward /\ projectHead' \in Nat BY <2>1, StandsStill
  <2>3. HasAll(mig[p].code)
    <3>1. ASSUME NEW k \in 1..Len(LaneOrder)
          PROVE  Has(LaneOrder[k], Heads[mig[p].code][LaneOrder[k]])
      <4>1. CASE k < mig[p].lane BY <1>1, <4>1 DEF SchemaInv, Passed
      <4>2. CASE k = mig[p].lane BY <1>1, <2>1, <4>2, LaneAtHead
      <4>3. mig[p].lane = Len(LaneOrder) BY <2>1
      <4>4. k < mig[p].lane \/ k = mig[p].lane BY <1>4, <4>3
      <4>5. QED BY <4>1, <4>2, <4>4
    <3>2. QED BY <3>1, Lanes1 DEF HasAll
  <2>4. CASE mig[p].pass = "first pass"
    <3>1. PICK m \in Run : /\ mig' = [mig EXCEPT ![p] = m] /\ m.phase = "generate"
                           /\ m.code = mig[p].code /\ m.pass = mig[p].pass
                           /\ m.lane = mig[p].lane /\ m.at = mig[p].at
      <4> DEFINE n == [mig[p] EXCEPT !.phase = "generate"]
      <4>1. n \in Run BY <1>1 DEF Run
      <4>2. /\ n.code = mig[p].code /\ n.pass = mig[p].pass /\ n.phase = "generate"
            /\ n.lane = mig[p].lane /\ n.at = mig[p].at
        BY <1>3
      <4>3. mig' = [mig EXCEPT ![p] = n] BY <1>9, <2>4 DEF LanesDone, Goto
      <4>4. QED BY <4>1, <4>2, <4>3
    <3>2. Passed(m) BY <1>1, <2>4, <3>1 DEF SchemaInv, Passed
    <3>3. Passed(m)' BY <2>2, <3>2, PassedForward DEF SchemaInv
    <3>4. Follows(p, m) BY <3>1 DEF Follows
    <3>5. QED BY <1>1, <1>2, <2>2, <3>1, <3>3, <3>4, OneMigrates
  <2>5. CASE mig[p].pass # "first pass"
    <3>1. PICK m \in Ended : /\ mig' = [mig EXCEPT ![p] = m]
                             /\ \/ m = [phase |-> "done"]
                                \/ m = [phase |-> "idle"] /\ mig[p].pass # "gate"
      BY <1>9, <2>5 DEF LanesDone, Return, Ended, Idle
    <3>2. PICK r \in Release : r = mig[p].code BY <1>3
    <3>3. HasAll(r)' BY <2>2, <2>3, <3>2, HasAllForward DEF SchemaInv
    <3>4. Follows(p, m) BY <3>1, <3>2, <3>3 DEF Follows
    <3>5. QED BY <1>1, <1>2, <2>1, <3>1, <3>4, Idles
  <2>6. QED BY <2>4, <2>5
<1>10. CASE GenerateRevision(p) \/ NothingGenerated(p)
  <2>1. /\ mig[p].phase = "generate" /\ recorded' = recorded
        /\ projectHead' = projectHead \/ projectHead' = projectHead + 1
        /\ mig' = [mig EXCEPT ![p] = [mig[p] EXCEPT !.phase = "check", !.pass = "second pass", !.lane = 0]]
    BY <1>10 DEF GenerateRevision, NothingGenerated, SecondPass, At
  <2>2. mig[p].pass = "first pass" BY <1>1, <2>1 DEF SchemaInv, Passed
  <2>3. recorded \in [Lane -> Nat] /\ projectHead \in Nat BY DEF SchemaInv, SchemaTypes
  <2>4. Forward /\ projectHead' \in Nat BY <2>1, <2>3 DEF Forward
  <2>5. PICK m \in Run : /\ mig' = [mig EXCEPT ![p] = m] /\ m.phase = "check"
                         /\ m.code = mig[p].code /\ m.lane = 0
    <3> DEFINE n == [mig[p] EXCEPT !.phase = "check", !.pass = "second pass", !.lane = 0]
    <3>0. 0 \in 0..Len(LaneOrder) BY <1>4
    <3>1. n \in Run BY <1>1, <3>0 DEF Run
    <3>2. n.phase = "check" /\ n.code = mig[p].code /\ n.lane = 0 BY <1>3
    <3>3. QED BY <2>1, <3>1, <3>2
  <2>6. Passed(m)' BY <2>5 DEF Passed
  <2>7. Follows(p, m) BY <2>2, <2>5 DEF Follows
  <2>8. QED BY <1>1, <1>2, <2>4, <2>5, <2>6, <2>7, OneMigrates
<1>11. QED BY <1>5, <1>6, <1>7, <1>8, <1>9, <1>10 DEF MigrateStep, Migrate

Beyond(q) == parts[q] # {} \/ pc[q] \in {"mount", "jobs", "web", "telegram", "serving"}

\* What neither migrates nor comes out of the gate.
LEMMA Quiet ==
  ASSUME SchemaInv, LifeTypes', UNCHANGED <<recorded, projectHead, mig, code>>,
         release' \in Release,
         \A q \in Instance : /\ pc'[q] = "gate" => pc[q] = "gate"
                             /\ Beyond(q)' => Beyond(q)
  PROVE  SchemaInv'
<1> USE DEF SchemaInv
<1>1. SchemaTypes' BY DEF SchemaTypes, LifeTypes
<1>2. \A m \in Migrator : Passed(mig[m])' BY DEF Passed, Has
<1>3. \A q \in Instance : AtGate(q)' BY DEF AtGate, HasAll, Has
<1>4. \A q \in Instance : BeyondGate(q)' BY DEF BeyondGate, HasAll, Has, Beyond
<1>5. QED BY <1>1, <1>2, <1>3, <1>4

LEMMA QuietSteps ==
  ASSUME SchemaInv, LifeInv, LifeInv', NEW p \in Instance,
         \/ MountServer(p) \/ AddTools(p) \/ StartJobs(p) \/ StartWeb(p) \/ StartTelegram(p)
         \/ WithoutTelegram(p) \/ StartFails(p) \/ StopSeen(p) \/ StopTelegram(p) \/ StopWeb(p)
         \/ Drained(p) \/ StopJobs(p) \/ StopRuntime(p) \/ ReleaseLock(p) \/ Signal(p) \/ Cancel(p)
  PROVE  SchemaInv'
<1> USE DEF LifeInv, LifeTypes
<1>1. UNCHANGED <<recorded, projectHead, mig, code, release>>
  BY DEF MountServer, AddTools, StartJobs, StartWeb, StartTelegram, StartPart, WithoutTelegram,
         StartFails, StopSeen, StopTelegram, StopWeb, StopPart, Drained, StopJobs, StopRuntime,
         ReleaseLock, Signal, Cancel, migrationVars
<1>2. ASSUME NEW q \in Instance, q # p PROVE pc'[q] = pc[q] /\ parts'[q] = parts[q]
  <2>1. CASE MountServer(p) \/ StartJobs(p) \/ StartWeb(p) \/ StartTelegram(p)
    <3>1. CASE MountServer(p) BY <3>1 DEF MountServer
    <3>2. ASSUME NEW part \in Part, NEW place, NEW next, StartPart(p, part, place, next)
          PROVE  pc'[q] = pc[q] /\ parts'[q] = parts[q]
      BY <1>2, <3>2 DEF StartPart, From
    <3>3. QED BY <2>1, <3>1, <3>2 DEF StartJobs, StartWeb, StartTelegram
  <2>2. CASE AddTools(p) \/ WithoutTelegram(p) \/ StartFails(p)
    <3>1. \E place \in Places : pc' = [pc EXCEPT ![p] = place]
      <4>1. CASE AddTools(p) BY <4>1 DEF AddTools, Unwind, From
      <4>2. CASE WithoutTelegram(p) BY <4>2 DEF WithoutTelegram, From
      <4>3. CASE StartFails(p) BY <4>3 DEF StartFails, Unwind, From
      <4>4. QED BY <2>2, <4>1, <4>2, <4>3
    <3>2. UNCHANGED parts BY <2>2 DEF AddTools, WithoutTelegram, StartFails
    <3>3. QED BY <1>2, <3>1, <3>2
  <2>3. CASE StopSeen(p) \/ StopTelegram(p) \/ StopWeb(p) \/ Drained(p) \/ StopJobs(p)
             \/ StopRuntime(p) \/ ReleaseLock(p) \/ Signal(p)
    BY <1>2, <2>3 DEF StopSeen, StopTelegram, StopWeb, StopPart, Drained, StopJobs, StopRuntime,
                      ReleaseLock, Signal, Unwind, From
  <2>4. CASE Cancel(p)
    BY <1>2, <2>4 DEF Cancel, CancelStart, CancelTelegram, CancelMount, CancelDrain, CancelStop,
                      Unwind, From
  <2>5. QED BY <2>1, <2>2, <2>3, <2>4
<1>3. pc'[p] = pc[p] \/ pc'[p] \notin {"gate", "mount"}
  <2>1. CASE MountServer(p) \/ AddTools(p) \/ StartJobs(p) \/ StartWeb(p) \/ StartTelegram(p)
             \/ WithoutTelegram(p) \/ StartFails(p)
    BY <2>1 DEF MountServer, AddTools, StartJobs, StartWeb, StartTelegram, StartPart,
                WithoutTelegram, StartFails, Unwind, From
  <2>2. CASE StopSeen(p) \/ StopTelegram(p) \/ StopWeb(p) \/ Drained(p) \/ StopJobs(p)
             \/ StopRuntime(p) \/ ReleaseLock(p) \/ Signal(p)
    BY <2>2 DEF StopSeen, StopTelegram, StopWeb, StopPart, Drained, StopJobs, StopRuntime,
                ReleaseLock, Signal, Unwind, From
  <2>3. CASE Cancel(p)
    BY <2>3 DEF Cancel, CancelStart, CancelTelegram, CancelMount, CancelDrain, CancelStop,
                Unwind, From
  <2>4. QED BY <2>1, <2>2, <2>3
<1>4. Beyond(p)' => Beyond(p)
  <2>1. CASE MountServer(p) \/ AddTools(p) \/ StartJobs(p) \/ StartWeb(p) \/ StartTelegram(p)
             \/ WithoutTelegram(p) \/ StartFails(p)
    BY <2>1 DEF MountServer, AddTools, StartJobs, StartWeb, StartTelegram, StartPart,
                WithoutTelegram, StartFails, Unwind, From, Beyond
  <2>2. CASE StopTelegram(p) \/ StopWeb(p) \/ StopJobs(p)
    <3>1. pc'[p] \in {"stop web", "drain", "stop runtime"}
      BY <2>2 DEF StopTelegram, StopWeb, StopPart, StopJobs, From
    <3>2. PICK gone \in SUBSET Part :
            parts' = parts \/ parts' = [parts EXCEPT ![p] = @ \ gone]
      BY <2>2 DEF StopTelegram, StopWeb, StopPart, StopJobs
    <3>3. parts'[p] = parts[p] \/ parts'[p] = parts[p] \ gone BY <3>2
    <3>4. QED BY <3>1, <3>3 DEF Beyond
  <2>3. CASE StopSeen(p) \/ Drained(p) \/ StopRuntime(p) \/ ReleaseLock(p) \/ Signal(p)
    BY <2>3 DEF StopSeen, Drained, StopRuntime, ReleaseLock, Signal, Unwind, From, Beyond
  <2>4. CASE Cancel(p)
    <3>1. CASE CancelStart(p) \/ CancelMount(p) \/ CancelStop(p)
      BY <3>1 DEF CancelStart, CancelMount, CancelStop, Unwind, From, Beyond
    <3>2. CASE CancelTelegram(p)
      <4>1. pc[p] = "telegram" BY <3>2 DEF CancelTelegram, Unwind, From
      <4>2. QED BY <4>1 DEF Beyond
    <3>3. CASE CancelDrain(p)
      <4>1. pc'[p] \in {"stop jobs", "stop runtime"} BY <3>3 DEF CancelDrain, From
      <4>2. parts' = parts \/ parts' = [parts EXCEPT ![p] = @ \ {"jobs"}] BY <3>3 DEF CancelDrain
      <4>3. parts'[p] = parts[p] \/ parts'[p] = parts[p] \ {"jobs"} BY <4>2
      <4>4. QED BY <4>1, <4>3 DEF Beyond
    <3>4. QED BY <2>4, <3>1, <3>2, <3>3 DEF Cancel
  <2>5. QED BY <2>1, <2>2, <2>3, <2>4
<1>5. release' \in Release BY <1>1 DEF SchemaInv, SchemaTypes
<1>6. \A q \in Instance : pc'[q] = "gate" => pc[q] = "gate" BY <1>2, <1>3
<1>7. \A q \in Instance : Beyond(q)' => Beyond(q) BY <1>2, <1>4 DEF Beyond
<1>8. QED BY <1>1, <1>5, <1>6, <1>7, Quiet

\* A process that has done with migrating: of its own accord or not.
LEMMA Forgotten ==
  ASSUME SchemaInv, LifeTypes', NEW p \in Migrator,
         mig' = [mig EXCEPT ![p] = [phase |-> "idle"]], UNCHANGED <<recorded, projectHead, release>>,
         code' \in [Instance -> [release : Release \cup {"none"}, auto : BOOLEAN]],
         \A q \in Instance \ {p} : code'[q] = code[q] /\ pc'[q] = pc[q] /\ parts'[q] = parts[q],
         p \in Instance => /\ pc'[p] # "gate"
                           /\ Beyond(p)' =>
                                code'[p] = code[p] /\ code[p].release \in Release
                                /\ HasAll(code[p].release)
  PROVE  SchemaInv'
<1> USE DEF SchemaInv
<1>1. mig' \in [Migrator -> Run \cup Ended]
  <2>1. [phase |-> "idle"] \in Ended BY DEF Ended
  <2>2. QED BY <2>1 DEF SchemaTypes
<1>2. SchemaTypes' BY <1>1 DEF SchemaTypes, LifeTypes
<1>3. ASSUME NEW q \in Migrator PROVE Passed(mig[q])'
  <2>1. CASE q = p
    <3>1. mig'[q] = [phase |-> "idle"] BY <2>1 DEF SchemaTypes
    <3>2. [phase |-> "idle"] \notin Run BY DEF Run
    <3>3. QED BY <3>1, <3>2 DEF Passed
  <2>2. CASE q # p
    <3>1. mig'[q] = mig[q] BY <2>2 DEF SchemaTypes
    <3>2. Passed(mig[q]) OBVIOUS
    <3>3. QED BY <3>1, <3>2 DEF Passed, Has
  <2>3. QED BY <2>1, <2>2
<1>4. ASSUME NEW q \in Instance PROVE AtGate(q)'
  <2>1. CASE q = p BY <2>1 DEF AtGate
  <2>2. CASE q # p
    <3>1. mig'[q] = mig[q] BY <2>2 DEF SchemaTypes
    <3>2. AtGate(q) OBVIOUS
    <3>3. QED BY <2>2, <3>1, <3>2 DEF AtGate, HasAll, Has
  <2>3. QED BY <2>1, <2>2
<1>5. ASSUME NEW q \in Instance PROVE BeyondGate(q)'
  <2>1. CASE q = p BY <2>1 DEF BeyondGate, Beyond, HasAll, Has
  <2>2. CASE q # p
    <3>1. BeyondGate(q) OBVIOUS
    <3>2. QED BY <2>2, <3>1 DEF BeyondGate, HasAll, Has
  <2>3. QED BY <2>1, <2>2
<1>6. QED BY <1>2, <1>3, <1>4, <1>5

\* A pass that has not begun claims nothing.
LEMMA Fresh ==
  ASSUME NEW q, mig'[q].lane = 0, mig'[q].phase = "check"
  PROVE  Passed(mig[q])'
<1>1. \A k \in 1..Len(LaneOrder) : ~(k < 0) BY Lanes1
<1>2. QED BY <1>1 DEF Passed

LEMMA GateSteps ==
  ASSUME SchemaInv, LifeInv, LifeInv', NEW p \in Instance,
         \/ Acquire(p) \/ PassGate(p) \/ RefuseToStart(p) \/ Exit(p) \/ Crash(p)
  PROVE  SchemaInv'
<1>1. p \in Migrator /\ LifeTypes' BY DEF LifeInv
<1>2. CASE PassGate(p)
  <2>1. /\ pc[p] = "gate" /\ pc' = [pc EXCEPT ![p] = "mount"] /\ GateOpen(p)
        /\ mig' = [mig EXCEPT ![p] = [phase |-> "idle"]]
        /\ UNCHANGED <<recorded, projectHead, release, code, parts>>
    BY <1>2 DEF PassGate, From, Idle
  <2>2. AtGate(p) /\ code[p].release \in Release BY <2>1 DEF SchemaInv, AtGate
  <2>3. HasAll(code[p].release)
    <3>1. CASE code[p].auto
      <4>1. mig[p].phase = "done" BY <2>1, <3>1 DEF GateOpen, At
      <4>2. mig[p] \notin Run /\ mig[p] # [phase |-> "failed"]
        <5>1. mig[p] \in Run => mig[p].phase # "done" BY DEF Run
        <5>2. QED BY <4>1, <5>1
      <4>3. QED BY <2>1, <2>2, <3>1, <4>2 DEF AtGate
    <3>2. CASE ~code[p].auto
      <4>1. recorded = HeadsFor(code[p].release) BY <2>1, <3>2 DEF GateOpen, Pending
      <4>2. ASSUME NEW l \in Lane, l # Project PROVE recorded[l] >= Heads[code[p].release][l]
        <5>1. recorded[l] = Heads[code[p].release][l] BY <4>1, <4>2 DEF HeadsFor
        <5>2. Heads[code[p].release][l] \in Nat BY <2>2, HeadsType
        <5>3. QED BY <5>1, <5>2
      <4>3. QED BY <4>2 DEF HasAll, Has
    <3>3. QED BY <3>1, <3>2
  <2>4. code' \in [Instance -> [release : Release \cup {"none"}, auto : BOOLEAN]]
    BY <2>1 DEF SchemaInv, SchemaTypes
  <2>5. \A q \in Instance \ {p} : code'[q] = code[q] /\ pc'[q] = pc[q] /\ parts'[q] = parts[q]
    BY <2>1 DEF SchemaInv, SchemaTypes
  <2>6. pc'[p] = "mount" BY <2>1 DEF SchemaInv, SchemaTypes
  <2>7. QED BY <1>1, <2>1, <2>2, <2>3, <2>4, <2>5, <2>6, Forgotten
<1>3. CASE RefuseToStart(p)
  <2>1. /\ pc[p] = "gate" /\ pc' = [pc EXCEPT ![p] = "stop telegram"]
        /\ mig' = [mig EXCEPT ![p] = [phase |-> "idle"]]
        /\ UNCHANGED <<recorded, projectHead, release, code, parts>>
    BY <1>3 DEF RefuseToStart, Unwind, From, Idle
  <2>2. /\ code' \in [Instance -> [release : Release \cup {"none"}, auto : BOOLEAN]]
        /\ \A q \in Instance \ {p} : code'[q] = code[q] /\ pc'[q] = pc[q] /\ parts'[q] = parts[q]
        /\ pc'[p] = "stop telegram"
    BY <2>1 DEF SchemaInv, SchemaTypes
  <2>3. Beyond(p)' => code[p].release \in Release /\ HasAll(code[p].release)
    <3>1. BeyondGate(p) BY DEF SchemaInv
    <3>2. QED BY <2>1, <2>2, <3>1 DEF Beyond, BeyondGate
  <2>4. QED BY <1>1, <2>1, <2>2, <2>3, Forgotten
<1>4. CASE Exit(p) \/ Crash(p)
  <2>1. /\ pc' = [pc EXCEPT ![p] = "off"] /\ parts' = [parts EXCEPT ![p] = {}]
        /\ code' = [code EXCEPT ![p] = NoCode]
        /\ mig' = [mig EXCEPT ![p] = [phase |-> "idle"]]
        /\ UNCHANGED <<recorded, projectHead, release>>
    BY <1>4 DEF Exit, Crash, Dies, Gone, Idle
  <2>2. NoCode \in [release : Release \cup {"none"}, auto : BOOLEAN] BY DEF NoCode
  <2>3. code \in [Instance -> [release : Release \cup {"none"}, auto : BOOLEAN]]
        /\ pc \in [Instance -> Places] /\ parts \in [Instance -> SUBSET Part]
    BY DEF SchemaInv, SchemaTypes
  <2>4. code' \in [Instance -> [release : Release \cup {"none"}, auto : BOOLEAN]]
    BY <2>1, <2>2, <2>3
  <2>5. /\ \A q \in Instance \ {p} : code'[q] = code[q] /\ pc'[q] = pc[q] /\ parts'[q] = parts[q]
        /\ pc'[p] = "off" /\ parts'[p] = {}
    BY <2>1, <2>3
  <2>6. ~Beyond(p)' BY <2>5 DEF Beyond
  <2>7. QED BY <1>1, <2>1, <2>4, <2>5, <2>6, Forgotten
<1>5. CASE Acquire(p)
  <2>1. PICK auto \in AutoMigrate :
          /\ code' = [code EXCEPT ![p] = [release |-> release, auto |-> auto]]
          /\ IF auto THEN Begin(p, release, "gate") ELSE UNCHANGED mig
    BY <1>5 DEF Acquire
  <2>2. /\ pc[p] = "off" /\ pc' = [pc EXCEPT ![p] = "gate"]
        /\ UNCHANGED <<recorded, projectHead, release, parts>>
    BY <1>5 DEF Acquire, From
  <2>3. /\ code \in [Instance -> [release : Release \cup {"none"}, auto : BOOLEAN]]
        /\ pc \in [Instance -> Places] /\ mig \in [Migrator -> Run \cup Ended]
        /\ release \in Release /\ auto \in BOOLEAN
    BY DEF SchemaInv, SchemaTypes
  <2> DEFINE m == [phase |-> "check", code |-> release, pass |-> "gate", taken |-> FALSE,
                   lane |-> 0, at |-> 0]
  <2>4. m \in Run
    <3>1. Len(LaneOrder) \in Nat BY Lanes1
    <3>2. 0 \in 0..Len(LaneOrder) BY <3>1
    <3>3. QED BY <2>3, <3>2 DEF Run
  <2>5. mig' = IF auto THEN [mig EXCEPT ![p] = m] ELSE mig BY <2>1 DEF Begin
  <2>6. /\ code' \in [Instance -> [release : Release \cup {"none"}, auto : BOOLEAN]]
        /\ code'[p] = [release |-> release, auto |-> auto]
        /\ \A q \in Instance \ {p} : code'[q] = code[q] /\ pc'[q] = pc[q]
    BY <2>1, <2>2, <2>3
  <2>20. m.pass = "gate" /\ m.code = release /\ m.lane = 0 /\ m.phase = "check" OBVIOUS
  <2> HIDE DEF m
  <2>7. /\ mig' \in [Migrator -> Run \cup Ended]
        /\ auto => mig'[p] = m
        /\ \A q \in Migrator \ {p} : mig'[q] = mig[q]
        /\ ~auto => mig' = mig
    BY <2>3, <2>4, <2>5
  <2>8. SchemaTypes' BY <2>2, <2>3, <2>6, <2>7 DEF SchemaInv, SchemaTypes
  <2>9. ASSUME NEW q \in Migrator PROVE Passed(mig[q])'
    <3>1. CASE mig'[q] = mig[q]
      <4>1. Passed(mig[q]) BY DEF SchemaInv
      <4>2. QED BY <2>2, <3>1, <4>1 DEF Passed, Has
    <3>2. CASE mig'[q] = m BY Fresh, <2>20, <3>2
    <3>3. mig'[q] = mig[q] \/ mig'[q] = m BY <2>5, <2>7
    <3>4. QED BY <3>1, <3>2, <3>3
  <2>10. ASSUME NEW q \in Instance PROVE AtGate(q)'
    <3>1. CASE q = p
      <4>0. code'[p] = [release |-> release, auto |-> auto] BY <2>6
      <4>1. code'[p].release = release /\ code'[p].auto = auto BY <4>0
      <4>2. auto => mig'[p] \in Run /\ mig'[p].pass = "gate" /\ mig'[p].code = release
        BY <2>4, <2>7, <2>20
      <4>3. QED BY <2>3, <3>1, <4>1, <4>2 DEF AtGate
    <3>2. CASE q # p
      <4>1. AtGate(q) BY DEF SchemaInv
      <4>2. mig'[q] = mig[q] BY <2>7, <3>2
      <4>3. QED BY <2>2, <2>6, <3>2, <4>1, <4>2 DEF AtGate, HasAll, Has
    <3>3. QED BY <3>1, <3>2
  <2>11. ASSUME NEW q \in Instance PROVE BeyondGate(q)'
    <3>1. CASE q = p
      <4>1. pc'[p] = "gate" BY <2>2, <2>3
      <4>2. Life(p) BY DEF LifeInv
      <4>3. parts'[p] = {} BY <2>2, <4>2 DEF Life
      <4>4. QED BY <3>1, <4>1, <4>3 DEF BeyondGate
    <3>2. CASE q # p
      <4>1. BeyondGate(q) BY DEF SchemaInv
      <4>2. QED BY <2>2, <2>6, <3>2, <4>1 DEF BeyondGate, HasAll, Has
    <3>3. QED BY <3>1, <3>2
  <2>12. QED BY <2>8, <2>9, <2>10, <2>11 DEF SchemaInv
<1>6. QED BY <1>2, <1>3, <1>4, <1>5

LEMMA CommandSteps ==
  ASSUME SchemaInv, LifeInv', NEW c \in Command, RunCommand(c) \/ CommandDies(c)
  PROVE  SchemaInv'
<1>1. c \in Migrator /\ c \notin Instance /\ LifeTypes' BY DEF LifeInv
<1>2. UNCHANGED <<recorded, projectHead, release, pc, code, parts>>
  BY DEF RunCommand, CommandDies, Dies, serveVars
<1>3. CASE CommandDies(c)
  <2>1. mig' = [mig EXCEPT ![c] = [phase |-> "idle"]] BY <1>3 DEF CommandDies, Dies, Idle
  <2>2. code' \in [Instance -> [release : Release \cup {"none"}, auto : BOOLEAN]]
    BY <1>2 DEF SchemaInv, SchemaTypes
  <2>3. QED BY <1>1, <1>2, <2>1, <2>2, Forgotten
<1>4. CASE RunCommand(c)
  <2> DEFINE m == [phase |-> "check", code |-> release, pass |-> "first pass", taken |-> FALSE,
                   lane |-> 0, at |-> 0]
  <2>1. mig' = [mig EXCEPT ![c] = m] BY <1>4 DEF RunCommand, Begin
  <2>2. m \in Run /\ m.lane = 0 /\ m.phase = "check"
    <3>1. Len(LaneOrder) \in Nat BY Lanes1
    <3>2. 0 \in 0..Len(LaneOrder) BY <3>1
    <3>3. release \in Release BY DEF SchemaInv, SchemaTypes
    <3>4. QED BY <3>2, <3>3 DEF Run
  <2> HIDE DEF m
  <2>3. /\ mig' \in [Migrator -> Run \cup Ended]
        /\ mig'[c] = m
        /\ \A q \in Migrator \ {c} : mig'[q] = mig[q]
    BY <1>1, <2>1, <2>2 DEF SchemaInv, SchemaTypes
  <2>4. SchemaTypes' BY <1>2, <2>3 DEF SchemaInv, SchemaTypes
  <2>5. ASSUME NEW q \in Migrator PROVE Passed(mig[q])'
    <3>1. CASE q = c BY <2>2, <2>3, <3>1, Fresh
    <3>2. CASE q # c
      <4>1. Passed(mig[q]) /\ mig'[q] = mig[q] BY <2>3, <3>2 DEF SchemaInv
      <4>2. QED BY <1>2, <4>1 DEF Passed, Has
    <3>3. QED BY <3>1, <3>2
  <2>6. ASSUME NEW q \in Instance PROVE AtGate(q)' /\ BeyondGate(q)'
    <3>1. mig'[q] = mig[q] BY <1>1, <2>3
    <3>2. AtGate(q) /\ BeyondGate(q) BY DEF SchemaInv
    <3>3. QED BY <1>2, <3>1, <3>2 DEF AtGate, BeyondGate, HasAll, Has
  <2>7. QED BY <2>4, <2>5, <2>6 DEF SchemaInv
<1>5. QED BY <1>3, <1>4

LEMMA SchemaStep == LifeInv /\ LifeInv' /\ SchemaInv /\ [Next]_vars => SchemaInv'
<1> SUFFICES ASSUME LifeInv, LifeInv', SchemaInv, [Next]_vars PROVE SchemaInv' OBVIOUS
<1>1. ASSUME NEW p \in Instance,
             Acquire(p) \/ ServeStep(p) \/ Signal(p) \/ Cancel(p) \/ Crash(p)
      PROVE  SchemaInv'
  <2>1. CASE Acquire(p) \/ PassGate(p) \/ RefuseToStart(p) \/ Exit(p) \/ Crash(p)
    BY <2>1, GateSteps
  <2>2. CASE \/ MountServer(p) \/ AddTools(p) \/ StartJobs(p) \/ StartWeb(p) \/ StartTelegram(p)
             \/ WithoutTelegram(p) \/ StartFails(p) \/ StopSeen(p) \/ StopTelegram(p) \/ StopWeb(p)
             \/ Drained(p) \/ StopJobs(p) \/ StopRuntime(p) \/ ReleaseLock(p) \/ Signal(p) \/ Cancel(p)
    BY <2>2, QuietSteps
  <2>3. QED BY <1>1, <2>1, <2>2 DEF ServeStep
<1>2. ASSUME NEW c \in Command, RunCommand(c) \/ CommandDies(c) PROVE SchemaInv'
  BY <1>2, CommandSteps
<1>3. ASSUME NEW p \in Migrator, MigrateStep(p) PROVE SchemaInv' BY <1>3, Migrates
<1>4. ASSUME UNCHANGED <<recorded, projectHead, mig, code, pc, parts>>, release' \in Release
      PROVE  SchemaInv'
  BY <1>4, Quiet DEF LifeInv, Beyond
<1>5. CASE Deploy \/ WriteData \/ UNCHANGED vars
  <2>1. UNCHANGED <<recorded, projectHead, mig, code, pc, parts>>
    BY <1>5 DEF Deploy, WriteData, Write, vars, serveVars, migrationVars
  <2>2. release' \in Release
    <3>1. release \in Release BY DEF SchemaInv, SchemaTypes
    <3>2. QED BY <1>5, <3>1 DEF Deploy, WriteData, vars, serveVars
  <2>3. QED BY <1>4, <2>1, <2>2
<1>6. QED BY <1>1, <1>2, <1>3, <1>5 DEF Next

\* Work is taken only over a schema that has every revision the program ships,
\* whichever process applied it, in whatever order the lanes failed before.
THEOREM NeverBehindSchema == Spec => []NeverBehind
<1>1. SchemaInv => NeverBehind
  <2> SUFFICES ASSUME SchemaInv, NEW p \in Instance, parts[p] # {}, NEW l \in Lane \ {Project}
               PROVE  recorded[l] >= Heads[code[p].release][l]
    BY DEF NeverBehind
  <2>1. HasAll(code[p].release) BY DEF SchemaInv, BeyondGate
  <2>2. QED BY <2>1 DEF HasAll, Has
<1>2. QED BY <1>1, InitSchema, SchemaStep, LifeAlways, PTL DEF Spec


--------------------------------------------------------------------------------
(* What can be undone.  Until a complete copy of a release exists, nobody has *)
(* had a reason to skip the copy but a schema that is not pending.            *)

CopySet ==
  {Torn} \cup {Copying(p) : p \in Migrator}
    \cup [status : {"done"}, state : [Lane -> Nat], data : Nat]

UndoTypes == backups \in Seq(CopySet) /\ data \in Nat

AtFirst == \A l \in Lane \ {Project} : recorded[l] = Heads[First][l]

\* A run that changed nothing a release shipped, and cannot without a copy.
Harmless(p) ==
  mig[p] \in Run =>
    /\ ~mig[p].taken
    /\ mig[p].phase = "copy" => \E i \in DOMAIN backups : backups[i] = Copying(p)
    /\ mig[p].phase = "apply" =>
         \A l \in Lane \ {Project} : Heads[mig[p].code][l] = Heads[First][l]

Untouched == AtFirst /\ \A p \in Migrator : Harmless(p)

UndoInv == UndoTypes /\ (Saved \/ Untouched \/ Len(backups) >= Kept)

LEMMA UndoKept == UndoInv => UndoExists
<1>1. AtFirst => AtRelease(recorded) BY MigrationsAssumption DEF AtFirst, AtRelease
<1>2. QED BY <1>1 DEF UndoInv, Untouched, UndoExists

LEMMA InitUndo == Init => UndoInv
<1> SUFFICES ASSUME Init PROVE UndoInv OBVIOUS
<1> USE DEF Init, MigrationsInit
<1>1. UndoTypes BY DEF UndoTypes
<1>2. AtFirst BY DEF AtFirst
<1>3. \A p \in Migrator : mig[p] \notin Run BY NotRun DEF Idle, Ended
<1>4. QED BY <1>1, <1>2, <1>3 DEF UndoInv, Untouched, Harmless

\* A step of p keeps the copies there are and those others are taking, but
\* for what the prune takes when every place is used.
Keeps(p) ==
  Len(backups') < Kept =>
    /\ Len(backups) < Kept
    /\ \A i \in DOMAIN backups :
         backups[i].status = "done" \/ (\E q \in Migrator \ {p} : backups[i] = Copying(q)) =>
           i \in DOMAIN backups' /\ backups'[i] = backups[i]

LEMMA TurnedFacts ==
  ASSUME NEW copies \in Seq(CopySet), NEW p \in Migrator, NEW into \in CopySet
  PROVE  /\ Turned(copies, p, into) \in Seq(CopySet)
         /\ Len(Turned(copies, p, into)) = Len(copies)
         /\ DOMAIN Turned(copies, p, into) = DOMAIN copies
         /\ \A i \in DOMAIN copies :
              Turned(copies, p, into)[i] = IF copies[i] = Copying(p) THEN into ELSE copies[i]
<1>1. Len(copies) \in Nat /\ DOMAIN copies = 1..Len(copies) BY LenProperties
<1>2. \A i \in DOMAIN copies : copies[i] \in CopySet BY <1>1, ElementOfSeq
<1>3. Turned(copies, p, into) = [i \in 1..Len(copies) |-> IF copies[i] = Copying(p) THEN into ELSE copies[i]]
  BY <1>1 DEF Turned
<1>4. \A i \in 1..Len(copies) : (IF copies[i] = Copying(p) THEN into ELSE copies[i]) \in CopySet
  BY <1>1, <1>2
<1>5. Turned(copies, p, into) \in Seq(CopySet) BY <1>1, <1>3, <1>4, SeqDef
<1>6. QED BY <1>1, <1>3, <1>5, LenProperties

LEMMA Kinds ==
  ASSUME NEW p \in Migrator
  PROVE  /\ Copying(p).status # "done" /\ Torn.status # "done"
         /\ \A q \in Migrator \ {p} : Copying(q) # Copying(p)
         /\ Torn \in CopySet /\ Copying(p) \in CopySet
<1>1. \A q \in Migrator : Copying(q).owner = q BY DEF Copying
<1>2. QED BY <1>1 DEF Copying, Torn, CopySet

LEMMA Pruned ==
  ASSUME NEW copies \in Seq(CopySet)
  PROVE  /\ PruneBackups(copies) \in Seq(CopySet)
         /\ Len(PruneBackups(copies)) < Kept => PruneBackups(copies) = copies
<1>1. Len(copies) \in Nat /\ Kept \in Nat /\ Kept > 0 BY MigrationsAssumption, LenProperties
<1>2. CASE Len(copies) > Kept
  <2>1. PruneBackups(copies) = SubSeq(copies, Len(copies) - Kept + 1, Len(copies))
    BY <1>2 DEF PruneBackups
  <2>2. Len(copies) - Kept + 1 \in 1..Len(copies) + 1 /\ Len(copies) \in Nat BY <1>1, <1>2
  <2>3. /\ SubSeq(copies, Len(copies) - Kept + 1, Len(copies)) \in Seq(CopySet)
        /\ Len(SubSeq(copies, Len(copies) - Kept + 1, Len(copies))) = Kept
    BY <1>1, <1>2, SubSeqProperties
  <2>4. QED BY <1>1, <2>1, <2>3
<1>3. CASE ~(Len(copies) > Kept) BY <1>3 DEF PruneBackups
<1>4. QED BY <1>2, <1>3

LEMMA CopiesKept ==
  ASSUME UndoTypes, NEW p \in Migrator, NEW into \in CopySet, into.status \in {"done", "torn"},
         \/ backups' = backups
         \/ backups' = Append(backups, Copying(p))
         \/ backups' = Turned(backups, p, into)
         \/ backups' = PruneBackups(Turned(backups, p, into))
  PROVE  backups' \in Seq(CopySet) /\ Keeps(p)
<1>1. backups \in Seq(CopySet) /\ Len(backups) \in Nat /\ DOMAIN backups = 1..Len(backups)
      /\ Kept \in Nat
  BY LenProperties, MigrationsAssumption DEF UndoTypes
<1>2. CASE backups' = backups BY <1>1, <1>2 DEF Keeps
<1>3. CASE backups' = Append(backups, Copying(p))
  <2>1. /\ backups' \in Seq(CopySet) /\ Len(backups') = Len(backups) + 1
        /\ DOMAIN backups' = 1..Len(backups) + 1
        /\ \A i \in 1..Len(backups) : backups'[i] = backups[i]
    BY <1>1, <1>3, Kinds, AppendProperties
  <2>2. QED BY <1>1, <2>1 DEF Keeps
<1>4. ASSUME backups' = Turned(backups, p, into) PROVE backups' \in Seq(CopySet) /\ Keeps(p)
  <2>1. /\ backups' \in Seq(CopySet) /\ Len(backups') = Len(backups)
        /\ DOMAIN backups' = DOMAIN backups
        /\ \A i \in DOMAIN backups :
             backups'[i] = IF backups[i] = Copying(p) THEN into ELSE backups[i]
    <3> DEFINE turned == Turned(backups, p, into)
    <3>1. /\ turned \in Seq(CopySet) /\ Len(turned) = Len(backups) /\ DOMAIN turned = DOMAIN backups
          /\ \A i \in DOMAIN backups :
               turned[i] = IF backups[i] = Copying(p) THEN into ELSE backups[i]
      BY <1>1, TurnedFacts
    <3> HIDE DEF turned
    <3>2. backups' = turned BY <1>4 DEF turned
    <3>3. QED BY <3>1, <3>2
  <2>2. \A i \in DOMAIN backups :
          backups[i].status = "done" \/ (\E q \in Migrator \ {p} : backups[i] = Copying(q)) =>
            backups[i] # Copying(p)
    BY Kinds
  <2>3. QED BY <1>1, <2>1, <2>2 DEF Keeps
<1>5. CASE backups' = PruneBackups(Turned(backups, p, into))
  <2>1. Turned(backups, p, into) \in Seq(CopySet) BY <1>1, TurnedFacts
  <2>2. backups' \in Seq(CopySet) BY <1>5, <2>1, Pruned
  <2>3. Len(backups') < Kept => backups' = Turned(backups, p, into) BY <1>5, <2>1, Pruned
  <2>4. QED BY <1>4, <2>2, <2>3 DEF Keeps
<1>6. QED BY <1>2, <1>3, <1>4, <1>5

LEMMA SavedStays ==
  ASSUME NEW p \in Migrator, Keeps(p), Saved, Len(backups') < Kept
  PROVE  Saved'
<1>1. PICK i \in DOMAIN backups : backups[i].status = "done" /\ AtRelease(backups[i].state)
  BY DEF Saved
<1>2. i \in DOMAIN backups' /\ backups'[i] = backups[i] BY <1>1 DEF Keeps
<1>3. AtRelease(backups'[i].state) BY <1>1, <1>2
<1>4. QED BY <1>1, <1>2, <1>3 DEF Saved, AtRelease

\* What a step of p has to leave behind for the invariant to hold after it.
LEMMA UndoStep ==
  ASSUME UndoInv, NEW p \in Migrator, UndoTypes', Keeps(p),
         \A q \in Migrator \ {p} : mig'[q] = mig[q],
         Untouched /\ Len(backups') < Kept => Saved' \/ (AtFirst' /\ Harmless(p)')
  PROVE  UndoInv'
<1>0. Len(backups') \in Nat /\ Kept \in Nat
  BY LenProperties, MigrationsAssumption DEF UndoTypes
<1> SUFFICES ASSUME Len(backups') < Kept, ~Saved' PROVE Untouched'
  BY <1>0 DEF UndoInv
<1>1. Len(backups) < Kept BY DEF Keeps
<1>2. ~Saved BY SavedStays
<1>3. Len(backups) \in Nat BY LenProperties DEF UndoInv, UndoTypes
<1>4. Untouched BY <1>0, <1>1, <1>2, <1>3 DEF UndoInv
<1>5. AtFirst' /\ Harmless(p)' BY <1>4
<1>6. ASSUME NEW q \in Migrator \ {p} PROVE Harmless(q)'
  <2>1. Harmless(q) /\ mig'[q] = mig[q] BY <1>4 DEF Untouched
  <2>2. ASSUME NEW i \in DOMAIN backups, backups[i] = Copying(q)
        PROVE  i \in DOMAIN backups' /\ backups'[i] = Copying(q)
    BY <2>2 DEF Keeps
  <2>3. QED BY <2>1, <2>2 DEF Harmless
<1>7. QED BY <1>5, <1>6 DEF Untouched

\* The schema as every release has it does not change.
LEMMA FirstStays == AtFirst /\ UNCHANGED recorded => AtFirst'
BY DEF AtFirst

\* A migrator that begins, ends or dies.
LEMMA UndoEnds ==
  ASSUME UndoInv, NEW p \in Migrator, NEW m, mig' = [mig EXCEPT ![p] = m],
         mig \in [Migrator -> Run \cup Ended],
         m \in Run => ~m.taken /\ m.phase = "check",
         backups' = backups \/ backups' = Turned(backups, p, Torn),
         UNCHANGED recorded, data' \in Nat
  PROVE  UndoInv'
<1>1. Torn \in CopySet /\ Torn.status \in {"done", "torn"} BY Kinds DEF Torn
<1>2. backups' \in Seq(CopySet) /\ Keeps(p) BY <1>1, CopiesKept DEF UndoInv
<1>3. UndoTypes' BY <1>2 DEF UndoTypes
<1>4. mig'[p] = m /\ \A q \in Migrator \ {p} : mig'[q] = mig[q] OBVIOUS
<1>5. Harmless(p)' BY <1>4 DEF Harmless
<1>6. QED BY <1>2, <1>3, <1>4, <1>5, FirstStays, UndoStep DEF Untouched

\* Nothing of the migrations happens.
LEMMA UndoRests ==
  ASSUME UndoInv, UNCHANGED <<recorded, backups, mig>>, data' \in Nat
  PROVE  UndoInv'
BY DEF UndoInv, UndoTypes, Saved, AtRelease, Untouched, AtFirst, Harmless

LEMMA LastOf ==
  ASSUME UndoTypes, backups # <<>>
  PROVE  Len(backups) \in DOMAIN backups /\ Last(backups) = backups[Len(backups)]
<1>1. Len(backups) \in Nat /\ DOMAIN backups = 1..Len(backups) /\ Len(backups) # 0
  BY LenProperties, EmptySeq DEF UndoTypes
<1>2. QED BY <1>1 DEF Last

\* The copy is skipped only when there is nothing to apply or a copy exists.
LEMMA UndoSkips ==
  ASSUME SchemaInv, UndoInv, NEW p \in Migrator, SkipBackup(p), mig[p] \in Run
  PROVE  UndoInv'
<1>1. /\ mig' = [mig EXCEPT ![p] = [@ EXCEPT !.phase = "apply"]]
      /\ mig[p].taken \/ ~Pending(mig[p].code) \/ NewestIsCurrent
      /\ UNCHANGED <<recorded, backups, data>>
  BY DEF SkipBackup, Goto
<1>2. mig \in [Migrator -> Run \cup Ended] BY DEF SchemaInv, SchemaTypes
<1>3. /\ mig'[p] = [mig[p] EXCEPT !.phase = "apply"]
      /\ \A q \in Migrator \ {p} : mig'[q] = mig[q]
  BY <1>1, <1>2
<1>4. mig'[p].taken = mig[p].taken /\ mig'[p].code = mig[p].code /\ mig'[p].phase = "apply"
  BY <1>3 DEF Run
<1>5. UndoTypes' BY <1>1 DEF UndoInv, UndoTypes
<1>6. Keeps(p)
  <2>1. Torn \in CopySet /\ Torn.status \in {"done", "torn"} BY Kinds DEF Torn
  <2>2. QED BY <1>1, <2>1, CopiesKept DEF UndoInv
<1>7. ASSUME Untouched PROVE Saved' \/ (AtFirst' /\ Harmless(p)')
  <2>1. AtFirst /\ Harmless(p) /\ ~mig[p].taken BY <1>7 DEF Untouched, Harmless
  <2>2. AtFirst' BY <1>1, <2>1, FirstStays
  <2>3. CASE NewestIsCurrent
    <3>1. /\ backups # <<>> /\ Last(backups).status = "done"
          /\ Last(backups).state = recorded
      BY <2>3 DEF NewestIsCurrent
    <3>2. Len(backups) \in DOMAIN backups /\ Last(backups) = backups[Len(backups)]
      BY <3>1, LastOf DEF UndoInv
    <3>3. AtRelease(recorded) BY <2>1, MigrationsAssumption DEF AtFirst, AtRelease
    <3>4. Saved BY <3>1, <3>2, <3>3 DEF Saved
    <3>5. Saved' BY <1>1, <3>4 DEF Saved, AtRelease
    <3>6. QED BY <3>5
  <2>4. CASE ~Pending(mig[p].code)
    <3>1. \A l \in Lane \ {Project} : recorded[l] = Heads[mig[p].code][l]
      BY <2>4 DEF Pending, HeadsFor
    <3>2. \A l \in Lane \ {Project} : Heads[mig'[p].code][l] = Heads[First][l]
      BY <1>4, <2>1, <3>1 DEF AtFirst
    <3>3. Harmless(p)' BY <1>4, <2>1, <3>2 DEF Harmless
    <3>4. QED BY <2>2, <3>3
  <2>5. QED BY <1>1, <2>1, <2>3, <2>4
<1>8. QED BY <1>3, <1>5, <1>6, <1>7, UndoStep

LEMMA UndoOpens ==
  ASSUME SchemaInv, UndoInv, NEW p \in Migrator, OpenBackup(p), mig[p] \in Run
  PROVE  UndoInv'
<1>1. /\ mig' = [mig EXCEPT ![p] = [@ EXCEPT !.phase = "copy"]]
      /\ backups' = Append(backups, Copying(p))
      /\ ~mig[p].taken
      /\ UNCHANGED <<recorded, data>>
  BY DEF OpenBackup, Goto
<1>2. mig \in [Migrator -> Run \cup Ended] BY DEF SchemaInv, SchemaTypes
<1>3. /\ mig'[p] = [mig[p] EXCEPT !.phase = "copy"]
      /\ \A q \in Migrator \ {p} : mig'[q] = mig[q]
  BY <1>1, <1>2
<1>4. mig'[p].taken = mig[p].taken /\ mig'[p].phase = "copy" BY <1>3 DEF Run
<1>5. backups' \in Seq(CopySet) /\ Keeps(p)
  <2>1. Torn \in CopySet /\ Torn.status \in {"done", "torn"} BY Kinds DEF Torn
  <2>2. QED BY <1>1, <2>1, CopiesKept DEF UndoInv
<1>6. UndoTypes' BY <1>1, <1>5 DEF UndoInv, UndoTypes
<1>7. \E i \in DOMAIN backups' : backups'[i] = Copying(p)
  <2>1. backups \in Seq(CopySet) /\ Copying(p) \in CopySet BY Kinds DEF UndoInv, UndoTypes
  <2>2. Len(backups) \in Nat BY <2>1, LenProperties
  <2>3. DOMAIN backups' = 1..Len(backups) + 1 /\ backups'[Len(backups) + 1] = Copying(p)
    BY <1>1, <2>1, AppendProperties
  <2>4. QED BY <2>2, <2>3
<1>8. Harmless(p)' BY <1>1, <1>4, <1>7 DEF Harmless
<1>9. QED BY <1>1, <1>3, <1>5, <1>6, <1>8, FirstStays, UndoStep DEF Untouched

LEMMA UndoTakes ==
  ASSUME SchemaInv, UndoInv, NEW p \in Migrator, TakeBackup(p), mig[p] \in Run
  PROVE  UndoInv'
<1>1. /\ mig[p].phase = "copy"
      /\ mig' = [mig EXCEPT ![p] = [@ EXCEPT !.phase = "apply", !.taken = TRUE]]
      /\ backups' = PruneBackups(Turned(backups, p, Holding))
      /\ UNCHANGED <<recorded, data>>
  BY DEF TakeBackup, At
<1>2. mig \in [Migrator -> Run \cup Ended] /\ recorded \in [Lane -> Nat]
  BY DEF SchemaInv, SchemaTypes
<1>3. \A q \in Migrator \ {p} : mig'[q] = mig[q] BY <1>1, <1>2
<1>4. Holding \in CopySet /\ Holding.status = "done" /\ Holding.state = recorded
  BY <1>2 DEF Holding, CopySet, UndoInv, UndoTypes
<1>5. backups' \in Seq(CopySet) /\ Keeps(p)
  <2>1. Holding.status \in {"done", "torn"} BY <1>4
  <2>2. QED BY <1>1, <1>4, <2>1, CopiesKept DEF UndoInv
<1>6. UndoTypes' BY <1>1, <1>5 DEF UndoInv, UndoTypes
<1>7. ASSUME Untouched, Len(backups') < Kept PROVE Saved'
  <2> DEFINE turned == Turned(backups, p, Holding)
  <2>1. /\ turned \in Seq(CopySet) /\ DOMAIN turned = DOMAIN backups
        /\ \A i \in DOMAIN backups :
             turned[i] = IF backups[i] = Copying(p) THEN Holding ELSE backups[i]
    BY <1>4, TurnedFacts DEF UndoInv, UndoTypes
  <2> HIDE DEF turned
  <2>2. backups' = turned
    <3>1. backups' = PruneBackups(turned) BY <1>1 DEF turned
    <3>2. QED BY <1>7, <2>1, <3>1, Pruned
  <2>3. PICK i \in DOMAIN backups : backups[i] = Copying(p)
    BY <1>1, <1>7 DEF Untouched, Harmless
  <2>4. i \in DOMAIN backups' /\ backups'[i] = Holding BY <2>1, <2>2, <2>3
  <2>5. AtRelease(recorded) BY <1>7, MigrationsAssumption DEF Untouched, AtFirst, AtRelease
  <2>6. AtRelease(Holding.state) BY <1>4, <2>5
  <2>7. \E r \in Release : \A l \in Lane \ {Project} : backups'[i].state[l] = Heads[r][l]
    BY <2>4, <2>6 DEF AtRelease
  <2>8. QED BY <1>4, <2>4, <2>7 DEF Saved, AtRelease
<1>8. QED BY <1>3, <1>5, <1>6, <1>7, UndoStep

\* A revision a release ships is applied only by a run that has its copy.
LEMMA UndoApplies ==
  ASSUME SchemaInv, SchemaInv', UndoInv, NEW p \in Migrator, ApplyRevision(p), mig[p] \in Run
  PROVE  UndoInv'
<1>1. /\ Applying(p) /\ recorded[CurrentLane(p)] = mig[p].at
      /\ recorded' = [recorded EXCEPT ![CurrentLane(p)] = @ + 1]
      /\ mig' = [mig EXCEPT ![p] = [mig[p] EXCEPT !.at = @ + 1]]
      /\ UNCHANGED <<backups, data>>
  BY DEF ApplyRevision
<1>2. mig \in [Migrator -> Run \cup Ended] /\ recorded \in [Lane -> Nat]
  BY DEF SchemaInv, SchemaTypes
<1>3. /\ mig'[p] = [mig[p] EXCEPT !.at = @ + 1]
      /\ \A q \in Migrator \ {p} : mig'[q] = mig[q]
  BY <1>1, <1>2
<1>4. /\ mig'[p].taken = mig[p].taken /\ mig'[p].code = mig[p].code
      /\ mig'[p].phase = "apply" /\ mig[p].phase = "apply" /\ mig[p].lane \in 1..Len(LaneOrder)
  <2>1. mig[p].phase = "apply" /\ mig[p].lane > 0 BY <1>1 DEF Applying, At
  <2>2. mig[p].lane \in 0..Len(LaneOrder) BY DEF Run
  <2>3. mig[p].lane \in 1..Len(LaneOrder) BY <2>1, <2>2, Lanes1
  <2>4. QED BY <1>3, <2>1, <2>3 DEF Run
<1>5. UndoTypes' BY <1>1 DEF UndoInv, UndoTypes
<1>6. Keeps(p)
  <2>1. Torn \in CopySet /\ Torn.status \in {"done", "torn"} BY Kinds DEF Torn
  <2>2. QED BY <1>1, <2>1, CopiesKept DEF UndoInv
<1>7. ASSUME Untouched PROVE AtFirst' /\ Harmless(p)'
  <2>1. AtFirst /\ Harmless(p) BY <1>7 DEF Untouched
  <2>2. \A l \in Lane \ {Project} : Heads[mig[p].code][l] = Heads[First][l]
    BY <1>4, <2>1 DEF Harmless
  <2>3. CurrentLane(p) \in Lane BY <1>4, Lanes1 DEF CurrentLane
  <2>4. CurrentLane(p) = Project
    <3> SUFFICES ASSUME CurrentLane(p) # Project PROVE FALSE OBVIOUS
    <3>1. Lanes(p)[CurrentLane(p)] = recorded[CurrentLane(p)]
      BY <2>1, <2>2, <2>3 DEF Lanes, HeadsFor, AtFirst
    <3>2. mig[p].at < Lanes(p)[CurrentLane(p)] BY <1>1 DEF Applying
    <3>3. recorded[CurrentLane(p)] \in Nat BY <1>2, <2>3
    <3>4. QED BY <1>1, <3>1, <3>2, <3>3
  <2>5. AtFirst'
    <3>1. \A l \in Lane \ {Project} : recorded'[l] = recorded[l] BY <1>1, <1>2, <2>4
    <3>2. QED BY <2>1, <3>1 DEF AtFirst
  <2>6. Harmless(p)' BY <1>4, <2>1, <2>2 DEF Harmless
  <2>7. QED BY <2>5, <2>6
<1>8. QED BY <1>3, <1>5, <1>6, <1>7, UndoStep

\* The steps between the copies and the revisions.
LEMMA UndoGoesOn ==
  ASSUME SchemaInv, UndoInv, NEW p \in Migrator, mig[p] \in Run,
         EnterLane(p) \/ LanesDone(p) \/ GenerateRevision(p) \/ NothingGenerated(p)
  PROVE  UndoInv'
<1>1. mig \in [Migrator -> Run \cup Ended] BY DEF SchemaInv, SchemaTypes
<1>2. UNCHANGED <<recorded, backups, data>>
  BY DEF EnterLane, LanesDone, GenerateRevision, NothingGenerated
<1>3. PICK m : mig' = [mig EXCEPT ![p] = m]
  BY DEF EnterLane, LanesDone, Goto, Return, GenerateRevision, NothingGenerated, SecondPass
<1>4. mig'[p] = m /\ \A q \in Migrator \ {p} : mig'[q] = mig[q] BY <1>1, <1>3
<1>5. m \in Run => m.taken = mig[p].taken /\ m.code = mig[p].code /\ m.phase # "copy"
                   /\ (m.phase = "apply" => mig[p].phase = "apply")
  <2>1. CASE EnterLane(p)
    <3>1. mig[p].phase = "apply" BY <2>1 DEF EnterLane, LaneFinished, At
    <3>2. m = [mig[p] EXCEPT !.lane = @ + 1, !.at = recorded[FollowingLane(p)]]
      BY <1>1, <1>4, <2>1 DEF EnterLane
    <3>3. QED BY <3>1, <3>2 DEF Run
  <2>2. CASE LanesDone(p)
    <3>1. \/ m = [mig[p] EXCEPT !.phase = "generate"]
          \/ m = [phase |-> "done"]
          \/ m = [phase |-> "idle"]
      BY <1>1, <1>4, <2>2 DEF LanesDone, Goto, Return, Idle
    <3>2. m.phase \in {"generate", "done", "idle"}
      <4>1. CASE m = [mig[p] EXCEPT !.phase = "generate"] BY <4>1 DEF Run
      <4>2. CASE m = [phase |-> "done"] BY <4>2
      <4>3. CASE m = [phase |-> "idle"] BY <4>3
      <4>4. QED BY <3>1, <4>1, <4>2, <4>3
    <3>3. m \in Run => m = [mig[p] EXCEPT !.phase = "generate"]
      BY <3>1, NotRun DEF Ended
    <3>4. [mig[p] EXCEPT !.phase = "generate"].taken = mig[p].taken
          /\ [mig[p] EXCEPT !.phase = "generate"].code = mig[p].code
          /\ [mig[p] EXCEPT !.phase = "generate"].phase = "generate"
      BY DEF Run
    <3>5. QED BY <3>2, <3>3, <3>4
  <2>3. CASE GenerateRevision(p) \/ NothingGenerated(p)
    <3>1. m = [mig[p] EXCEPT !.phase = "check", !.pass = "second pass", !.lane = 0]
      BY <1>1, <1>4, <2>3 DEF GenerateRevision, NothingGenerated, SecondPass
    <3>2. QED BY <3>1 DEF Run
  <2>4. QED BY <2>1, <2>2, <2>3
<1>6. UndoTypes' BY <1>2 DEF UndoInv, UndoTypes
<1>7. Keeps(p)
  <2>1. Torn \in CopySet /\ Torn.status \in {"done", "torn"} BY Kinds DEF Torn
  <2>2. QED BY <1>2, <2>1, CopiesKept DEF UndoInv
<1>8. Harmless(p) => Harmless(p)' BY <1>4, <1>5 DEF Harmless
<1>9. QED BY <1>2, <1>4, <1>6, <1>7, <1>8, FirstStays, UndoStep DEF Untouched

LEMMA UndoMigrates ==
  ASSUME SchemaInv, SchemaInv', UndoInv, NEW p \in Migrator, MigrateStep(p)
  PROVE  UndoInv'
<1>1. mig \in [Migrator -> Run \cup Ended] BY DEF SchemaInv, SchemaTypes
<1>2. mig[p] \in Run
  <2>1. mig[p].phase \in {"check", "copy", "apply", "generate"}
    BY DEF MigrateStep, Migrate, SkipBackup, OpenBackup, TakeBackup, EnterLane, LaneFinished,
           ApplyRevision, Applying, LanesDone, GenerateRevision, NothingGenerated,
           RevisionCollides, MustFail, StepFails, At
  <2>2. QED BY <1>1, <2>1, NotRun
<1>3. CASE RevisionCollides(p) \/ StepFails(p)
  <2>1. /\ Return(p, "failed") /\ backups' = Turned(backups, p, Torn)
        /\ UNCHANGED <<recorded, data>>
    BY <1>3 DEF RevisionCollides, StepFails, GiveUp
  <2>2. PICK m \in Ended : mig' = [mig EXCEPT ![p] = m]
    <3>1. [phase |-> "failed"] \in Ended /\ Idle \in Ended BY DEF Ended, Idle
    <3>2. QED BY <1>1, <2>1, <3>1 DEF Return
  <2>3. m \notin Run BY NotRun
  <2>4. data' \in Nat BY <2>1 DEF UndoInv, UndoTypes
  <2>5. QED BY <1>1, <2>1, <2>2, <2>3, <2>4, UndoEnds
<1>4. QED BY <1>2, <1>3, UndoSkips, UndoOpens, UndoTakes, UndoApplies, UndoGoesOn
      DEF MigrateStep, Migrate

LEMMA UndoNext == SchemaInv /\ SchemaInv' /\ UndoInv /\ [Next]_vars => UndoInv'
<1> SUFFICES ASSUME SchemaInv, SchemaInv', UndoInv, [Next]_vars PROVE UndoInv' OBVIOUS
<1>1. mig \in [Migrator -> Run \cup Ended] /\ data \in Nat
  BY DEF SchemaInv, SchemaTypes, UndoInv, UndoTypes
<1>2. ASSUME NEW p \in Migrator, NEW m,
             mig' = [mig EXCEPT ![p] = m], m \in Run => ~m.taken /\ m.phase = "check",
             backups' = backups \/ backups' = Turned(backups, p, Torn),
             UNCHANGED <<recorded, data>>
      PROVE  UndoInv'
  BY <1>1, <1>2, UndoEnds
<1>3. Idle \notin Run BY NotRun DEF Idle, Ended
<1>4. ASSUME NEW p \in Instance, Acquire(p) PROVE UndoInv'
  <2>1. PICK auto \in AutoMigrate :
          IF auto THEN Begin(p, release, "gate") ELSE UNCHANGED mig
    BY <1>4 DEF Acquire
  <2>2. UNCHANGED <<recorded, data, backups>> BY <1>4 DEF Acquire
  <2>3. CASE auto BY <1>2, <2>1, <2>2, <2>3 DEF Begin
  <2>4. CASE ~auto BY <1>1, <2>1, <2>2, <2>4, UndoRests
  <2>5. QED BY <2>3, <2>4
<1>5. ASSUME NEW p \in Instance, PassGate(p) \/ RefuseToStart(p) \/ Exit(p) \/ Crash(p)
      PROVE  UndoInv'
  <2>1. /\ mig' = [mig EXCEPT ![p] = Idle] /\ UNCHANGED <<recorded, data>>
        /\ backups' = backups \/ backups' = Turned(backups, p, Torn)
    BY <1>5 DEF PassGate, RefuseToStart, Exit, Crash, Dies
  <2>2. QED BY <1>2, <1>3, <2>1
<1>6. ASSUME NEW p \in Instance,
             \/ MountServer(p) \/ AddTools(p) \/ StartJobs(p) \/ StartWeb(p) \/ StartTelegram(p)
             \/ WithoutTelegram(p) \/ StartFails(p) \/ StopSeen(p) \/ StopTelegram(p) \/ StopWeb(p)
             \/ Drained(p) \/ StopJobs(p) \/ StopRuntime(p) \/ ReleaseLock(p) \/ Signal(p) \/ Cancel(p)
      PROVE  UndoInv'
  <2>1. UNCHANGED <<recorded, data, backups, mig>>
    BY <1>6 DEF MountServer, AddTools, StartJobs, StartWeb, StartTelegram, StartPart,
                WithoutTelegram, StartFails, StopSeen, StopTelegram, StopWeb, StopPart, Drained,
                StopJobs, StopRuntime, ReleaseLock, Signal, Cancel, migrationVars
  <2>2. QED BY <1>1, <2>1, UndoRests
<1>7. ASSUME NEW c \in Command, RunCommand(c) PROVE UndoInv'
  BY <1>2, <1>7 DEF RunCommand, Begin
<1>8. ASSUME NEW c \in Command, CommandDies(c) PROVE UndoInv'
  BY <1>2, <1>3, <1>8 DEF CommandDies, Dies
<1>9. ASSUME NEW p \in Migrator, MigrateStep(p) PROVE UndoInv' BY <1>9, UndoMigrates
<1>10. CASE Deploy \/ WriteData \/ UNCHANGED vars
  <2>1. UNCHANGED <<recorded, backups, mig>> /\ data' \in {data, data + 1}
    BY <1>10 DEF Deploy, WriteData, Write, vars, migrationVars
  <2>2. QED BY <1>1, <2>1, UndoRests
<1>11. QED BY <1>4, <1>5, <1>6, <1>7, <1>8, <1>9, <1>10 DEF Next, ServeStep

\* While the file is between two releases, a complete copy of it as some release
\* left it is still there, unless the copies taken since use every place.
THEOREM UndoIsKept == Spec => []UndoExists
<1>1. QED BY UndoKept, InitUndo, UndoNext, InitSchema, SchemaStep, LifeAlways, PTL DEF Spec

--------------------------------------------------------------------------------
(* Which tools are registered. *)

\* Names, and the servers that claim them.
Claims == UNION {[D -> Server] : D \in SUBSET ToolName}

\* A claimed name stays with its server.
Widens(m, n) == DOMAIN m \subseteq DOMAIN n /\ \A x \in DOMAIN m : n[x] = m[x]

HasRoom(m, s) == Cardinality({x \in DOMAIN m : m[x] = s}) < ToolCap

LEMMA ClaimsFacts ==
  /\ NoTools \in Claims /\ DOMAIN NoTools = {}
  /\ \A m \in Claims : /\ DOMAIN m \subseteq ToolName
                       /\ m = [x \in DOMAIN m |-> m[x]]
                       /\ \A x \in DOMAIN m : m[x] \in Server
  /\ \A D \in SUBSET ToolName : \A m \in [D -> Server] : m \in Claims
<1>1. \A D \in SUBSET ToolName : \A m \in [D -> Server] : m \in Claims BY DEF Claims
<1>2. NoTools \in [{} -> Server] /\ DOMAIN NoTools = {} BY DEF NoTools
<1>3. ASSUME NEW m \in Claims
      PROVE  /\ DOMAIN m \subseteq ToolName
             /\ m = [x \in DOMAIN m |-> m[x]]
             /\ \A x \in DOMAIN m : m[x] \in Server
  <2>1. PICK D \in SUBSET ToolName : m \in [D -> Server] BY DEF Claims
  <2>2. QED BY <2>1
<1>4. QED BY <1>1, <1>2, <1>3

\* One tool adds its name, or nothing.
LEMMA ConsiderFacts ==
  ASSUME NEW s \in Server, NEW m \in Claims, NEW tool \in Tool
  PROVE  /\ Consider(s, m, tool) \in Claims
         /\ IsFiniteSet(DOMAIN m) => IsFiniteSet(DOMAIN Consider(s, m, tool))
         /\ Widens(m, Consider(s, m, tool))
         /\ \A x \in DOMAIN Consider(s, m, tool) \ DOMAIN m :
              Consider(s, m, tool)[x] = s /\ tool.fit /\ tool.name = x
         /\ HasRoom(m, s) /\ tool.fit => tool.name \in DOMAIN Consider(s, m, tool)
<1>1. PICK c : c = Consider(s, m, tool) OBVIOUS
<1>2. tool.name \in ToolName BY DEF Tool
<1>3. CASE HasRoom(m, s) /\ tool.fit /\ tool.name \notin DOMAIN m
  <2> DEFINE D == DOMAIN m \cup {tool.name}
  <2>1. c = [n \in D |-> IF n = tool.name THEN s ELSE m[n]] BY <1>1, <1>3 DEF Consider, HasRoom
  <2>2. D \in SUBSET ToolName /\ \A n \in DOMAIN m : m[n] \in Server BY <1>2, ClaimsFacts
  <2>3. c \in [D -> Server] BY <2>1, <2>2
  <2>4. c \in Claims BY <2>2, <2>3, ClaimsFacts
  <2>5. IsFiniteSet(DOMAIN m) => IsFiniteSet(DOMAIN c) BY <2>3, FS_AddElement
  <2>6. Widens(m, c) BY <1>3, <2>1 DEF Widens
  <2>7. \A x \in DOMAIN c \ DOMAIN m : c[x] = s /\ tool.fit /\ tool.name = x BY <1>3, <2>1
  <2>8. tool.name \in DOMAIN c BY <2>1
  <2>9. QED BY <1>1, <2>4, <2>5, <2>6, <2>7, <2>8
<1>4. CASE ~(HasRoom(m, s) /\ tool.fit /\ tool.name \notin DOMAIN m)
  <2>1. c = m BY <1>1, <1>4 DEF Consider, HasRoom
  <2>2. QED BY <1>1, <1>4, <2>1 DEF Widens
<1>5. QED BY <1>3, <1>4

\* A server that has room at the end had room before.
LEMMA RoomBefore ==
  ASSUME NEW m, NEW n, Widens(m, n), IsFiniteSet(DOMAIN n), NEW s, HasRoom(n, s)
  PROVE  HasRoom(m, s)
<1> DEFINE U == {x \in DOMAIN m : m[x] = s}
           V == {x \in DOMAIN n : n[x] = s}
<1>1. U \subseteq V BY DEF Widens
<1>2. IsFiniteSet(V)
  <2>1. V \subseteq DOMAIN n OBVIOUS
  <2>2. QED BY <2>1, FS_Subset
<1>3. Cardinality(U) <= Cardinality(V) /\ IsFiniteSet(U) BY <1>1, <1>2, FS_Subset
<1>4. Cardinality(U) \in Nat /\ Cardinality(V) \in Nat BY <1>2, <1>3, FS_CardinalityType
<1>5. ToolCap \in Nat BY MountingAssumption
<1>6. Cardinality(V) < ToolCap BY DEF HasRoom
<1>7. Cardinality(U) < ToolCap BY <1>3, <1>4, <1>5, <1>6
<1>8. QED BY <1>7 DEF HasRoom

\* The tools of a server are considered one after the other.
LEMMA CollectRec ==
  ASSUME NEW s \in Server, NEW m \in Claims, NEW list \in Seq(Tool)
  PROVE  \E t \in [0..Len(list) -> Claims] :
           /\ t[0] = m
           /\ t[Len(list)] = CollectServerTools(s, m, list)
           /\ \A i \in 1..Len(list) : t[i] = Consider(s, t[i - 1], list[i])
<1> DEFINE N == Len(list)
           One(i, v) == Consider(s, v, list[i])
           Body(f) == [i \in 0..N |-> IF i = 0 THEN m ELSE One(i, f[i - 1])]
           step == [i \in Nat |-> [v \in Claims |-> IF i \in 1..N THEN One(i, v) ELSE v]]
<1>1. N \in Nat BY LenProperties
<1>2. ASSUME NEW i \in 1..N, NEW v \in Claims PROVE One(i, v) \in Claims
  <2>1. list[i] \in Tool BY ElementOfSeq
  <2>2. QED BY <2>1, ConsiderFacts
<1> HIDE DEF One, N
<1>3. step \in [Nat -> [Claims -> Claims]] BY <1>2
<1>4. PICK f \in [0..N -> Claims] : f[0] = m /\ \A i \in 1..N : f[i] = step[i][f[i - 1]]
  <2> HIDE DEF step
  <2>1. \E f : Unfolds(f, N, Claims, m, step) BY <1>1, <1>3, Recursion
  <2>2. QED BY <2>1 DEF Unfolds
<1>5. ASSUME NEW i \in 1..N PROVE f[i] = One(i, f[i - 1])
  <2>1. i \in Nat /\ i - 1 \in 0..N BY <1>1
  <2>2. f[i - 1] \in Claims BY <2>1
  <2>3. step[i] = [v \in Claims |-> IF i \in 1..N THEN One(i, v) ELSE v] BY <2>1
  <2>4. step[i][f[i - 1]] = One(i, f[i - 1])
    <3> HIDE DEF step
    <3>1. QED BY <2>2, <2>3
  <2>5. QED BY <1>4, <2>4
<1>6. f = Body(f)
  <2>1. ASSUME NEW i \in 0..N PROVE f[i] = IF i = 0 THEN m ELSE One(i, f[i - 1])
    <3>1. CASE i = 0 BY <1>4, <3>1
    <3>2. CASE i # 0 BY <1>1, <1>5, <3>2
    <3>3. QED BY <3>1, <3>2
  <2>2. QED BY <2>1
<1>7. PICK t : t = CHOOSE g : g = Body(g) OBVIOUS
<1>8. t = Body(t)
  <2> HIDE DEF Body
  <2>1. QED BY <1>6, <1>7
<1>9. CollectServerTools(s, m, list) = t[N]
  <2>1. CollectServerTools(s, m, list) = (CHOOSE g : g = Body(g))[N]
    BY DEF CollectServerTools, One, N
  <2> HIDE DEF Body
  <2>2. QED BY <1>7, <2>1
<1>10. DOMAIN t = 0..N /\ t[0] = m /\ \A i \in 1..N : t[i] = One(i, t[i - 1]) BY <1>1, <1>8
<1>11. \A i \in 0..N : t[i] \in Claims
  <2> DEFINE T == {i \in Nat : i <= N => t[i] \in Claims}
  <2>1. 0 \in T BY <1>10
  <2>2. ASSUME NEW i \in T PROVE i + 1 \in T
    <3>1. CASE i + 1 <= N
      <4>1. t[i] \in Claims /\ i + 1 \in 1..N /\ (i + 1) - 1 = i BY <1>1, <3>1
      <4>2. t[i + 1] = One(i + 1, t[i]) BY <1>10, <4>1
      <4>3. QED BY <1>2, <4>1, <4>2
    <3>2. QED BY <3>1
  <2>3. T \subseteq Nat OBVIOUS
  <2>4. T = Nat
    <3> HIDE DEF T
    <3>1. QED BY <2>1, <2>2, <2>3, Induction
  <2>5. QED BY <1>1, <2>4
<1>12. t \in [0..N -> Claims]
  <2>1. t = [i \in 0..N |-> t[i]] BY <1>8
  <2>2. QED BY <1>11, <2>1
<1>13. QED BY <1>9, <1>10, <1>12 DEF One, N

\* What a server's turn leaves: earlier claims as they were, new ones for what
\* the server offers, and all of that when there is room left.
LEMMA CollectFacts ==
  ASSUME NEW s \in Server, NEW m \in Claims, NEW list \in Seq(Tool)
  PROVE  LET c == CollectServerTools(s, m, list)
         IN  /\ c \in Claims
             /\ IsFiniteSet(DOMAIN m) =>
                  /\ IsFiniteSet(DOMAIN c)
                  /\ Widens(m, c)
                  /\ \A x \in DOMAIN c \ DOMAIN m : c[x] = s /\ Offers(list, x)
                  /\ HasRoom(c, s) => \A x : Offers(list, x) => x \in DOMAIN c
<1> DEFINE N == Len(list)
<1>1. N \in Nat /\ DOMAIN list = 1..N /\ \A i \in 1..N : list[i] \in Tool
  BY LenProperties, ElementOfSeq
<1>2. PICK t \in [0..N -> Claims] :
        /\ t[0] = m
        /\ t[N] = CollectServerTools(s, m, list)
        /\ \A i \in 1..N : t[i] = Consider(s, t[i - 1], list[i])
  BY CollectRec
<1> HIDE DEF N
<1>3. t[N] \in Claims BY <1>1, <1>2
<1>4. SUFFICES ASSUME IsFiniteSet(DOMAIN m)
               PROVE  /\ IsFiniteSet(DOMAIN t[N])
                      /\ Widens(m, t[N])
                      /\ \A x \in DOMAIN t[N] \ DOMAIN m : t[N][x] = s /\ Offers(list, x)
                      /\ HasRoom(t[N], s) => \A x : Offers(list, x) => x \in DOMAIN t[N]
  BY <1>2, <1>3
<1> DEFINE P(i) == /\ IsFiniteSet(DOMAIN t[i])
                   /\ Widens(m, t[i])
                   /\ \A x \in DOMAIN t[i] \ DOMAIN m : t[i][x] = s /\ Offers(list, x)
                   /\ HasRoom(t[i], s) =>
                        \A j \in 1..i : list[j].fit => list[j].name \in DOMAIN t[i]
           T == {i \in Nat : i <= N => P(i)}
<1>5. 0 \in T
  <2>1. P(0) BY <1>2, <1>4 DEF Widens
  <2>2. QED BY <2>1
<1>6. ASSUME NEW i \in T PROVE i + 1 \in T
  <2> SUFFICES ASSUME i + 1 <= N PROVE P(i + 1) OBVIOUS
  <2>1. i \in Nat /\ i \in 0..N /\ i + 1 \in 1..N /\ (i + 1) - 1 = i BY <1>1
  <2>2. P(i) BY <1>1, <2>1
  <2>3. PICK u, v : u = t[i] /\ v = t[i + 1] OBVIOUS
  <2>4. PICK tool \in Tool : tool = list[i + 1] BY <1>1, <2>1
  <2>5. u \in Claims /\ v = Consider(s, u, tool) BY <1>2, <2>1, <2>3, <2>4
  <2>6. /\ IsFiniteSet(DOMAIN u) => IsFiniteSet(DOMAIN v)
        /\ Widens(u, v)
        /\ \A x \in DOMAIN v \ DOMAIN u : v[x] = s /\ tool.fit /\ tool.name = x
        /\ HasRoom(u, s) /\ tool.fit => tool.name \in DOMAIN v
    BY <2>5, ConsiderFacts
  <2>7. /\ IsFiniteSet(DOMAIN u) /\ Widens(m, u)
        /\ \A x \in DOMAIN u \ DOMAIN m : u[x] = s /\ Offers(list, x)
        /\ HasRoom(u, s) => \A j \in 1..i : list[j].fit => list[j].name \in DOMAIN u
    BY <2>2, <2>3
  <2>8. IsFiniteSet(DOMAIN v) BY <2>6, <2>7
  <2>9. Widens(m, v) BY <2>6, <2>7 DEF Widens
  <2>10. ASSUME NEW x \in DOMAIN v \ DOMAIN m PROVE v[x] = s /\ Offers(list, x)
    <3>1. CASE x \in DOMAIN u BY <2>6, <2>7, <2>10, <3>1 DEF Widens
    <3>2. CASE x \notin DOMAIN u
      <4>1. v[x] = s /\ tool.fit /\ tool.name = x BY <2>6, <2>10, <3>2
      <4>2. i + 1 \in DOMAIN list BY <1>1, <2>1
      <4>3. QED BY <2>4, <4>1, <4>2 DEF Offers
    <3>3. QED BY <3>1, <3>2
  <2>11. ASSUME HasRoom(v, s), NEW j \in 1..i + 1, list[j].fit PROVE list[j].name \in DOMAIN v
    <3>1. HasRoom(u, s) BY <2>6, <2>8, <2>11, RoomBefore
    <3>2. CASE j = i + 1 BY <2>4, <2>6, <2>11, <3>1, <3>2
    <3>3. CASE j # i + 1
      <4>1. j \in 1..i BY <2>1, <3>3
      <4>2. list[j].name \in DOMAIN u BY <2>7, <2>11, <3>1, <4>1
      <4>3. QED BY <2>6, <4>2 DEF Widens
    <3>4. QED BY <3>2, <3>3
  <2>12. QED BY <2>3, <2>8, <2>9, <2>10, <2>11
<1>7. T = Nat
  <2>1. T \subseteq Nat OBVIOUS
  <2> HIDE DEF T
  <2>2. QED BY <1>5, <1>6, <2>1, Induction
<1>8. P(N) BY <1>1, <1>7
<1>9. QED BY <1>1, <1>8 DEF Offers

\* What the servers list, in their order.
Advertised == Seq(Seq(Tool))

\* The servers take their turns in the order they are configured in.
LEMMA MountedRec ==
  ASSUME NEW lists \in Advertised, Len(lists) <= Len(ServerOrder)
  PROVE  \E t \in [0..Len(lists) -> Claims] :
           /\ t[0] = NoTools
           /\ t[Len(lists)] = Mounted(lists)
           /\ \A k \in 1..Len(lists) :
                t[k] = CollectServerTools(ServerOrder[k], t[k - 1], lists[k])
<1> DEFINE N == Len(lists)
           One(k, v) == CollectServerTools(ServerOrder[k], v, lists[k])
           Body(f) == [k \in 0..N |-> IF k = 0 THEN NoTools ELSE One(k, f[k - 1])]
           step == [k \in Nat |-> [v \in Claims |-> IF k \in 1..N THEN One(k, v) ELSE v]]
<1>1. N \in Nat BY LenProperties DEF Advertised
<1>2. ASSUME NEW k \in 1..N, NEW v \in Claims PROVE One(k, v) \in Claims
  <2>1. lists[k] \in Seq(Tool) BY ElementOfSeq DEF Advertised
  <2>2. ServerOrder \in Seq(Server) BY MountingAssumption
  <2>3. k \in 1..Len(ServerOrder)
    <3>1. Len(ServerOrder) \in Nat BY <2>2, LenProperties
    <3>2. QED BY <1>1, <3>1
  <2>4. ServerOrder[k] \in Server BY <2>2, <2>3, ElementOfSeq
  <2>5. QED BY <2>1, <2>4, CollectFacts
<1> HIDE DEF One, N
<1>3. step \in [Nat -> [Claims -> Claims]] BY <1>2
<1>4. PICK f \in [0..N -> Claims] : f[0] = NoTools /\ \A k \in 1..N : f[k] = step[k][f[k - 1]]
  <2> HIDE DEF step
  <2>1. \E f : Unfolds(f, N, Claims, NoTools, step) BY <1>1, <1>3, ClaimsFacts, Recursion
  <2>2. QED BY <2>1 DEF Unfolds
<1>5. ASSUME NEW k \in 1..N PROVE f[k] = One(k, f[k - 1])
  <2>1. k \in Nat /\ k - 1 \in 0..N BY <1>1
  <2>2. f[k - 1] \in Claims BY <2>1
  <2>3. step[k] = [v \in Claims |-> IF k \in 1..N THEN One(k, v) ELSE v] BY <2>1
  <2>4. step[k][f[k - 1]] = One(k, f[k - 1])
    <3> HIDE DEF step
    <3>1. QED BY <2>2, <2>3
  <2>5. QED BY <1>4, <2>4
<1>6. f = Body(f)
  <2>1. ASSUME NEW k \in 0..N PROVE f[k] = IF k = 0 THEN NoTools ELSE One(k, f[k - 1])
    <3>1. CASE k = 0 BY <1>4, <3>1
    <3>2. CASE k # 0 BY <1>1, <1>5, <3>2
    <3>3. QED BY <3>1, <3>2
  <2>2. QED BY <2>1
<1>7. PICK t : t = CHOOSE g : g = Body(g) OBVIOUS
<1>8. t = Body(t)
  <2> HIDE DEF Body
  <2>1. QED BY <1>6, <1>7
<1>9. Mounted(lists) = t[N]
  <2>1. Mounted(lists) = (CHOOSE g : g = Body(g))[N] BY DEF Mounted, One, N
  <2> HIDE DEF Body
  <2>2. QED BY <1>7, <2>1
<1>10. DOMAIN t = 0..N /\ t[0] = NoTools /\ \A k \in 1..N : t[k] = One(k, t[k - 1])
  BY <1>1, <1>8
<1>11. \A k \in 0..N : t[k] \in Claims
  <2> DEFINE T == {k \in Nat : k <= N => t[k] \in Claims}
  <2>1. 0 \in T BY <1>10, ClaimsFacts
  <2>2. ASSUME NEW k \in T PROVE k + 1 \in T
    <3>1. CASE k + 1 <= N
      <4>1. t[k] \in Claims /\ k + 1 \in 1..N /\ (k + 1) - 1 = k BY <1>1, <3>1
      <4>2. t[k + 1] = One(k + 1, t[k]) BY <1>10, <4>1
      <4>3. QED BY <1>2, <4>1, <4>2
    <3>2. QED BY <3>1
  <2>3. T \subseteq Nat OBVIOUS
  <2>4. T = Nat
    <3> HIDE DEF T
    <3>1. QED BY <2>1, <2>2, <2>3, Induction
  <2>5. QED BY <1>1, <2>4
<1>12. t \in [0..N -> Claims]
  <2>1. t = [k \in 0..N |-> t[k]] BY <1>8
  <2>2. QED BY <1>11, <2>1
<1>13. QED BY <1>9, <1>10, <1>12 DEF One, N

\* A name belongs to one of the first k servers, which offers it.
Served(m, lists, k, n) ==
  n \in DOMAIN m /\ \E j \in 1..k : m[n] = ServerOrder[j] /\ Offers(lists[j], n)

\* What a server with room offers is served by it or by one mounted before it.
LEMMA MountedFacts ==
  ASSUME NEW lists \in Advertised, Len(lists) <= Len(ServerOrder)
  PROVE  /\ Mounted(lists) \in Claims
         /\ \A k \in 1..Len(lists) : HasRoom(Mounted(lists), ServerOrder[k]) =>
              \A n : Offers(lists[k], n) => Served(Mounted(lists), lists, k, n)
<1> DEFINE N == Len(lists)
<1>1. N \in Nat /\ Len(ServerOrder) \in Nat /\ ServerOrder \in Seq(Server)
  BY MountingAssumption, LenProperties DEF Advertised
<1>2. \A k \in 1..N : ServerOrder[k] \in Server /\ lists[k] \in Seq(Tool)
  <2> TAKE k \in 1..N
  <2>1. k \in 1..Len(ServerOrder) BY <1>1
  <2>2. QED BY <1>1, <2>1, ElementOfSeq DEF Advertised
<1>3. PICK t \in [0..N -> Claims] :
        /\ t[0] = NoTools
        /\ t[N] = Mounted(lists)
        /\ \A k \in 1..N : t[k] = CollectServerTools(ServerOrder[k], t[k - 1], lists[k])
  BY MountedRec
<1> HIDE DEF N
<1> DEFINE P(k) == /\ IsFiniteSet(DOMAIN t[k])
                   /\ \A n \in DOMAIN t[k] : Served(t[k], lists, k, n)
                   /\ \A j \in 1..k : HasRoom(t[k], ServerOrder[j]) =>
                        \A n : Offers(lists[j], n) => Served(t[k], lists, j, n)
           T == {k \in Nat : k <= N => P(k)}
<1>4. 0 \in T
  <2>1. DOMAIN t[0] = {} BY <1>3, ClaimsFacts
  <2>2. P(0) BY <2>1, FS_EmptySet
  <2>3. QED BY <2>2
<1>5. ASSUME NEW k \in T PROVE k + 1 \in T
  <2> SUFFICES ASSUME k + 1 <= N PROVE P(k + 1) OBVIOUS
  <2>1. k \in Nat /\ k \in 0..N /\ k + 1 \in 1..N /\ (k + 1) - 1 = k BY <1>1
  <2>2. P(k) BY <1>1, <2>1
  <2>3. PICK u, v : u = t[k] /\ v = t[k + 1] OBVIOUS
  <2>4. PICK list \in Seq(Tool) : list = lists[k + 1] BY <1>2, <2>1
  <2>5. PICK s \in Server : s = ServerOrder[k + 1] BY <1>2, <2>1
  <2>6. u \in Claims /\ v = CollectServerTools(s, u, list) BY <1>3, <2>1, <2>3, <2>4, <2>5
  <2>7. /\ IsFiniteSet(DOMAIN u)
        /\ \A n \in DOMAIN u : Served(u, lists, k, n)
        /\ \A j \in 1..k : HasRoom(u, ServerOrder[j]) =>
             \A n : Offers(lists[j], n) => Served(u, lists, j, n)
    BY <2>2, <2>3
  <2>8. /\ IsFiniteSet(DOMAIN v)
        /\ Widens(u, v)
        /\ \A n \in DOMAIN v \ DOMAIN u : v[n] = s /\ Offers(list, n)
        /\ HasRoom(v, s) => \A n : Offers(list, n) => n \in DOMAIN v
    BY <2>6, <2>7, CollectFacts
  <2>9. ASSUME NEW j \in 1..k, NEW n, Served(u, lists, j, n) PROVE Served(v, lists, j, n)
    BY <2>8, <2>9 DEF Served, Widens
  <2>10. ASSUME NEW n \in DOMAIN v PROVE Served(v, lists, k + 1, n)
    <3>1. CASE n \in DOMAIN u
      <4>1. \A j \in 1..k : j \in 1..k + 1 BY <2>1
      <4>2. QED BY <2>7, <2>8, <3>1, <4>1 DEF Served, Widens
    <3>2. CASE n \notin DOMAIN u
      <4>1. v[n] = ServerOrder[k + 1] /\ Offers(lists[k + 1], n)
        BY <2>4, <2>5, <2>8, <3>2
      <4>2. k + 1 \in 1..k + 1 BY <2>1
      <4>3. QED BY <4>1, <4>2 DEF Served
    <3>3. QED BY <3>1, <3>2
  <2>11. ASSUME NEW j \in 1..k + 1, HasRoom(v, ServerOrder[j]), NEW n, Offers(lists[j], n)
         PROVE  Served(v, lists, j, n)
    <3>1. CASE j = k + 1
      <4>1. n \in DOMAIN v BY <2>4, <2>5, <2>8, <2>11, <3>1
      <4>2. QED BY <2>10, <3>1, <4>1
    <3>2. CASE j # k + 1
      <4>1. j \in 1..k BY <2>1, <3>2
      <4>2. HasRoom(u, ServerOrder[j]) BY <2>8, <2>11, RoomBefore
      <4>3. Served(u, lists, j, n) BY <2>7, <2>11, <4>1, <4>2
      <4>4. QED BY <2>9, <4>1, <4>3
    <3>3. QED BY <3>1, <3>2
  <2>12. QED BY <2>3, <2>8, <2>10, <2>11
<1>6. T = Nat
  <2>1. T \subseteq Nat OBVIOUS
  <2> HIDE DEF T
  <2>2. QED BY <1>4, <1>5, <2>1, Induction
<1>7. P(N)
  <2>1. N \in T
    <3> HIDE DEF T
    <3>1. QED BY <1>1, <1>6
  <2> HIDE DEF P
  <2>2. N <= N => P(N) BY <2>1
  <2>3. QED BY <1>1, <2>2
<1>8. t[N] \in Claims BY <1>1, <1>3
<1>9. QED BY <1>3, <1>7, <1>8 DEF N

\* The registry after mount() of these lists.
Registered(reg, lists) ==
  \A k \in DOMAIN lists, n \in ToolName :
    Offers(lists[k], n) /\ HasRoom(reg, ServerOrder[k]) =>
      n \notin Native /\ Served(reg, lists, k, n)

\* A batch that does not collide is added as it is.
LEMMA AddFacts ==
  ASSUME NEW lists \in Advertised, Len(lists) <= Len(ServerOrder),
         ~Collides(NativeRegistry, Mounted(lists))
  PROVE  Registered(AddMcpTools(NativeRegistry, Mounted(lists)), lists)
<1>1. PICK c \in Claims : c = Mounted(lists) BY MountedFacts
<1>2. PICK reg : reg = AddMcpTools(NativeRegistry, c) OBVIOUS
<1>3. DOMAIN NativeRegistry = Native /\ \A n \in Native : NativeRegistry[n] = "native"
  BY DEF NativeRegistry
<1>4. \A n \in DOMAIN c : n \notin Native BY <1>1, <1>3 DEF Collides
<1>5. /\ DOMAIN reg = Native \cup DOMAIN c
      /\ \A n \in Native : reg[n] = "native"
      /\ \A n \in DOMAIN c : reg[n] = c[n]
  BY <1>2, <1>3, <1>4 DEF AddMcpTools
<1>6. ASSUME NEW s \in Server, HasRoom(reg, s) PROVE HasRoom(c, s)
  <2>1. "native" \notin Server BY MountingAssumption
  <2>2. {x \in DOMAIN reg : reg[x] = s} = {x \in DOMAIN c : c[x] = s} BY <1>5, <2>1
  <2>3. QED BY <1>6, <2>2 DEF HasRoom
<1>7. ASSUME NEW k \in DOMAIN lists, NEW n \in ToolName,
             Offers(lists[k], n), HasRoom(reg, ServerOrder[k])
      PROVE  n \notin Native /\ Served(reg, lists, k, n)
  <2>1. k \in 1..Len(lists) BY LenProperties DEF Advertised
  <2>2. ServerOrder[k] \in Server
    <3>1. ServerOrder \in Seq(Server) BY MountingAssumption
    <3>2. k \in 1..Len(ServerOrder)
      <4>1. Len(ServerOrder) \in Nat /\ Len(lists) \in Nat
        BY <3>1, LenProperties DEF Advertised
      <4>2. QED BY <2>1, <4>1
    <3>3. QED BY <3>1, <3>2, ElementOfSeq
  <2>3. HasRoom(c, ServerOrder[k]) BY <1>6, <1>7, <2>2
  <2>4. Served(c, lists, k, n) BY <1>1, <1>7, <2>1, <2>3, MountedFacts
  <2>5. n \in DOMAIN c /\ n \notin Native BY <1>4, <2>4 DEF Served
  <2>6. QED BY <1>5, <2>4, <2>5 DEF Served
<1>8. QED BY <1>1, <1>2, <1>7 DEF Registered

\* Until the tools are added there are the program's own, and no jobs; and what
\* was added for the jobs stays, or is forgotten altogether.
Mounts(p) ==
  /\ listed[p] \in Advertised /\ Len(listed[p]) <= Len(ServerOrder)
  /\ pc[p] \in {"off", "gate", "mount"} => registry[p] = NativeRegistry /\ "jobs" \notin parts[p]
  /\ pc[p] = "jobs" \/ "jobs" \in parts[p] => Registered(registry[p], listed[p])

MountInv ==
  /\ DOMAIN listed = Instance /\ DOMAIN registry = Instance
  /\ \A p \in Instance : Mounts(p)

LEMMA MountWins == MountInv => FirstMountWins
<1> SUFFICES ASSUME MountInv, NEW p \in Instance, "jobs" \in parts[p],
                    NEW k \in DOMAIN listed[p], NEW n \in ToolName,
                    Offers(listed[p][k], n), Room(p, ServerOrder[k])
             PROVE  /\ n \notin Native
                    /\ n \in DOMAIN registry[p]
                    /\ \E j \in 1..k : /\ registry[p][n] = ServerOrder[j]
                                       /\ Offers(listed[p][j], n)
  BY DEF FirstMountWins
<1>1. HasRoom(registry[p], ServerOrder[k]) BY DEF Room, HasRoom
<1>2. Registered(registry[p], listed[p]) BY DEF MountInv, Mounts
<1>3. QED BY <1>1, <1>2 DEF Registered, Served

LEMMA InitMount == Init => MountInv
<1> SUFFICES ASSUME Init, NEW p \in Instance PROVE Mounts(p)
  BY DEF Init, MountInv
<1>1. <<>> \in Advertised /\ Len(<<>>) <= Len(ServerOrder)
  <2>1. Len(ServerOrder) \in Nat BY MountingAssumption, LenProperties
  <2>2. QED BY <2>1, EmptySeq DEF Advertised
<1>2. QED BY <1>1 DEF Init, Mounts

\* A process that keeps its tools stays as it was.
LEMMA MountRests ==
  ASSUME NEW q \in Instance, Mounts(q), listed'[q] = listed[q], registry'[q] = registry[q],
         pc'[q] = pc[q] \/ pc'[q] \notin {"off", "gate", "mount", "jobs"},
         "jobs" \in parts'[q] => "jobs" \in parts[q] \/ pc[q] = "jobs"
  PROVE  Mounts(q)'
BY DEF Mounts

LEMMA MountMoves ==
  ASSUME MountInv, NEW p \in Instance, Mounts(p)',
         DOMAIN listed' = Instance, DOMAIN registry' = Instance,
         \A q \in Instance \ {p} : /\ listed'[q] = listed[q] /\ registry'[q] = registry[q]
                                   /\ pc'[q] = pc[q] /\ parts'[q] = parts[q]
  PROVE  MountInv'
<1>1. \A q \in Instance \ {p} : Mounts(q)' BY MountRests DEF MountInv
<1>2. QED BY <1>1 DEF MountInv

LEMMA MountsKept ==
  ASSUME MountInv, NEW p \in Instance, UNCHANGED <<listed, registry>>,
         \A q \in Instance \ {p} : pc'[q] = pc[q] /\ parts'[q] = parts[q],
         pc'[p] = pc[p] \/ pc'[p] \notin {"off", "gate", "mount", "jobs"},
         "jobs" \in parts'[p] => "jobs" \in parts[p] \/ pc[p] = "jobs"
  PROVE  MountInv'
<1>1. Mounts(p) BY DEF MountInv
<1>2. Mounts(p)' BY <1>1, MountRests
<1>3. QED BY <1>2, MountMoves DEF MountInv

\* What a server lists is put after what was listed before.
LEMMA MountLists ==
  ASSUME MountInv, NEW p \in Instance, pc[p] = "mount", NextServer(p) <= Len(ServerOrder),
         NEW list \in Seq(Tool), Lists(p, list), UNCHANGED <<pc, parts, registry>>
  PROVE  MountInv'
<1>1. listed' = [listed EXCEPT ![p] = Append(@, list)] BY DEF Lists
<1>2. PICK before \in Advertised : before = listed[p] BY DEF MountInv, Mounts
<1>3. /\ Append(before, list) \in Advertised
      /\ Len(Append(before, list)) = Len(before) + 1
  BY AppendProperties DEF Advertised
<1>4. listed'[p] = Append(before, list) /\ DOMAIN listed' = Instance
  BY <1>1, <1>2 DEF MountInv
<1>5. Len(before) + 1 <= Len(ServerOrder) BY <1>2 DEF NextServer
<1>6. Mounts(p)' BY <1>3, <1>4, <1>5 DEF Mounts, MountInv
<1>7. \A q \in Instance \ {p} : listed'[q] = listed[q] BY <1>1 DEF MountInv
<1>8. QED BY <1>4, <1>6, <1>7, MountMoves DEF MountInv

\* A process that forgets what it created.
LEMMA MountForgets ==
  ASSUME MountInv, LifeTypes, NEW p \in Instance, Forget(p),
         \A q \in Instance \ {p} : pc'[q] = pc[q] /\ parts'[q] = parts[q],
         pc'[p] = "exiting" \/ (pc'[p] = "off" /\ "jobs" \notin parts'[p])
  PROVE  MountInv'
<1>1. /\ listed' = [listed EXCEPT ![p] = <<>>]
      /\ registry' = [registry EXCEPT ![p] = NativeRegistry]
  BY DEF Forget
<1>2. /\ listed'[p] = <<>> /\ registry'[p] = NativeRegistry
      /\ DOMAIN listed' = Instance /\ DOMAIN registry' = Instance
      /\ \A q \in Instance \ {p} : listed'[q] = listed[q] /\ registry'[q] = registry[q]
  BY <1>1 DEF MountInv
<1>3. <<>> \in Advertised /\ Len(<<>>) <= Len(ServerOrder) /\ DOMAIN <<>> = {}
  <2>1. Len(ServerOrder) \in Nat BY MountingAssumption, LenProperties
  <2>2. QED BY <2>1, EmptySeq DEF Advertised
<1>4. Registered(NativeRegistry, <<>>) BY <1>3 DEF Registered
<1>5. Mounts(p)' BY <1>2, <1>3, <1>4 DEF Mounts
<1>6. QED BY <1>2, <1>5, MountMoves

LEMMA MountAdds ==
  ASSUME MountInv, LifeTypes, NEW p \in Instance, AddTools(p)
  PROVE  MountInv'
<1>1. pc[p] = "mount" /\ UNCHANGED <<parts, listed>> BY DEF AddTools, Unwind, From
<1>2. /\ registry[p] = NativeRegistry /\ "jobs" \notin parts[p]
      /\ listed[p] \in Advertised /\ Len(listed[p]) <= Len(ServerOrder)
  BY <1>1 DEF MountInv, Mounts
<1>3. CASE Collides(registry[p], Mounted(listed[p]))
  <2>1. pc' = [pc EXCEPT ![p] = "stop telegram"] /\ UNCHANGED registry
    BY <1>3 DEF AddTools, Unwind, From
  <2>2. pc'[p] = "stop telegram" /\ \A q \in Instance \ {p} : pc'[q] = pc[q]
    BY <2>1 DEF LifeTypes
  <2>3. QED BY <1>1, <2>1, <2>2, MountsKept
<1>4. CASE ~Collides(registry[p], Mounted(listed[p]))
  <2>1. /\ pc' = [pc EXCEPT ![p] = "jobs"]
        /\ registry' = [registry EXCEPT ![p] = AddMcpTools(@, Mounted(listed[p]))]
    BY <1>4 DEF AddTools, From
  <2>2. pc'[p] = "jobs" /\ \A q \in Instance \ {p} : pc'[q] = pc[q] BY <2>1 DEF LifeTypes
  <2>3. /\ registry'[p] = AddMcpTools(NativeRegistry, Mounted(listed[p]))
        /\ DOMAIN registry' = Instance
        /\ \A q \in Instance \ {p} : registry'[q] = registry[q]
    BY <1>2, <2>1 DEF MountInv
  <2>4. Registered(registry'[p], listed[p]) BY <1>2, <1>4, <2>3, AddFacts
  <2>5. Mounts(p)' BY <1>1, <1>2, <2>2, <2>4 DEF Mounts
  <2>6. QED BY <1>1, <2>2, <2>3, <2>5, MountMoves DEF MountInv
<1>5. QED BY <1>3, <1>4

LEMMA MountStarts ==
  ASSUME MountInv, LifeInv, NEW p \in Instance, Acquire(p)
  PROVE  MountInv'
<1>1. /\ pc[p] = "off" /\ pc' = [pc EXCEPT ![p] = "gate"]
      /\ registry' = [registry EXCEPT ![p] = NativeRegistry]
      /\ UNCHANGED <<parts, listed>>
  BY DEF Acquire, From
<1>2. pc'[p] = "gate" /\ \A q \in Instance \ {p} : pc'[q] = pc[q]
  BY <1>1 DEF LifeInv, LifeTypes
<1>3. /\ registry'[p] = NativeRegistry /\ DOMAIN registry' = Instance
      /\ \A q \in Instance \ {p} : registry'[q] = registry[q]
  BY <1>1 DEF MountInv
<1>4. Mounts(p) /\ "jobs" \notin parts[p] BY <1>1 DEF MountInv, Mounts
<1>5. Mounts(p)' BY <1>1, <1>2, <1>3, <1>4 DEF Mounts
<1>6. QED BY <1>1, <1>2, <1>3, <1>5, MountMoves DEF MountInv

\* The steps that leave the tools alone.
LEMMA MountGoesOn ==
  ASSUME MountInv, LifeInv, NEW p \in Instance,
         \/ PassGate(p) \/ RefuseToStart(p) \/ StartJobs(p) \/ StartWeb(p) \/ StartTelegram(p)
         \/ WithoutTelegram(p) \/ StartFails(p) \/ StopSeen(p) \/ StopTelegram(p) \/ StopWeb(p)
         \/ Drained(p) \/ StopJobs(p) \/ StopRuntime(p) \/ Signal(p)
  PROVE  MountInv'
<1> USE DEF LifeInv, LifeTypes
<1>1. CASE PassGate(p)
  <2>1. pc[p] = "gate" /\ pc' = [pc EXCEPT ![p] = "mount"] /\ UNCHANGED <<parts, listed, registry>>
    BY <1>1 DEF PassGate, From
  <2>2. pc'[p] = "mount" /\ \A q \in Instance \ {p} : pc'[q] = pc[q] BY <2>1
  <2>3. Mounts(p)' BY <2>1, <2>2 DEF MountInv, Mounts
  <2>4. QED BY <2>1, <2>2, <2>3, MountMoves DEF MountInv
<1>2. CASE StartJobs(p)
  <2>1. /\ pc[p] = "jobs" /\ pc' = [pc EXCEPT ![p] = "web"]
        /\ parts' = [parts EXCEPT ![p] = @ \cup {"jobs"}] /\ UNCHANGED <<listed, registry>>
    BY <1>2 DEF StartJobs, StartPart, From
  <2>2. pc'[p] = "web" /\ \A q \in Instance \ {p} : pc'[q] = pc[q] /\ parts'[q] = parts[q]
    BY <2>1
  <2>3. QED BY <2>1, <2>2, MountsKept
<1>3. ASSUME UNCHANGED <<listed, registry>>,
             NEW place \in Places \ {"off", "gate", "mount", "jobs"},
             pc' = [pc EXCEPT ![p] = place],
             NEW more \in SUBSET Part, "jobs" \notin more,
             parts' = parts \/ (parts' = [parts EXCEPT ![p] = @ \cup more])
                            \/ (parts' = [parts EXCEPT ![p] = @ \ more])
                            \/ (parts' = [parts EXCEPT ![p] = @ \ {"jobs"}])
      PROVE  MountInv'
  <2>1. pc'[p] = place /\ \A q \in Instance \ {p} : pc'[q] = pc[q] /\ parts'[q] = parts[q]
    BY <1>3
  <2>2. "jobs" \in parts'[p] => "jobs" \in parts[p]
    <3>1. parts'[p] \in {parts[p], parts[p] \cup more, parts[p] \ more, parts[p] \ {"jobs"}}
      BY <1>3
    <3>2. QED BY <1>3, <3>1
  <2>3. QED BY <1>3, <2>1, <2>2, MountsKept
<1>4. CASE RefuseToStart(p) \/ WithoutTelegram(p) \/ StartFails(p) \/ StopSeen(p)
           \/ Drained(p) \/ StopRuntime(p)
  <2>1. UNCHANGED <<parts, listed, registry>>
    BY <1>4 DEF RefuseToStart, WithoutTelegram, StartFails, StopSeen, Drained, StopRuntime
  <2>2. PICK place \in {"serving", "stop telegram", "stop jobs", "release"} :
          pc' = [pc EXCEPT ![p] = place]
    BY <1>4 DEF RefuseToStart, WithoutTelegram, StartFails, StopSeen, Drained, StopRuntime,
                Unwind, From
  <2>3. {} \in SUBSET Part /\ "jobs" \notin {} OBVIOUS
  <2>4. place \in Places \ {"off", "gate", "mount", "jobs"} BY <2>2
  <2>5. QED BY <1>3, <2>1, <2>2, <2>3, <2>4
<1>5. CASE StartWeb(p) \/ StartTelegram(p)
  <2>1. PICK part \in {"web", "telegram"}, place \in {"telegram", "serving"} :
          /\ pc' = [pc EXCEPT ![p] = place] /\ parts' = [parts EXCEPT ![p] = @ \cup {part}]
          /\ UNCHANGED <<listed, registry>>
    BY <1>5 DEF StartWeb, StartTelegram, StartPart, From
  <2>2. {part} \in SUBSET Part /\ "jobs" \notin {part} OBVIOUS
  <2>3. QED BY <1>3, <2>1, <2>2
<1>6. CASE StopTelegram(p) \/ StopWeb(p)
  <2>1. PICK part \in {"web", "telegram"}, place \in {"stop web", "drain"} :
          /\ pc' = [pc EXCEPT ![p] = place]
          /\ parts' = [parts EXCEPT ![p] = @ \ {part}] \/ parts' = parts
          /\ UNCHANGED <<listed, registry>>
    BY <1>6 DEF StopTelegram, StopWeb, StopPart, From
  <2>2. {part} \in SUBSET Part /\ "jobs" \notin {part} OBVIOUS
  <2>3. QED BY <1>3, <2>1, <2>2
<1>7. CASE StopJobs(p)
  <2>1. /\ pc' = [pc EXCEPT ![p] = "stop runtime"] /\ parts' = [parts EXCEPT ![p] = @ \ {"jobs"}]
        /\ UNCHANGED <<listed, registry>>
    BY <1>7 DEF StopJobs, From
  <2>2. {} \in SUBSET Part /\ "jobs" \notin {} OBVIOUS
  <2>3. QED BY <1>3, <2>1, <2>2
<1>8. CASE Signal(p)
  <2>1. UNCHANGED <<pc, parts, listed, registry>> BY <1>8 DEF Signal
  <2>2. QED BY <2>1, MountsKept
<1>9. QED BY <1>1, <1>2, <1>4, <1>5, <1>6, <1>7, <1>8

LEMMA MountCancels == ASSUME MountInv, LifeInv, NEW p \in Instance, Cancel(p) PROVE MountInv'
<1> USE DEF LifeInv, LifeTypes
<1>1. UNCHANGED registry BY DEF Cancel
<1>2. CASE CancelMount(p)
  <2>1. <<>> \in Seq(Tool) /\ UNCHANGED <<pc, parts>> BY <1>2, EmptySeq DEF CancelMount
  <2>2. QED BY <1>1, <1>2, <2>1, MountLists DEF CancelMount, Failed
<1>3. CASE CancelStart(p) \/ CancelTelegram(p) \/ CancelDrain(p) \/ CancelStop(p)
  <2>1. PICK place \in {"stop telegram", "stop jobs", "stop runtime", "release"} :
          pc' = [pc EXCEPT ![p] = place]
    BY <1>3 DEF CancelStart, CancelTelegram, CancelDrain, CancelStop, Unwind, From
  <2>2. \/ parts' = parts \/ parts' = [parts EXCEPT ![p] = @ \cup {"telegram"}]
        \/ parts' = [parts EXCEPT ![p] = @ \ {"jobs"}]
    BY <1>3 DEF CancelStart, CancelTelegram, CancelDrain, CancelStop
  <2>3. UNCHANGED listed BY <1>3 DEF CancelStart, CancelTelegram, CancelDrain, CancelStop
  <2>4. pc'[p] = place /\ \A q \in Instance \ {p} : pc'[q] = pc[q] BY <2>1
  <2>5. \A q \in Instance \ {p} : parts'[q] = parts[q] BY <2>2
  <2>6. "jobs" \in parts'[p] => "jobs" \in parts[p]
    <3>1. PICK more : more = {"telegram"} OBVIOUS
    <3>2. parts'[p] \in {parts[p], parts[p] \cup more, parts[p] \ {"jobs"}} BY <2>2, <3>1
    <3>3. "jobs" \notin more BY <3>1
    <3>4. QED BY <3>2, <3>3
  <2>7. QED BY <1>1, <2>3, <2>4, <2>5, <2>6, MountsKept
<1>4. QED BY <1>2, <1>3 DEF Cancel

LEMMA MountStep == LifeInv /\ MountInv /\ [Next]_vars => MountInv'
<1> SUFFICES ASSUME LifeInv, MountInv, [Next]_vars PROVE MountInv' OBVIOUS
<1>1. ASSUME UNCHANGED <<pc, parts, listed, registry>> PROVE MountInv'
  <2>1. \A q \in Instance : Mounts(q)' BY <1>1, MountRests DEF MountInv
  <2>2. QED BY <1>1, <2>1 DEF MountInv
<1>2. ASSUME NEW p \in Instance, Acquire(p) PROVE MountInv' BY <1>2, MountStarts
<1>3. ASSUME NEW p \in Instance, MountServer(p) PROVE MountInv'
  <2>1. /\ pc[p] = "mount" /\ NextServer(p) <= Len(ServerOrder)
        /\ UNCHANGED <<pc, parts, registry>>
    BY <1>3 DEF MountServer
  <2>2. PICK list \in Seq(Tool) : Lists(p, list)
    <3>1. CASE \E list \in Listings[ServerOrder[NextServer(p)]] : Lists(p, list)
      <4>1. Len(listed[p]) \in Nat BY LenProperties DEF MountInv, Mounts, Advertised
      <4>2. NextServer(p) \in 1..Len(ServerOrder)
        <5>1. Len(ServerOrder) \in Nat BY MountingAssumption, LenProperties
        <5>2. QED BY <2>1, <4>1, <5>1 DEF NextServer
      <4>3. ServerOrder[NextServer(p)] \in Server BY <4>2, MountingAssumption, ElementOfSeq
      <4>4. QED BY <3>1, <4>3, MountingAssumption
    <3>2. CASE Lists(p, Failed) BY <3>2, EmptySeq DEF Failed
    <3>3. QED BY <1>3, <3>1, <3>2 DEF MountServer
  <2>3. QED BY <2>1, <2>2, MountLists
<1>4. ASSUME NEW p \in Instance, AddTools(p) PROVE MountInv' BY <1>4, MountAdds DEF LifeInv
<1>5. ASSUME NEW p \in Instance, ReleaseLock(p) PROVE MountInv'
  <2>1. pc' = [pc EXCEPT ![p] = "exiting"] /\ Forget(p) /\ UNCHANGED parts
    BY <1>5 DEF ReleaseLock, From
  <2>2. pc'[p] = "exiting" /\ \A q \in Instance \ {p} : pc'[q] = pc[q]
    BY <2>1 DEF LifeInv, LifeTypes
  <2>3. QED BY <2>1, <2>2, MountForgets DEF LifeInv
<1>6. ASSUME NEW p \in Instance, Exit(p) \/ Crash(p) PROVE MountInv'
  <2>1. /\ pc' = [pc EXCEPT ![p] = "off"] /\ Forget(p) /\ parts' = [parts EXCEPT ![p] = {}]
    BY <1>6 DEF Exit, Crash, Gone
  <2>2. /\ pc'[p] = "off" /\ "jobs" \notin parts'[p]
        /\ \A q \in Instance \ {p} : pc'[q] = pc[q] /\ parts'[q] = parts[q]
    BY <2>1 DEF LifeInv, LifeTypes
  <2>3. QED BY <2>1, <2>2, MountForgets DEF LifeInv
<1>7. ASSUME NEW p \in Instance,
             \/ PassGate(p) \/ RefuseToStart(p) \/ StartJobs(p) \/ StartWeb(p) \/ StartTelegram(p)
             \/ WithoutTelegram(p) \/ StartFails(p) \/ StopSeen(p) \/ StopTelegram(p) \/ StopWeb(p)
             \/ Drained(p) \/ StopJobs(p) \/ StopRuntime(p) \/ Signal(p)
      PROVE  MountInv'
  BY <1>7, MountGoesOn
<1>8. ASSUME NEW p \in Instance, Cancel(p) PROVE MountInv' BY <1>8, MountCancels
<1>9. CASE (\E c \in Command : RunCommand(c) \/ CommandDies(c)) \/ Deploy \/ WriteData
           \/ (\E p \in Migrator : MigrateStep(p)) \/ UNCHANGED vars
  <2>1. UNCHANGED <<pc, parts, listed, registry>>
    BY <1>9 DEF RunCommand, CommandDies, Deploy, WriteData, MigrateStep, vars, serveVars
  <2>2. QED BY <1>1, <2>1
<1>10. QED BY <1>2, <1>3, <1>4, <1>5, <1>6, <1>7, <1>8, <1>9 DEF Next, ServeStep

\* A name belongs to the program, or to the first mounted server that offered it
\* and had room; and a batch that takes a name of the program adds nothing.
THEOREM NamesHaveOneOwner == Spec => []FirstMountWins
<1>1. QED BY MountWins, InitMount, MountStep, LifeAlways, PTL DEF Spec
===============================================================================
