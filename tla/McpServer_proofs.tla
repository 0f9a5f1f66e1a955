--------------------------- MODULE McpServer_proofs ----------------------------
(***************************************************************************)
(* Theorems about McpServer for every set of tools and callers, whatever a *)
(* server advertises when it returns, and any number of attempts.          *)
(***************************************************************************)
EXTENDS McpServer, SequenceTheorems, TLAPS

USE McpAssumptions DEF Note

Places == {"idle", "planned", "lock", "submitted", "backoff", "flight"}

\* Everything but the calls: the flags, the connection and what it lists, the
\* operations asked for, and the lock.
Flags == {up, sick, stack, alive, failed, cooldown} \subseteq BOOLEAN

Connection ==
  /\ remote \in [Tool -> Note \cup {"absent"}] /\ listed \in [Tool -> Note \cup {"absent"}]
  /\ supervisor \in {"idle", "connecting", "standing down", "giving up", "stopping", "done"}
  /\ generation \in Nat /\ standdowns \in Nat
  /\ vanished \subseteq Tool /\ drifted \subseteq Tool
  /\ closer \in {"open", "waiting", "returned", "abandoned"}

Queues ==
  /\ requests \in Seq(Operation) /\ serving \in Caller \cup {Nobody}
  /\ lock \in Caller \cup {Nobody} /\ waiters \in Seq(Caller)
  /\ burst \in [attempt : Nat, lost : BOOLEAN, answer : Answers]

ConnectionTypes == Flags /\ Connection /\ Queues

\* A request is asked for twice only for a tool that was registered as harmless
\* and was found so when the call began.
MayRepeat(k) == Registered[k.tool] = "read" /\ k.safe

\* What a call knows at the place it is at, `known` being the drift found so far.
\* Drift is never taken back, so a tool that is harmless now was so from the start.
Fits(place, k, known) ==
  IF place = "idle" THEN k \in Outcomes
  ELSE /\ k \in Call
       /\ place = "planned" => k.sent = 0
       /\ place \in {"lock", "submitted", "backoff"} => k.sent < 2 /\ (k.sent = 0 \/ MayRepeat(k))
       /\ place = "flight" => k.sent = 1 \/ (k.sent = 2 /\ MayRepeat(k))
       /\ k.safe \/ k.tool \in known

Calls ==
  /\ pc \in [Caller -> Places]
  /\ call \in [Caller -> Call \cup Outcomes]
  /\ \A c \in Caller : Fits(pc[c], call[c], drifted)

\* A supervisor that ended on its own left no connection behind.
EndedClean == supervisor = "done" /\ ~Closed => ~stack

McpInv == ConnectionTypes /\ Calls /\ EndedClean /\ HealthyConnectionKept

LEMMA InitMcp == Init => McpInv
<1> SUFFICES ASSUME Init PROVE McpInv OBVIOUS
<1>1. ConnectionTypes
  BY EmptySeq DEF Init, ConnectionTypes, Flags, Connection, Queues, NoBurst, Answers
<1>2. Calls BY DEF Init, Calls, Places, Fits, Outcomes
<1>3. EndedClean /\ HealthyConnectionKept BY DEF Init, EndedClean, HealthyConnectionKept
<1>4. QED BY <1>1, <1>2, <1>3 DEF McpInv

-----------------------------------------------------------------------------
(* The types of everything but the calls. *)

LEMMA WithoutType ==
  ASSUME NEW s \in Seq(Caller), NEW c \in Caller
  PROVE  Without(s, c) \in Seq(Caller)
<1>1. CASE \E i \in DOMAIN s : s[i] = c
  <2> DEFINE i == CHOOSE i \in DOMAIN s : s[i] = c
  <2>1. i \in 1..Len(s) /\ Len(s) \in Nat BY <1>1, LenProperties
  <2> HIDE DEF i
  <2>2. SubSeq(s, 1, i - 1) \in Seq(Caller)
    <3>1. \A j \in 1..(i - 1) : j \in 1..Len(s) BY <2>1
    <3>2. \A j \in 1..(i - 1) : s[j] \in Caller BY <3>1, ElementOfSeq
    <3>3. QED BY <2>1, <3>1, SubSeqProperties
  <2>3. SubSeq(s, i + 1, Len(s)) \in Seq(Caller) BY <2>1, SubSeqProperties
  <2>4. Without(s, c) = SubSeq(s, 1, i - 1) \o SubSeq(s, i + 1, Len(s)) BY <1>1 DEF Without, i
  <2>5. QED BY <2>2, <2>3, <2>4, ConcatProperties
<1>2. CASE ~ \E i \in DOMAIN s : s[i] = c BY <1>2 DEF Without
<1>3. QED BY <1>1, <1>2

LEMMA SubmitTypes ==
  ASSUME Queues, NEW c \in Caller,
         NEW b \in [attempt : Nat, lost : BOOLEAN, answer : Answers], Submit(c, b)
  PROVE  /\ requests' \in Seq(Operation)
         /\ burst' \in [attempt : Nat, lost : BOOLEAN, answer : Answers]
         /\ supervisor' \in {supervisor, "idle"}
<1>1. [op |-> "connect", by |-> c] \in Operation BY DEF Operation
<1>2. CASE Closed \/ failed
  <2>1. burst' = [b EXCEPT !.answer = "gone"] /\ UNCHANGED <<requests, supervisor>>
    BY <1>2 DEF Submit
  <2>2. QED BY <2>1 DEF Queues, Answers
<1>3. CASE ~(Closed \/ failed)
  <2>1. requests' = Append(requests, [op |-> "connect", by |-> c]) BY <1>3 DEF Submit
  <2>2. requests' \in Seq(Operation) BY <1>1, <2>1, AppendProperties DEF Queues
  <2>3. QED BY <1>3, <2>2 DEF Submit, Answers
<1>4. QED BY <1>2, <1>3

LEMMA FlushTypes ==
  ASSUME Queues, Flush
  PROVE  /\ requests' \in Seq(Operation) /\ serving' \in Caller \cup {Nobody}
         /\ burst' \in [attempt : Nat, lost : BOOLEAN, answer : Answers]
BY EmptySeq DEF Flush, Queues, Answers

LEMMA ResolveTypes ==
  ASSUME Queues, NEW by, NEW answer \in Answers, Resolve(by, answer)
  PROVE  burst' \in [attempt : Nat, lost : BOOLEAN, answer : Answers]
BY DEF Resolve, Queues

LEMMA ServerTypes ==
  ASSUME ConnectionTypes,
         ServerDies \/ (\E advert \in Adverts : ServerReturns(advert)) \/ CooldownEnds
  PROVE  ConnectionTypes'
<1> USE DEF ConnectionTypes, serverVars, connVars, driftVars
<1>1. Queues' BY DEF ServerDies, ServerReturns, CooldownEnds, Queues
<1>2. Connection' BY DEF ServerDies, ServerReturns, CooldownEnds, Connection
<1>3. Flags' BY DEF ServerDies, ServerReturns, CooldownEnds, Flags
<1>4. QED BY <1>1, <1>2, <1>3

LEMMA SupervisorTypes ==
  ASSUME ConnectionTypes, SupervisorStep
  PROVE  ConnectionTypes'
<1> USE DEF ConnectionTypes, serverVars, connVars, driftVars
<1>1. Flags'
  BY DEF SupervisorStep, TakeConnect, TakeStop, Connected, ConnectFails, StandDown, StoodDown,
         Stopped, CancelledWhileClosing, Flags
<1>2. Connection'
  <2>1. CASE TakeConnect BY <2>1 DEF TakeConnect, Connection
  <2>2. CASE TakeStop BY <2>2 DEF TakeStop, Connection
  <2>3. CASE Connected BY <2>3 DEF Connected, Connection
  <2>4. CASE ConnectFails BY <2>4 DEF ConnectFails, Connection
  <2>5. CASE StandDown
    <3>1. standdowns' = standdowns + 1 /\ supervisor' \in {"giving up", "standing down"}
      BY <2>5 DEF StandDown
    <3>2. standdowns' \in Nat
      <4>1. standdowns \in Nat BY DEF Connection
      <4>2. standdowns + 1 \in Nat BY <4>1
      <4>3. QED BY <3>1, <4>2
    <3>3. UNCHANGED <<remote, listed, generation, vanished, drifted, closer>>
      BY <2>5 DEF StandDown
    <3>4. QED BY <3>1, <3>2, <3>3 DEF Connection
  <2>6. CASE StoodDown BY <2>6 DEF StoodDown, Connection
  <2>7. CASE Stopped BY <2>7 DEF Stopped, Connection
  <2>8. CASE CancelledWhileClosing BY <2>8 DEF CancelledWhileClosing, Connection
  <2>9. QED BY <2>1, <2>2, <2>3, <2>4, <2>5, <2>6, <2>7, <2>8 DEF SupervisorStep
<1>3. Queues'
  <2>1. ASSUME requests # <<>>, requests' = Tail(requests)
        PROVE  requests' \in Seq(Operation) /\ Head(requests).by \in Caller \cup {Nobody}
    <3>1. requests \in Seq(Operation) /\ Head(requests) \in Operation
      BY <2>1, HeadTailProperties DEF Queues
    <3>2. QED BY <2>1, <3>1, HeadTailProperties DEF Operation
  <2>2. CASE TakeConnect BY <2>1, <2>2 DEF TakeConnect, Queues
  <2>3. CASE TakeStop BY <2>1, <2>3 DEF TakeStop, Queues
  <2>4. CASE Connected BY <2>4, ResolveTypes DEF Connected, Queues, Answers
  <2>5. CASE ConnectFails BY <2>5, ResolveTypes DEF ConnectFails, Queues, Answers
  <2>6. CASE StandDown BY <2>6, ResolveTypes DEF StandDown, Queues, Answers
  <2>7. CASE StoodDown BY <2>7, FlushTypes DEF StoodDown, Queues
  <2>8. CASE Stopped BY <2>8, FlushTypes DEF Stopped, Queues
  <2>9. CASE CancelledWhileClosing BY <2>9, FlushTypes DEF CancelledWhileClosing, Queues
  <2>10. QED BY <2>2, <2>3, <2>4, <2>5, <2>6, <2>7, <2>8, <2>9 DEF SupervisorStep
<1>4. QED BY <1>1, <1>2, <1>3

LEMMA CloserTypes ==
  ASSUME ConnectionTypes, Close \/ CloserStep
  PROVE  ConnectionTypes'
<1> USE DEF ConnectionTypes, serverVars, connVars, driftVars
<1>1. Flags' BY DEF CloserStep, Close, CloseReturns, CloseAbandons, Flags
<1>2. Connection' BY DEF CloserStep, Close, CloseReturns, CloseAbandons, Connection
<1>3. Queues'
  <2>1. CASE Close
    <3>1. [op |-> "stop", by |-> Nobody] \in Operation BY DEF Operation
    <3>2. Append(requests, [op |-> "stop", by |-> Nobody]) \in Seq(Operation)
      BY <3>1, AppendProperties DEF Queues
    <3>3. QED BY <2>1, <3>2 DEF Close, Queues
  <2>2. CASE CloseReturns BY <2>2 DEF CloseReturns, Queues
  <2>3. CASE CloseAbandons BY <2>3, FlushTypes DEF CloseAbandons, Queues
  <2>4. QED BY <2>1, <2>2, <2>3 DEF CloserStep
<1>4. QED BY <1>1, <1>2, <1>3

\* A call that meets a dead connection may queue for the lock.
LEMMA ReconnectTypes ==
  ASSUME Queues, NEW c \in Caller, NEW k, Reconnect(c, k) \/ UNCHANGED waiters
  PROVE  waiters' \in Seq(Caller)
<1>1. Append(waiters, c) \in Seq(Caller) BY AppendProperties DEF Queues
<1>2. QED BY <1>1 DEF Reconnect, Queues

LEMMA CallQueues ==
  ASSUME Queues, NEW c \in Caller,
         (\E t \in Tool : PlanCall(c, t)) \/ CallStep(c) \/ Cancelled(c)
  PROVE  Queues'
<1> USE DEF serverVars, connVars, driftVars
<1> DEFINE Burst == [attempt : Nat, lost : BOOLEAN, answer : Answers]
<1>1. NoBurst \in Burst /\ burst \in Burst BY DEF NoBurst, Answers, Queues
<1>2. ASSUME waiters # <<>> PROVE Tail(waiters) \in Seq(Caller)
  BY <1>2, HeadTailProperties DEF Queues
<1>3. CASE \E t \in Tool : PlanCall(c, t) BY <1>3 DEF PlanCall, Queues
<1>4. CASE BeginCall(c)
  <2> DEFINE k == [call[c] EXCEPT !.gen = generation, !.safe = call[c].tool \notin drifted]
  <2>1. waiters' \in Seq(Caller)
    <3>1. UNCHANGED waiters \/ Reconnect(c, k) BY <1>4 DEF BeginCall
    <3>2. PICK b : b = k OBVIOUS
    <3>3. UNCHANGED waiters \/ Reconnect(c, b) BY <3>1, <3>2
    <3>4. QED BY <3>3, ReconnectTypes DEF Queues
  <2>2. QED BY <1>4, <2>1 DEF BeginCall, Queues
<1>5. CASE NothingToRebuild(c) BY <1>2, <1>5 DEF NothingToRebuild, Queues
<1>6. CASE StartBurst(c)
  <2>1. [NoBurst EXCEPT !.attempt = 1] \in Burst BY <1>1
  <2>2. PICK b \in Burst : Submit(c, b) BY <1>6, <2>1 DEF StartBurst
  <2>3. QED BY <1>2, <1>6, <2>2, SubmitTypes DEF StartBurst, Queues
<1>7. CASE Resubmit(c)
  <2>1. [burst EXCEPT !.lost = TRUE] \in Burst BY <1>1
  <2>2. PICK b \in Burst : Submit(c, b) BY <1>7, <2>1 DEF Resubmit
  <2>3. QED BY <1>7, <2>2, SubmitTypes DEF Resubmit, Queues
<1>8. CASE BackOff(c)
  <2>1. [NoBurst EXCEPT !.attempt = burst.attempt] \in Burst BY <1>1
  <2>2. QED BY <1>8, <2>1 DEF BackOff, Queues
<1>9. CASE TryAgain(c)
  <2>1. [burst EXCEPT !.attempt = burst.attempt + 1] \in Burst BY <1>1
  <2>2. PICK b \in Burst : Submit(c, b) BY <1>9, <2>1 DEF TryAgain
  <2>3. QED BY <1>9, <2>2, SubmitTypes DEF TryAgain, Queues
<1>10. CASE ClosedWhileBackingOff(c)
  BY <1>1, <1>10 DEF ClosedWhileBackingOff, Release, Queues
<1>11. CASE GiveUp(c) BY <1>1, <1>11 DEF GiveUp, Release, Queues
<1>12. CASE Reconnected(c) BY <1>1, <1>12 DEF Reconnected, ApplyDrift, Release, Queues
<1>13. CASE Returned(c) BY <1>13 DEF Returned, Queues
<1>14. CASE Interrupted(c)
  <2>1. waiters' \in Seq(Caller)
    <3>1. UNCHANGED waiters \/ Reconnect(c, call[c]) BY <1>14 DEF Interrupted
    <3>2. PICK b : b = call[c] OBVIOUS
    <3>3. UNCHANGED waiters \/ Reconnect(c, b) BY <3>1, <3>2
    <3>4. QED BY <3>3, ReconnectTypes DEF Queues
  <2>2. QED BY <1>14, <2>1 DEF Interrupted, Queues
<1>15. CASE NativeTimeout(c) BY <1>15 DEF NativeTimeout, Queues
<1>16. CASE Cancelled(c)
  <2>1. waiters' \in Seq(Caller) BY <1>16, WithoutType DEF Cancelled, Queues
  <2>2. requests' \in Seq(Operation)
    <3>1. requests \in Seq(Operation) /\ Len(requests) \in Nat /\ DOMAIN requests = 1..Len(requests)
      BY LenProperties DEF Queues
    <3>2. \A i \in DOMAIN requests : requests[i] \in Operation BY <3>1, ElementOfSeq
    <3>3. \A i \in DOMAIN requests : [requests[i] EXCEPT !.by = Nobody] \in Operation
      BY <3>2 DEF Operation
    <3>4. /\ requests' = [i \in 1..Len(requests) |-> requests'[i]]
          /\ \A i \in 1..Len(requests) : requests'[i] \in Operation
      BY <1>16, <3>1, <3>2, <3>3 DEF Cancelled
    <3>5. QED BY <3>1, <3>4, IsASeq
  <2>3. lock' \in Caller \cup {Nobody} /\ burst' \in Burst
    BY <1>1, <1>16 DEF Cancelled, Release, Queues
  <2>4. QED BY <1>16, <2>1, <2>2, <2>3 DEF Cancelled, Queues
<1>17. QED BY <1>3, <1>4, <1>5, <1>6, <1>7, <1>8, <1>9, <1>10, <1>11, <1>12, <1>13, <1>14, <1>15,
              <1>16 DEF CallStep

LEMMA SubmitSupervisor ==
  ASSUME Connection, NEW c, NEW b, Submit(c, b)
  PROVE  supervisor' = supervisor \/ supervisor' = "idle"
BY DEF Submit

LEMMA CallConnection ==
  ASSUME Flags, Connection, NEW c \in Caller,
         (\E t \in Tool : PlanCall(c, t)) \/ CallStep(c) \/ Cancelled(c)
  PROVE  Flags' /\ Connection'
<1> USE DEF serverVars, connVars, driftVars
<1>1. CASE \E t \in Tool : PlanCall(c, t) BY <1>1 DEF PlanCall, Flags, Connection
<1>2. CASE BeginCall(c) BY <1>2 DEF BeginCall, Flags, Connection
<1>3. CASE NothingToRebuild(c) BY <1>3 DEF NothingToRebuild, Flags, Connection
<1>4. CASE StartBurst(c)
  <2>1. PICK b : Submit(c, b) BY <1>4 DEF StartBurst
  <2>2. QED BY <1>4, <2>1, SubmitSupervisor DEF StartBurst, Flags, Connection
<1>5. CASE Resubmit(c)
  <2>1. PICK b : Submit(c, b) BY <1>5 DEF Resubmit
  <2>2. QED BY <1>5, <2>1, SubmitSupervisor DEF Resubmit, Flags, Connection
<1>6. CASE BackOff(c) BY <1>6 DEF BackOff, Flags, Connection
<1>7. CASE TryAgain(c)
  <2>1. PICK b : Submit(c, b) BY <1>7 DEF TryAgain
  <2>2. QED BY <1>7, <2>1, SubmitSupervisor DEF TryAgain, Flags, Connection
<1>8. CASE ClosedWhileBackingOff(c) BY <1>8 DEF ClosedWhileBackingOff, Flags, Connection
<1>9. CASE GiveUp(c) BY <1>9 DEF GiveUp, Flags, Connection
<1>10. CASE Reconnected(c) BY <1>10 DEF Reconnected, ApplyDrift, Flags, Connection
<1>11. CASE Returned(c) BY <1>11 DEF Returned, Flags, Connection
<1>12. CASE Interrupted(c) BY <1>12 DEF Interrupted, MarkConnectionLost, Flags, Connection
<1>13. CASE NativeTimeout(c) BY <1>13 DEF NativeTimeout, Flags, Connection
<1>14. CASE Cancelled(c) BY <1>14 DEF Cancelled, Flags, Connection
<1>15. QED BY <1>1, <1>2, <1>3, <1>4, <1>5, <1>6, <1>7, <1>8, <1>9, <1>10, <1>11, <1>12, <1>13,
              <1>14 DEF CallStep

LEMMA NextTypes == ConnectionTypes /\ [Next]_vars => ConnectionTypes'
<1> SUFFICES ASSUME ConnectionTypes, [Next]_vars PROVE ConnectionTypes' OBVIOUS
<1>1. CASE UNCHANGED vars BY <1>1 DEF vars, ConnectionTypes, Flags, Connection, Queues
<1>2. ASSUME NEW c \in Caller, (\E t \in Tool : PlanCall(c, t)) \/ CallStep(c) \/ Cancelled(c)
      PROVE  ConnectionTypes'
  BY <1>2, CallQueues, CallConnection DEF ConnectionTypes
<1>3. QED BY <1>1, <1>2, ServerTypes, SupervisorTypes, CloserTypes DEF Next

-----------------------------------------------------------------------------
(* The calls. *)

Moves(c) ==
  \E place \in Places, k \in Call \cup Outcomes :
    /\ pc' = [pc EXCEPT ![c] = place] /\ call' = [call EXCEPT ![c] = k]
    /\ Fits(place, k, drifted')

LEMMA Moved ==
  ASSUME Calls, NEW c \in Caller, Moves(c), drifted \subseteq drifted'
  PROVE  Calls'
<1>1. PICK place \in Places, k \in Call \cup Outcomes :
        /\ pc' = [pc EXCEPT ![c] = place] /\ call' = [call EXCEPT ![c] = k]
        /\ Fits(place, k, drifted')
  BY DEF Moves
<1>2. pc' \in [Caller -> Places] /\ call' \in [Caller -> Call \cup Outcomes]
  BY <1>1 DEF Calls
<1>3. ASSUME NEW d \in Caller PROVE Fits(pc'[d], call'[d], drifted')
  <2>1. CASE d = c
    <3>1. pc'[c] = place /\ call'[c] = k BY <1>1 DEF Calls
    <3>2. QED BY <1>1, <2>1, <3>1
  <2>2. CASE d # c
    <3>1. pc'[d] = pc[d] /\ call'[d] = call[d] BY <1>1, <2>2 DEF Calls
    <3>2. Fits(pc[d], call[d], drifted) BY DEF Calls
    <3>3. Fits(pc[d], call[d], drifted') BY <3>2 DEF Fits
    <3>4. QED BY <3>1, <3>3
  <2>3. QED BY <2>1, <2>2
<1>4. QED BY <1>2, <1>3 DEF Calls

LEMMA Finished ==
  ASSUME NEW c, NEW outcome \in Outcomes, Finish(c, outcome)
  PROVE  Moves(c)
BY DEF Finish, Moves, Fits, Places

\* A call that has something to send knows that it may.
Ready(k, known) ==
  /\ k \in Call /\ k.sent \in {0, 1}
  /\ k.sent = 0 \/ MayRepeat(k)
  /\ k.safe \/ k.tool \in known

LEMMA Sent ==
  ASSUME NEW c, NEW k, Ready(k, drifted'), generation \in Nat, Send(c, k)
  PROVE  Moves(c)
<1> DEFINE sent == [k EXCEPT !.gen = generation, !.sent = k.sent + 1]
<1>1. k \in Call /\ k.sent \in {0, 1} BY DEF Ready
<1>2. /\ sent \in Call /\ sent.sent = k.sent + 1 /\ sent.tool = k.tool /\ sent.safe = k.safe
  <2>1. k.sent + 1 \in 0..2 BY <1>1
  <2>2. k \in [tool : Tool, safe : BOOLEAN, gen : Nat, sent : 0..2] BY <1>1 DEF Call
  <2>3. QED BY <2>1, <2>2 DEF Call
<1>3. pc' = [pc EXCEPT ![c] = "flight"] /\ call' = [call EXCEPT ![c] = sent] BY DEF Send
<1> HIDE DEF sent
<1>4. Fits("flight", sent, drifted') BY <1>1, <1>2 DEF Fits, Ready, MayRepeat
<1>5. QED BY <1>2, <1>3, <1>4 DEF Moves, Places

LEMMA Went ==
  ASSUME NEW c, NEW k, Ready(k, drifted'), generation \in Nat, GoOn(c, k)
  PROVE  Moves(c)
BY Sent, Finished DEF GoOn, Outcomes

LEMMA Asked ==
  ASSUME NEW c, NEW k, Ready(k, drifted'), generation \in Nat, Reconnect(c, k)
  PROVE  Moves(c)
<1>1. CASE Closed \/ failed BY <1>1, Went DEF Reconnect
<1>2. CASE ~(Closed \/ failed)
  <2>1. pc' = [pc EXCEPT ![c] = "lock"] /\ call' = [call EXCEPT ![c] = k] BY <1>2 DEF Reconnect
  <2>2. Fits("lock", k, drifted') BY DEF Fits, Ready
  <2>3. QED BY <2>1, <2>2 DEF Moves, Places, Ready
<1>3. QED BY <1>1, <1>2

\* A call at a place of the rebuild is ready.
LEMMA Readiness ==
  ASSUME Calls, NEW c \in Caller, pc[c] \in {"lock", "submitted", "backoff"},
         drifted \subseteq drifted'
  PROVE  Ready(call[c], drifted')
<1>1. Fits(pc[c], call[c], drifted) BY DEF Calls
<1>2. call[c] \in Call /\ call[c].sent \in 0..2 /\ call[c].sent < 2 BY <1>1 DEF Fits, Call
<1>3. QED BY <1>1, <1>2 DEF Fits, Ready

LEMMA CallsKept ==
  ASSUME ConnectionTypes, Calls, NEW c \in Caller,
         (\E t \in Tool : PlanCall(c, t)) \/ CallStep(c) \/ Cancelled(c)
  PROVE  Calls'
<1> USE DEF driftVars
<1>1. generation \in Nat BY DEF ConnectionTypes, Connection
<1>2. drifted \subseteq drifted'
  BY DEF PlanCall, CallStep, BeginCall, NothingToRebuild, StartBurst, Resubmit, BackOff, TryAgain,
         ClosedWhileBackingOff, GiveUp, Reconnected, ApplyDrift, Returned, Interrupted,
         NativeTimeout, Cancelled
<1>3. pc[c] # "idle" => call[c] \in Call /\ Fits(pc[c], call[c], drifted) BY DEF Calls, Fits
<1>4. ASSUME pc' = [pc EXCEPT ![c] = "submitted"] \/ pc' = [pc EXCEPT ![c] = "backoff"],
             pc[c] \in {"lock", "submitted", "backoff"}, UNCHANGED <<call, drifted>>
      PROVE  Calls'
  <2>1. Ready(call[c], drifted') BY <1>2, <1>4, Readiness
  <2>2. call' = [call EXCEPT ![c] = call[c]] BY <1>4 DEF Calls
  <2>3. PICK k : k = call[c] OBVIOUS
  <2>4. PICK place \in {"submitted", "backoff"} : pc' = [pc EXCEPT ![c] = place] BY <1>4
  <2>5. k \in Call /\ Fits(place, k, drifted') BY <2>1, <2>3, <2>4 DEF Ready, Fits
  <2>6. call' = [call EXCEPT ![c] = k] BY <2>2, <2>3
  <2>7. Moves(c) BY <2>4, <2>5, <2>6 DEF Moves, Places
  <2>8. QED BY <1>2, <2>7, Moved
<1>5. CASE \E t \in Tool : PlanCall(c, t)
  <2>1. PICK t \in Tool : PlanCall(c, t) BY <1>5
  <2> DEFINE k == [tool |-> t, safe |-> TRUE, gen |-> 0, sent |-> 0]
  <2>2. k \in Call /\ Fits("planned", k, drifted') BY DEF Call, Fits
  <2>3. pc' = [pc EXCEPT ![c] = "planned"] /\ call' = [call EXCEPT ![c] = k]
    BY <2>1 DEF PlanCall
  <2>4. Moves(c) BY <2>2, <2>3 DEF Moves, Places
  <2>5. QED BY <1>2, <2>4, Moved
<1>6. CASE BeginCall(c)
  <2>1. PICK k : k = [call[c] EXCEPT !.gen = generation, !.safe = call[c].tool \notin drifted]
    OBVIOUS
  <2>2. Ready(k, drifted')
    <3>1. call[c] \in Call /\ call[c].sent = 0 BY <1>3, <1>6 DEF BeginCall, Fits
    <3>2. k \in Call /\ k.sent = 0 /\ k.safe = (k.tool \notin drifted)
      BY <1>1, <2>1, <3>1 DEF Call
    <3>3. QED BY <1>2, <3>2 DEF Ready
  <2>3. Finish(c, "withheld") \/ Send(c, k) \/ Reconnect(c, k) BY <1>6, <2>1 DEF BeginCall
  <2>4. Moves(c) BY <1>1, <2>2, <2>3, Finished, Sent, Asked DEF Outcomes
  <2>5. QED BY <1>2, <2>4, Moved
<1>7. CASE NothingToRebuild(c) \/ ClosedWhileBackingOff(c) \/ GiveUp(c) \/ Reconnected(c)
  <2>1. GoOn(c, call[c]) /\ pc[c] \in {"lock", "submitted", "backoff"}
    BY <1>7 DEF NothingToRebuild, ClosedWhileBackingOff, GiveUp, Reconnected
  <2>2. PICK k : k = call[c] OBVIOUS
  <2>3. GoOn(c, k) /\ Ready(k, drifted') BY <1>2, <2>1, <2>2, Readiness
  <2>4. Moves(c) BY <1>1, <2>3, Went
  <2>5. QED BY <1>2, <2>4, Moved
<1>8. CASE StartBurst(c) BY <1>4, <1>8 DEF StartBurst
<1>9. CASE Resubmit(c)
  <2>1. UNCHANGED <<pc, call, drifted>> BY <1>9 DEF Resubmit
  <2>2. QED BY <2>1 DEF Calls
<1>10. CASE BackOff(c) BY <1>4, <1>10 DEF BackOff
<1>11. CASE TryAgain(c) BY <1>4, <1>11 DEF TryAgain
<1>12. CASE Returned(c) BY <1>2, <1>12, Finished, Moved DEF Returned, Outcomes
<1>13. CASE Interrupted(c)
  <2>1. PICK k : k = call[c] OBVIOUS
  <2>2. \/ Finish(c, "failed") \/ Finish(c, "unknown")
        \/ k.sent # 2 /\ Harmless(k.tool) /\ Reconnect(c, k)
    BY <1>13, <2>1 DEF Interrupted
  <2>3. ASSUME k.sent # 2, Harmless(k.tool) PROVE Ready(k, drifted')
    <3>1. k \in Call /\ k.sent = 1 BY <1>3, <1>13, <2>1, <2>3 DEF Interrupted, Fits
    <3>2. Registered[k.tool] = "read" /\ k.safe
      BY <1>3, <1>13, <2>1, <2>3 DEF Interrupted, Fits, Harmless
    <3>3. QED BY <3>1, <3>2 DEF Ready, MayRepeat
  <2>4. Moves(c) BY <1>1, <2>2, <2>3, Finished, Asked DEF Outcomes
  <2>5. QED BY <1>2, <2>4, Moved
<1>14. CASE NativeTimeout(c)
  <2>1. Finish(c, "unknown") \/ Finish(c, "failed") BY <1>14 DEF NativeTimeout
  <2>2. QED BY <1>2, <2>1, Finished, Moved DEF Outcomes
<1>15. CASE Cancelled(c) BY <1>2, <1>15, Finished, Moved DEF Cancelled, Outcomes
<1>16. QED BY <1>5, <1>6, <1>7, <1>8, <1>9, <1>10, <1>11, <1>12, <1>13, <1>14, <1>15 DEF CallStep

LEMMA NextCalls == ConnectionTypes /\ Calls /\ [Next]_vars => Calls'
<1> SUFFICES ASSUME ConnectionTypes, Calls, [Next]_vars PROVE Calls' OBVIOUS
<1>1. ASSUME NEW c \in Caller, (\E t \in Tool : PlanCall(c, t)) \/ CallStep(c) \/ Cancelled(c)
      PROVE  Calls'
  BY <1>1, CallsKept
<1>2. ASSUME UNCHANGED <<pc, call, drifted>> PROVE Calls' BY <1>2 DEF Calls
<1>3. CASE ServerDies \/ (\E advert \in Adverts : ServerReturns(advert)) \/ CooldownEnds
  BY <1>2, <1>3 DEF ServerDies, ServerReturns, CooldownEnds, driftVars
<1>4. CASE SupervisorStep
  BY <1>2, <1>4 DEF SupervisorStep, TakeConnect, TakeStop, Connected, ConnectFails, StandDown,
                    StoodDown, Stopped, CancelledWhileClosing, driftVars
<1>5. CASE Close \/ CloserStep
  BY <1>2, <1>5 DEF Close, CloserStep, CloseReturns, CloseAbandons, driftVars
<1>6. CASE UNCHANGED vars BY <1>2, <1>6 DEF vars
<1>7. QED BY <1>1, <1>3, <1>4, <1>5, <1>6 DEF Next

-----------------------------------------------------------------------------
(* The connection.  `alive` may be FALSE over an open stack of an idle        *)
(* supervisor only if that stack is sick: whoever sets it so either discards  *)
(* the connection itself, or names the generation it saw die.                 *)

Kept == EndedClean /\ HealthyConnectionKept

LEMMA KeptUnlessTouched ==
  Kept /\ UNCHANGED <<supervisor, stack, sick, alive, closer>> => Kept'
BY DEF Kept, EndedClean, HealthyConnectionKept, Closed

\* The supervisor that replaces one that ended finds no connection.
LEMMA KeptBySubmit ==
  ASSUME Kept, NEW c, NEW b, Submit(c, b), UNCHANGED <<stack, sick, alive, closer>>
  PROVE  Kept'
BY DEF Kept, EndedClean, HealthyConnectionKept, Closed, Submit

LEMMA KeptBySupervisor ==
  ASSUME Kept, SupervisorStep
  PROVE  Kept'
<1> USE DEF Kept, EndedClean, HealthyConnectionKept, Closed
<1>1. CASE TakeConnect BY <1>1 DEF TakeConnect
<1>2. CASE TakeStop BY <1>2 DEF TakeStop
<1>3. CASE Connected BY <1>3 DEF Connected
<1>4. CASE ConnectFails BY <1>4 DEF ConnectFails
<1>5. CASE StandDown BY <1>5 DEF StandDown
<1>6. CASE StoodDown BY <1>6 DEF StoodDown
<1>7. CASE Stopped BY <1>7 DEF Stopped
<1>8. CASE CancelledWhileClosing BY <1>8 DEF CancelledWhileClosing, connVars, serverVars
<1>9. QED BY <1>1, <1>2, <1>3, <1>4, <1>5, <1>6, <1>7, <1>8 DEF SupervisorStep

\* A late diagnosis: the connection that died is the one there is only if that
\* one is broken too, or being discarded.
LEMMA KeptByInterrupted ==
  ASSUME Kept, NEW c, Interrupted(c)
  PROVE  Kept'
<1>1. UNCHANGED <<supervisor, stack, sick, closer>> BY DEF Interrupted, serverVars
<1>2. CASE alive' = alive BY <1>1, <1>2, KeptUnlessTouched
<1>3. CASE MarkConnectionLost(call[c].gen)
  <2>1. CASE generation = call[c].gen
    <3>1. ~stack \/ sick \/ supervisor \notin {"idle", "done"} BY <2>1 DEF Interrupted, Died
    <3>2. QED BY <1>1, <3>1 DEF Kept, EndedClean, HealthyConnectionKept, Closed
  <2>2. CASE generation # call[c].gen
    BY <1>1, <1>3, <2>2 DEF MarkConnectionLost, Kept, EndedClean, HealthyConnectionKept, Closed
  <2>3. QED BY <2>1, <2>2
<1>4. QED BY <1>2, <1>3 DEF Interrupted

LEMMA NextKept == Kept /\ [Next]_vars => Kept'
<1> SUFFICES ASSUME Kept, [Next]_vars PROVE Kept' OBVIOUS
<1> USE DEF serverVars, connVars
<1>1. CASE ServerDies
  BY <1>1 DEF ServerDies, Kept, EndedClean, HealthyConnectionKept, Closed
<1>2. CASE (\E advert \in Adverts : ServerReturns(advert)) \/ CooldownEnds
  BY <1>2, KeptUnlessTouched DEF ServerReturns, CooldownEnds
<1>3. CASE Close \/ CloseReturns \/ CloseAbandons
  BY <1>3 DEF Close, CloseReturns, CloseAbandons, Kept, EndedClean, HealthyConnectionKept, Closed
<1>4. ASSUME NEW c \in Caller, (\E t \in Tool : PlanCall(c, t)) \/ Cancelled(c) PROVE Kept'
  BY <1>4, KeptUnlessTouched DEF PlanCall, Cancelled
<1>5. ASSUME NEW c \in Caller, CallStep(c) PROVE Kept'
  <2>1. CASE StartBurst(c)
    <3>1. PICK b : Submit(c, b) BY <2>1 DEF StartBurst
    <3>2. QED BY <2>1, <3>1, KeptBySubmit DEF StartBurst
  <2>2. CASE Resubmit(c)
    <3>1. PICK b : Submit(c, b) BY <2>2 DEF Resubmit
    <3>2. QED BY <2>2, <3>1, KeptBySubmit DEF Resubmit
  <2>3. CASE TryAgain(c)
    <3>1. PICK b : Submit(c, b) BY <2>3 DEF TryAgain
    <3>2. QED BY <2>3, <3>1, KeptBySubmit DEF TryAgain
  <2>4. CASE Interrupted(c) BY <2>4, KeptByInterrupted
  <2>5. CASE BeginCall(c) \/ NothingToRebuild(c) \/ BackOff(c) \/ ClosedWhileBackingOff(c)
    BY <2>5, KeptUnlessTouched DEF BeginCall, NothingToRebuild, BackOff, ClosedWhileBackingOff
  <2>6. CASE GiveUp(c) \/ Reconnected(c) \/ Returned(c) \/ NativeTimeout(c)
    BY <2>6, KeptUnlessTouched DEF GiveUp, Reconnected, Returned, NativeTimeout
  <2>7. QED BY <1>5, <2>1, <2>2, <2>3, <2>4, <2>5, <2>6 DEF CallStep
<1>6. CASE UNCHANGED vars BY <1>6, KeptUnlessTouched DEF vars
<1>7. QED BY <1>1, <1>2, <1>3, <1>4, <1>5, <1>6, KeptBySupervisor DEF Next, CloserStep

-----------------------------------------------------------------------------
(* The theorems. *)

\* McpInv is kept by every step from a state that satisfies it.
THEOREM Invariance == Spec => []McpInv
<1>1. McpInv /\ [Next]_vars => McpInv'
  BY NextTypes, NextCalls, NextKept DEF McpInv, Kept
<1>2. QED BY <1>1, InitMcp, PTL DEF Spec

\* Every variable keeps its type, and a call that is being made has its record.
THEOREM TypeCorrect == Spec => []TypeOK
<1>1. McpInv => TypeOK
  <2> SUFFICES ASSUME McpInv PROVE TypeOK OBVIOUS
  <2>1. \A c \in Caller : IF pc[c] = "idle" THEN call[c] \in Outcomes ELSE call[c] \in Call
    BY DEF McpInv, Calls, Fits
  <2>2. pc \in [Caller -> Places] BY DEF McpInv, Calls
  <2>3. Flags /\ Connection /\ Queues BY DEF McpInv, ConnectionTypes
  <2>4. QED BY <2>1, <2>2, <2>3 DEF TypeOK, Flags, Connection, Queues, Places
<1>2. QED BY <1>1, Invariance, PTL

\* The diagnosis of a connection that died, however late it is acted on, never
\* forgets a later one that works (_mark_connection_lost, and the supervisor).
THEOREM ConnectionKept == Spec => []HealthyConnectionKept
<1>1. McpInv => HealthyConnectionKept BY DEF McpInv
<1>2. QED BY <1>1, Invariance, PTL

\* A call that may mutate is on the wire at most once (_make_call_fn).
THEOREM SentOnce == Spec => []MutationsSentOnce
<1>1. McpInv => MutationsSentOnce
  <2> SUFFICES ASSUME Calls, NEW c \in Caller, pc[c] # "idle", ~MayRepeat(call[c])
               PROVE  call[c].sent < 2
    BY DEF McpInv, MutationsSentOnce, MayRepeat
  <2>1. pc[c] \in Places /\ Fits(pc[c], call[c], drifted) BY DEF Calls
  <2>2. QED BY <2>1 DEF Fits, Places
<1>2. QED BY <1>1, Invariance, PTL

-----------------------------------------------------------------------------
(* What a step may do to a call.                                             *)

\* Only a call's own steps move it.
LEMMA OwnStep ==
  ASSUME Calls, [Next]_vars, NEW c \in Caller, pc'[c] # pc[c]
  PROVE  (\E t \in Tool : PlanCall(c, t)) \/ CallStep(c) \/ Cancelled(c)
<1>1. ASSUME NEW d, pc' = pc \/ (\E place \in Places : pc' = [pc EXCEPT ![d] = place])
      PROVE  d = c
  BY <1>1 DEF Calls
<1>2. ASSUME NEW d, NEW outcome, Finish(d, outcome) PROVE d = c
  BY <1>1, <1>2 DEF Finish, Places
<1>3. ASSUME NEW d, NEW k, Send(d, k) PROVE d = c BY <1>1, <1>3 DEF Send, Places
<1>4. ASSUME NEW d, NEW k, GoOn(d, k) PROVE d = c BY <1>2, <1>3, <1>4 DEF GoOn
<1>5. ASSUME NEW d, NEW k, Reconnect(d, k) PROVE d = c
  BY <1>1, <1>4, <1>5 DEF Reconnect, Places
<1>6. ASSUME NEW d \in Caller, BeginCall(d) PROVE d = c
  <2>1. PICK k : k = [call[d] EXCEPT !.gen = generation, !.safe = call[d].tool \notin drifted]
    OBVIOUS
  <2>2. Finish(d, "withheld") \/ Send(d, k) \/ Reconnect(d, k) BY <1>6, <2>1 DEF BeginCall
  <2>3. QED BY <1>2, <1>3, <1>5, <2>2
<1>7. ASSUME NEW d \in Caller, Interrupted(d) PROVE d = c
  <2>1. PICK k : k = call[d] OBVIOUS
  <2>2. Finish(d, "failed") \/ Finish(d, "unknown") \/ Reconnect(d, k)
    BY <1>7, <2>1 DEF Interrupted
  <2>3. QED BY <1>2, <1>5, <2>2
<1>8. ASSUME NEW d \in Caller,
             NothingToRebuild(d) \/ ClosedWhileBackingOff(d) \/ GiveUp(d) \/ Reconnected(d)
      PROVE  d = c
  <2>1. PICK k : k = call[d] OBVIOUS
  <2>2. GoOn(d, k) BY <1>8, <2>1 DEF NothingToRebuild, ClosedWhileBackingOff, GiveUp, Reconnected
  <2>3. QED BY <1>4, <2>2
<1>9. ASSUME NEW d \in Caller, StartBurst(d) \/ Resubmit(d) \/ BackOff(d) \/ TryAgain(d)
      PROVE  d = c
  BY <1>1, <1>9 DEF StartBurst, Resubmit, BackOff, TryAgain, Places
<1>10. ASSUME NEW d \in Caller, Returned(d) \/ NativeTimeout(d) \/ Cancelled(d) PROVE d = c
  <2>1. PICK outcome : Finish(d, outcome) BY <1>10 DEF Returned, NativeTimeout, Cancelled
  <2>2. QED BY <1>2, <2>1
<1>11. ASSUME NEW d \in Caller, (\E t \in Tool : PlanCall(d, t)) PROVE d = c
  BY <1>1, <1>11 DEF PlanCall, Places
<1>12. ASSUME NEW d \in Caller, (\E t \in Tool : PlanCall(d, t)) \/ CallStep(d) \/ Cancelled(d)
       PROVE  d = c
  BY <1>6, <1>7, <1>8, <1>9, <1>10, <1>11, <1>12 DEF CallStep
<1>13. CASE UNCHANGED vars BY <1>13 DEF vars
<1>14. CASE ServerDies \/ (\E advert \in Adverts : ServerReturns(advert)) \/ CooldownEnds
  BY <1>14 DEF ServerDies, ServerReturns, CooldownEnds
<1>15. CASE SupervisorStep
  BY <1>15 DEF SupervisorStep, TakeConnect, TakeStop, Connected, ConnectFails, StandDown,
               StoodDown, Stopped, CancelledWhileClosing
<1>16. CASE Close \/ CloserStep BY <1>16 DEF Close, CloserStep, CloseReturns, CloseAbandons
<1>17. QED BY <1>12, <1>13, <1>14, <1>15, <1>16 DEF Next

\* A step that ends a call with a failure or a refusal ends one that was never
\* sent, or one that could be sent twice.
LEMMA HonestStep ==
  ASSUME Calls, [Next]_vars, NEW c \in Caller, pc[c] # "idle", pc'[c] = "idle",
         call'[c] \in {"failed", "withheld"}
  PROVE  call[c].sent = 0 \/ MayRepeat(call[c])
<1>1. pc[c] \in Places /\ call[c] \in Call /\ Fits(pc[c], call[c], drifted)
  BY DEF Calls, Fits
<1>2. CASE pc[c] # "flight" BY <1>1, <1>2 DEF Fits, Places
<1>3. CASE pc[c] = "flight"
  <2>1. call[c].sent = 1 \/ MayRepeat(call[c]) BY <1>1, <1>3 DEF Fits
  <2>2. ASSUME Harmless(call[c].tool) PROVE MayRepeat(call[c])
    BY <1>1, <1>3, <2>2 DEF Fits, Harmless, MayRepeat
  <2>3. ASSUME NEW outcome, Finish(c, outcome) PROVE outcome \in {"failed", "withheld"}
    BY <2>3 DEF Finish, Calls
  <2>4. Interrupted(c) \/ NativeTimeout(c) \/ Finish(c, "answered") \/ Finish(c, "timeout")
    BY <1>3, OwnStep
    DEF PlanCall, CallStep, BeginCall, NothingToRebuild, StartBurst, Resubmit, BackOff, TryAgain,
        ClosedWhileBackingOff, GiveUp, Reconnected, Returned, Cancelled
  <2>5. CASE NativeTimeout(c)
    <3>1. CASE call[c].sent = 1 /\ ~Harmless(call[c].tool)
      BY <2>3, <2>5, <3>1 DEF NativeTimeout
    <3>2. QED BY <2>1, <2>2, <3>1
  <2>6. CASE Interrupted(c)
    <3>1. CASE Finish(c, "unknown") BY <2>3, <3>1
    <3>2. call[c].sent = 2 \/ Harmless(call[c].tool) \/ Finish(c, "unknown")
      BY <2>6 DEF Interrupted
    <3>3. QED BY <2>1, <2>2, <3>1, <3>2
  <2>7. QED BY <2>3, <2>4, <2>5, <2>6
<1>4. QED BY <1>2, <1>3

\* A call that leaves the rebuild for the wire has a tool whose drift, if any,
\* it knew of from the start.
LEMMA WithheldStep ==
  ASSUME Calls, [Next]_vars, NEW c \in Caller, pc[c] \in {"lock", "submitted", "backoff"},
         pc'[c] = "flight", call[c].safe
  PROVE  call[c].tool \notin drifted'
<1>1. Fits(pc[c], call[c], drifted) /\ call[c] \in Call BY DEF Calls, Fits
<1>2. call[c].sent \in {0, 1} BY <1>1 DEF Fits, Call
<1>3. GoOn(c, call[c])
  <2>1. ~(\E outcome : Finish(c, outcome)) BY DEF Finish, Calls
  <2>2. ~(StartBurst(c) \/ Resubmit(c) \/ BackOff(c) \/ TryAgain(c))
    BY DEF StartBurst, Resubmit, BackOff, TryAgain, Calls
  <2>3. QED
    BY <2>1, <2>2, OwnStep
    DEF PlanCall, CallStep, BeginCall, NothingToRebuild, ClosedWhileBackingOff, GiveUp,
        Reconnected, Returned, Interrupted, NativeTimeout, Cancelled
<1>4. ~Finish(c, "withheld") BY DEF Finish, Calls
<1>5. ~Finish(c, "unknown") BY DEF Finish, Calls
<1>6. QED BY <1>2, <1>3, <1>4, <1>5 DEF GoOn

\* What the Router is told of a call that may mutate: a failure or a refusal only
\* if nothing was sent (_make_call_fn, its except branches).
THEOREM OutcomesHonest == Spec => HonestOutcome
<1>1. McpInv /\ [Next]_vars =>
        [\A c \in Caller :
           /\ pc[c] # "idle" /\ pc'[c] = "idle" /\ call'[c] \in {"failed", "withheld"}
           /\ Registered[call[c].tool] # "read" \/ ~call[c].safe
           => call[c].sent = 0]_vars
  BY HonestStep DEF McpInv, MayRepeat
<1>2. QED BY <1>1, Invariance, PTL DEF Spec, HonestOutcome

\* A harmless call that waited for a rebuild is not sent once its tool is known to
\* be something else, whoever found that out.
THEOREM DriftIsWithheld == Spec => DriftWithholds
<1>1. McpInv /\ [Next]_vars =>
        [\A c \in Caller :
           /\ pc[c] \in {"lock", "submitted", "backoff"} /\ pc'[c] = "flight"
           /\ call[c].safe
           => call[c].tool \notin drifted']_vars
  BY WithheldStep DEF McpInv
<1>2. QED BY <1>1, Invariance, PTL DEF Spec, DriftWithholds

===============================================================================
