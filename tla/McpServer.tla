------------------------------- MODULE McpServer -------------------------------
(***************************************************************************)
(* One mounted MCP server, as dudamel/mcp_mount.py runs it: the supervisor *)
(* task that owns the connection, the tool calls that find it dead, the    *)
(* lock under which one of them rebuilds it, and close().                  *)
(*                                                                         *)
(* The module starts where MCPMount.mount leaves a server that works.  A   *)
(* connection is named by the generation it was given; the session of an   *)
(* older generation is gone.  Between two awaits a task runs alone, so a   *)
(* step goes from one await of a task to its next.                         *)
(***************************************************************************)
EXTENDS Naturals, Sequences, FiniteSets

CONSTANTS
  Caller,          \* tasks of the Router that may be inside a tool call at once
  Tool,            \* remote tool names registered from this server
  Registered,      \* the annotation each was registered under
  Adverts,         \* what a server that restarts may advertise
  Attempts,        \* [mcp].reconnect_attempts
  MaxGeneration,   \* bound: connections ever built
  MaxQueued,       \* bound: no rebuild starts behind this many queued operations
  Nobody           \* no caller

Note == {"read", "plain", "destructive"}

ASSUME McpAssumptions ==
  /\ Registered \in [Tool -> Note]
  /\ Adverts \subseteq [Tool -> Note \cup {"absent"}]
  /\ Attempts \in Nat \ {0} /\ MaxGeneration \in Nat /\ MaxQueued \in Nat \ {0}
  /\ Nobody \notin Caller

VARIABLES
  up,          \* the server process is reachable
  remote,      \* what it advertises now
  sick,        \* the transport of the current connection has failed
  supervisor,  \* where the supervisor task is
  requests,    \* its queue: the operations asked for, with who awaits each
  serving,     \* who awaits the operation it is running
  stack,       \* it holds an open AsyncExitStack
  alive,       \* the session of `generation` may be used
  generation,  \* connections built so far
  listed,      \* listed_tools of the newest connection
  standdowns,  \* consecutive stand-downs
  failed,      \* _supervisor_failed
  cooldown,    \* now < _cooldown_until
  vanished, drifted,
  lock, waiters, \* reconnect's asyncio.Lock: its owner, and who waits, FIFO
  burst,       \* the owner's locals: attempt, whether one request was lost, the answer
  pc, call,    \* where each caller is; its call, or what became of the last one
  closer       \* close()

serverVars == <<up, remote, sick>>
connVars == <<stack, alive, generation, listed>>
driftVars == <<vanished, drifted>>
vars == <<up, remote, sick, supervisor, requests, serving, stack, alive, generation, listed,
          standdowns, failed, cooldown, vanished, drifted, lock, waiters, burst, pc, call, closer>>

Operation == [op : {"connect", "stop"}, by : Caller \cup {Nobody}]
Answers == {"none", "ok", "failed", "gone"}
\* What the Router is told: the server's own answer (its error included), a
\* failure or a refusal of dudamel's, an outcome nobody knows, or nothing before
\* its own timeout.
Outcomes == {"answered", "failed", "withheld", "unknown", "timeout"}
Call == [tool : Tool, safe : BOOLEAN, gen : Nat, sent : 0..2]
NoBurst == [attempt |-> 0, lost |-> FALSE, answer |-> "none"]

Closed == closer # "open"
MaxScopeRecoveries == 2 * Attempts

\* Slip: the classification a tool was registered under is forgotten.
Harmless_IfNotDrifted(t) == t \notin drifted

Harmless(t) == Registered[t] = "read" /\ t \notin drifted

Init ==
  /\ up = TRUE /\ remote = Registered /\ sick = FALSE
  /\ supervisor = "idle" /\ requests = <<>> /\ serving = Nobody
  /\ stack = TRUE /\ alive = TRUE /\ generation = 1 /\ listed = Registered
  /\ standdowns = 0 /\ failed = FALSE /\ cooldown = FALSE
  /\ vanished = {} /\ drifted = {}
  /\ lock = Nobody /\ waiters = <<>> /\ burst = NoBurst
  /\ pc = [c \in Caller |-> "idle"]
  /\ call = [c \in Caller |-> "answered"]
  /\ closer = "open"

(***************************************************************************)
(* The server.                                                             *)
(***************************************************************************)
\* It dies: every connection to it fails.
ServerDies ==
  /\ up /\ up' = FALSE
  /\ sick' = stack
  /\ UNCHANGED <<remote, supervisor, requests, serving, connVars, standdowns, failed, cooldown,
                 driftVars, lock, waiters, burst, pc, call, closer>>

\* It is back, not obliged to be the same server.
ServerReturns(advert) ==
  /\ ~up /\ up' = TRUE /\ remote' = advert
  /\ UNCHANGED <<sick, supervisor, requests, serving, connVars, standdowns, failed, cooldown,
                 driftVars, lock, waiters, burst, pc, call, closer>>

CooldownEnds ==
  /\ cooldown /\ cooldown' = FALSE
  /\ UNCHANGED <<serverVars, supervisor, requests, serving, connVars, standdowns, failed,
                 driftVars, lock, waiters, burst, pc, call, closer>>

(***************************************************************************)
(* Handing operations to the supervisor.                                   *)
(***************************************************************************)
\* A caller waits for the lock once at most.
Without(s, c) ==
  IF \E i \in DOMAIN s : s[i] = c
  THEN LET i == CHOOSE i \in DOMAIN s : s[i] = c IN SubSeq(s, 1, i - 1) \o SubSeq(s, i + 1, Len(s))
  ELSE s

\* The future of the operation is resolved; its caller may have gone.
Resolve(by, answer) ==
  burst' = IF by # Nobody /\ by = lock THEN [burst EXCEPT !.answer = answer] ELSE burst

\* Slip: the dead supervisor is not replaced.
Submit_NoRespawn(c, b) ==
  /\ burst' = IF Closed \/ failed \/ supervisor = "done"
              THEN [b EXCEPT !.answer = "gone"] ELSE [b EXCEPT !.answer = "none"]
  /\ requests' = IF Closed \/ failed \/ supervisor = "done"
                 THEN requests ELSE Append(requests, [op |-> "connect", by |-> c])
  /\ supervisor' = supervisor

\* _submit_once, by the owner c of the lock whose locals become b.
Submit(c, b) ==
  IF Closed \/ failed
  THEN /\ burst' = [b EXCEPT !.answer = "gone"]
       /\ UNCHANGED <<requests, supervisor>>
  ELSE /\ burst' = [b EXCEPT !.answer = "none"]
       /\ requests' = Append(requests, [op |-> "connect", by |-> c])
       /\ supervisor' = IF supervisor = "done" THEN "idle" ELSE supervisor

(***************************************************************************)
(* The supervisor task.                                                    *)
(***************************************************************************)
\* _rebuild discards whatever connection exists before it builds one.
TakeConnect ==
  /\ supervisor = "idle" /\ requests # <<>> /\ Head(requests).op = "connect"
  /\ serving' = Head(requests).by /\ requests' = Tail(requests)
  /\ supervisor' = "connecting"
  /\ alive' = FALSE /\ stack' = TRUE /\ sick' = FALSE
  /\ UNCHANGED <<up, remote, generation, listed, standdowns, failed, cooldown, driftVars,
                 lock, waiters, burst, pc, call, closer>>

TakeStop ==
  /\ supervisor = "idle" /\ requests # <<>> /\ Head(requests).op = "stop"
  /\ requests' = Tail(requests) /\ serving' = Nobody
  /\ supervisor' = "stopping" /\ alive' = FALSE
  /\ UNCHANGED <<serverVars, stack, generation, listed, standdowns, failed, cooldown, driftVars,
                 lock, waiters, burst, pc, call, closer>>

\* The handshake and the discovery succeed as one unit.
Connected ==
  /\ supervisor = "connecting" /\ up /\ generation < MaxGeneration
  /\ supervisor' = "idle" /\ serving' = Nobody
  /\ alive' = TRUE /\ generation' = generation + 1 /\ listed' = remote
  /\ standdowns' = 0
  /\ Resolve(serving, "ok")
  /\ UNCHANGED <<serverVars, requests, stack, failed, cooldown, driftVars,
                 lock, waiters, pc, call, closer>>

\* Refused, malformed, or longer than mount_timeout.
ConnectFails ==
  /\ supervisor = "connecting"
  /\ supervisor' = "idle" /\ serving' = Nobody
  /\ stack' = FALSE /\ sick' = FALSE
  /\ Resolve(serving, "failed")
  /\ UNCHANGED <<up, remote, requests, alive, generation, listed, standdowns, failed, cooldown,
                 driftVars, lock, waiters, pc, call, closer>>

\* anyio cancels the host of a scope whose transport failed.
ScopeFailed == \/ supervisor = "idle" /\ stack /\ sick
               \/ supervisor = "connecting" /\ ~up

StandDown ==
  /\ ScopeFailed /\ ~Closed
  /\ standdowns' = standdowns + 1
  /\ supervisor' = IF standdowns' > MaxScopeRecoveries THEN "giving up" ELSE "standing down"
  /\ serving' = Nobody
  /\ alive' = FALSE
  /\ Resolve(serving, "failed")
  /\ UNCHANGED <<serverVars, requests, stack, generation, listed, failed, cooldown, driftVars,
                 lock, waiters, pc, call, closer>>

\* Slip: the queue of a task that ends is forgotten.
Flush_ServingOnly ==
  /\ requests' = <<>> /\ serving' = Nobody
  /\ Resolve(serving, "gone")

\* What is still queued behind a task that ends is answered, never run.
Flush ==
  /\ requests' = <<>> /\ serving' = Nobody
  /\ LET lost == \E i \in DOMAIN requests : requests[i].by = lock
     IN  burst' = IF lock # Nobody /\ (lost \/ serving = lock)
                  THEN [burst EXCEPT !.answer = "gone"] ELSE burst

StoodDown ==
  /\ supervisor \in {"standing down", "giving up"}
  /\ supervisor' = "done" /\ stack' = FALSE /\ sick' = FALSE
  /\ failed' = (supervisor = "giving up")
  /\ Flush
  /\ UNCHANGED <<up, remote, alive, generation, listed, standdowns, cooldown, driftVars,
                 lock, waiters, pc, call, closer>>

Stopped ==
  /\ supervisor = "stopping"
  /\ supervisor' = "done" /\ stack' = FALSE /\ sick' = FALSE
  /\ Flush
  /\ UNCHANGED <<up, remote, alive, generation, listed, standdowns, failed, cooldown, driftVars,
                 lock, waiters, pc, call, closer>>

\* A cancellation after close() began is taken for close()'s own: the task ends
\* with whatever it holds.
CancelledWhileClosing ==
  /\ ScopeFailed /\ Closed
  /\ supervisor' = "done"
  /\ Flush
  /\ UNCHANGED <<serverVars, connVars, standdowns, failed, cooldown, driftVars,
                 lock, waiters, pc, call, closer>>

SupervisorStep == \/ TakeConnect \/ TakeStop \/ Connected \/ ConnectFails
                  \/ StandDown \/ StoodDown \/ Stopped \/ CancelledWhileClosing

(***************************************************************************)
(* A tool call: Tool.fn as _make_call_fn builds it.                        *)
(***************************************************************************)
\* The Router creates the task of a call, approved if it needs to be.
PlanCall(c, t) ==
  /\ pc[c] = "idle"
  /\ pc' = [pc EXCEPT ![c] = "planned"]
  /\ call' = [call EXCEPT ![c] = [tool |-> t, safe |-> TRUE, gen |-> 0, sent |-> 0]]
  /\ UNCHANGED <<serverVars, supervisor, requests, serving, connVars, standdowns, failed,
                 cooldown, driftVars, lock, waiters, burst, closer>>

Finish(c, outcome) ==
  /\ pc' = [pc EXCEPT ![c] = "idle"]
  /\ call' = [call EXCEPT ![c] = outcome]

Send(c, k) ==
  /\ pc' = [pc EXCEPT ![c] = "flight"]
  /\ call' = [call EXCEPT ![c] = [k EXCEPT !.gen = generation, !.sent = k.sent + 1]]

\* Slip: the annotations are not looked at again after the rebuild.
GoOn_NoRecheck(c, k) ==
  IF k.tool \in vanished' \/ ~alive THEN Finish(c, "withheld") ELSE Send(c, k)

\* After reconnect(), whatever it returned.  Nothing was sent yet, or this is
\* the one retry of a harmless call.
GoOn(c, k) ==
  IF k.sent = 1 /\ k.tool \in drifted' THEN Finish(c, "unknown")
  ELSE IF \/ k.tool \in vanished' \/ ~alive
          \/ k.sent = 0 /\ k.safe /\ k.tool \in drifted'
       THEN Finish(c, "withheld")
       ELSE Send(c, k)

\* reconnect(), up to its lock.
Reconnect(c, k) ==
  IF Closed \/ failed
  THEN GoOn(c, k) /\ UNCHANGED waiters
  ELSE /\ pc' = [pc EXCEPT ![c] = "lock"]
       /\ call' = [call EXCEPT ![c] = k]
       /\ waiters' = Append(waiters, c)

BeginCall(c) ==
  /\ pc[c] = "planned"
  /\ UNCHANGED driftVars
  /\ LET k == [call[c] EXCEPT !.gen = generation, !.safe = call[c].tool \notin drifted]
     IN  IF k.tool \in vanished THEN Finish(c, "withheld") /\ UNCHANGED waiters
         ELSE IF alive THEN Send(c, k) /\ UNCHANGED waiters
         ELSE Reconnect(c, k)
  /\ UNCHANGED <<serverVars, supervisor, requests, serving, connVars, standdowns, failed,
                 cooldown, lock, burst, closer>>

\* Under the lock: somebody else rebuilt it, or it may not be tried yet.
NothingToRebuild(c) ==
  /\ pc[c] = "lock" /\ lock = Nobody /\ waiters # <<>> /\ Head(waiters) = c
  /\ Closed \/ failed \/ (generation # call[c].gen /\ alive) \/ cooldown
  /\ waiters' = Tail(waiters)
  /\ UNCHANGED driftVars
  /\ GoOn(c, call[c])
  /\ UNCHANGED <<serverVars, supervisor, requests, serving, connVars, standdowns, failed,
                 cooldown, lock, burst, closer>>

StartBurst(c) ==
  /\ pc[c] = "lock" /\ lock = Nobody /\ waiters # <<>> /\ Head(waiters) = c
  /\ Len(requests) < MaxQueued
  /\ ~(Closed \/ failed \/ (generation # call[c].gen /\ alive) \/ cooldown)
  /\ waiters' = Tail(waiters) /\ lock' = c
  /\ standdowns' = 0
  /\ pc' = [pc EXCEPT ![c] = "submitted"]
  /\ Submit(c, [NoBurst EXCEPT !.attempt = 1])
  /\ UNCHANGED <<serverVars, serving, connVars, failed, cooldown, driftVars, call, closer>>

\* An operation nobody ran is asked for once more.
Resubmit(c) ==
  /\ pc[c] = "submitted" /\ burst.answer = "gone" /\ ~burst.lost
  /\ Submit(c, [burst EXCEPT !.lost = TRUE])
  /\ UNCHANGED <<serverVars, serving, connVars, standdowns, failed, cooldown, driftVars,
                 lock, waiters, pc, call, closer>>

AttemptFailed == burst.answer = "failed" \/ (burst.answer = "gone" /\ burst.lost)

BackOff(c) ==
  /\ pc[c] = "submitted" /\ AttemptFailed /\ burst.attempt < Attempts
  /\ pc' = [pc EXCEPT ![c] = "backoff"]
  /\ burst' = [NoBurst EXCEPT !.attempt = burst.attempt]
  /\ UNCHANGED <<serverVars, supervisor, requests, serving, connVars, standdowns, failed,
                 cooldown, driftVars, lock, waiters, call, closer>>

TryAgain(c) ==
  /\ pc[c] = "backoff" /\ ~Closed
  /\ pc' = [pc EXCEPT ![c] = "submitted"]
  /\ Submit(c, [burst EXCEPT !.attempt = burst.attempt + 1])
  /\ UNCHANGED <<serverVars, serving, connVars, standdowns, failed, cooldown, driftVars,
                 lock, waiters, call, closer>>

Release == lock' = Nobody /\ burst' = NoBurst

ClosedWhileBackingOff(c) ==
  /\ pc[c] = "backoff" /\ Closed
  /\ Release
  /\ UNCHANGED driftVars
  /\ GoOn(c, call[c])
  /\ UNCHANGED <<serverVars, supervisor, requests, serving, connVars, standdowns, failed,
                 cooldown, waiters, closer>>

GiveUp(c) ==
  /\ pc[c] = "submitted" /\ AttemptFailed /\ burst.attempt = Attempts
  /\ Release /\ cooldown' = TRUE
  /\ UNCHANGED driftVars
  /\ GoOn(c, call[c])
  /\ UNCHANGED <<serverVars, supervisor, requests, serving, connVars, standdowns, failed,
                 waiters, closer>>

\* _apply_reconnect_drift: one way for a tool that contradicted itself.
ApplyDrift ==
  /\ vanished' = {t \in Tool : listed[t] = "absent"}
  /\ drifted' = drifted \cup {t \in Tool : listed[t] \notin {"absent", Registered[t]}}

\* The new connection is there, and this caller reconciles what it lists.
Reconnected(c) ==
  /\ pc[c] = "submitted" /\ burst.answer = "ok"
  /\ Release /\ cooldown' = FALSE
  /\ ApplyDrift
  /\ GoOn(c, call[c])
  /\ UNCHANGED <<serverVars, supervisor, requests, serving, connVars, standdowns, failed,
                 waiters, closer>>

(***************************************************************************)
(* The request on the wire.                                                *)
(***************************************************************************)
\* The session it was sent on is broken, or being discarded.
Died(c) == \/ call[c].gen # generation \/ ~stack \/ sick
           \/ supervisor \notin {"idle", "done"}

Returned(c) ==
  /\ pc[c] = "flight" /\ ~Died(c)
  /\ Finish(c, "answered")
  /\ UNCHANGED <<serverVars, supervisor, requests, serving, connVars, standdowns, failed,
                 cooldown, driftVars, lock, waiters, burst, closer>>

\* Slip: whoever saw a connection die forgets the one there is now.
MarkConnectionLost_AnyGeneration(seen) == alive' = FALSE

MarkConnectionLost(seen) == alive' = (alive /\ generation # seen)

\* The connection dies under the call.
Interrupted(c) ==
  /\ pc[c] = "flight" /\ Died(c)
  /\ UNCHANGED driftVars
  /\ LET k == call[c]
     IN  IF k.sent = 2 THEN Finish(c, "failed") /\ UNCHANGED <<waiters, alive>>
         ELSE IF Harmless(k.tool) THEN Reconnect(c, k) /\ UNCHANGED alive
         ELSE /\ MarkConnectionLost(k.gen)
              /\ Finish(c, "unknown")
              /\ UNCHANGED waiters
  /\ UNCHANGED <<serverVars, supervisor, requests, serving, stack, generation, listed,
                 standdowns, failed, cooldown, lock, burst, closer>>

\* Slip: a call that timed out is reported as one that failed.
NativeTimeout_PlainError(c) ==
  /\ pc[c] = "flight"
  /\ Finish(c, "failed")
  /\ UNCHANGED <<serverVars, supervisor, requests, serving, connVars, standdowns, failed,
                 cooldown, driftVars, lock, waiters, burst, closer>>

\* The SDK's own read timeout: no reconnect, but a mutation is in doubt.
NativeTimeout(c) ==
  /\ pc[c] = "flight"
  /\ Finish(c, IF call[c].sent = 1 /\ ~Harmless(call[c].tool) THEN "unknown" ELSE "failed")
  /\ UNCHANGED <<serverVars, supervisor, requests, serving, connVars, standdowns, failed,
                 cooldown, driftVars, lock, waiters, burst, closer>>

\* The Router's Tool.timeout, or a batch cut short, at any await of the call.
\* The operation it had asked for stays with the supervisor.
Cancelled(c) ==
  /\ pc[c] # "idle"
  /\ Finish(c, "timeout")
  /\ waiters' = Without(waiters, c)
  /\ IF lock = c THEN Release ELSE UNCHANGED <<lock, burst>>
  /\ requests' = [i \in DOMAIN requests |->
                    IF requests[i].by = c THEN [requests[i] EXCEPT !.by = Nobody] ELSE requests[i]]
  /\ serving' = IF serving = c THEN Nobody ELSE serving
  /\ UNCHANGED <<serverVars, supervisor, connVars, standdowns, failed, cooldown, driftVars, closer>>

CallStep(c) ==
  \/ BeginCall(c) \/ NothingToRebuild(c) \/ StartBurst(c) \/ Resubmit(c) \/ BackOff(c)
  \/ TryAgain(c) \/ ClosedWhileBackingOff(c) \/ GiveUp(c) \/ Reconnected(c)
  \/ Returned(c) \/ Interrupted(c) \/ NativeTimeout(c)

(***************************************************************************)
(* close().                                                                *)
(***************************************************************************)
Close ==
  /\ closer = "open"
  /\ IF supervisor = "done"
     THEN closer' = "returned" /\ UNCHANGED requests
     ELSE /\ closer' = "waiting"
          /\ requests' = Append(requests, [op |-> "stop", by |-> Nobody])
  /\ UNCHANGED <<serverVars, supervisor, serving, connVars, standdowns, failed, cooldown,
                 driftVars, lock, waiters, burst, pc, call>>

CloseReturns ==
  /\ closer = "waiting" /\ supervisor = "done"
  /\ closer' = "returned"
  /\ UNCHANGED <<serverVars, supervisor, requests, serving, connVars, standdowns, failed,
                 cooldown, driftVars, lock, waiters, burst, pc, call>>

\* CLOSE_TIMEOUT: the supervisor is cancelled and left to itself.
CloseAbandons ==
  /\ closer = "waiting" /\ supervisor # "done"
  /\ closer' = "abandoned" /\ supervisor' = "done"
  /\ Flush
  /\ UNCHANGED <<serverVars, connVars, standdowns, failed, cooldown, driftVars,
                 lock, waiters, pc, call>>

CloserStep == CloseReturns \/ CloseAbandons

Next ==
  \/ ServerDies \/ (\E advert \in Adverts : ServerReturns(advert)) \/ CooldownEnds
  \/ SupervisorStep
  \/ \E c \in Caller, t \in Tool : PlanCall(c, t)
  \/ \E c \in Caller : CallStep(c) \/ Cancelled(c)
  \/ Close \/ CloserStep

Spec == Init /\ [][Next]_vars

\* Ready tasks run, the lock is FIFO, and every await inside a call or inside
\* the supervisor ends: mount_timeout bounds a connection attempt, the SDK's
\* read timeout a request, a sleep its delay.
FairSpec == /\ Spec
            /\ WF_vars(SupervisorStep) /\ WF_vars(CloserStep)
            /\ \A c \in Caller : WF_vars(CallStep(c))

(***************************************************************************)
(* Properties.                                                             *)
(***************************************************************************)
TypeOK ==
  /\ up \in BOOLEAN /\ sick \in BOOLEAN /\ stack \in BOOLEAN /\ alive \in BOOLEAN
  /\ failed \in BOOLEAN /\ cooldown \in BOOLEAN
  /\ remote \in [Tool -> Note \cup {"absent"}] /\ listed \in [Tool -> Note \cup {"absent"}]
  /\ supervisor \in {"idle", "connecting", "standing down", "giving up", "stopping", "done"}
  /\ requests \in Seq(Operation) /\ serving \in Caller \cup {Nobody}
  /\ generation \in Nat /\ standdowns \in Nat
  /\ vanished \subseteq Tool /\ drifted \subseteq Tool
  /\ lock \in Caller \cup {Nobody} /\ waiters \in Seq(Caller)
  /\ burst \in [attempt : Nat, lost : BOOLEAN, answer : Answers]
  /\ pc \in [Caller -> {"idle", "planned", "lock", "submitted", "backoff", "flight"}]
  /\ \A c \in Caller : IF pc[c] = "idle" THEN call[c] \in Outcomes ELSE call[c] \in Call
  /\ closer \in {"open", "waiting", "returned", "abandoned"}

\* A call of a tool that may mutate is reported as failed or withheld only if it
\* was never sent; otherwise the server answered or its outcome is unknown.
\* Drift found before the call, whoever found it, counts as mutating.
HonestOutcome ==
  [][\A c \in Caller :
       /\ pc[c] # "idle" /\ pc'[c] = "idle" /\ call'[c] \in {"failed", "withheld"}
       /\ Registered[call[c].tool] # "read" \/ ~call[c].safe
       => call[c].sent = 0]_vars

\* A call that may mutate reaches the server at most once, whatever dies, is
\* rebuilt or is retried around it: only a call that was read-only when it was
\* made is ever sent again.
MutationsSentOnce ==
  \A c \in Caller :
    pc[c] # "idle" /\ (Registered[call[c].tool] # "read" \/ ~call[c].safe) => call[c].sent < 2

\* A call the Router let through as harmless and that waited for a rebuild is
\* not sent, or sent again, once the rebuilt connection has shown its tool to
\* be something else.
DriftWithholds ==
  [][\A c \in Caller :
       /\ pc[c] \in {"lock", "submitted", "backoff"} /\ pc'[c] = "flight"
       /\ call[c].safe
       => call[c].tool \notin drifted']_vars

\* A connection that works is never forgotten: the diagnosis of an older one,
\* arriving late, does not cut off the callers of the one that replaced it.
HealthyConnectionKept == supervisor = "idle" /\ stack /\ ~sick => alive

\* Every tool call ends, whatever the supervisor was doing when it was asked: no
\* request is lost with a task that stood down or was closed.
CallsReturn == \A c \in Caller : pc[c] # "idle" ~> pc[c] = "idle"

\* An environment in which a working server can be reached: every tool keeps
\* being called, calls are not cut short for ever, cooldowns end, and a server
\* that stays up is connected to sooner or later.
Benign ==
  /\ \A t \in Tool : SF_vars(\E c \in Caller : PlanCall(c, t))
  /\ <>[](\A c \in Caller : pc[c] = "idle" => call[c] # "timeout")
  /\ WF_vars(CooldownEnds) /\ SF_vars(Connected)
  /\ [](~Closed /\ generation < MaxGeneration)

\* A server that comes back for good is connected to again, after any number of
\* failed bursts, cooldowns and supervisors that stood down.
Recovers == Benign /\ <>[]up => []<>alive

\* Documented, and violated: between reconnects, what the newest connection lists
\* has been applied to the tools.
DriftApplied ==
  lock = Nobody /\ supervisor = "idle" /\ alive =>
    \A t \in Tool :
      /\ listed[t] = "absent" => t \in vanished
      /\ listed[t] \notin {"absent", Registered[t]} => t \in drifted

\* Documented, and violated: a tool the server stopped advertising can be called
\* again once the server advertises it again.
VanishedComesBack ==
  \A t \in Tool : Benign /\ <>[](up /\ remote[t] # "absent") => []<>(t \notin vanished)
================================================================================
