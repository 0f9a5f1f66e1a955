------------------------------ MODULE RouterTurns ------------------------------
(***************************************************************************)
(* The turns of one conversation, as dudamel/router.py runs them.          *)
(*                                                                         *)
(* A request is a user message (Router.handle) or a click on a             *)
(* confirmation (Router.resolve_confirmation).  Requests wait for the      *)
(* conversation's asyncio.Lock in FIFO order; the one that holds it runs   *)
(* the turn: duplicate check, auto-decline, the model loop, the concurrent *)
(* batch of tool calls, and either a reply or a suspension on a            *)
(* confirmation that a later request resumes.                              *)
(*                                                                         *)
(* One action per stretch of code between two awaits whose order the rest  *)
(* of the system can observe: every database transaction is one action,    *)
(* so a crash or a cancellation can fall between any two of them.  The     *)
(* database (history, status, saved) survives a crash; everything else is  *)
(* the memory of the process.                                              *)
(***************************************************************************)
EXTENDS Naturals, Sequences, FiniteSets

CONSTANTS
  Msg,           \* client_msg_ids of user messages; a turn is named by the message that opened it
  User,          \* user ids
  Sender,        \* who sends each message
  Conf,          \* confirmation ids (uuids in the code); their number bounds the suspensions
  Tool,          \* every tool name the model may utter, registered or not
  Confirm,       \* tools declared confirm=True
  ReadOnly,      \* tools declared read_only=True
  Untrusted,     \* Tool.untrusted: mcp tools and native tools declared external
  Batches,       \* the tool_calls lists the model may answer with
  TaintMode,     \* [router].taint_mode
  Registries,    \* the sets of tools a start of the program may register
  SummaryTaint,  \* taint flags the conversation's newest summary may carry
  IterationCap,  \* [router].iteration_cap
  QueueBound,    \* bound: requests waiting for the lock at once
  NoRequest,     \* nobody holds the lock
  NoTurn         \* no loop state

ASSUME RouterAssumptions ==
  /\ Sender \in [Msg -> User]
  /\ Confirm \subseteq Tool /\ ReadOnly \subseteq Tool /\ Untrusted \subseteq Tool
  /\ Batches \subseteq Seq(Tool) \ {<<>>}
  /\ TaintMode \in {"off", "turn", "window"}
  /\ Registries \subseteq SUBSET Tool
  /\ SummaryTaint \subseteq BOOLEAN
  /\ IterationCap \in Nat /\ QueueBound \in Nat

VARIABLES
  queue,      \* requests waiting for the conversation lock, FIFO
  holder,     \* the request that holds it
  pc,         \* where the holder is
  cur,        \* the locals of the holder's _loop
  closing,    \* rows the holder flipped and has still to close in history
  status,     \* pending_confirmations.status
  saved,      \* pending_confirmations.loop_state, tool and user_id
  overdue,    \* confirmations past expires_at
  registry,   \* names registered since the last start
  history,    \* the conversation's messages, a batch with its results as one entry
  reply,      \* what the last request was answered
  dispatched, \* history variable: every call whose tool function was started
  succeeded,  \* history variable: turns in which some tool returned a result
  runs,       \* history variable: how often each confirmation's call was started
  abandoned   \* history variable: turns cut short by a crash or a cancellation

lockVars  == <<queue, holder>>
dbVars    == <<status, saved, history>>
ghostVars == <<dispatched, succeeded, runs, abandoned>>
vars == <<queue, holder, pc, cur, closing, status, saved, overdue, registry,
          history, reply, dispatched, succeeded, runs, abandoned>>

(***************************************************************************)
(* Types.                                                                  *)
(***************************************************************************)
Handle(m) == [kind |-> "handle", msg |-> m]
Click(c, u, a) == [kind |-> "resolve", conf |-> c, user |-> u, approved |-> a]
Request == [kind : {"handle"}, msg : Msg]
           \cup [kind : {"resolve"}, conf : Conf, user : User, approved : BOOLEAN]

\* What became of a call: a plan that has not run, a run, or its result.
Outcome == {"queued", "running", "ok", "error", "pending", "skip", "unknown"}
Turn == [msg : Msg, user : User, iter : Nat, tainted : BOOLEAN, exec : BOOLEAN,
         batch : Seq(Tool), outs : Seq(Outcome)]
Entry == [kind : {"user", "reply", "batch"}, msg : Msg, iter : Nat,
          batch : Seq(Tool), outs : Seq(Outcome)]
Dispatch == [msg : Msg, iter : Nat, idx : Nat, tool : Tool, by : {"model", "approval"}]
Replies == {"none", "duplicate", "text", "confirm", "failed", "failed after actions",
            "already resolved", "refused", "expired"}
Places == {"idle", "begin", "closing", "model", "batch",
           "expired", "declined", "approved", "running", "ran ok", "ran error"}

ASSUME NoneAssumption == NoRequest \notin Request /\ NoTurn \notin Turn

UserEntry(m)  == [kind |-> "user", msg |-> m, iter |-> 0, batch |-> <<>>, outs |-> <<>>]
ReplyEntry(t) == [kind |-> "reply", msg |-> t.msg, iter |-> t.iter, batch |-> <<>>, outs |-> <<>>]
BatchEntry(t) == [kind |-> "batch", msg |-> t.msg, iter |-> t.iter,
                  batch |-> t.batch, outs |-> t.outs]

NewTurn(m) == [msg |-> m, user |-> Sender[m], iter |-> 0, tainted |-> FALSE,
               exec |-> FALSE, batch |-> <<>>, outs |-> <<>>]

Pending == {c \in Conf : status[c] = "pending"}

\* Slip: only the newest message is compared.
Said_NewestOnly(m) == history # <<>> /\ history[Len(history)] = UserEntry(m)

Said(m) == \E k \in DOMAIN history : history[k] = UserEntry(m)

Init ==
  /\ queue = <<>> /\ holder = NoRequest /\ pc = "idle"
  /\ cur = NoTurn /\ closing = {}
  /\ status = [c \in Conf |-> "none"]
  /\ saved = [c \in Conf |-> NoTurn]
  /\ overdue = {}
  /\ registry \in Registries
  /\ history = <<>> /\ reply = "none"
  /\ dispatched = {} /\ succeeded = {} /\ abandoned = {}
  /\ runs = [c \in Conf |-> 0]

(***************************************************************************)
(* Requests and the conversation lock.                                     *)
(***************************************************************************)
\* An interface delivers a message; a retry delivers it again.
Deliver(m) ==
  /\ Len(queue) < QueueBound
  /\ queue' = Append(queue, Handle(m))
  /\ UNCHANGED <<holder, pc, cur, closing, overdue, registry, reply, dbVars, ghostVars>>

\* A click on any button ever shown; an id that names no row is answered
\* before the lock is taken and changes nothing.
ClickButton(c, u, a) ==
  /\ status[c] # "none"
  /\ Len(queue) < QueueBound
  /\ queue' = Append(queue, Click(c, u, a))
  /\ UNCHANGED <<holder, pc, cur, closing, overdue, registry, reply, dbVars, ghostVars>>

AcquireLock ==
  /\ holder = NoRequest /\ queue # <<>>
  /\ holder' = Head(queue) /\ queue' = Tail(queue)
  /\ pc' = "begin" /\ reply' = "none"
  /\ UNCHANGED <<cur, closing, overdue, registry, dbVars, ghostVars>>

\* The request is answered: the with block is left and the lock released.
Answer(r) ==
  /\ reply' = r
  /\ holder' = NoRequest /\ pc' = "idle" /\ cur' = NoTurn /\ closing' = {}
  /\ UNCHANGED <<queue, overdue, registry>>

Step(p) ==
  /\ pc' = p
  /\ UNCHANGED <<lockVars, overdue, registry, reply>>

\* The confirmation's time to live runs out.
Expire(c) ==
  /\ status[c] = "pending" /\ c \notin overdue
  /\ overdue' = overdue \cup {c}
  /\ UNCHANGED <<lockVars, pc, cur, closing, registry, reply, dbVars, ghostVars>>

(***************************************************************************)
(* Router.handle, up to the loop.                                          *)
(***************************************************************************)
DropDuplicate ==
  /\ pc = "begin" /\ holder.kind = "handle" /\ Said(holder.msg)
  /\ Answer("duplicate")
  /\ UNCHANGED <<dbVars, ghostVars>>

\* Slip: the retry of a message is recognised only by the append that follows.
AutoDeclinePending_BeforeDuplicateCheck ==
  /\ pc = "begin" /\ holder.kind = "handle"
  /\ status' = [c \in Conf |-> IF c \in Pending THEN "declined" ELSE status[c]]
  /\ closing' = Pending
  /\ Step("closing")
  /\ UNCHANGED <<cur, saved, history, ghostVars>>

\* Slip: only a row past its time to live is swept.
AutoDeclinePending_ExpiredOnly ==
  /\ pc = "begin" /\ holder.kind = "handle" /\ ~Said(holder.msg)
  /\ status' = [c \in Conf |-> IF c \in Pending \cap overdue THEN "expired" ELSE status[c]]
  /\ closing' = Pending \cap overdue
  /\ Step("closing")
  /\ UNCHANGED <<cur, saved, history, ghostVars>>

\* One transaction flips every pending row of the conversation.
AutoDeclinePending ==
  /\ pc = "begin" /\ holder.kind = "handle" /\ ~Said(holder.msg)
  /\ status' = [c \in Conf |-> IF c \notin Pending THEN status[c]
                               ELSE IF c \in overdue THEN "expired" ELSE "declined"]
  /\ closing' = Pending
  /\ Step("closing")
  /\ UNCHANGED <<cur, saved, history, ghostVars>>

\* _close_suspended_turn: the assistant message, its results and a result for
\* the call nobody ran, in one transaction.
Settle(t, out) ==
  [t EXCEPT !.outs = [i \in DOMAIN t.outs |-> IF t.outs[i] = "pending" THEN out ELSE t.outs[i]]]

CloseSuspendedTurn(c, out) == history' = Append(history, BatchEntry(Settle(saved[c], out)))

\* Slip: a superseded row that has not expired is never closed.
CloseSuperseded_OverdueOnly(c) ==
  /\ pc = "closing" /\ c \in closing \cap overdue
  /\ CloseSuspendedTurn(c, "error")
  /\ closing' = closing \ {c}
  /\ Step("closing")
  /\ UNCHANGED <<cur, status, saved, ghostVars>>

CloseSuperseded(c) ==
  /\ pc = "closing" /\ c \in closing
  /\ CloseSuspendedTurn(c, "error")
  /\ closing' = closing \ {c}
  /\ Step("closing")
  /\ UNCHANGED <<cur, status, saved, ghostVars>>

AppendUserMessage ==
  /\ pc = "closing" /\ closing = {}
  /\ history' = Append(history, UserEntry(holder.msg))
  /\ cur' = NewTurn(holder.msg)
  /\ Step("model")
  /\ UNCHANGED <<closing, status, saved, ghostVars>>

(***************************************************************************)
(* Taint and the plan of a batch.                                          *)
(***************************************************************************)
UntrustedName(n) == n \notin registry \/ n \in Untrusted

\* Slip: only the newest message is classified.
WindowTainted_NewestOnly ==
  /\ history # <<>>
  /\ \E i \in DOMAIN history[Len(history)].batch : UntrustedName(history[Len(history)].batch[i])

WindowTainted ==
  \E k \in DOMAIN history : \E i \in DOMAIN history[k].batch : UntrustedName(history[k].batch[i])

TaintNow(summary) ==
  \/ cur.tainted
  \/ TaintMode # "off" /\ summary
  \/ TaintMode = "window" /\ WindowTainted

NeedsConfirm(tool, tainted, batchHasUntrusted) ==
  \/ tool \in Confirm
  \/ TaintMode # "off" /\ tool \notin ReadOnly /\ (tainted \/ batchHasUntrusted)

\* The batch is untrusted for call i if a call other than i is.
Gated(b, i, tainted) ==
  /\ b[i] \in registry
  /\ NeedsConfirm(b[i], tainted,
                  \E j \in DOMAIN b \ {i} : b[j] \in registry /\ b[j] \in Untrusted)

Plan(b, tainted) ==
  [i \in DOMAIN b |->
     IF b[i] \notin registry THEN "unknown"
     ELSE IF ~Gated(b, i, tainted) THEN "queued"
     ELSE IF \E j \in DOMAIN b : j < i /\ Gated(b, j, tainted) THEN "skip"
     ELSE "pending"]

PendingAt(t) == CHOOSE i \in DOMAIN t.outs : t.outs[i] = "pending"
HasPending(t) == \E i \in DOMAIN t.outs : t.outs[i] = "pending"
HasSuccess(t) == \E i \in DOMAIN t.outs : t.outs[i] = "ok"
BatchDone(t) == \A i \in DOMAIN t.outs : t.outs[i] \notin {"queued", "running"}
Called(t, i, by) == [msg |-> t.msg, iter |-> t.iter, idx |-> i, tool |-> t.batch[i], by |-> by]

(***************************************************************************)
(* Router._loop: one model call per iteration.                             *)
(***************************************************************************)
ModelReplies ==
  /\ pc = "model" /\ cur.iter < IterationCap
  /\ history' = Append(history, ReplyEntry(cur))
  /\ Answer("text")
  /\ UNCHANGED <<status, saved, ghostVars>>

\* BudgetExceededError, LLMError, or no iteration left.
ModelFails ==
  /\ pc = "model"
  /\ Answer(IF cur.exec THEN "failed after actions" ELSE "failed")
  /\ UNCHANGED <<dbVars, ghostVars>>

\* _execute_batch plans the calls and creates a task for each that may run.
PlanBatch(b, summary) ==
  /\ pc = "model" /\ cur.iter < IterationCap
  /\ cur' = [cur EXCEPT !.tainted = TaintNow(summary), !.batch = b,
                        !.outs = Plan(b, TaintNow(summary))]
  /\ Step("batch")
  /\ UNCHANGED <<closing, dbVars, ghostVars>>

\* run_one: an untrusted call taints the turn whatever becomes of it.
Tainting(i) == cur.tainted \/ cur.batch[i] \in Untrusted

RunTool(i) ==
  /\ pc = "batch" /\ cur.outs[i] = "queued"
  /\ cur' = [cur EXCEPT !.outs = [cur.outs EXCEPT ![i] = "running"], !.tainted = Tainting(i)]
  /\ dispatched' = dispatched \cup {Called(cur, i, "model")}
  /\ Step("batch")
  /\ UNCHANGED <<closing, dbVars, succeeded, runs, abandoned>>

RejectArguments(i) ==
  /\ pc = "batch" /\ cur.outs[i] = "queued"
  /\ cur' = [cur EXCEPT !.outs = [cur.outs EXCEPT ![i] = "error"], !.tainted = Tainting(i)]
  /\ Step("batch")
  /\ UNCHANGED <<closing, dbVars, ghostVars>>

\* The tool returns, or raises, or is cancelled at its timeout.
FinishTool(i, out) ==
  /\ pc = "batch" /\ cur.outs[i] = "running"
  /\ cur' = [cur EXCEPT !.outs = [cur.outs EXCEPT ![i] = out], !.exec = cur.exec \/ out = "ok"]
  /\ succeeded' = IF out = "ok" THEN succeeded \cup {cur.msg} ELSE succeeded
  /\ Step("batch")
  /\ UNCHANGED <<closing, dbVars, dispatched, runs, abandoned>>

\* The batch needs nobody's approval: its messages are appended together.
AppendBatch ==
  /\ pc = "batch" /\ BatchDone(cur) /\ ~HasPending(cur)
  /\ history' = Append(history, BatchEntry(cur))
  /\ cur' = [cur EXCEPT !.iter = cur.iter + 1, !.batch = <<>>, !.outs = <<>>]
  /\ Step("model")
  /\ UNCHANGED <<closing, status, saved, ghostVars>>

Suspend(c) ==
  /\ pc = "batch" /\ BatchDone(cur) /\ HasPending(cur)
  /\ status[c] = "none"
  /\ status' = [status EXCEPT ![c] = "pending"]
  /\ saved' = [saved EXCEPT ![c] = cur]
  /\ Answer("confirm")
  /\ UNCHANGED <<history, ghostVars>>

(***************************************************************************)
(* Router.resolve_confirmation.                                            *)
(***************************************************************************)
Resolving(c) == pc = "begin" /\ holder.kind = "resolve" /\ holder.conf = c
\* Slip: the row's status is not read again under the lock.
Actionable_AnyStatus(c) == holder.user = saved[c].user

Actionable(c) == status[c] = "pending" /\ holder.user = saved[c].user

AlreadyResolved(c) ==
  /\ Resolving(c) /\ status[c] # "pending"
  /\ Answer("already resolved")
  /\ UNCHANGED <<dbVars, ghostVars>>

RefuseStranger(c) ==
  /\ Resolving(c) /\ status[c] = "pending" /\ holder.user # saved[c].user
  /\ Answer("refused")
  /\ UNCHANGED <<dbVars, ghostVars>>

\* Slip: an approved row is flipped only after its tool ran.
Decide_FlipLater(c) ==
  /\ Resolving(c) /\ Actionable(c)
  /\ Step(IF holder.approved THEN "approved" ELSE "declined")
  /\ UNCHANGED <<cur, closing, status, saved, history, ghostVars>>

\* The transaction that settles the row, before anything runs.
Decide(c) ==
  LET verdict == IF c \in overdue THEN "expired"
                 ELSE IF holder.approved THEN "confirmed" ELSE "declined"
  IN  /\ Resolving(c) /\ Actionable(c)
      /\ status' = [status EXCEPT ![c] = verdict]
      /\ Step(IF verdict = "confirmed" THEN "approved" ELSE verdict)
      /\ UNCHANGED <<cur, closing, saved, history, ghostVars>>

\* Slip: the expired row is settled, its batch is not written.
CloseExpired_NoHistory(c) ==
  /\ pc = "expired" /\ holder.conf = c
  /\ Answer("expired")
  /\ UNCHANGED <<status, saved, history, ghostVars>>

CloseExpired(c) ==
  /\ pc = "expired" /\ holder.conf = c
  /\ CloseSuspendedTurn(c, "error")
  /\ Answer("expired")
  /\ UNCHANGED <<status, saved, ghostVars>>

\* Slip: the resumed loop starts clean.
Resume_ForgetsTaint(c, taint, ok) ==
  /\ cur' = [saved[c] EXCEPT !.iter = saved[c].iter + 1, !.batch = <<>>, !.outs = <<>>,
                             !.tainted = FALSE,
                             !.exec = saved[c].exec \/ HasSuccess(saved[c]) \/ ok]
  /\ Step("model")

\* Slip: only the approved call counts as progress.
Resume_ForgetsProgress(c, taint, ok) ==
  /\ cur' = [saved[c] EXCEPT !.iter = saved[c].iter + 1, !.batch = <<>>, !.outs = <<>>,
                             !.tainted = saved[c].tainted \/ taint, !.exec = ok]
  /\ Step("model")

\* The loop goes on at the next iteration, honest about what already ran.
Resume(c, taint, ok) ==
  /\ cur' = [saved[c] EXCEPT !.iter = saved[c].iter + 1, !.batch = <<>>, !.outs = <<>>,
                             !.tainted = saved[c].tainted \/ taint,
                             !.exec = saved[c].exec \/ HasSuccess(saved[c]) \/ ok]
  /\ Step("model")

CloseDeclined(c) ==
  /\ pc = "declined" /\ holder.conf = c
  /\ CloseSuspendedTurn(c, "error")
  /\ Resume(c, FALSE, FALSE)
  /\ UNCHANGED <<closing, status, saved, ghostVars>>

\* _execute_confirmed: the tool as registered NOW, its arguments validated again.
PendingTool(c) == saved[c].batch[PendingAt(saved[c])]

RunConfirmed(c) ==
  /\ pc = "approved" /\ holder.conf = c
  /\ PendingTool(c) \in registry
  /\ dispatched' = dispatched \cup {Called(saved[c], PendingAt(saved[c]), "approval")}
  /\ runs' = [runs EXCEPT ![c] = runs[c] + 1]
  /\ Step("running")
  /\ UNCHANGED <<cur, closing, dbVars, succeeded, abandoned>>

\* The tool is gone, or its schema refuses the stored arguments.
CannotRunConfirmed(c) ==
  /\ pc = "approved" /\ holder.conf = c
  /\ Step("ran error")
  /\ UNCHANGED <<cur, closing, dbVars, ghostVars>>

FinishConfirmed(c, ok) ==
  /\ pc = "running" /\ holder.conf = c
  /\ succeeded' = IF ok THEN succeeded \cup {saved[c].msg} ELSE succeeded
  /\ Step(IF ok THEN "ran ok" ELSE "ran error")
  /\ UNCHANGED <<cur, closing, dbVars, dispatched, runs, abandoned>>

\* Slip: an approved call that failed is not written.
RecordConfirmed_SuccessOnly(c) ==
  /\ pc = "ran ok" /\ holder.conf = c
  /\ CloseSuspendedTurn(c, "ok")
  /\ Resume(c, UntrustedName(PendingTool(c)), TRUE)
  /\ UNCHANGED <<closing, status, saved, ghostVars>>

RecordConfirmed(c) ==
  /\ pc \in {"ran ok", "ran error"} /\ holder.conf = c
  /\ CloseSuspendedTurn(c, IF pc = "ran ok" THEN "ok" ELSE "error")
  /\ Resume(c, UntrustedName(PendingTool(c)), pc = "ran ok")
  /\ UNCHANGED <<closing, status, saved, ghostVars>>

(***************************************************************************)
(* Cancellation, crash and restart.                                        *)
(***************************************************************************)
\* Turns whose work is in the holder's memory only.
AtRisk ==
  (IF pc \in {"model", "batch"} THEN {cur.msg} ELSE {})
    \cup {saved[c].msg : c \in closing}
    \cup (IF pc \in {"expired", "declined", "approved", "running", "ran ok", "ran error"}
          THEN {saved[holder.conf].msg} ELSE {})

\* serve() shutting down, an interface dropping the request, or an exception
\* out of the database: the tasks of the batch are cancelled, the lock released.
CancelHolder ==
  /\ holder # NoRequest
  /\ abandoned' = abandoned \cup AtRisk
  /\ Answer("none")
  /\ UNCHANGED <<dbVars, dispatched, succeeded, runs>>

CancelWaiter(k) ==
  /\ queue' = SubSeq(queue, 1, k - 1) \o SubSeq(queue, k + 1, Len(queue))
  /\ UNCHANGED <<holder, pc, cur, closing, overdue, registry, reply, dbVars, ghostVars>>

\* The process dies and is started again, perhaps on another configuration.
Restart(reg) ==
  /\ abandoned' = abandoned \cup AtRisk
  /\ queue' = <<>> /\ holder' = NoRequest /\ pc' = "idle"
  /\ cur' = NoTurn /\ closing' = {} /\ reply' = "none"
  /\ registry' = reg
  /\ UNCHANGED <<overdue, dbVars, dispatched, succeeded, runs>>

(***************************************************************************)
(* Next.                                                                   *)
(***************************************************************************)
\* What the code does on its own once it has the lock.
HolderStep ==
  \/ DropDuplicate \/ AutoDeclinePending \/ AppendUserMessage
  \/ \E c \in Conf : CloseSuperseded(c)
  \/ ModelReplies \/ ModelFails
  \/ \E b \in Batches, s \in SummaryTaint : PlanBatch(b, s)
  \/ /\ pc = "batch"
     /\ \E i \in DOMAIN cur.outs : RunTool(i) \/ RejectArguments(i)
                                   \/ FinishTool(i, "ok") \/ FinishTool(i, "error")
  \/ AppendBatch
  \/ \E c \in Conf : Suspend(c)
  \/ \E c \in Conf : \/ AlreadyResolved(c) \/ RefuseStranger(c) \/ Decide(c)
                     \/ CloseExpired(c) \/ CloseDeclined(c)
                     \/ RunConfirmed(c) \/ CannotRunConfirmed(c)
                     \/ FinishConfirmed(c, TRUE) \/ FinishConfirmed(c, FALSE)
                     \/ RecordConfirmed(c)

Environment ==
  \/ \E m \in Msg : Deliver(m)
  \/ \E c \in Conf, u \in User, a \in BOOLEAN : ClickButton(c, u, a)
  \/ \E c \in Conf : Expire(c)
  \/ CancelHolder
  \/ \E k \in DOMAIN queue : CancelWaiter(k)
  \/ \E reg \in Registries : Restart(reg)

Next == AcquireLock \/ HolderStep \/ Environment
Spec == Init /\ [][Next]_vars

\* The event loop runs every ready task, asyncio.Lock wakes its waiters in
\* order, and every await inside a turn ends: wait_for bounds a tool, the
\* provider's client bounds a model call.
FairSpec == Spec /\ WF_vars(AcquireLock) /\ WF_vars(HolderStep)

(***************************************************************************)
(* Properties.                                                             *)
(***************************************************************************)
TypeOK ==
  /\ queue \in Seq(Request)
  /\ holder \in Request \cup {NoRequest}
  /\ pc \in Places
  /\ cur \in Turn \cup {NoTurn}
  /\ closing \subseteq Conf
  /\ status \in [Conf -> {"none", "pending", "confirmed", "declined", "expired"}]
  /\ saved \in [Conf -> Turn \cup {NoTurn}]
  /\ overdue \subseteq Conf
  /\ registry \subseteq Tool
  /\ history \in Seq(Entry)
  /\ reply \in Replies
  /\ dispatched \subseteq Dispatch
  /\ succeeded \subseteq Msg
  /\ runs \in [Conf -> Nat]
  /\ abandoned \subseteq Msg

\* A conversation never waits on two confirmations: whatever the order of
\* messages, clicks, expiries, cancellations and restarts, at most one row is
\* pending.  handle() relies on it when it closes suspended turns in order.
AtMostOnePending == \A c, d \in Pending : c = d

\* A call that needs approval runs at most once, and only if its confirmation
\* was approved: a second click, a retry or a restart never runs it again, and a
\* declined or expired call never runs by any path.
ApprovedRunsOnce ==
  \A c \in Conf :
    /\ runs[c] <= 1
    /\ status[c] # "confirmed" => runs[c] = 0
    /\ status[c] \in {"pending", "declined", "expired"} =>
         \A d \in dispatched : ~ (/\ d.msg = saved[c].msg /\ d.iter = saved[c].iter
                                  /\ d.idx = PendingAt(saved[c]))

\* The taint rule of _needs_confirm across the whole turn, suspensions and
\* restarts included: no call of the model that mutates was started without
\* approval after, or in the same batch as, an untrusted call of that turn, and
\* none that is declared confirm at all.
NoUnapprovedMutation ==
  \A d \in dispatched :
    d.by = "model" =>
      /\ d.tool \notin Confirm
      /\ TaintMode # "off" /\ d.tool \notin ReadOnly =>
           \A e \in dispatched : e.msg = d.msg /\ e # d /\ e.tool \in Untrusted => d.iter < e.iter

\* taint_mode "window": a mutation is also gated by untrusted calls of EARLIER
\* turns that are still in front of the model.
NoMutationUnderTaintedWindow ==
  TaintMode = "window" =>
    \A d \in dispatched : \A j, k \in DOMAIN history :
      /\ d.by = "model" /\ d.tool \notin ReadOnly
      /\ j < k /\ history[k] = UserEntry(d.msg)
      => \A i \in DOMAIN history[j].batch : history[j].batch[i] \notin Untrusted

\* History is a sequence of turns: a batch or a reply always follows the user
\* message of its own turn, with no other user message between them, although a
\* suspended batch is appended by a later request than the one that ran it.
HistoryInTurnOrder ==
  \A k \in DOMAIN history :
    history[k].kind # "user" =>
      \E j \in 1..k - 1 : /\ history[j] = UserEntry(history[k].msg)
                          /\ \A i \in j + 1..k : history[i].kind # "user"

\* Nothing enters history twice: neither a redelivered message nor a batch.
RecordedOnce ==
  \A j, k \in DOMAIN history :
    /\ history[j].kind = history[k].kind /\ history[j].kind \in {"user", "batch"}
    /\ history[j].msg = history[k].msg /\ history[j].iter = history[k].iter
    => j = k

\* Every call that was started is in history, or on its way there through the
\* running turn or a stored suspension: only a crash or a cancellation loses it.
EffectsAccountedFor ==
  \A d \in dispatched :
    LET Holds(t) == t.msg = d.msg /\ t.iter = d.iter
    IN  \/ d.msg \in abandoned
        \/ \E k \in DOMAIN history : history[k].kind = "batch" /\ Holds(history[k])
        \/ pc = "batch" /\ Holds(cur)
        \/ \E c \in Conf : /\ status[c] = "pending" \/ c \in closing
                              \/ /\ pc \in {"expired", "declined", "approved",
                                            "running", "ran ok", "ran error"}
                                 /\ holder.conf = c
                           /\ Holds(saved[c])

(***************************************************************************)
(* Why the invariants hold: the inductive invariant of the proofs.         *)
(***************************************************************************)
InLoop == pc \in {"model", "batch"}
InResolve == pc \in {"expired", "declined", "approved", "running", "ran ok", "ran error"}
\* The suspended turn can still go on from row c.
Resumable(c) == status[c] = "pending" \/ (InResolve /\ holder.conf = c)

PlaceInv ==
  /\ holder = NoRequest <=> pc = "idle"
  /\ InLoop => cur \in Turn /\ DOMAIN cur.batch = DOMAIN cur.outs
  /\ pc = "closing" => holder \in [kind : {"handle"}, msg : Msg] /\ ~Said(holder.msg)
  /\ InResolve => holder \in [kind : {"resolve"}, conf : Conf, user : User, approved : BOOLEAN]
  /\ closing # {} => pc = "closing"

RowInv ==
  /\ AtMostOnePending
  /\ pc \notin {"idle", "begin"} => Pending = {}
  /\ \A c \in closing : status[c] \in {"declined", "expired"}
  /\ pc \in {"approved", "running", "ran ok", "ran error"} => status[holder.conf] = "confirmed"
  /\ pc \in {"declined", "expired"} => status[holder.conf] = pc
  /\ pc = "approved" => runs[holder.conf] = 0
  /\ \A c \in Conf : /\ runs[c] \in {0, 1}
                     /\ runs[c] = 1 => status[c] = "confirmed"
                     /\ status[c] # "none" =>
                          /\ saved[c] \in Turn /\ HasPending(saved[c])
                          /\ DOMAIN saved[c].batch = DOMAIN saved[c].outs
                          /\ Said(saved[c].msg)

\* A call occupies a slot: turn, iteration and index.  Slots grow along a turn,
\* so none is dispatched twice.
LoopSlots ==
  /\ Said(cur.msg)
  /\ \A c \in Conf : status[c] # "none" /\ saved[c].msg = cur.msg => saved[c].iter < cur.iter
  /\ \A d \in dispatched :
       d.msg = cur.msg =>
         \/ d.iter < cur.iter
         \/ /\ pc = "batch" /\ d.iter = cur.iter /\ d.by = "model"
            /\ d.idx \in DOMAIN cur.outs /\ d.tool = cur.batch[d.idx]
            /\ cur.outs[d.idx] \in {"running", "ok", "error"}

RunByModel(c, d) == d.by = "model" /\ saved[c].outs[d.idx] \in {"ok", "error"}
RunOnApproval(c, d) == /\ d.by = "approval" /\ d.idx = PendingAt(saved[c])
                       /\ pc \in {"running", "ran ok", "ran error"} /\ holder.conf = c

RowSlots(c) ==
  /\ \A e \in Conf : e # c /\ status[e] # "none" /\ saved[e].msg = saved[c].msg
                     => saved[e].iter < saved[c].iter
  /\ \A d \in dispatched :
       d.msg = saved[c].msg =>
         \/ d.iter < saved[c].iter
         \/ /\ d.iter = saved[c].iter
            /\ d.idx \in DOMAIN saved[c].outs /\ d.tool = saved[c].batch[d.idx]
            /\ RunByModel(c, d) \/ RunOnApproval(c, d)

InPendingSlot(c, d) ==
  d.msg = saved[c].msg /\ d.iter = saved[c].iter /\ d.idx = PendingAt(saved[c])

SlotInv ==
  /\ \A d \in dispatched : Said(d.msg)
  /\ InLoop => LoopSlots
  /\ \A c \in Conf : Resumable(c) => RowSlots(c)
  /\ \A c \in Conf : status[c] \in {"declined", "expired"} =>
       \A d \in dispatched : ~InPendingSlot(c, d)

\* The taint flag never lags behind what was dispatched, and a batch was planned
\* under the flag it started with.
Mutates(tool) == TaintMode # "off" /\ tool \notin ReadOnly
PlannedClean(i) ==
  /\ cur.batch[i] \notin Confirm
  /\ Mutates(cur.batch[i]) =>
       /\ \A j \in DOMAIN cur.outs \ {i} :
            cur.batch[j] \notin registry \/ cur.batch[j] \notin Untrusted
       /\ \A e \in dispatched :
            e.msg = cur.msg /\ e.tool \in Untrusted => e.iter >= cur.iter

RowTaint(c) ==
  /\ \A e \in dispatched :
       e.msg = saved[c].msg /\ e.tool \in Untrusted =>
         saved[c].tainted \/ (e.by = "approval" /\ e.iter = saved[c].iter)
  /\ \A i \in DOMAIN saved[c].outs :
       saved[c].outs[i] \in {"ok", "error"} /\ Mutates(saved[c].batch[i]) =>
         saved[c].batch[PendingAt(saved[c])] \notin Untrusted

TaintInv ==
  /\ InLoop => \A e \in dispatched : e.msg = cur.msg /\ e.tool \in Untrusted => cur.tainted
  /\ pc = "batch" =>
       \A i \in DOMAIN cur.outs :
         /\ cur.outs[i] # "unknown" => cur.batch[i] \in registry
         /\ cur.outs[i] \in {"queued", "running", "ok", "error"} => PlannedClean(i)
  /\ \A c \in Conf : Resumable(c) => RowTaint(c)

IInv == TypeOK /\ PlaceInv /\ RowInv /\ SlotInv /\ TaintInv /\ NoUnapprovedMutation

\* executed_any is honest: a turn that cannot be summarized says it completed
\* actions exactly when some tool of the turn, before or after a suspension, did.
HonestFailure ==
  [][pc = "model" /\ reply' \in {"failed", "failed after actions"} =>
       (reply' = "failed after actions" <=> cur.msg \in succeeded)]_vars

\* An interface that retries the very message whose turn is waiting on a
\* confirmation never declines that confirmation.
RetryKeepsConfirmation ==
  [][\A c \in Conf :
       status[c] = "pending" /\ status'[c] # "pending" =>
         holder # Handle(saved[c].msg)]_vars

\* What a confirmation promises, whatever the router does around it.
Confirmations == INSTANCE ConfirmationLifecycle WITH status <- status, runs <- runs
ConfirmationsSpec == Confirmations!Spec

\* Every turn ends and gives the conversation back.
LockReleased == holder # NoRequest ~> holder = NoRequest

\* An approval is not forgotten: its batch reaches history unless the turn was
\* cut short by a crash or a cancellation.
ApprovalSettles ==
  \A c \in Conf :
    status[c] = "confirmed" ~>
      /\ saved[c] # NoTurn
      /\ \/ saved[c].msg \in abandoned
         \/ \E k \in DOMAIN history : /\ history[k].kind = "batch"
                                      /\ history[k].msg = saved[c].msg
                                      /\ history[k].iter = saved[c].iter
===============================================================================
