----------------------------- MODULE ChatRequests -----------------------------
(***************************************************************************)
(* The way of a message to its turn: the conversation of its channel is    *)
(* found or inserted, the conversation's lock is looked up in a table that *)
(* keeps no lock nobody uses, and the turn calls the model under a daily   *)
(* budget it shares with the jobs.  A request is a task of one event loop: *)
(* each action is what it does between two awaits.                         *)
(***************************************************************************)
EXTENDS Naturals, FiniteSets, Sequences

CONSTANTS
  Request,    \* messages, each handled once
  Job,        \* jobs that ask the model through app.llm, outside every conversation
  Channel,
  ChannelOf,  \* the channel each request came by
  Nobody,
  Limit,      \* budget.daily_tokens
  Sizes,      \* what a call may cost
  CallCap,    \* bound: calls of one turn, and of one job
  MaxEvents   \* bound: cancellations, unrecorded calls and midnights

ASSUME ChatAssumption ==
  /\ IsFiniteSet(Request) /\ IsFiniteSet(Job) /\ IsFiniteSet(Channel)
  /\ Request \cap Job = {}
  /\ ChannelOf \in [Request -> Channel]
  /\ Nobody \notin Request
  /\ {Limit, CallCap, MaxEvents} \subseteq Nat
  /\ Sizes \subseteq Nat
  /\ \E dearest \in Sizes : \A size \in Sizes : size <= dearest

VARIABLES
  conversations,  \* the rows of the table: the channel of each
  at,             \* where each request is
  conv,           \* the conversation a request was given; 0: none yet
  locks,          \* the lock table: the entry of a conversation; 0: none
  entries,        \* every lock entry ever made
  entry,          \* the entry a request counts in; 0: none
  calling,        \* who waits for the model
  calls,          \* calls each has begun
  spent,          \* tokens the rows of today add up to
  events

vars == <<conversations, at, conv, locks, entries, entry, calling, calls, spent, events>>

Caller == Request \cup Job
Ids == DOMAIN conversations

Init ==
  /\ conversations = <<>>
  /\ at = [r \in Request |-> "sent"]
  /\ conv = [r \in Request |-> 0]
  /\ locks = <<>>
  /\ entries = <<>>
  /\ entry = [r \in Request |-> 0]
  /\ calling = {}
  /\ calls = [x \in Caller |-> 0]
  /\ spent = 0
  /\ events = 0

Event == events < MaxEvents /\ events' = events + 1
Step(r, from, to) == at[r] = from /\ at' = [at EXCEPT ![r] = to]

-----------------------------------------------------------------------------
(* ConversationStore.get_or_create *)

RowOf(r, id) == id \in Ids /\ conversations[id] = ChannelOf[r]

FindConversation(r) ==
  /\ Step(r, "sent", "located")
  /\ \E id \in Ids : RowOf(r, id) /\ conv' = [conv EXCEPT ![r] = id]
  /\ UNCHANGED <<conversations, locks, entries, entry, calling, calls, spent, events>>

FindNothing(r) ==
  /\ Step(r, "sent", "inserting")
  /\ \A id \in Ids : ~RowOf(r, id)
  /\ UNCHANGED <<conversations, conv, locks, entries, entry, calling, calls, spent, events>>

InsertConversation(r) ==
  /\ Step(r, "inserting", "located")
  /\ \A id \in Ids : ~RowOf(r, id)
  /\ conversations' = Append(conversations, ChannelOf[r])
  /\ conv' = [conv EXCEPT ![r] = Len(conversations) + 1]
  /\ locks' = Append(locks, 0)
  /\ UNCHANGED <<entries, entry, calling, calls, spent, events>>

\* The unique constraint on channel refuses the row; the winner's is read.
LoseInsert(r) ==
  /\ Step(r, "inserting", "located")
  /\ \E id \in Ids : RowOf(r, id) /\ conv' = [conv EXCEPT ![r] = id]
  /\ UNCHANGED <<conversations, locks, entries, entry, calling, calls, spent, events>>

-----------------------------------------------------------------------------
(* Router._conversation_lock *)

\* Nothing is awaited under _locks_guard, so nobody ever waits for it.
RegisterNew(r) ==
  /\ Step(r, "located", "waiting")
  /\ locks[conv[r]] = 0
  /\ entries' = Append(entries, [users |-> 1, holder |-> Nobody])
  /\ locks' = [locks EXCEPT ![conv[r]] = Len(entries) + 1]
  /\ entry' = [entry EXCEPT ![r] = Len(entries) + 1]
  /\ UNCHANGED <<conversations, conv, calling, calls, spent, events>>

\* Slip: a waiter is counted only once it holds the lock.
RegisterKnown_CountedLate(r) ==
  /\ Step(r, "located", "waiting")
  /\ locks[conv[r]] # 0
  /\ entry' = [entry EXCEPT ![r] = locks[conv[r]]]
  /\ UNCHANGED <<conversations, conv, locks, entries, calling, calls, spent, events>>

RegisterKnown(r) ==
  /\ Step(r, "located", "waiting")
  /\ locks[conv[r]] # 0
  /\ entries' = [entries EXCEPT ![locks[conv[r]]].users = @ + 1]
  /\ entry' = [entry EXCEPT ![r] = locks[conv[r]]]
  /\ UNCHANGED <<conversations, conv, locks, calling, calls, spent, events>>

AcquireLock(r) ==
  /\ Step(r, "waiting", "turn")
  /\ entries[entry[r]].holder = Nobody
  /\ entries' = [entries EXCEPT ![entry[r]].holder = r]
  /\ UNCHANGED <<conversations, conv, locks, entry, calling, calls, spent, events>>

\* Slip: a cancelled turn keeps the lock.
Released_OnlyCount(r) == [entries EXCEPT ![entry[r]].users = @ - 1]

\* The lock is released if held, the count taken back, and an entry nobody
\* counts in leaves the table if it is still the one there.
Released(r) ==
  [entries EXCEPT ![entry[r]] =
     [users |-> @.users - 1, holder |-> IF @.holder = r THEN Nobody ELSE @.holder]]

\* Slip: only a turn that ends evicts, a cancelled waiter does not.
Evicted_LastHolder(r) ==
  IF at[r] = "turn" /\ entries[entry[r]].users = 1 /\ locks[conv[r]] = entry[r]
  THEN [locks EXCEPT ![conv[r]] = 0]
  ELSE locks

Evicted(r) ==
  IF entries[entry[r]].users = 1 /\ locks[conv[r]] = entry[r]
  THEN [locks EXCEPT ![conv[r]] = 0]
  ELSE locks

Unregister(r) ==
  /\ entries' = Released(r)
  /\ locks' = Evicted(r)
  /\ entry' = [entry EXCEPT ![r] = 0]

EndTurn(r) ==
  /\ r \notin calling
  /\ Step(r, "turn", "done")
  /\ Unregister(r)
  /\ UNCHANGED <<conversations, conv, calling, calls, spent, events>>

\* The task is cancelled at whatever it awaits.
CancelEarly(r) ==
  /\ at[r] \in {"sent", "inserting", "located"}
  /\ UNCHANGED <<locks, entries, entry>>

CancelLate(r) ==
  /\ at[r] \in {"waiting", "turn"}
  /\ Unregister(r)

Cancel(r) ==
  /\ Event
  /\ CancelEarly(r) \/ CancelLate(r)
  /\ at' = [at EXCEPT ![r] = "done"]
  /\ calling' = calling \ {r}
  /\ UNCHANGED <<conversations, conv, calls, spent>>

-----------------------------------------------------------------------------
(* LLMClient.complete *)

MayCall(x) ==
  /\ x \in Request => at[x] = "turn"
  /\ x \notin calling
  /\ calls[x] < CallCap

\* The rows are added up before the call and one is added after it.
\* Slip: the budget is open at its limit.
CallModel_UpToLimit(x) ==
  /\ MayCall(x)
  /\ spent <= Limit
  /\ calling' = calling \cup {x}
  /\ calls' = [calls EXCEPT ![x] = @ + 1]
  /\ UNCHANGED <<conversations, at, conv, locks, entries, entry, spent, events>>

CallModel(x) ==
  /\ MayCall(x)
  /\ spent < Limit
  /\ calling' = calling \cup {x}
  /\ calls' = [calls EXCEPT ![x] = @ + 1]
  /\ UNCHANGED <<conversations, at, conv, locks, entries, entry, spent, events>>

\* BudgetExceededError ends the turn with a reply.
Refuse(r) ==
  /\ MayCall(r)
  /\ spent >= Limit
  /\ EndTurn(r)

ModelAnswers(x) ==
  /\ x \in calling
  /\ calling' = calling \ {x}
  /\ \E size \in Sizes : spent' = spent + size
  /\ UNCHANGED <<conversations, at, conv, locks, entries, entry, calls, events>>

\* An error is charged nothing, a row the database refuses is only logged.
ModelUnrecorded(x) ==
  /\ x \in calling
  /\ Event
  /\ calling' = calling \ {x}
  /\ UNCHANGED <<conversations, at, conv, locks, entries, entry, calls, spent>>

\* A call begun yesterday is charged when its row is written, today.
Midnight ==
  /\ Event
  /\ spent' = 0
  /\ UNCHANGED <<conversations, at, conv, locks, entries, entry, calling, calls>>

RequestStep(r) ==
  \/ FindConversation(r) \/ FindNothing(r) \/ InsertConversation(r) \/ LoseInsert(r)
  \/ RegisterNew(r) \/ RegisterKnown(r) \/ AcquireLock(r) \/ EndTurn(r) \/ Refuse(r)

ModelStep(x) == ModelAnswers(x) \/ ModelUnrecorded(x)

Next ==
  \/ \E r \in Request : RequestStep(r) \/ Cancel(r)
  \/ \E x \in Caller : CallModel(x) \/ ModelStep(x)
  \/ Midnight

Spec == Init /\ [][Next]_vars

\* The loop runs what is ready, and a provider answers or times out.
FairSpec ==
  /\ Spec
  /\ \A r \in Request : WF_vars(RequestStep(r))
  /\ \A x \in Caller : WF_vars(ModelStep(x))

-----------------------------------------------------------------------------

TypeOK ==
  /\ conversations \in Seq(Channel)
  /\ at \in [Request -> {"sent", "inserting", "located", "waiting", "turn", "done"}]
  /\ conv \in [Request -> Nat]
  /\ locks \in Seq(Nat)
  /\ entries \in Seq([users : Nat, holder : Request \cup {Nobody}])
  /\ entry \in [Request -> Nat]
  /\ calling \in SUBSET Caller
  /\ calls \in [Caller -> Nat]
  /\ spent \in Nat
  /\ events \in Nat

\* Turns of one channel exclude each other, from the first message that creates
\* its conversation, through the eviction of locks and the cancellation of
\* those that wait for them.
Turns == INSTANCE TurnMutex
  WITH turn <- [ch \in Channel |-> {r \in Request : at[r] = "turn" /\ ChannelOf[r] = ch}]

TurnsExclude == Turns!Spec

\* The lock table holds the locks of the conversations somebody waits for or
\* holds, and no other.
LocksInUse ==
  \A id \in Ids :
    locks[id] # 0 <=> \E r \in Request : conv[r] = id /\ at[r] \in {"waiting", "turn"}

\* However many calls find the budget open at once, the day's rows exceed it by
\* less than one call's cost for each channel and each job: a channel has one
\* turn at a time and a turn one call.
Dearest == CHOOSE size \in Sizes : \A other \in Sizes : other <= size

OverrunBounded ==
  Limit > 0 =>
    spent + Cardinality(calling) * Dearest
      < Limit + (Cardinality(Channel) + Cardinality(Job)) * Dearest

\* Every message is answered, or was cancelled.
EveryMessageEnds == \A r \in Request : <>(at[r] = "done")

===============================================================================
