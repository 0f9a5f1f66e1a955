--------------------------- MODULE RouterTurns_proofs ---------------------------
(***************************************************************************)
(* Theorems about RouterTurns for every set of messages, users, tools,     *)
(* confirmations and batches, every taint mode and every cap.              *)
(***************************************************************************)
EXTENDS RouterTurns, SequenceTheorems, TLAPS

USE RouterAssumptions, NoneAssumption

--------------------------------------------------------------------------------
(* Types. *)

LEMMA OutsUpdate ==
  ASSUME NEW S, NEW s \in Seq(S), NEW i \in DOMAIN s, NEW x \in S
  PROVE  /\ [s EXCEPT ![i] = x] \in Seq(S)
         /\ DOMAIN [s EXCEPT ![i] = x] = DOMAIN s
  BY ExceptSeq, LenProperties

\* A batch is planned call by call.
LEMMA PlanType ==
  ASSUME NEW b \in Batches, NEW t \in BOOLEAN
  PROVE  /\ b \in Seq(Tool)
         /\ Plan(b, t) \in Seq(Outcome)
         /\ DOMAIN Plan(b, t) = DOMAIN b
<1>1. b \in Seq(Tool) OBVIOUS
<1>2. DOMAIN b = 1..Len(b) /\ Len(b) \in Nat BY <1>1, LenProperties
<1>3. \A i \in DOMAIN b : Plan(b, t)[i] \in Outcome BY DEF Plan, Outcome
<1>4. Plan(b, t) = [i \in 1..Len(b) |-> Plan(b, t)[i]] BY <1>2 DEF Plan
<1>5. Plan(b, t) \in Seq(Outcome) BY <1>2, <1>3, <1>4, IsASeq
<1>6. QED BY <1>1, <1>5 DEF Plan

LEMMA SettleType ==
  ASSUME NEW t \in Turn, NEW out \in Outcome
  PROVE  /\ Settle(t, out) \in Turn
         /\ Settle(t, out).msg = t.msg /\ Settle(t, out).iter = t.iter
         /\ Settle(t, out).batch = t.batch
<1> DEFINE o == [i \in DOMAIN t.outs |-> IF t.outs[i] = "pending" THEN out ELSE t.outs[i]]
<1>1. t.outs \in Seq(Outcome) BY DEF Turn
<1>2. DOMAIN t.outs = 1..Len(t.outs) /\ Len(t.outs) \in Nat BY <1>1, LenProperties
<1>3. o \in Seq(Outcome) BY <1>1, <1>2, IsASeq, ElementOfSeq
<1>4. QED BY <1>3 DEF Settle, Turn

LEMMA EntryType ==
  ASSUME NEW t \in Turn
  PROVE  BatchEntry(t) \in Entry /\ ReplyEntry(t) \in Entry
  BY EmptySeq DEF Turn, Entry, BatchEntry, ReplyEntry

LEMMA UserEntryType ==
  ASSUME NEW m \in Msg
  PROVE  UserEntry(m) \in Entry /\ NewTurn(m) \in Turn
  BY EmptySeq DEF Turn, Entry, UserEntry, NewTurn

LEMMA RequestKinds ==
  ASSUME NEW r \in Request
  PROVE  /\ r.kind = "handle" => r \in [kind : {"handle"}, msg : Msg]
         /\ r.kind = "resolve" =>
              r \in [kind : {"resolve"}, conf : Conf, user : User, approved : BOOLEAN]
         /\ r.kind \in {"handle", "resolve"}
  BY DEF Request

\* Appending to history keeps its type, what was said and, but for a user
\* entry, says nothing new.
LEMMA AppendHistory ==
  ASSUME history \in Seq(Entry), NEW e \in Entry, history' = Append(history, e)
  PROVE  /\ history' \in Seq(Entry)
         /\ \A m : Said(m) => Said(m)'
         /\ \A m : Said(m)' => Said(m) \/ e = UserEntry(m)
         /\ \A m \in Msg : e = UserEntry(m) => Said(m)'
<1>1. /\ history' \in Seq(Entry) /\ Len(history') = Len(history) + 1
      /\ \A i \in 1..Len(history) : history'[i] = history[i]
      /\ history'[Len(history) + 1] = e
  BY AppendProperties
<1>2. /\ DOMAIN history = 1..Len(history) /\ DOMAIN history' = 1..Len(history')
      /\ Len(history) \in Nat
  BY <1>1, LenProperties
<1>3. QED BY <1>1, <1>2, SMT DEF Said, UserEntry

LEMMA BatchIsNotUser ==
  ASSUME NEW t, NEW m
  PROVE  BatchEntry(t) # UserEntry(m) /\ ReplyEntry(t) # UserEntry(m)
<1>1. /\ BatchEntry(t).kind = "batch" /\ ReplyEntry(t).kind = "reply"
      /\ UserEntry(m).kind = "user"
  BY DEF BatchEntry, ReplyEntry, UserEntry
<1>2. QED BY <1>1

LEMMA PendingType ==
  ASSUME NEW t \in Turn, HasPending(t), DOMAIN t.batch = DOMAIN t.outs
  PROVE  /\ PendingAt(t) \in DOMAIN t.outs /\ t.outs[PendingAt(t)] = "pending"
         /\ PendingAt(t) \in Nat
         /\ t.batch[PendingAt(t)] \in Tool
<1>1. /\ DOMAIN t.outs = 1..Len(t.outs) /\ Len(t.outs) \in Nat
      /\ DOMAIN t.batch = 1..Len(t.batch)
  BY LenProperties DEF Turn
<1>2. PendingAt(t) \in DOMAIN t.outs /\ t.outs[PendingAt(t)] = "pending"
  BY DEF HasPending, PendingAt
<1>3. QED BY <1>1, <1>2, ElementOfSeq DEF Turn

--------------------------------------------------------------------------------
(* The inductive invariant: the steps that leave the conversation alone. *)

LEMMA InitIInv == Init => IInv
<1> SUFFICES ASSUME Init PROVE IInv OBVIOUS
<1>1. TypeOK
  BY EmptySeq DEF Init, TypeOK, Places, Replies
<1>2. PlaceInv BY DEF Init, PlaceInv, InLoop, InResolve
<1>3. RowInv BY DEF Init, RowInv, AtMostOnePending, Pending
<1>4. SlotInv BY DEF Init, SlotInv, InLoop, InResolve, Resumable
<1>5. TaintInv BY DEF Init, TaintInv, InLoop, InResolve, Resumable
<1>6. NoUnapprovedMutation BY DEF Init, NoUnapprovedMutation
<1>7. QED BY <1>1, <1>2, <1>3, <1>4, <1>5, <1>6 DEF IInv

conversation == <<holder, pc, cur, closing, status, saved, registry, history,
                  dispatched, succeeded, runs, abandoned>>

\* Requests that only join or leave the queue, and the passing of time.
LEMMA QuietStep ==
  ASSUME IInv, UNCHANGED conversation,
         queue' \in Seq(Request), overdue' \subseteq Conf, reply' \in Replies
  PROVE  IInv'
<1>1. TypeOK' BY DEF IInv, TypeOK, conversation
<1>2. PlaceInv' BY DEF IInv, PlaceInv, InLoop, InResolve, conversation, Said
<1>. /\ \A m : Said(m)' <=> Said(m)
     /\ Pending' = Pending
  BY DEF conversation, Said, Pending
<1>3. RowInv' BY DEF IInv, RowInv, AtMostOnePending, conversation
<1>4. SlotInv'
  <2>1. InLoop' = InLoop /\ \A c : Resumable(c)' <=> Resumable(c)
    BY DEF InLoop, InResolve, Resumable, conversation
  <2>2. LoopSlots' <=> LoopSlots BY DEF LoopSlots, conversation
  <2>3. ASSUME NEW c \in Conf PROVE RowSlots(c)' <=> RowSlots(c)
    BY DEF RowSlots, RunByModel, RunOnApproval, conversation
  <2>4. \A c, d : InPendingSlot(c, d)' <=> InPendingSlot(c, d)
    BY DEF InPendingSlot, conversation
  <2>5. QED BY <2>1, <2>2, <2>3, <2>4 DEF IInv, SlotInv, conversation
<1>5. TaintInv'
  BY DEF IInv, TaintInv, PlannedClean, RowTaint, InLoop, InResolve, Resumable, Mutates, conversation
<1>6. NoUnapprovedMutation' BY DEF IInv, NoUnapprovedMutation, conversation
<1>7. QED BY <1>1, <1>2, <1>3, <1>4, <1>5, <1>6 DEF IInv

LEMMA EnvironmentStep ==
  ASSUME IInv,
         \/ \E m \in Msg : Deliver(m)
         \/ \E c \in Conf, u \in User, a \in BOOLEAN : ClickButton(c, u, a)
         \/ \E c \in Conf : Expire(c)
         \/ \E k \in DOMAIN queue : CancelWaiter(k)
         \/ UNCHANGED vars
  PROVE  IInv'
<1> USE DEF IInv, TypeOK
<1>1. ASSUME NEW m \in Msg, Deliver(m) PROVE IInv'
  <2>1. Handle(m) \in Request BY DEF Handle, Request
  <2>2. queue' \in Seq(Request) BY <1>1, <2>1, AppendProperties DEF Deliver
  <2>3. QED BY <1>1, <2>2, QuietStep DEF Deliver, conversation, dbVars, ghostVars
<1>2. ASSUME NEW c \in Conf, NEW u \in User, NEW a \in BOOLEAN, ClickButton(c, u, a) PROVE IInv'
  <2>1. Click(c, u, a) \in Request BY DEF Click, Request
  <2>2. queue' \in Seq(Request) BY <1>2, <2>1, AppendProperties DEF ClickButton
  <2>3. QED BY <1>2, <2>2, QuietStep DEF ClickButton, conversation, dbVars, ghostVars
<1>3. ASSUME NEW c \in Conf, Expire(c) PROVE IInv'
  BY <1>3, QuietStep DEF Expire, conversation, dbVars, ghostVars, lockVars
<1>4. ASSUME NEW k \in DOMAIN queue, CancelWaiter(k) PROVE IInv'
  <2> DEFINE l == SubSeq(queue, 1, k - 1)
             r == SubSeq(queue, k + 1, Len(queue))
  <2>1. Len(queue) \in Nat /\ k \in 1..Len(queue) BY LenProperties
  <2>2. \A i \in 1..Len(queue) : queue[i] \in Request BY ElementOfSeq
  <2>3. l \in Seq(Request)
    <3>1. \A i \in 1..k - 1 : queue[i] \in Request BY <2>1, <2>2
    <3>2. QED BY <2>1, <3>1, SubSeqProperties
  <2>4. r \in Seq(Request)
    <3>1. \A i \in k + 1..Len(queue) : queue[i] \in Request BY <2>1, <2>2
    <3>2. QED BY <2>1, <3>1, SubSeqProperties
  <2>5. queue' \in Seq(Request) BY <1>4, <2>3, <2>4, ConcatProperties DEF CancelWaiter
  <2>6. QED BY <1>4, <2>5, QuietStep DEF CancelWaiter, conversation, dbVars, ghostVars
<1>5. ASSUME UNCHANGED vars PROVE IInv'
  BY <1>5, QuietStep DEF vars, conversation
<1>6. QED BY <1>1, <1>2, <1>3, <1>4, <1>5

\* Steps that give the conversation back: nothing of the holder's remains.
LEMMA ReleaseStep ==
  ASSUME IInv,
         holder' = NoRequest, pc' = "idle", cur' = NoTurn, closing' = {},
         UNCHANGED <<status, saved, dispatched, runs>>,
         history' \in Seq(Entry), \A m : Said(m) => Said(m)',
         queue' \in Seq(Request), registry' \subseteq Tool, overdue' \subseteq Conf,
         reply' \in Replies, succeeded' \subseteq Msg, abandoned' \subseteq Msg
  PROVE  IInv'
<1>1. TypeOK' BY DEF IInv, TypeOK, Places
<1>2. PlaceInv' BY DEF PlaceInv, InLoop, InResolve
<1>. Pending' = Pending BY DEF Pending
<1>3. RowInv' BY DEF IInv, RowInv, AtMostOnePending
<1>4. SlotInv'
  <2>1. ASSUME NEW c \in Conf, Resumable(c)' PROVE RowSlots(c)'
    <3>1. status[c] = "pending" /\ Resumable(c) BY <2>1 DEF Resumable, InResolve
    <3>2. pc \in {"idle", "begin"} BY <3>1 DEF IInv, RowInv, Pending
    <3>3. RowSlots(c) BY <3>1 DEF IInv, SlotInv
    <3>4. QED BY <3>2, <3>3 DEF RowSlots, RunByModel, RunOnApproval
  <2>2. QED BY <2>1 DEF IInv, SlotInv, InLoop, InPendingSlot
<1>5. TaintInv' BY DEF IInv, TaintInv, PlannedClean, RowTaint, InLoop, InResolve, Resumable, Mutates
<1>6. NoUnapprovedMutation' BY DEF IInv, NoUnapprovedMutation
<1>7. QED BY <1>1, <1>2, <1>3, <1>4, <1>5, <1>6 DEF IInv

LEMMA AtRiskType == IInv => AtRisk \subseteq Msg
<1> SUFFICES ASSUME IInv PROVE AtRisk \subseteq Msg OBVIOUS
<1>1. InLoop => cur.msg \in Msg BY DEF IInv, PlaceInv, Turn
<1>2. \A c \in Conf : status[c] # "none" => saved[c].msg \in Msg BY DEF IInv, RowInv, Turn
<1>3. closing \subseteq Conf /\ \A c \in closing : status[c] # "none"
  BY DEF IInv, TypeOK, RowInv
<1>4. InResolve => holder.conf \in Conf /\ status[holder.conf] # "none"
  BY DEF IInv, PlaceInv, RowInv, InResolve
<1>5. QED BY <1>1, <1>2, <1>3, <1>4 DEF AtRisk, InLoop, InResolve

\* Every answer, and every cancellation or restart, is a release.
LEMMA ReleasingStep ==
  ASSUME IInv,
         \/ DropDuplicate \/ ModelReplies \/ ModelFails
         \/ \E c \in Conf : AlreadyResolved(c) \/ RefuseStranger(c) \/ CloseExpired(c)
         \/ CancelHolder
         \/ \E reg \in Registries : Restart(reg)
  PROVE  IInv'
<1> USE DEF Answer, Replies, dbVars, ghostVars, Said
<1>0. TypeOK BY DEF IInv
<1>1. CASE DropDuplicate BY <1>0, <1>1, ReleaseStep DEF DropDuplicate, TypeOK
<1>2. CASE ModelReplies
  <2>1. cur \in Turn BY <1>2 DEF IInv, PlaceInv, InLoop, ModelReplies
  <2>2. ReplyEntry(cur) \in Entry BY <2>1, EntryType
  <2>3. history' \in Seq(Entry) /\ \A m : Said(m) => Said(m)'
    <3> HIDE DEF Said
    <3>1. QED BY <1>0, <1>2, <2>2, AppendHistory DEF ModelReplies, TypeOK
  <2>4. QED BY <1>0, <1>2, <2>3, ReleaseStep DEF ModelReplies, TypeOK
<1>3. CASE ModelFails BY <1>0, <1>3, ReleaseStep DEF ModelFails, TypeOK
<1>4. ASSUME NEW c \in Conf, AlreadyResolved(c) \/ RefuseStranger(c) PROVE IInv'
  BY <1>0, <1>4, ReleaseStep DEF AlreadyResolved, RefuseStranger, TypeOK
<1>5. ASSUME NEW c \in Conf, CloseExpired(c) PROVE IInv'
  <2>1. saved[c] \in Turn BY <1>5 DEF IInv, RowInv, CloseExpired
  <2>2. BatchEntry(Settle(saved[c], "error")) \in Entry
    BY <2>1, SettleType, EntryType DEF Outcome
  <2>3. history' \in Seq(Entry) /\ \A m : Said(m) => Said(m)'
    <3> HIDE DEF Said
    <3>1. QED BY <1>0, <1>5, <2>2, AppendHistory DEF CloseExpired, CloseSuspendedTurn, TypeOK
  <2>4. QED BY <1>0, <1>5, <2>3, ReleaseStep DEF CloseExpired, TypeOK
<1>6. CASE CancelHolder
  BY <1>0, <1>6, AtRiskType, ReleaseStep DEF CancelHolder, TypeOK
<1>7. ASSUME NEW reg \in Registries, Restart(reg) PROVE IInv'
  BY <1>0, <1>7, AtRiskType, ReleaseStep, EmptySeq DEF Restart, TypeOK
<1>8. QED BY <1>1, <1>2, <1>3, <1>4, <1>5, <1>6, <1>7

\* Steps that change the place of the holder but neither a row, nor a turn, nor
\* what was dispatched.
LEMMA LockStep == ASSUME IInv, AcquireLock PROVE IInv'
<1>0. TypeOK /\ pc = "idle" BY DEF IInv, PlaceInv, AcquireLock
<1>1. Head(queue) \in Request /\ Tail(queue) \in Seq(Request)
  BY <1>0, HeadTailProperties DEF TypeOK, AcquireLock
<1> USE DEF AcquireLock, dbVars, ghostVars
<1>2. TypeOK' BY <1>0, <1>1 DEF TypeOK, Places, Replies
<1>3. PlaceInv' BY <1>0, <1>1 DEF IInv, PlaceInv, InLoop, InResolve
<1>4. \A m : Said(m)' <=> Said(m) BY DEF Said
<1>5. Pending' = Pending BY DEF Pending
<1>6. RowInv' BY <1>0, <1>4, <1>5 DEF IInv, RowInv, AtMostOnePending
<1>7. SlotInv'
  <2>1. \A c : Resumable(c)' => Resumable(c) /\ status[c] = "pending" BY DEF Resumable, InResolve
  <2>2. ASSUME NEW c \in Conf, Resumable(c)' PROVE RowSlots(c)'
    BY <1>0, <2>1, <2>2 DEF IInv, SlotInv, RowSlots, RunByModel, RunOnApproval
  <2>3. QED BY <1>4, <2>2 DEF IInv, SlotInv, InLoop, InPendingSlot
<1>8. TaintInv' BY DEF IInv, TaintInv, PlannedClean, RowTaint, InLoop, InResolve, Resumable
<1>9. NoUnapprovedMutation' BY DEF IInv, NoUnapprovedMutation
<1>10. QED BY <1>2, <1>3, <1>6, <1>7, <1>8, <1>9 DEF IInv

--------------------------------------------------------------------------------
(* The steps of handle before its loop. *)

LEMMA DeclineStep == ASSUME IInv, AutoDeclinePending PROVE IInv'
<1>0. TypeOK /\ holder \in [kind : {"handle"}, msg : Msg] /\ pc = "begin" /\ ~Said(holder.msg)
  BY RequestKinds DEF IInv, TypeOK, PlaceInv, AutoDeclinePending
<1> USE DEF AutoDeclinePending, Step, lockVars, ghostVars
<1>1. \A m : Said(m)' <=> Said(m) BY DEF Said
<1>2. TypeOK' BY <1>0 DEF TypeOK, Places, Pending
<1>3. PlaceInv' BY <1>0, <1>1 DEF IInv, PlaceInv, InLoop, InResolve
<1>4. /\ Pending' = {}
      /\ \A c \in Conf : /\ c \in Pending => status'[c] \in {"declined", "expired"}
                         /\ c \notin Pending => status'[c] = status[c]
  BY <1>0 DEF Pending, TypeOK
<1>5. RowInv' BY <1>0, <1>1, <1>4 DEF IInv, RowInv, AtMostOnePending, Pending
<1>6. SlotInv'
  <2>1. \A c \in Conf : ~Resumable(c)' BY <1>4 DEF Resumable, InResolve, Pending
  <2>2. ASSUME NEW c \in Conf, status'[c] \in {"declined", "expired"}, NEW d \in dispatched
        PROVE  ~InPendingSlot(c, d)
    <3>1. CASE c \notin Pending BY <1>4, <2>2, <3>1 DEF IInv, SlotInv
    <3>2. CASE c \in Pending
      <4>1. status[c] = "pending" /\ RowSlots(c)
        BY <3>2 DEF Pending, IInv, SlotInv, Resumable
      <4>2. saved[c].outs[PendingAt(saved[c])] = "pending"
        BY <4>1, PendingType DEF IInv, RowInv
      <4>3. QED BY <1>0, <4>1, <4>2 DEF RowSlots, RunByModel, RunOnApproval, InPendingSlot,
                                        IInv, RowInv, Turn
    <3>3. QED BY <3>1, <3>2
  <2>3. QED BY <1>1, <2>1, <2>2 DEF IInv, SlotInv, InLoop, InPendingSlot
<1>7. TaintInv'
  <2>1. \A c \in Conf : ~Resumable(c)' BY <1>4 DEF Resumable, InResolve, Pending
  <2>2. QED BY <2>1 DEF TaintInv, InLoop
<1>8. NoUnapprovedMutation' BY DEF IInv, NoUnapprovedMutation
<1>9. QED BY <1>2, <1>3, <1>5, <1>6, <1>7, <1>8 DEF IInv

LEMMA CloseSupersededStep ==
  ASSUME IInv, NEW c \in Conf, CloseSuperseded(c) PROVE IInv'
<1>0. TypeOK /\ saved[c] \in Turn /\ pc = "closing" BY DEF IInv, RowInv, CloseSuperseded
<1>1. BatchEntry(Settle(saved[c], "error")) \in Entry
  BY <1>0, SettleType, EntryType DEF Outcome
<1>2. history' \in Seq(Entry) /\ \A m : Said(m)' <=> Said(m)
  BY <1>0, <1>1, AppendHistory, BatchIsNotUser
  DEF CloseSuperseded, CloseSuspendedTurn, TypeOK
<1> USE DEF CloseSuperseded, Step, lockVars, ghostVars
<1>3. TypeOK' BY <1>0, <1>2 DEF TypeOK, Places
<1>4. PlaceInv' BY <1>0, <1>2 DEF IInv, PlaceInv, InLoop, InResolve
<1>5. Pending' = Pending BY DEF Pending
<1>6. RowInv' BY <1>0, <1>2, <1>5 DEF IInv, RowInv, AtMostOnePending
<1>7. Pending = {} BY <1>0 DEF IInv, RowInv
<1>8. \A e \in Conf : ~Resumable(e)' BY <1>7 DEF Resumable, InResolve, Pending
<1>9. SlotInv' BY <1>0, <1>2, <1>8 DEF IInv, SlotInv, InLoop, InPendingSlot
<1>10. TaintInv' BY <1>8 DEF TaintInv, InLoop
<1>11. NoUnapprovedMutation' BY DEF IInv, NoUnapprovedMutation
<1>12. QED BY <1>3, <1>4, <1>6, <1>9, <1>10, <1>11 DEF IInv

\* A new turn: nothing was ever saved or dispatched under its message.
LEMMA AppendUserStep == ASSUME IInv, AppendUserMessage PROVE IInv'
<1>0. TypeOK /\ holder.msg \in Msg /\ ~Said(holder.msg) /\ holder # NoRequest
  BY DEF IInv, PlaceInv, AppendUserMessage
<1>1. UserEntry(holder.msg) \in Entry /\ NewTurn(holder.msg) \in Turn
  BY <1>0, UserEntryType
<1>2. history' \in Seq(Entry) /\ (\A m : Said(m) => Said(m)') /\ Said(holder.msg)'
  <2> DEFINE e == UserEntry(holder.msg)
  <2>1. e \in Entry /\ history' = Append(history, e) /\ history \in Seq(Entry)
    BY <1>0, <1>1 DEF AppendUserMessage, TypeOK
  <2>2. /\ history' \in Seq(Entry)
        /\ \A m : Said(m) => Said(m)'
        /\ \A m : Said(m)' => Said(m) \/ e = UserEntry(m)
        /\ \A m \in Msg : e = UserEntry(m) => Said(m)'
    <3> HIDE DEF e
    <3>1. QED BY <2>1, AppendHistory
  <2>3. holder' = holder BY DEF AppendUserMessage, Step, lockVars
  <2>4. QED BY <1>0, <2>2, <2>3
<1> USE DEF AppendUserMessage, Step, lockVars, ghostVars
<1>3. TypeOK' BY <1>0, <1>1, <1>2 DEF TypeOK, Places
<1>4. /\ cur'.msg = holder.msg /\ cur'.batch = <<>> /\ cur'.outs = <<>>
  BY DEF NewTurn
<1>5. PlaceInv' BY <1>0, <1>1, <1>4 DEF IInv, PlaceInv, InLoop, InResolve
<1>6. Pending = {} /\ Pending' = {} BY DEF IInv, RowInv, Pending
<1>7. RowInv' BY <1>0, <1>2, <1>6 DEF IInv, RowInv, AtMostOnePending
<1>8. \A e \in Conf : ~Resumable(e)' BY <1>6 DEF Resumable, InResolve, Pending
<1>9. /\ \A c \in Conf : status[c] # "none" => saved[c].msg # holder.msg
      /\ \A d \in dispatched : d.msg # holder.msg
  BY <1>0 DEF IInv, RowInv, SlotInv
<1>10. SlotInv' BY <1>0, <1>2, <1>4, <1>8, <1>9 DEF IInv, SlotInv, LoopSlots, InLoop, InPendingSlot
<1>11. TaintInv' BY <1>4, <1>8, <1>9 DEF TaintInv, InLoop
<1>12. NoUnapprovedMutation' BY DEF IInv, NoUnapprovedMutation
<1>13. QED BY <1>3, <1>5, <1>7, <1>10, <1>11, <1>12 DEF IInv

--------------------------------------------------------------------------------
(* The steps of the loop. *)

\* What the steps of the loop share: no row is open, so only the running turn
\* matters.
LEMMA LoopFacts ==
  ASSUME IInv, InLoop
  PROVE  /\ cur \in Turn /\ holder # NoRequest /\ closing = {}
         /\ DOMAIN cur.batch = DOMAIN cur.outs
         /\ DOMAIN cur.outs = 1..Len(cur.outs) /\ Len(cur.outs) \in Nat
         /\ Pending = {} /\ \A c \in Conf : ~Resumable(c)
         /\ LoopSlots
<1>1. cur \in Turn /\ holder # NoRequest /\ closing = {} /\ DOMAIN cur.batch = DOMAIN cur.outs
  BY DEF IInv, PlaceInv, InLoop
<1>2. DOMAIN cur.outs = 1..Len(cur.outs) /\ Len(cur.outs) \in Nat
  BY <1>1, LenProperties DEF Turn
<1>3. Pending = {} BY DEF IInv, RowInv, InLoop
<1>4. QED BY <1>1, <1>2, <1>3 DEF IInv, SlotInv, InLoop, InResolve, Resumable, Pending

\* A step inside the loop that touches no row.
LEMMA LoopStep ==
  ASSUME IInv, InLoop, InLoop', cur' \in Turn, DOMAIN cur'.batch = DOMAIN cur'.outs,
         UNCHANGED <<queue, holder, closing, status, saved, overdue, registry, reply,
                     runs, abandoned>>,
         history' \in Seq(Entry), \A m : Said(m) => Said(m)',
         succeeded' \subseteq Msg, dispatched' \subseteq Dispatch,
         LoopSlots', \A d \in dispatched' : Said(d.msg),
         \A c \in Conf : status[c] \in {"declined", "expired"} =>
           \A d \in dispatched' : ~InPendingSlot(c, d),
         \A e \in dispatched' : e.msg = cur'.msg /\ e.tool \in Untrusted => cur'.tainted,
         pc' = "batch" => \A i \in DOMAIN cur'.outs :
           /\ cur'.outs[i] # "unknown" => cur'.batch[i] \in registry'
           /\ cur'.outs[i] \in {"queued", "running", "ok", "error"} => PlannedClean(i)',
         NoUnapprovedMutation'
  PROVE  IInv'
<1>1. TypeOK' BY DEF IInv, TypeOK, InLoop, Places
<1>2. PlaceInv' BY DEF IInv, PlaceInv, InLoop, InResolve
<1>3. Pending = {} /\ Pending' = {} BY LoopFacts DEF Pending
<1>4. RowInv' BY <1>3 DEF IInv, RowInv, InLoop, AtMostOnePending
<1>5. \A e \in Conf : ~Resumable(e)' BY <1>3 DEF Resumable, InResolve, Pending, InLoop
<1>6. SlotInv' BY <1>5 DEF SlotInv, InPendingSlot
<1>7. TaintInv' BY <1>5 DEF TaintInv
<1>8. QED BY <1>1, <1>2, <1>4, <1>6, <1>7 DEF IInv

LEMMA PlanStep ==
  ASSUME IInv, NEW b \in Batches, NEW s \in SummaryTaint, PlanBatch(b, s) PROVE IInv'
<1> DEFINE t == TaintNow(s)
<1>0. InLoop /\ TypeOK /\ pc = "model" /\ cur \in Turn BY LoopFacts DEF PlanBatch, InLoop, IInv
<1>1. t \in BOOLEAN BY <1>0 DEF TaintNow, Turn
<1>2. /\ b \in Seq(Tool) /\ Plan(b, t) \in Seq(Outcome) /\ DOMAIN Plan(b, t) = DOMAIN b
  BY <1>1, PlanType
<1>3. /\ cur' = [cur EXCEPT !.tainted = t, !.batch = b, !.outs = Plan(b, t)]
      /\ pc' = "batch"
      /\ UNCHANGED <<queue, holder, closing, overdue, registry, reply, status, saved, history,
                     dispatched, succeeded, runs, abandoned>>
  BY DEF PlanBatch, Step, lockVars, dbVars, ghostVars
<1> HIDE DEF t
<1>4. /\ cur' \in Turn /\ cur'.msg = cur.msg /\ cur'.iter = cur.iter
      /\ cur'.tainted = t /\ cur'.batch = b /\ cur'.outs = Plan(b, t)
  BY <1>0, <1>1, <1>2, <1>3 DEF Turn
<1>5. \A m : Said(m)' <=> Said(m) BY <1>3 DEF Said
<1>6. \A d \in dispatched : d.msg = cur.msg => d.iter < cur.iter
  BY <1>0, LoopFacts DEF LoopSlots
<1>7. LoopSlots' BY <1>0, <1>3, <1>4, <1>5, <1>6, LoopFacts DEF LoopSlots
<1>8. \A e \in dispatched : e.msg = cur.msg /\ e.tool \in Untrusted => cur.tainted
  BY <1>0 DEF IInv, TaintInv
<1>9. cur.tainted => t BY DEF t, TaintNow
<1>10. ASSUME NEW i \in DOMAIN b
       PROVE  /\ Plan(b, t)[i] # "unknown" => b[i] \in registry
              /\ Plan(b, t)[i] \in {"queued", "running", "ok", "error"} =>
                   b[i] \in registry /\ ~Gated(b, i, t)
  BY <1>10 DEF Plan
<1>11. ASSUME NEW i \in DOMAIN b, b[i] \in registry, ~Gated(b, i, t)
       PROVE  PlannedClean(i)'
  <2>1. /\ b[i] \notin Confirm
        /\ Mutates(b[i]) =>
             /\ ~t
             /\ \A j \in DOMAIN b \ {i} : b[j] \notin registry \/ b[j] \notin Untrusted
    BY <1>11 DEF Gated, NeedsConfirm, Mutates
  <2>2. ~t => \A e \in dispatched : ~(e.msg = cur.msg /\ e.tool \in Untrusted)
    BY <1>8, <1>9
  <2>3. QED BY <1>2, <1>3, <1>4, <2>1, <2>2 DEF PlannedClean
<1>12. QED
  <2>1. InLoop' BY <1>3 DEF InLoop
  <2>2. NoUnapprovedMutation' BY <1>3 DEF IInv, NoUnapprovedMutation
  <2>3. \A i \in DOMAIN cur'.outs :
          /\ cur'.outs[i] # "unknown" => cur'.batch[i] \in registry'
          /\ cur'.outs[i] \in {"queued", "running", "ok", "error"} => PlannedClean(i)'
    BY <1>2, <1>3, <1>4, <1>10, <1>11
  <2>4. QED BY <1>0, <1>2, <1>3, <1>4, <1>5, <1>7, <1>8, <1>9, <2>1, <2>2, <2>3, LoopStep
            DEF IInv, TypeOK, SlotInv

\* What a step of the batch does to the running turn, whichever step it is.
LEMMA BatchUpdate ==
  ASSUME cur \in Turn, DOMAIN cur.batch = DOMAIN cur.outs, NEW i \in DOMAIN cur.outs,
         NEW out \in Outcome, NEW t \in BOOLEAN, NEW x \in BOOLEAN,
         cur' = [cur EXCEPT !.outs = [cur.outs EXCEPT ![i] = out], !.tainted = t, !.exec = x]
  PROVE  /\ cur' \in Turn
         /\ cur'.msg = cur.msg /\ cur'.iter = cur.iter /\ cur'.batch = cur.batch
         /\ cur'.tainted = t
         /\ DOMAIN cur'.outs = DOMAIN cur.outs
         /\ cur'.outs[i] = out
         /\ \A j \in DOMAIN cur.outs \ {i} : cur'.outs[j] = cur.outs[j]
<1>1. cur.outs \in Seq(Outcome) BY DEF Turn
<1>2. [cur.outs EXCEPT ![i] = out] \in Seq(Outcome)
  BY <1>1, OutsUpdate
<1>3. QED BY <1>1, <1>2 DEF Turn

\* A call about to start: registered, planned clean, and in a slot of its own.
LEMMA RunToolStep ==
  ASSUME IInv, InLoop, NEW i \in DOMAIN cur.outs, RunTool(i) PROVE IInv'
<1> DEFINE d0 == Called(cur, i, "model")
<1>0. /\ TypeOK /\ pc = "batch" /\ pc' = "batch" /\ cur \in Turn
      /\ DOMAIN cur.batch = DOMAIN cur.outs /\ DOMAIN cur.outs = 1..Len(cur.outs)
      /\ Len(cur.outs) \in Nat /\ LoopSlots
      /\ cur.outs[i] = "queued"
      /\ cur' = [cur EXCEPT !.outs = [cur.outs EXCEPT ![i] = "running"], !.tainted = Tainting(i)]
      /\ dispatched' = dispatched \cup {d0}
      /\ UNCHANGED <<queue, holder, closing, overdue, registry, reply, status, saved, history,
                     succeeded, runs, abandoned>>
  BY LoopFacts DEF IInv, RunTool, Step, lockVars, dbVars
<1>1. cur.batch[i] \in Tool /\ cur.msg \in Msg /\ cur.iter \in Nat
  BY <1>0, ElementOfSeq, LenProperties DEF Turn
<1>2. /\ d0 \in Dispatch /\ d0.msg = cur.msg /\ d0.iter = cur.iter /\ d0.idx = i
      /\ d0.tool = cur.batch[i] /\ d0.by = "model"
  BY <1>0, <1>1 DEF Called, Dispatch
<1>3. Tainting(i) \in BOOLEAN BY <1>0 DEF Tainting, Turn
<1>4. /\ cur' \in Turn
      /\ cur'.msg = cur.msg /\ cur'.iter = cur.iter /\ cur'.batch = cur.batch
      /\ cur'.tainted = Tainting(i)
      /\ DOMAIN cur'.outs = DOMAIN cur.outs
      /\ cur'.outs[i] = "running"
      /\ \A j \in DOMAIN cur.outs \ {i} : cur'.outs[j] = cur.outs[j]
  <2>1. PICK t \in BOOLEAN, x \in BOOLEAN : t = Tainting(i) /\ x = cur.exec
    BY <1>0, <1>3 DEF Turn
  <2>2. cur' = [cur EXCEPT !.outs = [cur.outs EXCEPT ![i] = "running"],
                           !.tainted = t, !.exec = x]
    BY <1>0, <2>1 DEF Turn
  <2>3. PICK out \in Outcome : out = "running" BY DEF Outcome
  <2>4. cur' = [cur EXCEPT !.outs = [cur.outs EXCEPT ![i] = out], !.tainted = t, !.exec = x]
    BY <2>2, <2>3
  <2>5. cur \in Turn /\ DOMAIN cur.batch = DOMAIN cur.outs BY <1>0
  <2>6. QED BY <2>1, <2>3, <2>4, <2>5, BatchUpdate
<1>5. \A m : Said(m)' <=> Said(m) BY <1>0 DEF Said
<1>6. \A j \in DOMAIN cur.outs :
        /\ cur.outs[j] # "unknown" => cur.batch[j] \in registry
        /\ cur.outs[j] \in {"queued", "running", "ok", "error"} => PlannedClean(j)
  BY <1>0 DEF IInv, TaintInv
<1>7. cur.batch[i] \in registry /\ PlannedClean(i) BY <1>0, <1>6
<1> HIDE DEF d0
<1>8. LoopSlots' BY <1>0, <1>1, <1>2, <1>4, <1>5 DEF LoopSlots
<1>9. ASSUME NEW c \in Conf, status[c] \in {"declined", "expired"}, NEW d \in dispatched'
      PROVE  ~InPendingSlot(c, d)
  <2>1. CASE d \in dispatched BY <1>9, <2>1 DEF IInv, SlotInv
  <2>2. CASE d = d0 BY <1>0, <1>1, <1>2, <1>9, <2>2 DEF LoopSlots, InPendingSlot
  <2>3. QED BY <1>0, <2>1, <2>2
<1>10. \A e \in dispatched' : e.msg = cur'.msg /\ e.tool \in Untrusted => cur'.tainted
  BY <1>0, <1>2, <1>4 DEF Tainting, IInv, TaintInv, InLoop
<1>11. ASSUME NEW j \in DOMAIN cur'.outs
       PROVE  /\ cur'.outs[j] # "unknown" => cur'.batch[j] \in registry'
              /\ cur'.outs[j] \in {"queued", "running", "ok", "error"} => PlannedClean(j)'
  <2>1. cur'.outs[j] # "unknown" => cur.outs[j] # "unknown" BY <1>0, <1>4
  <2>2. cur'.outs[j] \in {"queued", "running", "ok", "error"} => PlannedClean(j)
    BY <1>0, <1>4, <1>6
  <2>3. PlannedClean(j) => PlannedClean(j)'
    BY <1>0, <1>1, <1>2, <1>4 DEF PlannedClean, Mutates
  <2>4. QED BY <1>0, <1>4, <1>6, <2>1, <2>2, <2>3
<1>12. NoUnapprovedMutation'
  <2> SUFFICES ASSUME NEW d \in dispatched', d.by = "model"
               PROVE  /\ d.tool \notin Confirm
                      /\ Mutates(d.tool) =>
                           \A e \in dispatched' :
                             e.msg = d.msg /\ e # d /\ e.tool \in Untrusted => d.iter < e.iter
    BY DEF NoUnapprovedMutation, Mutates
  <2>1. d.tool \notin Confirm
    BY <1>0, <1>2, <1>7 DEF IInv, NoUnapprovedMutation, PlannedClean
  <2>2. ASSUME Mutates(d.tool), NEW e \in dispatched', e.msg = d.msg, e # d, e.tool \in Untrusted
        PROVE  d.iter < e.iter
    <3>1. CASE d \in dispatched /\ e \in dispatched
      BY <2>2, <3>1 DEF IInv, NoUnapprovedMutation, Mutates
    <3>2. CASE d \in dispatched /\ e = d0
      <4>1. \/ d.iter < cur.iter
            \/ /\ d.idx \in DOMAIN cur.outs /\ d.tool = cur.batch[d.idx]
               /\ cur.outs[d.idx] \in {"running", "ok", "error"}
        BY <1>0, <1>2, <2>2, <3>2 DEF LoopSlots
      <4>2. CASE d.iter < cur.iter BY <1>2, <3>2, <4>2
      <4>3. CASE /\ d.idx \in DOMAIN cur.outs /\ d.tool = cur.batch[d.idx]
                 /\ cur.outs[d.idx] \in {"running", "ok", "error"}
        <5>1. PlannedClean(d.idx) /\ d.idx # i BY <1>0, <1>6, <4>3
        <5>2. cur.batch[i] \notin Untrusted BY <1>7, <2>2, <4>3, <5>1 DEF PlannedClean
        <5>3. QED BY <1>2, <2>2, <3>2, <5>2
      <4>4. QED BY <4>1, <4>2, <4>3
    <3>3. CASE d = d0 /\ e \in dispatched
      <4>1. Mutates(cur.batch[i]) /\ e.iter >= cur.iter
        BY <1>2, <1>7, <2>2, <3>3 DEF PlannedClean
      <4>2. e.iter \in Nat BY <1>0, <3>3 DEF TypeOK, Dispatch
      <4>3. \/ e.iter < cur.iter
            \/ /\ e.idx \in DOMAIN cur.outs /\ e.tool = cur.batch[e.idx]
               /\ cur.outs[e.idx] \in {"running", "ok", "error"}
        BY <1>0, <1>2, <2>2, <3>3 DEF LoopSlots
      <4>4. ASSUME e.idx \in DOMAIN cur.outs, e.tool = cur.batch[e.idx],
                   cur.outs[e.idx] \in {"running", "ok", "error"}
            PROVE  FALSE
        <5>1. e.idx # i /\ cur.batch[e.idx] \in registry BY <1>0, <1>6, <4>4
        <5>2. QED BY <1>7, <2>2, <4>1, <4>4, <5>1 DEF PlannedClean
      <4>5. QED BY <1>1, <4>1, <4>2, <4>3, <4>4
    <3>4. QED BY <1>0, <2>2, <3>1, <3>2, <3>3
  <2>3. QED BY <2>1, <2>2
<1>13. dispatched' \subseteq Dispatch /\ \A d \in dispatched' : Said(d.msg)
  BY <1>0, <1>2 DEF TypeOK, LoopSlots, IInv, SlotInv
<1>14. InLoop' BY <1>0 DEF InLoop
<1>15. history' \in Seq(Entry) /\ succeeded' \subseteq Msg BY <1>0 DEF TypeOK
<1>16. QED BY <1>0, <1>4, <1>5, <1>8, <1>9, <1>10, <1>11, <1>12, <1>13, <1>14, <1>15, LoopStep

\* A call that is refused or ends changes its slot's outcome and nothing that
\* was dispatched.
LEMMA EndToolStep ==
  ASSUME IInv, InLoop, NEW i \in DOMAIN cur.outs,
         RejectArguments(i) \/ FinishTool(i, "ok") \/ FinishTool(i, "error")
  PROVE  IInv'
<1>0. /\ TypeOK /\ pc = "batch" /\ pc' = "batch" /\ cur \in Turn
      /\ DOMAIN cur.batch = DOMAIN cur.outs /\ DOMAIN cur.outs = 1..Len(cur.outs)
      /\ Len(cur.outs) \in Nat /\ LoopSlots
      /\ cur.outs[i] \in {"queued", "running"}
      /\ UNCHANGED <<queue, holder, closing, overdue, registry, reply, status, saved, history,
                     dispatched, runs, abandoned>>
  BY LoopFacts DEF IInv, RejectArguments, FinishTool, Step, lockVars, dbVars, ghostVars
<1>1. PICK out \in {"ok", "error"}, t \in BOOLEAN, x \in BOOLEAN :
        /\ cur' = [cur EXCEPT !.outs = [cur.outs EXCEPT ![i] = out], !.tainted = t, !.exec = x]
        /\ cur.tainted => t
  <2>1. CASE RejectArguments(i)
    <3>1. cur' = [cur EXCEPT !.outs = [cur.outs EXCEPT ![i] = "error"],
                             !.tainted = Tainting(i), !.exec = cur.exec]
      BY <1>0, <2>1 DEF RejectArguments, Turn
    <3>2. Tainting(i) \in BOOLEAN /\ cur.exec \in BOOLEAN /\ (cur.tainted => Tainting(i))
      BY <1>0 DEF Tainting, Turn
    <3>3. QED BY <3>1, <3>2
  <2>2. ASSUME NEW out \in {"ok", "error"}, FinishTool(i, out)
        PROVE \E t, x \in BOOLEAN :
                /\ cur' = [cur EXCEPT !.outs = [cur.outs EXCEPT ![i] = out],
                                      !.tainted = t, !.exec = x]
                /\ cur.tainted => t
    <3>1. cur' = [cur EXCEPT !.outs = [cur.outs EXCEPT ![i] = out], !.tainted = cur.tainted,
                             !.exec = cur.exec \/ out = "ok"]
      BY <1>0, <2>2 DEF FinishTool, Turn
    <3>2. cur.tainted \in BOOLEAN /\ (cur.exec \/ out = "ok") \in BOOLEAN BY <1>0 DEF Turn
    <3>3. QED BY <3>1, <3>2
  <2>3. QED BY <2>1, <2>2
<1>2. /\ cur' \in Turn
      /\ cur'.msg = cur.msg /\ cur'.iter = cur.iter /\ cur'.batch = cur.batch
      /\ cur'.tainted = t
      /\ DOMAIN cur'.outs = DOMAIN cur.outs
      /\ cur'.outs[i] = out
      /\ \A j \in DOMAIN cur.outs \ {i} : cur'.outs[j] = cur.outs[j]
  <2>1. out \in Outcome BY DEF Outcome
  <2>2. QED BY <1>0, <1>1, <2>1, BatchUpdate
<1>3. \A m : Said(m)' <=> Said(m) BY <1>0 DEF Said
<1>4. LoopSlots' BY <1>0, <1>2, <1>3 DEF LoopSlots
<1>5. \A j \in DOMAIN cur.outs :
        /\ cur.outs[j] # "unknown" => cur.batch[j] \in registry
        /\ cur.outs[j] \in {"queued", "running", "ok", "error"} => PlannedClean(j)
  BY <1>0 DEF IInv, TaintInv
<1>6. ASSUME NEW j \in DOMAIN cur'.outs
      PROVE  /\ cur'.outs[j] # "unknown" => cur'.batch[j] \in registry'
             /\ cur'.outs[j] \in {"queued", "running", "ok", "error"} => PlannedClean(j)'
  <2>1. PlannedClean(j) => PlannedClean(j)' BY <1>0, <1>2 DEF PlannedClean, Mutates
  <2>2. CASE j = i BY <1>0, <1>2, <1>5, <2>1, <2>2
  <2>3. CASE j # i BY <1>0, <1>2, <1>5, <2>1, <2>3
  <2>4. QED BY <2>2, <2>3
<1>7. succeeded' \subseteq Msg
  BY <1>0 DEF RejectArguments, FinishTool, TypeOK, Turn, ghostVars
<1>8. NoUnapprovedMutation' BY <1>0 DEF IInv, NoUnapprovedMutation
<1>9. InLoop' BY <1>0 DEF InLoop
<1>10. \A e \in dispatched' : e.msg = cur'.msg /\ e.tool \in Untrusted => cur'.tainted
  BY <1>0, <1>1, <1>2, <1>9 DEF IInv, TaintInv
<1>11. /\ \A d \in dispatched' : Said(d.msg)
       /\ \A c \in Conf : status[c] \in {"declined", "expired"} =>
            \A d \in dispatched' : ~InPendingSlot(c, d)
  BY <1>0 DEF IInv, SlotInv
<1>12. history' \in Seq(Entry) /\ dispatched' \subseteq Dispatch BY <1>0 DEF TypeOK
<1>13. QED BY <1>0, <1>2, <1>3, <1>4, <1>6, <1>7, <1>8, <1>9, <1>10, <1>11, <1>12, LoopStep

LEMMA AppendBatchStep == ASSUME IInv, AppendBatch PROVE IInv'
<1>0. /\ InLoop /\ pc = "batch" /\ pc' = "model"
      /\ history' = Append(history, BatchEntry(cur))
      /\ cur' = [cur EXCEPT !.iter = cur.iter + 1, !.batch = <<>>, !.outs = <<>>]
      /\ UNCHANGED <<queue, holder, closing, overdue, registry, reply, status, saved,
                     dispatched, succeeded, runs, abandoned>>
  BY DEF AppendBatch, Step, InLoop, lockVars, ghostVars
<1>1. TypeOK /\ cur \in Turn /\ LoopSlots BY <1>0, LoopFacts DEF IInv
<1>2. /\ cur' \in Turn /\ cur'.msg = cur.msg /\ cur'.iter = cur.iter + 1
      /\ cur'.tainted = cur.tainted /\ cur'.batch = <<>> /\ cur'.outs = <<>>
  <2>1. <<>> \in Seq(Tool) /\ <<>> \in Seq(Outcome) BY EmptySeq
  <2>2. cur.iter + 1 \in Nat BY <1>1 DEF Turn
  <2>3. QED BY <1>0, <1>1, <2>1, <2>2 DEF Turn
<1>3. BatchEntry(cur) \in Entry /\ history \in Seq(Entry) BY <1>1, EntryType DEF TypeOK
<1>4. history' \in Seq(Entry) /\ \A m : Said(m) => Said(m)'
  BY <1>0, <1>3, AppendHistory
<1>5. \A d \in dispatched : d.msg = cur.msg => d.iter < cur.iter + 1
  <2>1. cur.iter \in Nat /\ \A d \in dispatched : d.iter \in Nat
    BY <1>1 DEF Turn, TypeOK, Dispatch
  <2>2. QED BY <1>1, <2>1 DEF LoopSlots
<1>6. LoopSlots'
  <2>1. \A c \in Conf : status[c] # "none" => saved[c].iter \in Nat
    BY DEF IInv, RowInv, Turn
  <2>2. cur.iter \in Nat BY <1>1 DEF Turn
  <2>3. QED BY <1>0, <1>1, <1>2, <1>4, <1>5, <2>1, <2>2 DEF LoopSlots
<1>7. InLoop' BY <1>0 DEF InLoop
<1>8. NoUnapprovedMutation' BY <1>0 DEF IInv, NoUnapprovedMutation
<1>9. \A e \in dispatched' : e.msg = cur'.msg /\ e.tool \in Untrusted => cur'.tainted
  BY <1>0, <1>2 DEF IInv, TaintInv
<1>10. /\ \A d \in dispatched' : Said(d.msg)
       /\ \A c \in Conf : status[c] \in {"declined", "expired"} =>
            \A d \in dispatched' : ~InPendingSlot(c, d)
  BY <1>0 DEF IInv, SlotInv
<1>11. succeeded' \subseteq Msg /\ dispatched' \subseteq Dispatch BY <1>0, <1>1 DEF TypeOK
<1>12. DOMAIN cur'.batch = DOMAIN cur'.outs BY <1>2
<1>13. QED BY <1>0, <1>2, <1>4, <1>6, <1>7, <1>8, <1>9, <1>10, <1>11, <1>12, LoopStep

\* The suspension: what the running turn guaranteed is now guaranteed by its row.
LEMMA SuspendStep == ASSUME IInv, NEW c \in Conf, Suspend(c) PROVE IInv'
<1>0. /\ TypeOK /\ InLoop /\ pc = "batch" /\ BatchDone(cur) /\ HasPending(cur) /\ status[c] = "none"
      /\ status' = [status EXCEPT ![c] = "pending"] /\ saved' = [saved EXCEPT ![c] = cur]
      /\ holder' = NoRequest /\ pc' = "idle" /\ cur' = NoTurn /\ closing' = {}
      /\ reply' = "confirm"
      /\ UNCHANGED <<queue, overdue, registry, history, dispatched, succeeded, runs, abandoned>>
  BY DEF Suspend, Answer, InLoop, ghostVars, IInv
<1>1. /\ cur \in Turn /\ DOMAIN cur.batch = DOMAIN cur.outs /\ Pending = {} /\ LoopSlots
      /\ \A e \in Conf : ~Resumable(e)
  BY <1>0, LoopFacts
<1>2. /\ status'[c] = "pending" /\ saved'[c] = cur
      /\ \A e \in Conf \ {c} : status'[e] = status[e] /\ saved'[e] = saved[e]
  BY <1>0 DEF TypeOK
<1>3. \A m : Said(m)' <=> Said(m) BY <1>0 DEF Said
<1>4. TypeOK' BY <1>0, <1>1 DEF TypeOK, Places, Replies
<1>5. PlaceInv' BY <1>0 DEF PlaceInv, InLoop, InResolve
<1>6. Pending' = {c} BY <1>1, <1>2 DEF Pending
<1>7. RowInv'
  <2>1. runs[c] # 1 BY <1>0 DEF IInv, RowInv
  <2>2. HasPending(saved[c])' BY <1>0, <1>2 DEF HasPending
  <2>3. Said(cur.msg) BY <1>1 DEF LoopSlots
  <2>4. ASSUME NEW e \in Conf
        PROVE  /\ runs'[e] \in {0, 1} /\ (runs'[e] = 1 => status'[e] = "confirmed")
               /\ status'[e] # "none" =>
                    /\ saved'[e] \in Turn /\ HasPending(saved[e])'
                    /\ DOMAIN saved'[e].batch = DOMAIN saved'[e].outs
                    /\ Said(saved[e].msg)'
    <3>1. CASE e = c BY <1>0, <1>1, <1>2, <1>3, <2>1, <2>2, <2>3, <3>1 DEF IInv, RowInv
    <3>2. CASE e # c
      <4>1. HasPending(saved[e])' <=> HasPending(saved[e]) BY <1>2, <3>2 DEF HasPending
      <4>2. QED BY <1>0, <1>2, <1>3, <3>2, <4>1 DEF IInv, RowInv
    <3>3. QED BY <3>1, <3>2
  <2>5. AtMostOnePending' BY <1>6 DEF AtMostOnePending
  <2>6. QED BY <1>0, <2>4, <2>5 DEF RowInv
<1>8. \A e \in Conf : Resumable(e)' => e = c
  BY <1>0, <1>1, <1>2 DEF Resumable, InResolve
<1>9. RowSlots(c)'
  <2>1. ASSUME NEW d \in dispatched, d.msg = cur.msg
        PROVE  \/ d.iter < cur.iter
               \/ /\ d.iter = cur.iter
                  /\ d.idx \in DOMAIN cur.outs /\ d.tool = cur.batch[d.idx]
                  /\ d.by = "model" /\ cur.outs[d.idx] \in {"ok", "error"}
    BY <1>0, <1>1, <2>1 DEF LoopSlots, BatchDone
  <2>2. QED BY <1>0, <1>1, <1>2, <2>1 DEF RowSlots, RunByModel, LoopSlots
<1>10. SlotInv'
  <2>1. ASSUME NEW e \in Conf, status'[e] \in {"declined", "expired"}, NEW d \in dispatched
        PROVE  ~InPendingSlot(e, d)'
    BY <1>0, <1>2, <2>1 DEF IInv, SlotInv, InPendingSlot, PendingAt
  <2>2. QED BY <1>0, <1>3, <1>8, <1>9, <2>1 DEF IInv, SlotInv, InLoop
<1>11. RowTaint(c)'
  <2>1. \A e \in dispatched : e.msg = cur.msg /\ e.tool \in Untrusted => cur.tainted
    BY <1>0 DEF IInv, TaintInv
  <2>2. PendingAt(cur) \in DOMAIN cur.outs /\ cur.outs[PendingAt(cur)] = "pending"
    BY <1>0, <1>1, PendingType
  <2>3. cur.batch[PendingAt(cur)] \in registry BY <1>0, <2>2 DEF IInv, TaintInv
  <2>4. ASSUME NEW i \in DOMAIN cur.outs, cur.outs[i] \in {"ok", "error"}, Mutates(cur.batch[i])
        PROVE  cur.batch[PendingAt(cur)] \notin Untrusted
    <3>1. PlannedClean(i) /\ i # PendingAt(cur) BY <1>0, <2>2, <2>4 DEF IInv, TaintInv
    <3>2. QED BY <2>2, <2>3, <2>4, <3>1 DEF PlannedClean
  <2>5. PendingAt(saved[c])' = PendingAt(cur) BY <1>2 DEF PendingAt
  <2>6. QED BY <1>0, <1>2, <2>1, <2>4, <2>5 DEF RowTaint, Mutates
<1>12. TaintInv' BY <1>0, <1>8, <1>11 DEF TaintInv, InLoop
<1>13. NoUnapprovedMutation' BY <1>0 DEF IInv, NoUnapprovedMutation
<1>14. QED BY <1>4, <1>5, <1>7, <1>10, <1>12, <1>13 DEF IInv

--------------------------------------------------------------------------------
(* The steps of resolve_confirmation. *)

\* A settled row's pending call was never dispatched while it waited.
LEMMA PendingSlotFree ==
  ASSUME IInv, NEW c \in Conf, NEW d \in dispatched
  PROVE  Resumable(c) /\ status[c] # "none" /\ pc \notin {"running", "ran ok", "ran error"}
           => ~InPendingSlot(c, d)
<1>1. SUFFICES ASSUME Resumable(c), status[c] # "none",
                      pc \notin {"running", "ran ok", "ran error"}, InPendingSlot(c, d)
               PROVE  FALSE
  OBVIOUS
<1>2. RowSlots(c) /\ saved[c] \in Turn BY <1>1 DEF IInv, SlotInv, RowInv
<1>3. saved[c].outs[PendingAt(saved[c])] = "pending" BY <1>1, PendingType DEF IInv, RowInv
<1>4. saved[c].iter \in Nat BY <1>2 DEF Turn
<1>5. /\ d.msg = saved[c].msg /\ d.iter = saved[c].iter /\ d.idx = PendingAt(saved[c])
      /\ ~RunOnApproval(c, d)
  BY <1>1 DEF InPendingSlot, RunOnApproval
<1>6. RunByModel(c, d) BY <1>2, <1>4, <1>5 DEF RowSlots
<1>7. QED BY <1>3, <1>5, <1>6 DEF RunByModel

LEMMA DecideStep == ASSUME IInv, NEW c \in Conf, Decide(c) PROVE IInv'
<1>0. /\ TypeOK /\ pc = "begin" /\ holder.kind = "resolve" /\ holder.conf = c
      /\ status[c] = "pending"
      /\ UNCHANGED <<queue, holder, overdue, registry, reply, cur, closing, saved, history,
                     dispatched, succeeded, runs, abandoned>>
  BY DEF Decide, Resolving, Actionable, Step, lockVars, ghostVars, IInv
<1>1. /\ holder \in [kind : {"resolve"}, conf : Conf, user : User, approved : BOOLEAN]
      /\ holder # NoRequest
  BY <1>0, RequestKinds DEF IInv, TypeOK, PlaceInv
<1>2. PICK verdict \in {"confirmed", "declined", "expired"} :
        /\ status' = [status EXCEPT ![c] = verdict]
        /\ pc' = IF verdict = "confirmed" THEN "approved" ELSE verdict
  BY DEF Decide, Step
<1>3. /\ status'[c] = verdict
      /\ \A e \in Conf \ {c} : status'[e] = status[e]
  BY <1>0, <1>2 DEF TypeOK
<1>4. \A m : Said(m)' <=> Said(m) BY <1>0 DEF Said
<1>5. TypeOK' BY <1>0, <1>2 DEF TypeOK, Places
<1>6. PlaceInv' BY <1>0, <1>1, <1>2 DEF IInv, PlaceInv, InLoop, InResolve
<1>7. Pending = {c} BY <1>0 DEF IInv, RowInv, AtMostOnePending, Pending
<1>8. Pending' = {} BY <1>2, <1>3, <1>7 DEF Pending
<1>9. RowInv'
  <2>1. \A e \in Conf : HasPending(saved[e])' <=> HasPending(saved[e]) BY <1>0 DEF HasPending
  <2>2. AtMostOnePending' BY <1>8 DEF AtMostOnePending
  <2>3. \A e \in Conf : /\ runs'[e] \in {0, 1} /\ (runs'[e] = 1 => status'[e] = "confirmed")
                       /\ status'[e] # "none" <=> status[e] # "none"
    BY <1>0, <1>2, <1>3 DEF IInv, RowInv
  <2>4. runs[c] = 0 BY <1>0 DEF IInv, RowInv
  <2>5. \A e \in closing' : status'[e] \in {"declined", "expired"}
    BY <1>0 DEF IInv, PlaceInv
  <2>6. QED BY <1>0, <1>2, <1>3, <1>4, <1>8, <2>1, <2>2, <2>3, <2>4, <2>5 DEF IInv, RowInv
<1>10. \A e \in Conf : Resumable(e)' => e = c
  BY <1>0, <1>8 DEF Resumable, InResolve, Pending
<1>11. Resumable(c) /\ RowSlots(c) /\ RowTaint(c)
  BY <1>0 DEF Resumable, IInv, SlotInv, TaintInv
<1>12. RowSlots(c)'
  <2>1. \A e \in Conf : status'[e] # "none" <=> status[e] # "none" BY <1>0, <1>2, <1>3
  <2>2. QED BY <1>0, <1>11, <2>1 DEF RowSlots, RunByModel, RunOnApproval
<1>13. SlotInv'
  <2>1. \A d \in dispatched : ~InPendingSlot(c, d) BY <1>0, <1>11, PendingSlotFree
  <2>2. QED BY <1>0, <1>2, <1>3, <1>4, <1>10, <1>12, <2>1 DEF IInv, SlotInv, InLoop, InPendingSlot
<1>14. RowTaint(c)' BY <1>0, <1>11 DEF RowTaint, Mutates
<1>15. TaintInv' BY <1>2, <1>10, <1>14 DEF TaintInv, InLoop
<1>16. NoUnapprovedMutation' BY <1>0 DEF IInv, NoUnapprovedMutation
<1>17. QED BY <1>5, <1>6, <1>9, <1>13, <1>15, <1>16 DEF IInv

\* A row being resolved: only its own turn matters.
LEMMA ResolveFacts ==
  ASSUME IInv, InResolve, NEW c \in Conf, holder.conf = c
  PROVE  /\ TypeOK /\ holder # NoRequest /\ closing = {} /\ Pending = {}
         /\ holder \in [kind : {"resolve"}, conf : Conf, user : User, approved : BOOLEAN]
         /\ status[c] \in {"confirmed", "declined", "expired"}
         /\ saved[c] \in Turn /\ HasPending(saved[c])
         /\ DOMAIN saved[c].batch = DOMAIN saved[c].outs
         /\ Said(saved[c].msg)
         /\ \A e \in Conf : Resumable(e) => e = c
         /\ Resumable(c) /\ RowSlots(c) /\ RowTaint(c)
<1>1. /\ TypeOK /\ holder # NoRequest /\ closing = {} /\ Pending = {}
      /\ holder \in [kind : {"resolve"}, conf : Conf, user : User, approved : BOOLEAN]
  BY DEF IInv, PlaceInv, RowInv, InResolve
<1>2. status[c] \in {"confirmed", "declined", "expired"} BY DEF IInv, RowInv, InResolve
<1>3. /\ saved[c] \in Turn /\ HasPending(saved[c])
      /\ DOMAIN saved[c].batch = DOMAIN saved[c].outs
      /\ Said(saved[c].msg)
  BY <1>2 DEF IInv, RowInv
<1>4. \A e \in Conf : Resumable(e) => e = c BY <1>1 DEF Resumable, Pending
<1>5. Resumable(c) /\ RowSlots(c) /\ RowTaint(c) BY DEF Resumable, IInv, SlotInv, TaintInv
<1>6. QED BY <1>1, <1>2, <1>3, <1>4, <1>5

LEMMA RunConfirmedStep == ASSUME IInv, NEW c \in Conf, RunConfirmed(c) PROVE IInv'
<1> DEFINE d0 == Called(saved[c], PendingAt(saved[c]), "approval")
<1>0. /\ InResolve /\ pc = "approved" /\ holder.conf = c /\ pc' = "running"
      /\ dispatched' = dispatched \cup {d0}
      /\ runs' = [runs EXCEPT ![c] = runs[c] + 1]
      /\ UNCHANGED <<queue, holder, overdue, registry, reply, cur, closing, status, saved,
                     history, succeeded, abandoned>>
  BY DEF RunConfirmed, Step, InResolve, lockVars, dbVars
<1>1. /\ TypeOK /\ holder # NoRequest /\ closing = {} /\ Pending = {}
      /\ holder \in [kind : {"resolve"}, conf : Conf, user : User, approved : BOOLEAN]
      /\ saved[c] \in Turn /\ HasPending(saved[c])
      /\ DOMAIN saved[c].batch = DOMAIN saved[c].outs /\ Said(saved[c].msg)
      /\ \A e \in Conf : Resumable(e) => e = c
      /\ RowSlots(c) /\ RowTaint(c)
  BY <1>0, ResolveFacts
<1>2. /\ PendingAt(saved[c]) \in DOMAIN saved[c].outs
      /\ saved[c].outs[PendingAt(saved[c])] = "pending" /\ PendingAt(saved[c]) \in Nat
      /\ saved[c].batch[PendingAt(saved[c])] \in Tool
  BY <1>1, PendingType
<1>3. /\ d0 \in Dispatch /\ d0.msg = saved[c].msg /\ d0.iter = saved[c].iter
      /\ d0.idx = PendingAt(saved[c]) /\ d0.tool = saved[c].batch[PendingAt(saved[c])]
      /\ d0.by = "approval"
  BY <1>1, <1>2 DEF Called, Dispatch, Turn
<1> HIDE DEF d0
<1>4. \A m : Said(m)' <=> Said(m) BY <1>0 DEF Said
<1>5. status[c] = "confirmed" /\ runs[c] = 0 BY <1>0 DEF IInv, RowInv
<1>6. runs' \in [Conf -> Nat] /\ runs'[c] = 1 /\ \A e \in Conf \ {c} : runs'[e] = runs[e]
  BY <1>0, <1>1, <1>5 DEF TypeOK
<1>7. TypeOK' BY <1>0, <1>1, <1>3, <1>6 DEF TypeOK, Places
<1>8. PlaceInv' BY <1>0, <1>1, <1>4 DEF IInv, PlaceInv, InLoop, InResolve
<1>9. Pending' = {} BY <1>0, <1>1 DEF Pending
<1>10. RowInv' BY <1>0, <1>4, <1>5, <1>6, <1>9, <1>1 DEF IInv, RowInv, AtMostOnePending, HasPending
<1>11. \A e \in Conf : Resumable(e)' => e = c
  BY <1>0, <1>9 DEF Resumable, InResolve, Pending
<1>12. \A d \in dispatched :
         d.msg = saved[c].msg =>
           \/ d.iter < saved[c].iter
           \/ /\ d.iter = saved[c].iter
              /\ d.idx \in DOMAIN saved[c].outs /\ d.tool = saved[c].batch[d.idx]
              /\ RunByModel(c, d)
  BY <1>0, <1>1 DEF RowSlots, RunOnApproval
<1>13. RowSlots(c)'
  BY <1>0, <1>1, <1>2, <1>3, <1>12 DEF RowSlots, RunByModel, RunOnApproval
<1>14. SlotInv'
  <2>1. ASSUME NEW e \in Conf, status[e] \in {"declined", "expired"} PROVE ~InPendingSlot(e, d0)
    <3>1. saved[c].iter \in Nat BY <1>1 DEF Turn
    <3>2. e # c BY <1>5, <2>1
    <3>3. QED BY <1>1, <1>3, <2>1, <3>1, <3>2 DEF RowSlots, InPendingSlot
  <2>2. \A e, d : InPendingSlot(e, d)' <=> InPendingSlot(e, d)
    BY <1>0 DEF InPendingSlot, PendingAt
  <2>3. QED BY <1>0, <1>1, <1>3, <1>4, <1>11, <1>13, <2>1, <2>2 DEF IInv, SlotInv, InLoop
<1>15. RowTaint(c)' BY <1>0, <1>1, <1>3 DEF RowTaint, Mutates
<1>16. TaintInv' BY <1>0, <1>11, <1>15 DEF TaintInv, InLoop
<1>17. NoUnapprovedMutation'
  <2> SUFFICES ASSUME NEW d \in dispatched', d.by = "model"
               PROVE  /\ d.tool \notin Confirm
                      /\ Mutates(d.tool) =>
                           \A e \in dispatched' :
                             e.msg = d.msg /\ e # d /\ e.tool \in Untrusted => d.iter < e.iter
    BY DEF NoUnapprovedMutation, Mutates
  <2>1. d \in dispatched BY <1>0, <1>3
  <2>2. ASSUME Mutates(d.tool), d0.msg = d.msg, d0.tool \in Untrusted PROVE d.iter < d0.iter
    <3>1. CASE d.iter < saved[c].iter BY <1>3, <3>1
    <3>2. CASE /\ d.idx \in DOMAIN saved[c].outs /\ d.tool = saved[c].batch[d.idx]
               /\ RunByModel(c, d)
      <4>1. saved[c].batch[PendingAt(saved[c])] \notin Untrusted
        BY <1>1, <2>2, <3>2 DEF RowTaint, RunByModel
      <4>2. QED BY <1>3, <2>2, <4>1
    <3>3. QED BY <1>3, <1>12, <2>1, <2>2, <3>1, <3>2
  <2>3. QED BY <1>0, <2>1, <2>2 DEF IInv, NoUnapprovedMutation, Mutates
<1>18. QED BY <1>7, <1>8, <1>10, <1>14, <1>16, <1>17 DEF IInv

LEMMA EndConfirmedStep ==
  ASSUME IInv, NEW c \in Conf,
         CannotRunConfirmed(c) \/ FinishConfirmed(c, TRUE) \/ FinishConfirmed(c, FALSE)
  PROVE  IInv'
<1>0. /\ InResolve /\ pc \in {"approved", "running"} /\ pc' \in {"ran ok", "ran error"}
      /\ holder.conf = c
      /\ UNCHANGED <<queue, holder, overdue, registry, reply, cur, closing, status, saved,
                     history, dispatched, runs, abandoned>>
  BY DEF CannotRunConfirmed, FinishConfirmed, Step, InResolve, lockVars, dbVars, ghostVars
<1>1. /\ TypeOK /\ holder # NoRequest /\ closing = {} /\ Pending = {}
      /\ holder \in [kind : {"resolve"}, conf : Conf, user : User, approved : BOOLEAN]
      /\ saved[c] \in Turn /\ \A e \in Conf : Resumable(e) => e = c
      /\ RowSlots(c) /\ RowTaint(c)
  BY <1>0, ResolveFacts
<1>2. \A m : Said(m)' <=> Said(m) BY <1>0 DEF Said
<1>3. succeeded' \subseteq Msg
  <2>1. saved[c].msg \in Msg /\ succeeded \subseteq Msg BY <1>1 DEF Turn, TypeOK
  <2>2. QED BY <2>1 DEF CannotRunConfirmed, FinishConfirmed, ghostVars
<1>4. TypeOK' BY <1>0, <1>1, <1>3 DEF TypeOK, Places
<1>5. PlaceInv' BY <1>0, <1>1 DEF IInv, PlaceInv, InLoop, InResolve
<1>6. Pending' = {} BY <1>0, <1>1 DEF Pending
<1>7. RowInv'
  <2>1. \A e \in Conf : HasPending(saved[e])' <=> HasPending(saved[e]) BY <1>0 DEF HasPending
  <2>2. AtMostOnePending' BY <1>6 DEF AtMostOnePending
  <2>3. status[holder.conf] = "confirmed" BY <1>0 DEF IInv, RowInv
  <2>4. QED BY <1>0, <1>1, <1>2, <1>6, <2>1, <2>2, <2>3 DEF IInv, RowInv
<1>8. \A e \in Conf : Resumable(e)' => e = c
  BY <1>0, <1>6 DEF Resumable, InResolve, Pending
<1>9. RowSlots(c)' BY <1>0, <1>1 DEF RowSlots, RunByModel, RunOnApproval
<1>10. SlotInv' BY <1>0, <1>2, <1>8, <1>9 DEF IInv, SlotInv, InLoop, InPendingSlot
<1>11. RowTaint(c)' BY <1>0, <1>1 DEF RowTaint, Mutates
<1>12. TaintInv' BY <1>0, <1>8, <1>11 DEF TaintInv, InLoop
<1>13. NoUnapprovedMutation' BY <1>0 DEF IInv, NoUnapprovedMutation
<1>14. QED BY <1>4, <1>5, <1>7, <1>10, <1>12, <1>13 DEF IInv

\* The turn goes on one iteration past its suspended batch, under at least the
\* taint of everything it dispatched.
LEMMA ResumeStep ==
  ASSUME IInv, InResolve, NEW c \in Conf, holder.conf = c,
         NEW out \in Outcome, NEW taint \in BOOLEAN, NEW ok \in BOOLEAN,
         CloseSuspendedTurn(c, out), Resume(c, taint, ok),
         UNCHANGED <<closing, status, saved, ghostVars>>,
         \A e \in dispatched :
           (/\ e.msg = saved[c].msg /\ e.iter = saved[c].iter
            /\ e.by = "approval" /\ e.tool \in Untrusted) => taint
  PROVE  IInv'
<1>0. /\ TypeOK /\ holder # NoRequest /\ closing = {} /\ Pending = {}
      /\ saved[c] \in Turn /\ Said(saved[c].msg)
      /\ RowSlots(c) /\ RowTaint(c)
  BY ResolveFacts
<1>1. /\ pc' = "model"
      /\ cur' = [saved[c] EXCEPT !.iter = saved[c].iter + 1, !.batch = <<>>, !.outs = <<>>,
                                 !.tainted = saved[c].tainted \/ taint,
                                 !.exec = saved[c].exec \/ HasSuccess(saved[c]) \/ ok]
      /\ history' = Append(history, BatchEntry(Settle(saved[c], out)))
      /\ UNCHANGED <<queue, holder, overdue, registry, reply, closing, status, saved,
                     dispatched, succeeded, runs, abandoned>>
  BY DEF Resume, Step, lockVars, ghostVars, CloseSuspendedTurn
<1>2. saved[c].iter \in Nat /\ \A d \in dispatched : d.iter \in Nat
  BY <1>0 DEF Turn, TypeOK, Dispatch
<1>3. /\ cur' \in Turn /\ cur'.msg = saved[c].msg /\ cur'.iter = saved[c].iter + 1
      /\ cur'.tainted = (saved[c].tainted \/ taint) /\ cur'.batch = <<>> /\ cur'.outs = <<>>
  <2>1. <<>> \in Seq(Tool) /\ <<>> \in Seq(Outcome) BY EmptySeq
  <2>2. saved[c].iter + 1 \in Nat BY <1>2
  <2>3. PICK t \in BOOLEAN, x \in BOOLEAN :
          /\ t = (saved[c].tainted \/ taint)
          /\ x = (saved[c].exec \/ HasSuccess(saved[c]) \/ ok)
    BY DEF HasSuccess
  <2>4. cur' = [saved[c] EXCEPT !.iter = saved[c].iter + 1, !.batch = <<>>, !.outs = <<>>,
                                !.tainted = t, !.exec = x]
    BY <1>1, <2>3
  <2>5. QED BY <1>0, <2>1, <2>2, <2>3, <2>4 DEF Turn
<1>4. BatchEntry(Settle(saved[c], out)) \in Entry BY <1>0, SettleType, EntryType
<1>5. history' \in Seq(Entry) /\ \A m : Said(m) => Said(m)'
  BY <1>0, <1>1, <1>4, AppendHistory DEF TypeOK
<1>6. TypeOK' BY <1>0, <1>1, <1>3, <1>5 DEF TypeOK, Places
<1>7. PlaceInv' BY <1>0, <1>1, <1>3 DEF IInv, PlaceInv, InLoop, InResolve
<1>8. Pending' = {} BY <1>0, <1>1 DEF Pending
<1>9. RowInv'
  <2>1. \A e \in Conf : HasPending(saved[e])' <=> HasPending(saved[e]) BY <1>1 DEF HasPending
  <2>2. QED BY <1>0, <1>1, <1>5, <1>8, <2>1 DEF IInv, RowInv, AtMostOnePending
<1>10. \A e \in Conf : ~Resumable(e)' BY <1>1, <1>8 DEF Resumable, InResolve, Pending
<1>11. LoopSlots'
  <2>1. \A e \in Conf : status[e] # "none" => saved[e].iter \in Nat
    BY DEF IInv, RowInv, Turn
  <2>2. \A e \in Conf : status[e] # "none" /\ saved[e].msg = saved[c].msg
                        => saved[e].iter < saved[c].iter + 1
    BY <1>0, <1>2, <2>1 DEF RowSlots
  <2>3. \A d \in dispatched : d.msg = saved[c].msg => d.iter < saved[c].iter + 1
    BY <1>0, <1>2 DEF RowSlots
  <2>4. QED BY <1>0, <1>1, <1>3, <1>5, <2>2, <2>3 DEF LoopSlots
<1>12. SlotInv'
  <2>1. \A e, d : InPendingSlot(e, d)' <=> InPendingSlot(e, d)
    BY <1>1 DEF InPendingSlot, PendingAt
  <2>2. QED BY <1>1, <1>5, <1>10, <1>11, <2>1 DEF IInv, SlotInv
<1>13. TaintInv' BY <1>0, <1>1, <1>3, <1>10 DEF TaintInv, InLoop, RowTaint
<1>14. NoUnapprovedMutation' BY <1>1 DEF IInv, NoUnapprovedMutation
<1>15. QED BY <1>6, <1>7, <1>9, <1>12, <1>13, <1>14 DEF IInv

LEMMA CloseDeclinedStep == ASSUME IInv, NEW c \in Conf, CloseDeclined(c) PROVE IInv'
<1>1. /\ InResolve /\ pc = "declined" /\ holder.conf = c
      /\ CloseSuspendedTurn(c, "error") /\ Resume(c, FALSE, FALSE)
      /\ UNCHANGED <<closing, status, saved, ghostVars>>
  BY DEF CloseDeclined, InResolve
<1>2. RowSlots(c) /\ saved[c] \in Turn BY <1>1, ResolveFacts
<1>3. \A e \in dispatched :
        (/\ e.msg = saved[c].msg /\ e.iter = saved[c].iter
         /\ e.by = "approval" /\ e.tool \in Untrusted) => FALSE
  <2>1. saved[c].iter \in Nat BY <1>2 DEF Turn
  <2>2. QED BY <1>1, <1>2, <2>1 DEF RowSlots, RunByModel, RunOnApproval
<1>4. "error" \in Outcome BY DEF Outcome
<1>5. QED BY <1>1, <1>3, <1>4, ResumeStep

LEMMA RecordConfirmedStep == ASSUME IInv, NEW c \in Conf, RecordConfirmed(c) PROVE IInv'
<1>1. /\ InResolve /\ pc \in {"ran ok", "ran error"} /\ holder.conf = c
      /\ UNCHANGED <<closing, status, saved, ghostVars>>
  BY DEF RecordConfirmed, InResolve
<1>2. RowSlots(c) /\ saved[c] \in Turn BY <1>1, ResolveFacts
<1>3. PICK out \in Outcome, taint \in BOOLEAN, ok \in BOOLEAN :
        /\ taint = UntrustedName(PendingTool(c))
        /\ CloseSuspendedTurn(c, out) /\ Resume(c, taint, ok)
  <2>1. PICK taint \in BOOLEAN, ok \in BOOLEAN :
          taint = UntrustedName(PendingTool(c)) /\ ok = (pc = "ran ok")
    BY DEF UntrustedName
  <2>2. PICK out \in Outcome : out = IF pc = "ran ok" THEN "ok" ELSE "error"
    BY DEF Outcome
  <2>3. CloseSuspendedTurn(c, out) /\ Resume(c, taint, ok)
    BY <2>1, <2>2 DEF RecordConfirmed
  <2>4. QED BY <2>1, <2>3
<1>4. \A e \in dispatched :
        (/\ e.msg = saved[c].msg /\ e.iter = saved[c].iter
         /\ e.by = "approval" /\ e.tool \in Untrusted) => taint
  <2>1. saved[c].iter \in Nat BY <1>2 DEF Turn
  <2>2. ASSUME NEW e \in dispatched, e.msg = saved[c].msg, e.iter = saved[c].iter,
               e.by = "approval", e.tool \in Untrusted
        PROVE  taint
    <3>1. ~RunByModel(c, e) BY <2>2 DEF RunByModel
    <3>2. RunOnApproval(c, e) /\ e.tool = saved[c].batch[e.idx]
      BY <1>2, <2>1, <2>2, <3>1 DEF RowSlots
    <3>3. PendingTool(c) \in Untrusted BY <2>2, <3>2 DEF RunOnApproval, PendingTool
    <3>4. QED BY <1>3, <3>3 DEF UntrustedName
  <2>3. QED BY <2>2
<1>5. QED BY <1>1, <1>3, <1>4, ResumeStep

--------------------------------------------------------------------------------
(* The theorems. *)

LEMMA HolderSteps == ASSUME IInv, HolderStep PROVE IInv'
<1>1. CASE DropDuplicate \/ ModelReplies \/ ModelFails BY <1>1, ReleasingStep
<1>2. CASE AutoDeclinePending BY <1>2, DeclineStep
<1>3. CASE AppendUserMessage BY <1>3, AppendUserStep
<1>4. CASE AppendBatch BY <1>4, AppendBatchStep
<1>5. ASSUME NEW b \in Batches, NEW s \in SummaryTaint, PlanBatch(b, s) PROVE IInv'
  BY <1>5, PlanStep
<1>6. ASSUME pc = "batch", NEW i \in DOMAIN cur.outs,
             \/ RunTool(i) \/ RejectArguments(i)
             \/ FinishTool(i, "ok") \/ FinishTool(i, "error")
      PROVE  IInv'
  <2>1. InLoop BY <1>6 DEF InLoop
  <2>2. QED BY <1>6, <2>1, RunToolStep, EndToolStep
<1>7. ASSUME NEW c \in Conf, CloseSuperseded(c) \/ Suspend(c) PROVE IInv'
  BY <1>7, CloseSupersededStep, SuspendStep
<1>8. ASSUME NEW c \in Conf, AlreadyResolved(c) \/ RefuseStranger(c) \/ CloseExpired(c)
      PROVE  IInv'
  BY <1>8, ReleasingStep
<1>9. ASSUME NEW c \in Conf, Decide(c) \/ CloseDeclined(c) PROVE IInv'
  BY <1>9, DecideStep, CloseDeclinedStep
<1>10. ASSUME NEW c \in Conf,
              \/ RunConfirmed(c) \/ CannotRunConfirmed(c) \/ FinishConfirmed(c, TRUE)
              \/ FinishConfirmed(c, FALSE) \/ RecordConfirmed(c)
       PROVE  IInv'
  BY <1>10, RunConfirmedStep, EndConfirmedStep, RecordConfirmedStep
<1>11. QED BY <1>1, <1>2, <1>3, <1>4, <1>5, <1>6, <1>7, <1>8, <1>9, <1>10 DEF HolderStep

LEMMA NextStep == ASSUME IInv, [Next]_vars PROVE IInv'
<1>1. CASE AcquireLock BY <1>1, LockStep
<1>2. CASE HolderStep BY <1>2, HolderSteps
<1>3. CASE CancelHolder \/ \E reg \in Registries : Restart(reg) BY <1>3, ReleasingStep
<1>4. CASE \/ \E m \in Msg : Deliver(m)
           \/ \E c \in Conf, u \in User, a \in BOOLEAN : ClickButton(c, u, a)
           \/ \E c \in Conf : Expire(c)
           \/ \E k \in DOMAIN queue : CancelWaiter(k)
           \/ UNCHANGED vars
  BY <1>4, EnvironmentStep
<1>5. QED BY <1>1, <1>2, <1>3, <1>4 DEF Next, Environment

\* The inductive invariant holds of every behaviour of the router.
THEOREM Invariance == Spec => []IInv
<1>1. Init => IInv BY InitIInv
<1>2. IInv /\ [Next]_vars => IInv' BY NextStep
<1>3. QED BY <1>1, <1>2, PTL DEF Spec

\* Every variable keeps its type, whatever the interleaving of turns, clicks,
\* cancellations and restarts.
THEOREM TypeCorrect == Spec => []TypeOK
<1>1. IInv => TypeOK BY DEF IInv
<1>2. QED BY <1>1, Invariance, PTL

\* A conversation never waits on two confirmations.
THEOREM OnePending == Spec => []AtMostOnePending
<1>1. IInv => AtMostOnePending BY DEF IInv, RowInv
<1>2. QED BY <1>1, Invariance, PTL

\* No call of the model that mutates ran without approval after, or together
\* with, an untrusted call of its turn.
THEOREM TaintGates == Spec => []NoUnapprovedMutation
<1>1. IInv => NoUnapprovedMutation BY DEF IInv
<1>2. QED BY <1>1, Invariance, PTL

\* A declined or expired call never ran, an approved one at most once.
THEOREM ApprovalGates == Spec => []ApprovedRunsOnce
<1>1. ASSUME IInv PROVE ApprovedRunsOnce
  <2> SUFFICES ASSUME NEW c \in Conf
               PROVE  /\ runs[c] <= 1
                      /\ status[c] # "confirmed" => runs[c] = 0
                      /\ status[c] \in {"pending", "declined", "expired"} =>
                           \A d \in dispatched : ~InPendingSlot(c, d)
    BY DEF ApprovedRunsOnce, InPendingSlot
  <2>1. runs[c] <= 1 /\ (status[c] # "confirmed" => runs[c] = 0)
    <3>1. runs[c] \in {0, 1} /\ (runs[c] = 1 => status[c] = "confirmed")
      BY <1>1, Zenon DEF IInv, RowInv
    <3>2. runs[c] <= 1 BY <3>1
    <3>3. status[c] # "confirmed" => runs[c] = 0 BY <3>1
    <3>4. QED BY <3>2, <3>3
  <2>2. ASSUME status[c] = "pending", NEW d \in dispatched PROVE ~InPendingSlot(c, d)
    <3>1. Resumable(c) /\ pc \in {"idle", "begin"}
      BY <1>1, <2>2 DEF Resumable, IInv, RowInv, Pending
    <3>2. QED BY <1>1, <2>2, <3>1, PendingSlotFree
  <2>3. ASSUME status[c] \in {"declined", "expired"}, NEW d \in dispatched
        PROVE  ~InPendingSlot(c, d)
    BY <1>1, <2>3 DEF IInv, SlotInv
  <2>4. QED BY <2>1, <2>2, <2>3
<1>2. QED BY <1>1, Invariance, PTL

\* Every step of the router is a step of the confirmation lifecycle, or leaves
\* the rows alone.
LEMMA LifecycleStep ==
  ASSUME IInv, [Next]_vars PROVE [Confirmations!Next]_(Confirmations!vars)
<1> USE DEF Confirmations!vars
<1>1. CASE AutoDeclinePending
  <2>1. CASE Pending = {}
    BY <1>1, <2>1 DEF AutoDeclinePending, ghostVars, IInv, TypeOK
  <2>2. ASSUME NEW c \in Conf, status[c] = "pending" PROVE Confirmations!Settle(c)
    <3>1. Pending = {c}
      <4>1. AtMostOnePending BY DEF IInv, RowInv
      <4>2. QED BY <2>2, <4>1 DEF AtMostOnePending, Pending
    <3>2. PICK s \in {"declined", "expired"} : s = IF c \in overdue THEN "expired" ELSE "declined"
      OBVIOUS
    <3>3. status' = [status EXCEPT ![c] = s]
      BY <1>1, <3>1, <3>2 DEF AutoDeclinePending, IInv, TypeOK
    <3>4. runs' = runs BY <1>1 DEF AutoDeclinePending, ghostVars
    <3>5. QED BY <2>2, <3>3, <3>4 DEF Confirmations!Settle
  <2>3. QED BY <2>1, <2>2 DEF Confirmations!Next, Pending
<1>2. ASSUME NEW c \in Conf, Suspend(c) PROVE Confirmations!Ask(c)
  <2>1. Pending = {} /\ status[c] = "none" /\ status' = [status EXCEPT ![c] = "pending"]
        /\ runs' = runs
    BY <1>2 DEF Suspend, ghostVars, IInv, RowInv
  <2>2. QED BY <2>1 DEF Confirmations!Ask, Pending
<1>3. ASSUME NEW c \in Conf, Decide(c) PROVE Confirmations!Settle(c)
  <2>1. status[c] = "pending" /\ runs' = runs BY <1>3 DEF Decide, Actionable, ghostVars
  <2>2. \E s \in {"confirmed", "declined", "expired"} : status' = [status EXCEPT ![c] = s]
    BY <1>3 DEF Decide
  <2>3. QED BY <2>1, <2>2 DEF Confirmations!Settle
<1>4. ASSUME NEW c \in Conf, RunConfirmed(c) PROVE Confirmations!Run(c)
  <2>1. status[c] = "confirmed" /\ runs[c] = 0 BY <1>4 DEF RunConfirmed, IInv, RowInv
  <2>2. runs' = [runs EXCEPT ![c] = 1] /\ status' = status
    BY <1>4, <2>1 DEF RunConfirmed, dbVars
  <2>3. QED BY <2>1, <2>2 DEF Confirmations!Run
<1>5. CASE \/ AcquireLock \/ Environment \/ UNCHANGED vars
           \/ DropDuplicate \/ AppendUserMessage \/ ModelReplies \/ ModelFails \/ AppendBatch
  BY <1>5 DEF AcquireLock, Environment, Deliver, ClickButton, Expire, CancelHolder, CancelWaiter,
              Restart, DropDuplicate, AppendUserMessage, ModelReplies, ModelFails, AppendBatch,
              vars, dbVars, ghostVars
<1>6. CASE \/ \E b \in Batches, s \in SummaryTaint : PlanBatch(b, s)
           \/ \E i \in DOMAIN cur.outs : RunTool(i) \/ RejectArguments(i)
                                         \/ FinishTool(i, "ok") \/ FinishTool(i, "error")
  BY <1>6 DEF PlanBatch, RunTool, RejectArguments, FinishTool, dbVars, ghostVars
<1>7. ASSUME NEW c \in Conf,
             \/ CloseSuperseded(c) \/ AlreadyResolved(c) \/ RefuseStranger(c) \/ CloseExpired(c)
             \/ CloseDeclined(c) \/ CannotRunConfirmed(c) \/ FinishConfirmed(c, TRUE)
             \/ FinishConfirmed(c, FALSE) \/ RecordConfirmed(c)
      PROVE  UNCHANGED <<status, runs>>
  BY <1>7 DEF CloseSuperseded, AlreadyResolved, RefuseStranger, CloseExpired, CloseDeclined,
              CannotRunConfirmed, FinishConfirmed, RecordConfirmed, dbVars, ghostVars
<1>8. QED BY <1>1, <1>2, <1>3, <1>4, <1>5, <1>6, <1>7 DEF Next, HolderStep, Confirmations!Next

\* The turns, with their queue, loop and history, implement the lifecycle that
\* the confirm gate promises.
THEOREM Refinement == Spec => ConfirmationsSpec
<1>1. Init => Confirmations!Init BY DEF Init, Confirmations!Init
<1>2. IInv /\ [Next]_vars => [Confirmations!Next]_(Confirmations!vars) BY LifecycleStep
<1>3. QED BY <1>1, <1>2, Invariance, PTL DEF Spec, ConfirmationsSpec, Confirmations!Spec

--------------------------------------------------------------------------------
(* What reaches history.  The running turn, and each suspended one that can    *)
(* still be closed, owes history a batch; nobody else appends one.             *)

Unclosed(c) == Resumable(c) \/ c \in closing
Owes(m, n) == \/ InLoop /\ cur.msg = m /\ cur.iter = n
              \/ \E c \in Conf : Unclosed(c) /\ saved[c].msg = m /\ saved[c].iter = n

\* m opened the last turn of history, and none of its batches is as new as n.
NewestTurn(m, n) ==
  /\ \E j \in DOMAIN history :
       /\ history[j] = UserEntry(m)
       /\ \A i \in DOMAIN history : i > j => history[i].kind # "user"
  /\ \A i \in DOMAIN history :
       history[i].kind = "batch" /\ history[i].msg = m => history[i].iter < n

OneClosing == \A c, d \in closing : c = d

\* A mutation is planned under a clean window only.
PlannedUnderWindow ==
  pc = "batch" /\ TaintMode = "window" =>
    \A i \in DOMAIN cur.outs :
      cur.outs[i] = "queued" /\ cur.batch[i] \notin ReadOnly =>
        \A k \in DOMAIN history : \A j \in DOMAIN history[k].batch :
          history[k].batch[j] \notin Untrusted

UserEntriesOK ==
  \A k \in DOMAIN history : history[k].kind = "user" => history[k] = UserEntry(history[k].msg)

HistoryOK ==
  /\ UserEntriesOK
  /\ HistoryInTurnOrder /\ RecordedOnce
  /\ \A m \in Msg, n \in Nat : Owes(m, n) => NewestTurn(m, n)

HistoryInv == /\ HistoryOK /\ OneClosing /\ EffectsAccountedFor
              /\ PlannedUnderWindow /\ NoMutationUnderTaintedWindow

\* Whoever owes history a batch is alone.
LEMMA OwedOnce ==
  ASSUME IInv, OneClosing
  PROVE  /\ InLoop => \A c \in Conf : ~Unclosed(c)
         /\ pc \notin {"idle", "begin"} => \A c \in Conf : status[c] # "pending"
         /\ \A c, d \in Conf : Unclosed(c) /\ Unclosed(d) => c = d
<1>1. pc \notin {"idle", "begin"} => \A c \in Conf : status[c] # "pending"
  BY DEF IInv, RowInv, Pending
<1>2. closing # {} => pc = "closing" BY DEF IInv, PlaceInv
<1>3. InLoop => \A c \in Conf : ~Unclosed(c)
  <2> SUFFICES ASSUME InLoop, NEW c \in Conf PROVE ~Unclosed(c) OBVIOUS
  <2>1. status[c] # "pending" /\ ~InResolve /\ closing = {}
    BY <1>1, <1>2 DEF InLoop, InResolve
  <2>2. QED BY <2>1 DEF Unclosed, Resumable
<1>4. \A c, d \in Conf : status[c] = "pending" /\ status[d] = "pending" => c = d
  <2>1. AtMostOnePending BY DEF IInv, RowInv
  <2>2. QED BY <2>1 DEF AtMostOnePending, Pending
<1>5. ASSUME NEW c \in Conf, NEW d \in Conf, Unclosed(c), Unclosed(d) PROVE c = d
  <2>1. CASE pc \in {"idle", "begin"}
    BY <1>2, <1>4, <1>5, <2>1 DEF Unclosed, Resumable, InResolve
  <2>2. CASE pc = "closing"
    BY <1>1, <1>5, <2>2 DEF Unclosed, Resumable, InResolve, OneClosing
  <2>3. CASE pc \notin {"idle", "begin", "closing"}
    BY <1>1, <1>2, <1>5, <2>3 DEF Unclosed, Resumable
  <2>4. QED BY <2>1, <2>2, <2>3
<1>6. QED BY <1>1, <1>3, <1>5

\* The rows and turns that owe something have a message and an iteration.
LEMMA OwedTypes ==
  ASSUME IInv
  PROVE  /\ InLoop => cur.msg \in Msg /\ cur.iter \in Nat /\ cur \in Turn
         /\ \A c \in Conf : Unclosed(c) =>
              saved[c] \in Turn /\ saved[c].msg \in Msg /\ saved[c].iter \in Nat
<1>1. InLoop => cur \in Turn BY DEF IInv, PlaceInv
<1>2. ASSUME NEW c \in Conf, Unclosed(c) PROVE saved[c] \in Turn
  <2>1. status[c] # "none"
    BY <1>2 DEF Unclosed, Resumable, InResolve, IInv, RowInv
  <2>2. QED BY <2>1 DEF IInv, RowInv
<1>3. QED BY <1>1, <1>2 DEF Turn

LEMMA Appended ==
  ASSUME history \in Seq(Entry), NEW e \in Entry, history' = Append(history, e)
  PROVE  \E n \in Nat : /\ DOMAIN history = 1..n /\ DOMAIN history' = 1..n + 1
                        /\ \A i \in 1..n : history'[i] = history[i] /\ history[i] \in Entry
                        /\ history'[n + 1] = e
<1>1. /\ history' \in Seq(Entry) /\ Len(history') = Len(history) + 1
      /\ \A i \in 1..Len(history) : history'[i] = history[i]
      /\ history'[Len(history) + 1] = e
  BY AppendProperties
<1>2. DOMAIN history = 1..Len(history) /\ DOMAIN history' = 1..Len(history') /\ Len(history) \in Nat
  BY <1>1, LenProperties
<1>3. QED BY <1>1, <1>2, ElementOfSeq

LEMMA HistoryFrame ==
  ASSUME HistoryOK, UNCHANGED history, \A m \in Msg, n \in Nat : Owes(m, n)' => Owes(m, n)
  PROVE  HistoryOK'
BY DEF HistoryOK, UserEntriesOK, HistoryInTurnOrder, RecordedOnce, NewestTurn

\* A batch or a reply goes to the newest turn, and keeps it the newest.
LEMMA TurnContinued ==
  ASSUME HistoryOK, history \in Seq(Entry), NEW m \in Msg, NEW n, NewestTurn(m, n),
         NEW e \in Entry, e.kind # "user", e.msg = m, history' = Append(history, e)
  PROVE  /\ UserEntriesOK' /\ HistoryInTurnOrder'
         /\ \E i \in DOMAIN history' :
              /\ history'[i] = UserEntry(m)
              /\ \A h \in DOMAIN history' : h > i => history'[h].kind # "user"
<1>1. PICK l \in Nat : /\ DOMAIN history = 1..l /\ DOMAIN history' = 1..l + 1
                       /\ \A i \in 1..l : history'[i] = history[i] /\ history[i] \in Entry
                       /\ history'[l + 1] = e
  BY Appended
<1>2. PICK j \in 1..l : /\ history[j] = UserEntry(m)
                        /\ \A i \in 1..l : i > j => history[i].kind # "user"
  BY <1>1 DEF NewestTurn
<1>3. \A k \in 1..l + 1 : k \in 1..l \/ k = l + 1 OBVIOUS
<1>4. /\ history'[j] = UserEntry(m)
      /\ \A h \in 1..l + 1 : h > j => history'[h].kind # "user"
  BY <1>1, <1>2, <1>3
<1>5. UserEntriesOK' BY <1>1, <1>3 DEF HistoryOK, UserEntriesOK
<1>6. HistoryInTurnOrder'
  <2> SUFFICES ASSUME NEW k \in 1..l + 1, history'[k].kind # "user"
               PROVE  \E i \in 1..k - 1 : /\ history'[i] = UserEntry(history'[k].msg)
                                          /\ \A h \in i + 1..k : history'[h].kind # "user"
    BY <1>1 DEF HistoryInTurnOrder
  <2>1. CASE k \in 1..l
    <3>1. PICK i \in 1..k - 1 : /\ history[i] = UserEntry(history[k].msg)
                                /\ \A h \in i + 1..k : history[h].kind # "user"
      BY <1>1, <2>1 DEF HistoryOK, HistoryInTurnOrder
    <3>2. QED BY <1>1, <2>1, <3>1
  <2>2. CASE k = l + 1
    <3>1. j \in 1..k - 1 /\ history'[k].msg = m BY <1>1, <2>2
    <3>2. \A h \in j + 1..k : h \in 1..l + 1 /\ h > j BY <2>2
    <3>3. QED BY <1>4, <3>1, <3>2
  <2>3. QED BY <1>3, <2>1, <2>2
<1>7. j \in DOMAIN history' BY <1>1
<1>8. QED BY <1>1, <1>4, <1>5, <1>6, <1>7

\* A batch is appended by the one that owes it, to the turn it belongs to.
LEMMA HistoryBatch ==
  ASSUME HistoryOK, history \in Seq(Entry), NEW m \in Msg, NEW n \in Nat, Owes(m, n),
         NEW e \in Entry, e.kind = "batch", e.msg = m, e.iter = n,
         history' = Append(history, e),
         \A o \in Msg, p \in Nat : Owes(o, p)' => o = m /\ p = n + 1
  PROVE  HistoryOK'
<1>1. PICK l \in Nat : /\ DOMAIN history = 1..l /\ DOMAIN history' = 1..l + 1
                       /\ \A i \in 1..l : history'[i] = history[i] /\ history[i] \in Entry
                       /\ history'[l + 1] = e
  BY Appended
<1>2. NewestTurn(m, n) BY DEF HistoryOK
<1>3. \A i \in 1..l : history[i].kind = "batch" /\ history[i].msg = m => history[i].iter < n
  BY <1>1, <1>2 DEF NewestTurn
<1>4. \A k \in 1..l + 1 : k \in 1..l \/ k = l + 1 OBVIOUS
<1>5. RecordedOnce'
  <2> DEFINE Same(f, g) == /\ f.kind = g.kind /\ f.kind \in {"user", "batch"}
                           /\ f.msg = g.msg /\ f.iter = g.iter
  <2>1. ASSUME NEW i \in 1..l PROVE ~Same(history[i], e) /\ ~Same(e, history[i])
    BY <1>3, <2>1
  <2>2. \A i, k \in 1..l : Same(history[i], history[k]) => i = k
    BY <1>1 DEF HistoryOK, RecordedOnce
  <2> HIDE DEF Same
  <2>3. \A i, k \in 1..l + 1 : Same(history'[i], history'[k]) => i = k
    BY <1>1, <1>4, <2>1, <2>2
  <2>4. QED BY <1>1, <2>3 DEF RecordedOnce, Same
<1>6. NewestTurn(m, n + 1)'
  <2>1. \A i \in DOMAIN history' :
          history'[i].kind = "batch" /\ history'[i].msg = m => history'[i].iter < n + 1
    <3>1. \A i \in 1..l : history[i].iter \in Nat BY <1>1 DEF Entry
    <3>2. QED BY <1>1, <1>3, <1>4, <3>1
  <2>2. QED BY <1>2, <2>1, TurnContinued DEF NewestTurn
<1>7. QED BY <1>2, <1>5, <1>6, TurnContinued DEF HistoryOK, UserEntriesOK

\* The reply ends the turn that it belongs to.
LEMMA HistoryReply ==
  ASSUME HistoryOK, history \in Seq(Entry), NEW m \in Msg, NEW n \in Nat, Owes(m, n),
         NEW e \in Entry, e.kind = "reply", e.msg = m,
         history' = Append(history, e),
         \A o \in Msg, p \in Nat : ~Owes(o, p)'
  PROVE  HistoryOK'
<1>1. PICK l \in Nat : /\ DOMAIN history = 1..l /\ DOMAIN history' = 1..l + 1
                       /\ \A i \in 1..l : history'[i] = history[i] /\ history[i] \in Entry
                       /\ history'[l + 1] = e
  BY Appended
<1>2. \A k \in 1..l + 1 : k \in 1..l \/ k = l + 1 OBVIOUS
<1>3. RecordedOnce' BY <1>1, <1>2 DEF HistoryOK, RecordedOnce
<1>4. NewestTurn(m, n) BY DEF HistoryOK
<1>5. QED BY <1>3, <1>4, TurnContinued DEF HistoryOK, UserEntriesOK

\* A new turn starts where nobody owes anything: no entry bears its message.
LEMMA HistoryUser ==
  ASSUME HistoryOK, history \in Seq(Entry), NEW m \in Msg, ~Said(m),
         history' = Append(history, UserEntry(m)),
         \A o \in Msg, p \in Nat : Owes(o, p)' => o = m
  PROVE  HistoryOK'
<1> DEFINE e == UserEntry(m)
<1>1. PICK l \in Nat : /\ DOMAIN history = 1..l /\ DOMAIN history' = 1..l + 1
                       /\ \A i \in 1..l : history'[i] = history[i] /\ history[i] \in Entry
                       /\ history'[l + 1] = e
  BY UserEntryType, Appended
<1>2. e.kind = "user" /\ e.msg = m BY DEF UserEntry
<1>3. \A i \in 1..l : history[i].msg # m
  <2> SUFFICES ASSUME NEW i \in 1..l, history[i].msg = m PROVE FALSE OBVIOUS
  <2>1. CASE history[i].kind = "user" BY <1>1, <2>1 DEF HistoryOK, UserEntriesOK, Said
  <2>2. CASE history[i].kind # "user"
    <3>1. PICK h \in 1..i - 1 : history[h] = UserEntry(m)
      BY <1>1, <2>2 DEF HistoryOK, HistoryInTurnOrder
    <3>2. h \in DOMAIN history BY <1>1
    <3>3. QED BY <3>1, <3>2 DEF Said
  <2>3. QED BY <2>1, <2>2
<1>4. \A k \in 1..l + 1 : k \in 1..l \/ k = l + 1 OBVIOUS
<1> HIDE DEF e
<1>5. UserEntriesOK' BY <1>1, <1>2, <1>4 DEF HistoryOK, UserEntriesOK, e
<1>6. HistoryInTurnOrder'
  <2> SUFFICES ASSUME NEW k \in 1..l + 1, history'[k].kind # "user"
               PROVE  \E i \in 1..k - 1 : /\ history'[i] = UserEntry(history'[k].msg)
                                          /\ \A h \in i + 1..k : history'[h].kind # "user"
    BY <1>1 DEF HistoryInTurnOrder
  <2>1. k \in 1..l BY <1>1, <1>2, <1>4
  <2>2. PICK i \in 1..k - 1 : /\ history[i] = UserEntry(history[k].msg)
                              /\ \A h \in i + 1..k : history[h].kind # "user"
    BY <1>1, <2>1 DEF HistoryOK, HistoryInTurnOrder
  <2>3. QED BY <1>1, <2>1, <2>2
<1>7. RecordedOnce' BY <1>1, <1>2, <1>3, <1>4 DEF HistoryOK, RecordedOnce
<1>8. ASSUME NEW p \in Nat PROVE NewestTurn(m, p)'
  <2>1. /\ l + 1 \in DOMAIN history' /\ history'[l + 1] = UserEntry(m)
        /\ \A h \in DOMAIN history' : ~(h > l + 1)
    BY <1>1 DEF e
  <2>2. \A i \in DOMAIN history' : ~(history'[i].kind = "batch" /\ history'[i].msg = m)
    BY <1>1, <1>2, <1>3, <1>4
  <2>3. QED BY <2>1, <2>2 DEF NewestTurn
<1>9. QED BY <1>5, <1>6, <1>7, <1>8 DEF HistoryOK

--------------------------------------------------------------------------------
(* The steps that leave history alone: nobody owes a batch that was not owed.  *)

LEMMA NothingNewOwed ==
  ASSUME HistoryOK, UNCHANGED history,
         InLoop' => InLoop /\ cur'.msg = cur.msg /\ cur'.iter = cur.iter,
         \A c \in Conf : Unclosed(c)' => Unclosed(c) /\ saved'[c] = saved[c]
  PROVE  HistoryOK'
<1>1. \A m \in Msg, n \in Nat : Owes(m, n)' => Owes(m, n) BY DEF Owes
<1>2. QED BY <1>1, HistoryFrame

LEMMA HistoryReleased ==
  ASSUME HistoryOK, UNCHANGED <<history, status, saved>>, pc' = "idle", closing' = {}
  PROVE  HistoryOK'
BY NothingNewOwed DEF InLoop, InResolve, Unclosed, Resumable

LEMMA HistoryQuiet ==
  ASSUME HistoryOK, UNCHANGED <<history, status, saved, pc, cur, holder, closing>>
  PROVE  HistoryOK'
BY NothingNewOwed DEF InLoop, InResolve, Unclosed, Resumable

LEMMA HistoryInBatch ==
  ASSUME HistoryOK, InLoop, pc' = "batch", cur'.msg = cur.msg, cur'.iter = cur.iter,
         UNCHANGED <<history, status, saved, closing>>
  PROVE  HistoryOK'
<1>1. ~InResolve' BY DEF InResolve
<1>2. QED BY <1>1, NothingNewOwed DEF Unclosed, Resumable

LEMMA HistoryEnvironment ==
  ASSUME HistoryOK,
         \/ AcquireLock \/ Environment \/ UNCHANGED vars
         \/ DropDuplicate \/ ModelFails
         \/ \E c \in Conf : AlreadyResolved(c) \/ RefuseStranger(c)
  PROVE  HistoryOK'
<1> USE DEF dbVars, ghostVars, lockVars
<1>1. CASE AcquireLock
  BY <1>1, NothingNewOwed DEF AcquireLock, InLoop, InResolve, Unclosed, Resumable
<1>2. CASE \/ \E m \in Msg : Deliver(m)
           \/ \E c \in Conf, u \in User, a \in BOOLEAN : ClickButton(c, u, a)
           \/ \E c \in Conf : Expire(c)
           \/ \E k \in DOMAIN queue : CancelWaiter(k)
           \/ UNCHANGED vars
  BY <1>2, HistoryQuiet DEF Deliver, ClickButton, Expire, CancelWaiter, vars
<1>3. CASE CancelHolder \/ \E reg \in Registries : Restart(reg)
  BY <1>3, HistoryReleased DEF CancelHolder, Restart, Answer
<1>4. CASE DropDuplicate \/ ModelFails
  BY <1>4, HistoryReleased DEF DropDuplicate, ModelFails, Answer
<1>5. ASSUME NEW c \in Conf, AlreadyResolved(c) \/ RefuseStranger(c) PROVE HistoryOK'
  BY <1>5, HistoryReleased DEF AlreadyResolved, RefuseStranger, Answer
<1>6. QED BY <1>1, <1>2, <1>3, <1>4, <1>5 DEF Environment

\* A step of the batch moves neither the turn it is of, nor the rows.
LEMMA BatchSame ==
  ASSUME IInv,
         \/ \E b \in Batches, s \in SummaryTaint : PlanBatch(b, s)
         \/ \E i \in DOMAIN cur.outs : RunTool(i) \/ RejectArguments(i)
                                       \/ FinishTool(i, "ok") \/ FinishTool(i, "error")
  PROVE  /\ InLoop /\ cur \in Turn
         /\ pc' = "batch" /\ cur'.msg = cur.msg /\ cur'.iter = cur.iter
         /\ UNCHANGED <<history, status, saved, closing, abandoned>>
<1> USE DEF dbVars, ghostVars, lockVars, Step
<1>1. InLoop BY DEF PlanBatch, RunTool, RejectArguments, FinishTool, InLoop
<1>2. cur \in Turn BY <1>1 DEF IInv, PlaceInv
<1>3. CASE \E b \in Batches, s \in SummaryTaint : PlanBatch(b, s)
  BY <1>1, <1>2, <1>3 DEF PlanBatch, Turn
<1>4. ASSUME NEW i, RunTool(i) \/ RejectArguments(i)
      PROVE  /\ pc' = "batch" /\ cur'.msg = cur.msg /\ cur'.iter = cur.iter
             /\ UNCHANGED <<history, status, saved, closing, abandoned>>
  BY <1>2, <1>4 DEF RunTool, RejectArguments, Turn
<1>5. ASSUME NEW i, NEW out, FinishTool(i, out)
      PROVE  /\ pc' = "batch" /\ cur'.msg = cur.msg /\ cur'.iter = cur.iter
             /\ UNCHANGED <<history, status, saved, closing, abandoned>>
  BY <1>2, <1>5 DEF FinishTool, Turn
<1>6. QED BY <1>1, <1>2, <1>3, <1>4, <1>5

LEMMA HistoryPlan ==
  ASSUME IInv, HistoryOK,
         \/ \E b \in Batches, s \in SummaryTaint : PlanBatch(b, s)
         \/ \E i \in DOMAIN cur.outs : RunTool(i) \/ RejectArguments(i)
                                       \/ FinishTool(i, "ok") \/ FinishTool(i, "error")
  PROVE  HistoryOK'
BY BatchSame, HistoryInBatch

LEMMA HistoryDecline == ASSUME IInv, HistoryOK, AutoDeclinePending PROVE HistoryOK'
<1>1. pc' = "closing" /\ closing' = Pending /\ UNCHANGED <<history, saved>>
  BY DEF AutoDeclinePending, Step
<1>2. \A c \in Conf : status'[c] # "pending" BY DEF AutoDeclinePending, Pending
<1>3. QED BY <1>1, <1>2, NothingNewOwed DEF InLoop, InResolve, Unclosed, Resumable, Pending

LEMMA HistorySuspend ==
  ASSUME IInv, OneClosing, HistoryOK, NEW c \in Conf, Suspend(c) PROVE HistoryOK'
<1>1. InLoop BY DEF Suspend, InLoop
<1>2. pc' = "idle" /\ closing' = {} /\ UNCHANGED history BY DEF Suspend, Answer
<1>3. /\ saved'[c] = cur
      /\ \A e \in Conf : e # c => status'[e] = status[e]
  BY DEF Suspend, IInv, TypeOK
<1>4. \A e \in Conf : Unclosed(e)' => e = c
  BY <1>1, <1>2, <1>3, OwedOnce DEF Unclosed, Resumable, InResolve
<1>5. \A m \in Msg, n \in Nat : Owes(m, n)' => Owes(m, n)
  BY <1>1, <1>2, <1>3, <1>4 DEF Owes, InLoop
<1>6. QED BY <1>2, <1>5, HistoryFrame

LEMMA HistoryResolve ==
  ASSUME IInv, HistoryOK, NEW c \in Conf,
         \/ Decide(c) \/ RunConfirmed(c) \/ CannotRunConfirmed(c)
         \/ FinishConfirmed(c, TRUE) \/ FinishConfirmed(c, FALSE)
  PROVE  HistoryOK'
<1> USE DEF dbVars, ghostVars, lockVars, Step
<1>1. CASE Decide(c)
  <2>1. /\ pc' \in {"approved", "expired", "declined"} /\ status[c] = "pending"
        /\ holder.conf = c /\ UNCHANGED <<history, saved, closing, holder>>
    BY <1>1 DEF Decide, Resolving, Actionable
  <2>2. \A e \in Conf : e # c => status'[e] = status[e] BY <1>1 DEF Decide, IInv, TypeOK
  <2>3. \A e \in Conf : Unclosed(e)' => Unclosed(e)
    BY <2>1, <2>2 DEF Unclosed, Resumable, InResolve
  <2>4. QED BY <2>1, <2>3, NothingNewOwed DEF InLoop
<1>2. CASE ~Decide(c)
  <2>1. InResolve /\ InResolve' /\ UNCHANGED <<history, saved, closing, status, holder>>
    BY <1>2 DEF RunConfirmed, CannotRunConfirmed, FinishConfirmed, InResolve
  <2>2. ~InLoop' BY <2>1 DEF InLoop, InResolve
  <2>3. QED BY <2>1, <2>2, NothingNewOwed DEF Unclosed, Resumable
<1>3. QED BY <1>1, <1>2

--------------------------------------------------------------------------------
(* The steps that append. *)

LEMMA HistorySettled ==
  ASSUME IInv, HistoryOK, NEW c \in Conf, Unclosed(c), NEW out \in Outcome,
         CloseSuspendedTurn(c, out),
         \A m \in Msg, n \in Nat : Owes(m, n)' => m = saved[c].msg /\ n = saved[c].iter + 1
  PROVE  HistoryOK'
<1>1. saved[c] \in Turn /\ saved[c].msg \in Msg /\ saved[c].iter \in Nat BY OwedTypes
<1>2. PICK e \in Entry : e = BatchEntry(Settle(saved[c], out)) BY <1>1, SettleType, EntryType
<1>3. e.kind = "batch" /\ e.msg = saved[c].msg /\ e.iter = saved[c].iter
  BY <1>1, <1>2, SettleType DEF BatchEntry
<1>4. Owes(saved[c].msg, saved[c].iter) BY DEF Owes
<1>5. history \in Seq(Entry) /\ history' = Append(history, e)
  BY <1>2 DEF CloseSuspendedTurn, IInv, TypeOK
<1>6. QED BY <1>1, <1>3, <1>4, <1>5, HistoryBatch

LEMMA HistoryClosed ==
  ASSUME IInv, OneClosing, HistoryOK, NEW c \in Conf, CloseSuperseded(c) \/ CloseExpired(c)
  PROVE  HistoryOK'
<1> USE DEF ghostVars, lockVars, Step, Answer
<1>1. Unclosed(c) /\ pc \notin {"idle", "begin"}
  BY DEF CloseSuperseded, CloseExpired, Unclosed, Resumable, InResolve
<1>2. UNCHANGED <<status, saved>> /\ pc' \in {"closing", "idle"} /\ closing' = {}
  BY DEF CloseSuperseded, CloseExpired, OneClosing
<1>3. \A e \in Conf : ~Unclosed(e)'
  BY <1>1, <1>2, OwedOnce DEF Unclosed, Resumable, InResolve
<1>4. \A m \in Msg, n \in Nat : ~Owes(m, n)' BY <1>2, <1>3 DEF Owes, InLoop
<1>5. CloseSuspendedTurn(c, "error") BY DEF CloseSuperseded, CloseExpired
<1>6. QED BY <1>1, <1>4, <1>5, HistorySettled DEF Outcome

LEMMA HistoryResumed ==
  ASSUME IInv, OneClosing, HistoryOK, NEW c \in Conf, CloseDeclined(c) \/ RecordConfirmed(c)
  PROVE  HistoryOK'
<1> USE DEF ghostVars, lockVars, Step
<1>1. Unclosed(c) /\ InResolve
  BY DEF CloseDeclined, RecordConfirmed, Unclosed, Resumable, InResolve
<1>2. UNCHANGED <<status, saved, closing>> /\ pc' = "model"
  BY DEF CloseDeclined, RecordConfirmed, Resume
<1>3. closing = {} BY <1>1 DEF InResolve, IInv, PlaceInv
<1>4. \A e \in Conf : ~Unclosed(e)'
  BY <1>1, <1>2, <1>3, OwedOnce DEF Unclosed, Resumable, InResolve
<1>5. cur'.msg = saved[c].msg /\ cur'.iter = saved[c].iter + 1
  <2>1. saved[c] \in Turn BY <1>1, OwedTypes
  <2>2. PICK taint, ok : Resume(c, taint, ok) BY Zenon DEF CloseDeclined, RecordConfirmed
  <2>3. QED BY <2>1, <2>2 DEF Resume, Turn
<1>6. \A m \in Msg, n \in Nat : Owes(m, n)' => m = saved[c].msg /\ n = saved[c].iter + 1
  BY <1>4, <1>5 DEF Owes
<1>7. PICK out \in Outcome : CloseSuspendedTurn(c, out)
  BY DEF CloseDeclined, RecordConfirmed, Outcome
<1>8. QED BY <1>1, <1>6, <1>7, HistorySettled

LEMMA HistoryLoop ==
  ASSUME IInv, OneClosing, HistoryOK, AppendBatch \/ ModelReplies PROVE HistoryOK'
<1>1. InLoop BY DEF AppendBatch, ModelReplies, InLoop
<1>2. /\ cur \in Turn /\ cur.msg \in Msg /\ cur.iter \in Nat /\ history \in Seq(Entry)
      /\ BatchEntry(cur) \in Entry /\ ReplyEntry(cur) \in Entry
  BY <1>1, OwedTypes, EntryType DEF IInv, TypeOK
<1>3. Owes(cur.msg, cur.iter) BY <1>1 DEF Owes
<1>4. \A e \in Conf : status[e] # "pending" /\ e \notin closing
  BY <1>1, OwedOnce DEF InLoop, Unclosed, Resumable
<1>5. UNCHANGED <<status, saved>> /\ closing' \subseteq closing
  BY DEF AppendBatch, ModelReplies, Answer
<1>6. \A e \in Conf : pc' \in {"model", "idle"} => ~Unclosed(e)'
  BY <1>4, <1>5 DEF Unclosed, Resumable, InResolve
<1>7. CASE AppendBatch
  <2>1. pc' = "model" /\ history' = Append(history, BatchEntry(cur))
    BY <1>7 DEF AppendBatch, Step
  <2>2. cur'.msg = cur.msg /\ cur'.iter = cur.iter + 1 BY <1>2, <1>7 DEF AppendBatch, Turn
  <2>3. \A m \in Msg, n \in Nat : Owes(m, n)' => m = cur.msg /\ n = cur.iter + 1
    BY <1>6, <2>1, <2>2 DEF Owes
  <2>4. PICK e \in Entry : e = BatchEntry(cur) BY <1>2
  <2>5. e.kind = "batch" /\ e.msg = cur.msg /\ e.iter = cur.iter BY <2>4 DEF BatchEntry
  <2>6. QED BY <1>2, <1>3, <2>1, <2>3, <2>4, <2>5, HistoryBatch
<1>8. CASE ModelReplies
  <2>1. pc' = "idle" /\ history' = Append(history, ReplyEntry(cur))
    BY <1>8 DEF ModelReplies, Answer
  <2>2. \A m \in Msg, n \in Nat : ~Owes(m, n)' BY <1>6, <2>1 DEF Owes, InLoop
  <2>3. PICK e \in Entry : e = ReplyEntry(cur) BY <1>2
  <2>4. e.kind = "reply" /\ e.msg = cur.msg BY <2>3 DEF ReplyEntry
  <2>5. QED BY <1>2, <1>3, <2>1, <2>2, <2>3, <2>4, HistoryReply
<1>9. QED BY <1>7, <1>8

LEMMA HistoryOpened ==
  ASSUME IInv, OneClosing, HistoryOK, AppendUserMessage PROVE HistoryOK'
<1>1. holder.msg \in Msg /\ ~Said(holder.msg) BY DEF IInv, PlaceInv, AppendUserMessage
<1>2. /\ history' = Append(history, UserEntry(holder.msg)) /\ history \in Seq(Entry)
      /\ cur' = NewTurn(holder.msg) /\ pc' = "model" /\ closing' = {} /\ UNCHANGED <<status, saved>>
  BY DEF AppendUserMessage, Step, IInv, TypeOK
<1>3. \A e \in Conf : ~Unclosed(e)'
  BY <1>2, OwedOnce DEF AppendUserMessage, Unclosed, Resumable, InResolve
<1>4. cur'.msg = holder.msg BY <1>2 DEF NewTurn
<1>5. \A m \in Msg, n \in Nat : Owes(m, n)' => m = holder.msg BY <1>3, <1>4 DEF Owes
<1>6. PICK m \in Msg : m = holder.msg BY <1>1
<1>7. QED BY <1>1, <1>2, <1>5, <1>6, HistoryUser

LEMMA HistoryStep ==
  ASSUME IInv, OneClosing, HistoryOK, [Next]_vars PROVE HistoryOK'
BY HistoryEnvironment, HistoryPlan, HistoryDecline, HistorySuspend, HistoryResolve,
   HistoryClosed, HistoryResumed, HistoryLoop, HistoryOpened
DEF Next, HolderStep

LEMMA OneClosingStep == ASSUME IInv, OneClosing, [Next]_vars PROVE OneClosing'
<1>1. closing' \subseteq closing \/ closing' = Pending
  BY DEF Next, Environment, HolderStep, AcquireLock, Deliver, ClickButton, Expire, CancelHolder,
         CancelWaiter, Restart, DropDuplicate, AutoDeclinePending, AppendUserMessage,
         CloseSuperseded, ModelReplies, ModelFails, PlanBatch, RunTool, RejectArguments,
         FinishTool, AppendBatch, Suspend, AlreadyResolved, RefuseStranger, Decide, CloseExpired,
         CloseDeclined, RunConfirmed, CannotRunConfirmed, FinishConfirmed, RecordConfirmed,
         Answer, vars
<1>2. QED BY <1>1 DEF OneClosing, IInv, RowInv, AtMostOnePending

--------------------------------------------------------------------------------
(* Every call that was started is in history, or owed to it.                   *)

Recorded(m, n) ==
  \E k \in DOMAIN history : history[k].kind = "batch" /\ history[k].msg = m /\ history[k].iter = n
Carried(m, n) == \/ pc = "batch" /\ cur.msg = m /\ cur.iter = n
                 \/ \E c \in Conf : Unclosed(c) /\ saved[c].msg = m /\ saved[c].iter = n

LEMMA EffectsCarried ==
  EffectsAccountedFor <=>
    \A d \in dispatched : \/ d.msg \in abandoned \/ Recorded(d.msg, d.iter)
                          \/ Carried(d.msg, d.iter)
BY DEF EffectsAccountedFor, Recorded, Carried, Unclosed, Resumable, InResolve

\* What a step does not carry on, it records or abandons.
LEMMA EffectsKept ==
  ASSUME EffectsAccountedFor, abandoned \subseteq abandoned',
         \A m \in Msg, n \in Nat : Recorded(m, n) => Recorded(m, n)',
         \A m \in Msg, n \in Nat :
           Carried(m, n) => Carried(m, n)' \/ Recorded(m, n)' \/ m \in abandoned',
         dispatched \subseteq Dispatch,
         \A d \in dispatched' \ dispatched : Carried(d.msg, d.iter)'
  PROVE  EffectsAccountedFor'
<1>1. \A d \in dispatched : d.msg \in Msg /\ d.iter \in Nat BY DEF Dispatch
<1>2. \A d \in dispatched' : \/ d.msg \in abandoned' \/ Recorded(d.msg, d.iter)'
                             \/ Carried(d.msg, d.iter)'
  BY <1>1, EffectsCarried
<1>3. (EffectsAccountedFor <=>
        \A d \in dispatched : \/ d.msg \in abandoned \/ Recorded(d.msg, d.iter)
                              \/ Carried(d.msg, d.iter))'
  BY EffectsCarried, PTL
<1>4. QED BY <1>2, <1>3

LEMMA RecordedKept ==
  ASSUME history \in Seq(Entry), NEW e \in Entry, history' = Append(history, e)
  PROVE  /\ \A m, n : Recorded(m, n) => Recorded(m, n)'
         /\ e.kind = "batch" => Recorded(e.msg, e.iter)'
<1>1. PICK l \in Nat : /\ DOMAIN history = 1..l /\ DOMAIN history' = 1..l + 1
                       /\ \A i \in 1..l : history'[i] = history[i] /\ history[i] \in Entry
                       /\ history'[l + 1] = e
  BY Appended
<1>2. l + 1 \in 1..l + 1 /\ \A i \in 1..l : i \in 1..l + 1 BY <1>1
<1>3. QED BY <1>1, <1>2, Zenon DEF Recorded

\* The steps that leave history and what was dispatched alone.
LEMMA EffectsFrame ==
  ASSUME IInv, EffectsAccountedFor, UNCHANGED <<history, dispatched>>,
         abandoned \subseteq abandoned',
         \A m \in Msg, n \in Nat : Carried(m, n) => Carried(m, n)' \/ m \in abandoned'
  PROVE  EffectsAccountedFor'
<1>1. \A m, n : Recorded(m, n)' <=> Recorded(m, n) BY DEF Recorded
<1>2. dispatched \subseteq Dispatch BY DEF IInv, TypeOK
<1>3. QED BY <1>1, <1>2, EffectsKept

LEMMA EffectsReleased ==
  ASSUME IInv, EffectsAccountedFor, UNCHANGED <<history, dispatched, status, saved>>,
         pc' = "idle", closing' = {},
         \/ abandoned' = abandoned \cup AtRisk
         \/ abandoned' = abandoned /\ pc # "batch" /\ ~InResolve /\ closing = {}
  PROVE  EffectsAccountedFor'
<1>1. ASSUME NEW m \in Msg, NEW n \in Nat, Carried(m, n)
      PROVE  Carried(m, n)' \/ m \in abandoned'
  <2>1. ASSUME NEW c \in Conf, status[c] = "pending", saved[c].msg = m, saved[c].iter = n
        PROVE  Carried(m, n)'
    BY <2>1 DEF Carried, Unclosed, Resumable
  <2>2. CASE abandoned' = abandoned \cup AtRisk
    BY <1>1, <2>1, <2>2 DEF Carried, AtRisk, Unclosed, Resumable, InResolve
  <2>3. CASE abandoned' = abandoned /\ pc # "batch" /\ ~InResolve /\ closing = {}
    BY <1>1, <2>1, <2>3 DEF Carried, Unclosed, Resumable
  <2>4. QED BY <2>2, <2>3
<1>2. QED BY <1>1, EffectsFrame

LEMMA EffectsEnvironment ==
  ASSUME IInv, EffectsAccountedFor,
         \/ AcquireLock \/ Environment \/ UNCHANGED vars
         \/ DropDuplicate \/ ModelFails
         \/ \E c \in Conf : AlreadyResolved(c) \/ RefuseStranger(c)
  PROVE  EffectsAccountedFor'
<1> USE DEF dbVars, ghostVars, lockVars
<1>0. closing # {} => pc = "closing" BY DEF IInv, PlaceInv
<1>1. CASE AcquireLock
  <2>1. pc = "idle" BY <1>1 DEF AcquireLock, IInv, PlaceInv
  <2>2. \A m, n : Carried(m, n) => Carried(m, n)'
    BY <1>1, <2>1 DEF AcquireLock, Carried, Unclosed, Resumable, InResolve
  <2>3. QED BY <1>1, <2>2, EffectsFrame DEF AcquireLock
<1>2. CASE \/ \E m \in Msg : Deliver(m)
           \/ \E c \in Conf, u \in User, a \in BOOLEAN : ClickButton(c, u, a)
           \/ \E c \in Conf : Expire(c)
           \/ \E k \in DOMAIN queue : CancelWaiter(k)
           \/ UNCHANGED vars
  <2>1. UNCHANGED <<history, dispatched, abandoned, pc, cur, status, saved, holder, closing>>
    BY <1>2 DEF Deliver, ClickButton, Expire, CancelWaiter, vars
  <2>2. \A m, n : Carried(m, n) => Carried(m, n)'
    BY <2>1 DEF Carried, Unclosed, Resumable, InResolve
  <2>3. QED BY <2>1, <2>2, EffectsFrame
<1>3. CASE CancelHolder \/ \E reg \in Registries : Restart(reg)
  BY <1>3, EffectsReleased DEF CancelHolder, Restart, Answer
<1>4. CASE DropDuplicate \/ ModelFails
  BY <1>0, <1>4, EffectsReleased DEF DropDuplicate, ModelFails, Answer, InResolve
<1>5. ASSUME NEW c \in Conf, AlreadyResolved(c) \/ RefuseStranger(c)
      PROVE  EffectsAccountedFor'
  BY <1>0, <1>5, EffectsReleased DEF AlreadyResolved, RefuseStranger, Answer, Resolving, InResolve
<1>6. QED BY <1>1, <1>2, <1>3, <1>4, <1>5 DEF Environment

LEMMA EffectsPlan ==
  ASSUME IInv, EffectsAccountedFor,
         \/ \E b \in Batches, s \in SummaryTaint : PlanBatch(b, s)
         \/ \E i \in DOMAIN cur.outs : RunTool(i) \/ RejectArguments(i)
                                       \/ FinishTool(i, "ok") \/ FinishTool(i, "error")
  PROVE  EffectsAccountedFor'
<1> USE DEF dbVars, ghostVars, lockVars, Step
<1>1. InLoop /\ cur \in Turn /\ dispatched \subseteq Dispatch BY BatchSame DEF IInv, TypeOK
<1>2. cur'.msg = cur.msg /\ cur'.iter = cur.iter BY BatchSame
<1>3. pc' = "batch" /\ UNCHANGED <<history, status, saved, closing, abandoned>> BY BatchSame
<1>4. \A m, n : Carried(m, n) => Carried(m, n)'
  BY <1>1, <1>2, <1>3 DEF Carried, Unclosed, Resumable, InLoop, InResolve
<1>5. ASSUME NEW d \in dispatched' \ dispatched PROVE Carried(d.msg, d.iter)'
  <2>1. PICK i : d = Called(cur, i, "model")
    BY <1>5 DEF PlanBatch, RunTool, RejectArguments, FinishTool
  <2>2. d.msg = cur.msg /\ d.iter = cur.iter BY <2>1 DEF Called
  <2>3. QED BY <1>2, <1>3, <2>2 DEF Carried
<1>6. \A m, n : Recorded(m, n)' <=> Recorded(m, n) BY <1>3 DEF Recorded
<1>7. QED BY <1>1, <1>3, <1>4, <1>5, <1>6, EffectsKept

LEMMA EffectsRows ==
  ASSUME IInv, EffectsAccountedFor,
         AutoDeclinePending \/ \E c \in Conf : Suspend(c) \/ Decide(c)
  PROVE  EffectsAccountedFor'
<1> USE DEF ghostVars, lockVars, Step, Answer
<1>0. TypeOK BY DEF IInv
<1>1. CASE AutoDeclinePending
  <2>1. \A m, n : Carried(m, n) => Carried(m, n)'
    BY <1>1 DEF AutoDeclinePending, Carried, Unclosed, Resumable, InResolve, Pending, IInv, PlaceInv
  <2>2. QED BY <1>1, <2>1, EffectsFrame DEF AutoDeclinePending
<1>2. ASSUME NEW c \in Conf, Suspend(c) PROVE EffectsAccountedFor'
  <2>1. pc = "batch" /\ closing = {} /\ ~InResolve
    BY <1>2 DEF Suspend, IInv, PlaceInv, InResolve
  <2>2. /\ status'[c] = "pending" /\ saved'[c] = cur
        /\ \A e \in Conf : status[e] = "pending" => status'[e] = "pending" /\ saved'[e] = saved[e]
    BY <1>0, <1>2 DEF Suspend, TypeOK
  <2>3. \A m, n : Carried(m, n) => Carried(m, n)'
    BY <2>1, <2>2 DEF Carried, Unclosed, Resumable
  <2>4. QED BY <1>2, <2>3, EffectsFrame DEF Suspend
<1>3. ASSUME NEW c \in Conf, Decide(c) PROVE EffectsAccountedFor'
  <2>1. /\ pc = "begin" /\ pc' \in {"approved", "expired", "declined"} /\ holder.conf = c
        /\ UNCHANGED <<history, dispatched, abandoned, saved, closing, holder>>
    BY <1>3 DEF Decide, Resolving
  <2>2. \A e \in Conf : e # c => status'[e] = status[e] BY <1>0, <1>3 DEF Decide, TypeOK
  <2>3. \A e \in Conf : Unclosed(e) => Unclosed(e)'
    BY <2>1, <2>2 DEF Unclosed, Resumable, InResolve
  <2>4. \A m, n : Carried(m, n) => Carried(m, n)' BY <2>1, <2>3 DEF Carried
  <2>5. QED BY <2>1, <2>4, EffectsFrame
<1>4. QED BY <1>1, <1>2, <1>3

LEMMA EffectsConfirmed ==
  ASSUME IInv, EffectsAccountedFor, NEW c \in Conf,
         \/ RunConfirmed(c) \/ CannotRunConfirmed(c)
         \/ FinishConfirmed(c, TRUE) \/ FinishConfirmed(c, FALSE)
  PROVE  EffectsAccountedFor'
<1> USE DEF dbVars, ghostVars, lockVars, Step
<1>1. /\ InResolve /\ InResolve' /\ holder.conf = c
      /\ UNCHANGED <<history, saved, closing, status, holder, abandoned>>
  BY DEF RunConfirmed, CannotRunConfirmed, FinishConfirmed, InResolve
<1>2. pc # "batch" BY <1>1 DEF InResolve
<1>3. \A m, n : Carried(m, n) => Carried(m, n)' BY <1>1, <1>2 DEF Carried, Unclosed, Resumable
<1>4. ASSUME NEW d \in dispatched' \ dispatched PROVE Carried(d.msg, d.iter)'
  <2>1. d = Called(saved[c], PendingAt(saved[c]), "approval")
    BY <1>4 DEF RunConfirmed, CannotRunConfirmed, FinishConfirmed
  <2>2. d.msg = saved[c].msg /\ d.iter = saved[c].iter BY <2>1 DEF Called
  <2>3. QED BY <1>1, <2>2 DEF Carried, Unclosed, Resumable
<1>5. \A m, n : Recorded(m, n)' <=> Recorded(m, n) BY <1>1 DEF Recorded
<1>6. dispatched \subseteq Dispatch BY DEF IInv, TypeOK
<1>7. QED BY <1>1, <1>3, <1>4, <1>5, <1>6, EffectsKept

\* Each of the appends records the one batch that was carried.
LEMMA EffectsAppended ==
  ASSUME IInv, OneClosing, EffectsAccountedFor,
         \/ AppendUserMessage \/ AppendBatch \/ ModelReplies
         \/ \E c \in Conf : \/ CloseSuperseded(c) \/ CloseExpired(c)
                            \/ CloseDeclined(c) \/ RecordConfirmed(c)
  PROVE  EffectsAccountedFor'
<1> USE DEF ghostVars, lockVars, Step, Answer
<1>1. dispatched \subseteq Dispatch /\ history \in Seq(Entry) BY DEF IInv, TypeOK
<1>2. /\ UNCHANGED <<dispatched, abandoned>> /\ pc \notin {"idle", "begin"}
  BY DEF AppendUserMessage, AppendBatch, ModelReplies, CloseSuperseded, CloseExpired,
         CloseDeclined, RecordConfirmed
<1>3. \A c, d \in Conf : Unclosed(c) /\ Unclosed(d) => c = d BY OwedOnce
<1>4. ASSUME NEW e \in Entry, history' = Append(history, e),
             \A m \in Msg, n \in Nat : Carried(m, n) => Recorded(m, n)'
      PROVE  EffectsAccountedFor'
  BY <1>1, <1>2, <1>4, RecordedKept, EffectsKept
<1>5. CASE AppendUserMessage
  <2>1. holder.msg \in Msg BY <1>5 DEF AppendUserMessage, IInv, PlaceInv
  <2>2. \A c \in Conf : ~Unclosed(c)
    BY <1>5, OwedOnce DEF AppendUserMessage, Unclosed, Resumable, InResolve
  <2>3. \A m, n : ~Carried(m, n) BY <1>5, <2>2 DEF AppendUserMessage, Carried
  <2>4. UserEntry(holder.msg) \in Entry BY <2>1, UserEntryType
  <2>5. QED BY <1>4, <1>5, <2>3, <2>4 DEF AppendUserMessage
<1>6. CASE AppendBatch \/ ModelReplies
  <2>1. InLoop BY <1>6 DEF AppendBatch, ModelReplies, InLoop
  <2>2. cur \in Turn /\ BatchEntry(cur) \in Entry /\ ReplyEntry(cur) \in Entry
    BY <2>1, EntryType DEF IInv, PlaceInv
  <2>3. \A c \in Conf : ~Unclosed(c) BY <2>1, OwedOnce
  <2>4. CASE ModelReplies
    <3>1. \A m, n : ~Carried(m, n) BY <2>3, <2>4 DEF ModelReplies, Carried
    <3>2. QED BY <1>4, <2>2, <2>4, <3>1 DEF ModelReplies
  <2>5. CASE AppendBatch
    <3>1. PICK e \in Entry : e = BatchEntry(cur) BY <2>2
    <3>2. e.kind = "batch" /\ e.msg = cur.msg /\ e.iter = cur.iter BY <3>1 DEF BatchEntry
    <3>3. history' = Append(history, e) BY <2>5, <3>1 DEF AppendBatch
    <3>4. Recorded(e.msg, e.iter)' BY <1>1, <3>2, <3>3, RecordedKept
    <3>5. \A m, n : Carried(m, n) => m = e.msg /\ n = e.iter BY <2>3, <3>2 DEF Carried
    <3>6. QED BY <1>4, <3>3, <3>4, <3>5
  <2>6. QED BY <1>6, <2>4, <2>5
<1>7. ASSUME NEW c \in Conf,
             CloseSuperseded(c) \/ CloseExpired(c) \/ CloseDeclined(c) \/ RecordConfirmed(c)
      PROVE  EffectsAccountedFor'
  <2>1. Unclosed(c) /\ pc # "batch"
    BY <1>7 DEF CloseSuperseded, CloseExpired, CloseDeclined, RecordConfirmed,
                Unclosed, Resumable, InResolve
  <2>2. PICK out \in Outcome : CloseSuspendedTurn(c, out)
    BY <1>7 DEF CloseSuperseded, CloseExpired, CloseDeclined, RecordConfirmed, Outcome
  <2>3. saved[c] \in Turn BY <2>1, OwedTypes
  <2>4. PICK e \in Entry : e = BatchEntry(Settle(saved[c], out)) BY <2>3, SettleType, EntryType
  <2>5. e.kind = "batch" /\ e.msg = saved[c].msg /\ e.iter = saved[c].iter
    BY <2>3, <2>4, SettleType DEF BatchEntry
  <2>6. history' = Append(history, e) BY <2>2, <2>4 DEF CloseSuspendedTurn
  <2>7. Recorded(e.msg, e.iter)' BY <1>1, <2>5, <2>6, RecordedKept
  <2>8. \A m, n : Carried(m, n) => m = e.msg /\ n = e.iter BY <1>3, <2>1, <2>5 DEF Carried
  <2>9. QED BY <1>4, <2>6, <2>7, <2>8
<1>8. QED BY <1>5, <1>6, <1>7

LEMMA EffectsStep ==
  ASSUME IInv, OneClosing, EffectsAccountedFor, [Next]_vars PROVE EffectsAccountedFor'
BY EffectsEnvironment, EffectsPlan, EffectsRows, EffectsConfirmed, EffectsAppended
DEF Next, HolderStep

--------------------------------------------------------------------------------
(* The window's taint.                                                         *)

LEMMA WindowPlanned ==
  ASSUME IInv, NEW b \in Batches, NEW s \in SummaryTaint, PlanBatch(b, s)
  PROVE  PlannedUnderWindow'
<1> SUFFICES ASSUME TaintMode = "window",
                    NEW i \in DOMAIN cur'.outs, cur'.outs[i] = "queued",
                    cur'.batch[i] \notin ReadOnly,
                    NEW k \in DOMAIN history', NEW j \in DOMAIN history'[k].batch
             PROVE  history'[k].batch[j] \notin Untrusted
  BY DEF PlannedUnderWindow
<1>1. cur \in Turn BY DEF PlanBatch, IInv, PlaceInv, InLoop
<1>2. cur'.outs = Plan(b, TaintNow(s)) /\ cur'.batch = b /\ history' = history
  BY <1>1 DEF PlanBatch, Turn, dbVars
<1>3. i \in DOMAIN b /\ Plan(b, TaintNow(s))[i] = "queued" BY <1>2 DEF Plan
<1>4. b[i] \in registry /\ ~Gated(b, i, TaintNow(s)) BY <1>3 DEF Plan
<1>5. ~TaintNow(s) BY <1>2, <1>4 DEF Gated, NeedsConfirm
<1>6. ~WindowTainted BY <1>5 DEF TaintNow
<1>7. QED BY <1>2, <1>6 DEF WindowTainted, UntrustedName

LEMMA WindowPlannedStep ==
  ASSUME IInv, PlannedUnderWindow, [Next]_vars PROVE PlannedUnderWindow'
<1> USE DEF dbVars, ghostVars, lockVars, Step, Answer
<1>1. ASSUME pc' # "batch" PROVE PlannedUnderWindow' BY <1>1 DEF PlannedUnderWindow
<1>2. ASSUME UNCHANGED <<pc, cur, history>> PROVE PlannedUnderWindow'
  BY <1>2 DEF PlannedUnderWindow
<1>3. ASSUME NEW i \in DOMAIN cur.outs,
             RunTool(i) \/ RejectArguments(i) \/ FinishTool(i, "ok") \/ FinishTool(i, "error")
      PROVE  PlannedUnderWindow'
  <2>1. pc = "batch" /\ cur \in Turn
    BY <1>3 DEF RunTool, RejectArguments, FinishTool, IInv, PlaceInv, InLoop
  <2>2. PICK out \in {"running", "error", "ok"} : cur'.outs = [cur.outs EXCEPT ![i] = out]
    BY <1>3, <2>1 DEF RunTool, RejectArguments, FinishTool, Turn
  <2>3. cur'.batch = cur.batch /\ history' = history
    <3>1. CASE RunTool(i) BY <2>1, <3>1 DEF RunTool, Turn
    <3>2. CASE RejectArguments(i) BY <2>1, <3>2 DEF RejectArguments, Turn
    <3>3. ASSUME NEW o, FinishTool(i, o) PROVE cur'.batch = cur.batch /\ history' = history
      BY <2>1, <3>3 DEF FinishTool, Turn
    <3>4. QED BY <1>3, <3>1, <3>2, <3>3
  <2>4. \A h \in DOMAIN cur'.outs :
          cur'.outs[h] = "queued" => h \in DOMAIN cur.outs /\ cur.outs[h] = "queued"
    <3>1. cur.outs \in Seq(Outcome) BY <2>1 DEF Turn
    <3>2. DOMAIN cur'.outs = DOMAIN cur.outs BY <2>2
    <3>3. cur'.outs[i] = out BY <2>2
    <3>4. \A h \in DOMAIN cur.outs : h # i => cur'.outs[h] = cur.outs[h] BY <2>2
    <3>5. QED BY <2>2, <3>2, <3>3, <3>4
  <2>5. QED BY <2>1, <2>3, <2>4 DEF PlannedUnderWindow
<1>4. CASE AcquireLock \/ Environment \/ UNCHANGED vars
  BY <1>1, <1>2, <1>4
  DEF AcquireLock, Environment, Deliver, ClickButton, Expire, CancelHolder, CancelWaiter, Restart,
      vars
<1>5. CASE DropDuplicate \/ AutoDeclinePending \/ AppendUserMessage \/ ModelReplies \/ ModelFails
           \/ AppendBatch
  BY <1>1, <1>5 DEF DropDuplicate, AutoDeclinePending, AppendUserMessage, ModelReplies, ModelFails,
                    AppendBatch
<1>6. ASSUME NEW c \in Conf,
             \/ CloseSuperseded(c) \/ Suspend(c) \/ AlreadyResolved(c) \/ RefuseStranger(c)
             \/ Decide(c) \/ CloseExpired(c) \/ CloseDeclined(c) \/ RunConfirmed(c)
             \/ CannotRunConfirmed(c) \/ FinishConfirmed(c, TRUE) \/ FinishConfirmed(c, FALSE)
             \/ RecordConfirmed(c)
      PROVE  PlannedUnderWindow'
  BY <1>1, <1>6 DEF CloseSuperseded, Suspend, AlreadyResolved, RefuseStranger, Decide, CloseExpired,
                    CloseDeclined, RunConfirmed, CannotRunConfirmed, FinishConfirmed,
                    RecordConfirmed, Resume
<1>7. QED BY <1>3, <1>4, <1>5, <1>6, WindowPlanned DEF Next, HolderStep

\* The rows before a turn's message never change.
LEMMA WindowKept ==
  ASSUME IInv, NoMutationUnderTaintedWindow, dispatched' \subseteq dispatched,
         \/ UNCHANGED history
         \/ \E e \in Entry : /\ history' = Append(history, e)
                             /\ \A m : e = UserEntry(m) => ~Said(m)
  PROVE  NoMutationUnderTaintedWindow'
<1>1. CASE UNCHANGED history BY <1>1 DEF NoMutationUnderTaintedWindow
<1>2. ASSUME NEW e \in Entry, history' = Append(history, e), \A m : e = UserEntry(m) => ~Said(m)
      PROVE  NoMutationUnderTaintedWindow'
  <2> SUFFICES ASSUME TaintMode = "window", NEW d \in dispatched,
                      NEW j \in DOMAIN history', NEW k \in DOMAIN history',
                      d.by = "model", d.tool \notin ReadOnly,
                      j < k, history'[k] = UserEntry(d.msg),
                      NEW i \in DOMAIN history'[j].batch
               PROVE  history'[j].batch[i] \notin Untrusted
    BY DEF NoMutationUnderTaintedWindow
  <2>1. PICK l \in Nat : /\ DOMAIN history = 1..l /\ DOMAIN history' = 1..l + 1
                         /\ \A h \in 1..l : history'[h] = history[h] /\ history[h] \in Entry
                         /\ history'[l + 1] = e
    BY <1>2, Appended DEF IInv, TypeOK
  <2>2. Said(d.msg) BY DEF IInv, SlotInv
  <2>3. k # l + 1 BY <1>2, <2>1, <2>2
  <2>4. j \in 1..l /\ k \in 1..l BY <2>1, <2>3
  <2>5. history[j] = history'[j] /\ history[k] = UserEntry(d.msg) BY <2>1, <2>4
  <2>6. QED BY <2>1, <2>4, <2>5 DEF NoMutationUnderTaintedWindow
<1>3. QED BY <1>1, <1>2

LEMMA WindowStep ==
  ASSUME IInv, PlannedUnderWindow, NoMutationUnderTaintedWindow, [Next]_vars
  PROVE  NoMutationUnderTaintedWindow'
<1> USE DEF dbVars, ghostVars, lockVars, Step, Answer
<1>1. CASE AcquireLock \/ Environment \/ UNCHANGED vars
  BY <1>1, WindowKept
  DEF AcquireLock, Environment, Deliver, ClickButton, Expire, CancelHolder, CancelWaiter, Restart,
      vars
<1>2. CASE DropDuplicate \/ AutoDeclinePending \/ ModelFails
           \/ \E b \in Batches, s \in SummaryTaint : PlanBatch(b, s)
  BY <1>2, WindowKept DEF DropDuplicate, AutoDeclinePending, ModelFails, PlanBatch
<1>3. CASE AppendUserMessage
  <2>1. holder.msg \in Msg /\ ~Said(holder.msg) BY <1>3 DEF AppendUserMessage, IInv, PlaceInv
  <2>2. PICK e \in Entry : e = UserEntry(holder.msg) BY <2>1, UserEntryType
  <2>3. \A m : e = UserEntry(m) => m = holder.msg
    <3>1. \A m : UserEntry(m).msg = m BY DEF UserEntry
    <3>2. QED BY <2>2, <3>1
  <2>4. QED BY <1>3, <2>1, <2>2, <2>3, WindowKept DEF AppendUserMessage
<1>4. CASE AppendBatch \/ ModelReplies
  <2>1. cur \in Turn BY <1>4 DEF AppendBatch, ModelReplies, IInv, PlaceInv, InLoop
  <2>2. PICK e \in Entry : history' = Append(history, e) /\ \A m : e # UserEntry(m)
    BY <1>4, <2>1, EntryType, BatchIsNotUser DEF AppendBatch, ModelReplies
  <2>3. QED BY <1>4, <2>2, WindowKept DEF AppendBatch, ModelReplies
<1>5. ASSUME NEW c \in Conf,
             CloseSuperseded(c) \/ CloseExpired(c) \/ CloseDeclined(c) \/ RecordConfirmed(c)
      PROVE  NoMutationUnderTaintedWindow'
  <2>1. Unclosed(c)
    BY <1>5 DEF CloseSuperseded, CloseExpired, CloseDeclined, RecordConfirmed,
                Unclosed, Resumable, InResolve
  <2>2. PICK out \in Outcome : CloseSuspendedTurn(c, out)
    BY <1>5 DEF CloseSuperseded, CloseExpired, CloseDeclined, RecordConfirmed, Outcome
  <2>3. saved[c] \in Turn BY <2>1, OwedTypes
  <2>4. PICK e \in Entry : history' = Append(history, e) /\ \A m : e # UserEntry(m)
    BY <2>2, <2>3, SettleType, EntryType, BatchIsNotUser DEF CloseSuspendedTurn
  <2>5. dispatched' = dispatched
    BY <1>5 DEF CloseSuperseded, CloseExpired, CloseDeclined, RecordConfirmed
  <2>6. QED BY <2>4, <2>5, WindowKept
<1>6. ASSUME NEW c \in Conf,
             \/ Suspend(c) \/ AlreadyResolved(c) \/ RefuseStranger(c) \/ Decide(c)
             \/ CannotRunConfirmed(c) \/ FinishConfirmed(c, TRUE) \/ FinishConfirmed(c, FALSE)
      PROVE  NoMutationUnderTaintedWindow'
  BY <1>6, WindowKept DEF Suspend, AlreadyResolved, RefuseStranger, Decide, CannotRunConfirmed,
                          FinishConfirmed
<1>7. ASSUME NEW c \in Conf, RunConfirmed(c) PROVE NoMutationUnderTaintedWindow'
  <2>1. history' = history /\ \A d \in dispatched' \ dispatched : d.by = "approval"
    BY <1>7 DEF RunConfirmed, Called
  <2>2. QED BY <2>1 DEF NoMutationUnderTaintedWindow
<1>8. ASSUME NEW i \in DOMAIN cur.outs,
             RejectArguments(i) \/ FinishTool(i, "ok") \/ FinishTool(i, "error")
      PROVE  NoMutationUnderTaintedWindow'
  BY <1>8, WindowKept DEF RejectArguments, FinishTool
<1>9. ASSUME NEW i \in DOMAIN cur.outs, RunTool(i) PROVE NoMutationUnderTaintedWindow'
  <2>1. history' = history /\ \A d \in dispatched' \ dispatched : d.tool = cur.batch[i]
    BY <1>9 DEF RunTool, Called
  <2>2. TaintMode = "window" /\ cur.batch[i] \notin ReadOnly =>
          \A k \in DOMAIN history : \A j \in DOMAIN history[k].batch :
            history[k].batch[j] \notin Untrusted
    BY <1>9 DEF RunTool, PlannedUnderWindow
  <2>3. QED BY <2>1, <2>2 DEF NoMutationUnderTaintedWindow
<1>10. QED BY <1>1, <1>2, <1>3, <1>4, <1>5, <1>6, <1>7, <1>8, <1>9 DEF Next, HolderStep

--------------------------------------------------------------------------------
(* The theorems about history. *)

LEMMA HistoryInvariant == Spec => []HistoryInv
<1>1. Init => HistoryInv
  BY EmptySeq
  DEF Init, HistoryInv, HistoryOK, UserEntriesOK, HistoryInTurnOrder, RecordedOnce, OneClosing,
      EffectsAccountedFor, PlannedUnderWindow, NoMutationUnderTaintedWindow, Owes, InLoop,
      Unclosed, Resumable, InResolve
<1>2. IInv /\ HistoryInv /\ [Next]_vars => HistoryInv'
  BY HistoryStep, OneClosingStep, EffectsStep, WindowPlannedStep, WindowStep DEF HistoryInv
<1>3. QED BY <1>1, <1>2, Invariance, PTL DEF Spec

\* History is a sequence of turns: what a later request appends for a suspended
\* turn still follows that turn's own message (_close_suspended_turn).
THEOREM TurnsInOrder == Spec => []HistoryInTurnOrder
<1>1. HistoryInv => HistoryInTurnOrder BY DEF HistoryInv, HistoryOK
<1>2. QED BY <1>1, HistoryInvariant, PTL

\* Neither a message that is delivered again nor a batch enters history twice.
THEOREM EntriesOnce == Spec => []RecordedOnce
<1>1. HistoryInv => RecordedOnce BY DEF HistoryInv, HistoryOK
<1>2. QED BY <1>1, HistoryInvariant, PTL

\* A call that was started is in history or on its way there, unless its turn was
\* cut short by a crash or a cancellation.
THEOREM EffectsReachHistory == Spec => []EffectsAccountedFor
<1>1. HistoryInv => EffectsAccountedFor BY DEF HistoryInv
<1>2. QED BY <1>1, HistoryInvariant, PTL

\* In taint mode "window" no mutation runs unapproved behind an untrusted call of
\* an earlier turn (_window_tainted).
THEOREM WindowGates == Spec => []NoMutationUnderTaintedWindow
<1>1. HistoryInv => NoMutationUnderTaintedWindow BY DEF HistoryInv
<1>2. QED BY <1>1, HistoryInvariant, PTL

--------------------------------------------------------------------------------
(* What a turn says of itself.                                                 *)

\* exec is true exactly when a tool of the turn has returned a result: in the
\* loop, in the row it is suspended in, and while its confirmation is resolved.
LoopProgress ==
  /\ cur.exec <=> cur.msg \in succeeded
  /\ \A i \in DOMAIN cur.outs : cur.outs[i] = "ok" => cur.exec
RowProgress(c) ==
  /\ saved[c].msg \in succeeded <=> saved[c].exec \/ pc = "ran ok"
  /\ HasSuccess(saved[c]) => saved[c].exec
ProgressInv ==
  /\ \A m \in succeeded : Said(m)
  /\ InLoop => LoopProgress
  /\ \A c \in Conf : Resumable(c) => RowProgress(c)

LEMMA SaidKept == ASSUME IInv, [Next]_vars, NEW m, Said(m) PROVE Said(m)'
<1> USE DEF dbVars, ghostVars, lockVars, Step, Answer
<1>1. ASSUME NEW e \in Entry, history' = Append(history, e) PROVE Said(m)'
  BY <1>1, AppendHistory DEF IInv, TypeOK
<1>2. ASSUME UNCHANGED history PROVE Said(m)' BY <1>2 DEF Said
<1>3. CASE AppendUserMessage
  <2>1. UserEntry(holder.msg) \in Entry
    BY <1>3, UserEntryType DEF AppendUserMessage, IInv, PlaceInv
  <2>2. QED BY <1>1, <1>3, <2>1 DEF AppendUserMessage
<1>4. CASE AppendBatch \/ ModelReplies
  <2>1. cur \in Turn BY <1>4 DEF AppendBatch, ModelReplies, IInv, PlaceInv, InLoop
  <2>2. QED BY <1>1, <1>4, <2>1, EntryType DEF AppendBatch, ModelReplies
<1>5. ASSUME NEW c \in Conf,
             CloseSuperseded(c) \/ CloseExpired(c) \/ CloseDeclined(c) \/ RecordConfirmed(c)
      PROVE  Said(m)'
  <2>1. Unclosed(c)
    BY <1>5 DEF CloseSuperseded, CloseExpired, CloseDeclined, RecordConfirmed,
                Unclosed, Resumable, InResolve
  <2>2. PICK out \in Outcome : CloseSuspendedTurn(c, out)
    BY <1>5 DEF CloseSuperseded, CloseExpired, CloseDeclined, RecordConfirmed, Outcome
  <2>3. saved[c] \in Turn BY <2>1, OwedTypes
  <2>4. QED BY <1>1, <2>2, <2>3, SettleType, EntryType DEF CloseSuspendedTurn
<1>6. CASE AcquireLock \/ Environment \/ UNCHANGED vars
  BY <1>2, <1>6
  DEF AcquireLock, Environment, Deliver, ClickButton, Expire, CancelHolder, CancelWaiter, Restart,
      vars
<1>7. CASE \/ DropDuplicate \/ AutoDeclinePending \/ ModelFails
           \/ \E b \in Batches, s \in SummaryTaint : PlanBatch(b, s)
           \/ \E i \in DOMAIN cur.outs : RunTool(i) \/ RejectArguments(i)
                                         \/ FinishTool(i, "ok") \/ FinishTool(i, "error")
  BY <1>2, <1>7 DEF DropDuplicate, AutoDeclinePending, ModelFails, PlanBatch, RunTool,
                    RejectArguments, FinishTool
<1>8. ASSUME NEW c \in Conf,
             \/ Suspend(c) \/ AlreadyResolved(c) \/ RefuseStranger(c) \/ Decide(c)
             \/ RunConfirmed(c) \/ CannotRunConfirmed(c)
             \/ FinishConfirmed(c, TRUE) \/ FinishConfirmed(c, FALSE)
      PROVE  Said(m)'
  BY <1>2, <1>8 DEF Suspend, AlreadyResolved, RefuseStranger, Decide, RunConfirmed,
                    CannotRunConfirmed, FinishConfirmed
<1>9. QED BY <1>3, <1>4, <1>5, <1>6, <1>7, <1>8 DEF Next, HolderStep

\* A step that adds no success, starts no loop and suspends no turn.
LEMMA ProgressFrame ==
  ASSUME IInv, ProgressInv, [Next]_vars, UNCHANGED <<saved, succeeded>>,
         ~InLoop' \/ UNCHANGED <<pc, cur>>,
         \A c \in Conf : Resumable(c)' => /\ Resumable(c)
                                          /\ pc' = "ran ok" <=> pc = "ran ok"
  PROVE  ProgressInv'
<1>1. \A m \in succeeded' : Said(m)' BY SaidKept DEF ProgressInv
<1>2. InLoop' => LoopProgress' BY DEF ProgressInv, InLoop, LoopProgress
<1>3. ASSUME NEW c \in Conf, Resumable(c)' PROVE RowProgress(c)'
  BY <1>3 DEF ProgressInv, RowProgress, HasSuccess
<1>4. QED BY <1>1, <1>2, <1>3 DEF ProgressInv

LEMMA ProgressReleased ==
  ASSUME IInv, ProgressInv, [Next]_vars, UNCHANGED <<status, saved, succeeded>>, pc' = "idle"
  PROVE  ProgressInv'
<1>1. \A c \in Conf : Resumable(c)' => Resumable(c) /\ pc \in {"idle", "begin"}
  BY DEF Resumable, InResolve, IInv, RowInv, Pending
<1>2. QED BY <1>1, ProgressFrame DEF InLoop

LEMMA ProgressEnvironment ==
  ASSUME IInv, ProgressInv, [Next]_vars,
         \/ AcquireLock \/ Environment \/ UNCHANGED vars
         \/ DropDuplicate \/ ModelReplies \/ ModelFails \/ AutoDeclinePending
         \/ \E c \in Conf : \/ AlreadyResolved(c) \/ RefuseStranger(c)
                            \/ CloseSuperseded(c) \/ CloseExpired(c)
  PROVE  ProgressInv'
<1> USE DEF dbVars, ghostVars, lockVars, Step, Answer
<1>1. CASE AcquireLock
  <2>1. pc = "idle" BY <1>1 DEF AcquireLock, IInv, PlaceInv
  <2>2. QED BY <1>1, <2>1, ProgressFrame DEF AcquireLock, InLoop, InResolve, Resumable
<1>2. CASE \/ \E m \in Msg : Deliver(m)
           \/ \E c \in Conf, u \in User, a \in BOOLEAN : ClickButton(c, u, a)
           \/ \E c \in Conf : Expire(c)
           \/ \E k \in DOMAIN queue : CancelWaiter(k)
           \/ UNCHANGED vars
  <2>1. UNCHANGED <<pc, cur, status, saved, holder, succeeded>>
    BY <1>2 DEF Deliver, ClickButton, Expire, CancelWaiter, vars
  <2>2. QED BY <2>1, ProgressFrame DEF Resumable, InResolve
<1>3. CASE CancelHolder \/ \E reg \in Registries : Restart(reg)
  BY <1>3, ProgressReleased DEF CancelHolder, Restart
<1>4. CASE DropDuplicate \/ ModelReplies \/ ModelFails
  BY <1>4, ProgressReleased DEF DropDuplicate, ModelReplies, ModelFails
<1>5. ASSUME NEW c \in Conf, AlreadyResolved(c) \/ RefuseStranger(c) \/ CloseExpired(c)
      PROVE  ProgressInv'
  BY <1>5, ProgressReleased DEF AlreadyResolved, RefuseStranger, CloseExpired
<1>6. CASE AutoDeclinePending
  <2>1. \A c \in Conf : ~Resumable(c)'
    BY <1>6 DEF AutoDeclinePending, Resumable, InResolve, Pending
  <2>2. QED BY <1>6, <2>1, ProgressFrame DEF AutoDeclinePending, InLoop
<1>7. ASSUME NEW c \in Conf, CloseSuperseded(c) PROVE ProgressInv'
  <2>1. pc = "closing" /\ UNCHANGED <<pc, cur, status, saved, holder, succeeded>>
    BY <1>7 DEF CloseSuperseded
  <2>2. QED BY <2>1, ProgressFrame DEF Resumable, InResolve
<1>8. QED BY <1>1, <1>2, <1>3, <1>4, <1>5, <1>6, <1>7 DEF Environment

\* A batch under way.
LEMMA ProgressBatch ==
  ASSUME IInv, ProgressInv, [Next]_vars,
         \/ \E b \in Batches, s \in SummaryTaint : PlanBatch(b, s)
         \/ \E i \in DOMAIN cur.outs : RunTool(i) \/ RejectArguments(i)
                                       \/ FinishTool(i, "ok") \/ FinishTool(i, "error")
  PROVE  ProgressInv'
<1> USE DEF dbVars, ghostVars, lockVars, Step
<1>1. /\ InLoop /\ cur \in Turn /\ pc' = "batch" /\ cur'.msg = cur.msg
      /\ UNCHANGED <<status, saved>> /\ LoopProgress
  BY BatchSame DEF ProgressInv
<1>2. \A c \in Conf : ~Resumable(c)'
  <2>1. \A c \in Conf : status[c] # "pending"
    BY <1>1 DEF InLoop, IInv, RowInv, Pending
  <2>2. QED BY <1>1, <2>1 DEF Resumable, InResolve
<1>3. Said(cur.msg) BY <1>1 DEF IInv, SlotInv, LoopSlots
<1>4. succeeded' \in {succeeded, succeeded \cup {cur.msg}}
  BY DEF PlanBatch, RunTool, RejectArguments, FinishTool
<1>5. \A m \in succeeded' : Said(m)' BY <1>3, <1>4, SaidKept DEF ProgressInv
<1>6. LoopProgress'
  <2>1. ASSUME NEW b \in Batches, NEW s \in SummaryTaint, PlanBatch(b, s) PROVE LoopProgress'
    <3>1. cur'.outs = Plan(b, TaintNow(s)) /\ cur'.exec = cur.exec /\ succeeded' = succeeded
      BY <1>1, <2>1 DEF PlanBatch, Turn
    <3>2. \A i \in DOMAIN cur'.outs : cur'.outs[i] # "ok" BY <3>1 DEF Plan
    <3>3. QED BY <1>1, <3>1, <3>2 DEF LoopProgress
  <2>2. ASSUME NEW i \in DOMAIN cur.outs, NEW out \in {"running", "error", "ok"},
               cur'.outs = [cur.outs EXCEPT ![i] = out],
               cur'.exec = (cur.exec \/ out = "ok"),
               succeeded' = IF out = "ok" THEN succeeded \cup {cur.msg} ELSE succeeded
        PROVE  LoopProgress'
    <3>1. ASSUME NEW h \in DOMAIN cur'.outs, cur'.outs[h] = "ok" PROVE cur'.exec
      <4>1. h \in DOMAIN cur.outs /\ (h # i => cur'.outs[h] = cur.outs[h]) BY <2>2
      <4>2. CASE h = i BY <2>2, <3>1, <4>2
      <4>3. CASE h # i BY <1>1, <2>2, <3>1, <4>1, <4>3 DEF LoopProgress
      <4>4. QED BY <4>2, <4>3
    <3>2. cur'.exec <=> cur'.msg \in succeeded'
      <4>1. CASE out = "ok" BY <1>1, <2>2, <4>1
      <4>2. CASE out # "ok" BY <1>1, <2>2, <4>2 DEF LoopProgress
      <4>3. QED BY <4>1, <4>2
    <3>3. QED BY <3>1, <3>2 DEF LoopProgress
  <2>3. ASSUME NEW i \in DOMAIN cur.outs, RunTool(i) PROVE LoopProgress'
    <3>1. /\ cur'.outs = [cur.outs EXCEPT ![i] = "running"] /\ cur'.exec = cur.exec
          /\ succeeded' = succeeded
      BY <1>1, <2>3 DEF RunTool, Turn
    <3>2. PICK out \in {"running", "error", "ok"} : out = "running" OBVIOUS
    <3>3. cur'.outs = [cur.outs EXCEPT ![i] = out] BY <3>1, <3>2
    <3>4. cur'.exec = (cur.exec \/ out = "ok") BY <1>1, <3>1, <3>2 DEF Turn
    <3>5. succeeded' = IF out = "ok" THEN succeeded \cup {cur.msg} ELSE succeeded
      BY <3>1, <3>2
    <3>6. QED BY <3>3, <3>4, <3>5, <2>2
  <2>4. ASSUME NEW i \in DOMAIN cur.outs, RejectArguments(i) PROVE LoopProgress'
    <3>1. /\ cur'.outs = [cur.outs EXCEPT ![i] = "error"] /\ cur'.exec = cur.exec
          /\ succeeded' = succeeded
      BY <1>1, <2>4 DEF RejectArguments, Turn
    <3>2. PICK out \in {"running", "error", "ok"} : out = "error" OBVIOUS
    <3>3. cur'.outs = [cur.outs EXCEPT ![i] = out] BY <3>1, <3>2
    <3>4. cur'.exec = (cur.exec \/ out = "ok") BY <1>1, <3>1, <3>2 DEF Turn
    <3>5. succeeded' = IF out = "ok" THEN succeeded \cup {cur.msg} ELSE succeeded
      BY <3>1, <3>2
    <3>6. QED BY <3>3, <3>4, <3>5, <2>2
  <2>5. ASSUME NEW i \in DOMAIN cur.outs, NEW out \in {"ok", "error"}, FinishTool(i, out)
        PROVE  LoopProgress'
    <3>1. /\ cur'.outs = [cur.outs EXCEPT ![i] = out] /\ cur'.exec = (cur.exec \/ out = "ok")
          /\ succeeded' = IF out = "ok" THEN succeeded \cup {cur.msg} ELSE succeeded
      BY <1>1, <2>5 DEF FinishTool, Turn
    <3>2. QED BY <3>1, <2>2
  <2>6. QED BY <2>1, <2>3, <2>4, <2>5
<1>7. QED BY <1>2, <1>5, <1>6 DEF ProgressInv

\* A loop that starts or goes on.
LEMMA ProgressLoop ==
  ASSUME IInv, ProgressInv, [Next]_vars, AppendUserMessage \/ AppendBatch
  PROVE  ProgressInv'
<1> USE DEF dbVars, ghostVars, lockVars, Step
<1>1. pc' = "model" /\ pc \notin {"idle", "begin"} /\ UNCHANGED <<status, saved, succeeded>>
  BY DEF AppendUserMessage, AppendBatch
<1>2. \A c \in Conf : ~Resumable(c)'
  BY <1>1 DEF Resumable, InResolve, IInv, RowInv, Pending
<1>3. \A m \in succeeded' : Said(m)' BY <1>1, SaidKept DEF ProgressInv
<1>4. CASE AppendUserMessage
  <2>1. ~Said(holder.msg) BY <1>4 DEF AppendUserMessage, IInv, PlaceInv
  <2>2. cur' = NewTurn(holder.msg) BY <1>4 DEF AppendUserMessage
  <2>3. ~cur'.exec /\ cur'.msg = holder.msg /\ cur'.outs = <<>> BY <2>2 DEF NewTurn
  <2>4. holder.msg \notin succeeded BY <2>1 DEF ProgressInv
  <2>5. LoopProgress' BY <1>1, <2>3, <2>4 DEF LoopProgress
  <2>6. QED BY <1>2, <1>3, <2>5 DEF ProgressInv
<1>5. CASE AppendBatch
  <2>1. cur \in Turn /\ LoopProgress
    BY <1>5 DEF AppendBatch, InLoop, IInv, PlaceInv, ProgressInv
  <2>2. cur'.exec = cur.exec /\ cur'.msg = cur.msg /\ cur'.outs = <<>>
    BY <1>5, <2>1 DEF AppendBatch, Turn
  <2>3. LoopProgress' BY <1>1, <2>1, <2>2 DEF LoopProgress
  <2>4. QED BY <1>2, <1>3, <2>3 DEF ProgressInv
<1>6. QED BY <1>4, <1>5

LEMMA ProgressSuspend ==
  ASSUME IInv, ProgressInv, [Next]_vars, NEW c \in Conf, Suspend(c) PROVE ProgressInv'
<1>1. pc = "batch" /\ LoopProgress BY DEF Suspend, ProgressInv, InLoop
<1>2. /\ pc' = "idle" /\ succeeded' = succeeded /\ saved'[c] = cur
      /\ \A e \in Conf : e # c => status'[e] = status[e]
  BY DEF Suspend, Answer, ghostVars, IInv, TypeOK
<1>3. \A e \in Conf : Resumable(e)' => e = c
  BY <1>1, <1>2 DEF Resumable, InResolve, IInv, RowInv, Pending
<1>4. \A m \in succeeded' : Said(m)' BY <1>2, SaidKept DEF ProgressInv
<1>5. RowProgress(c)' BY <1>1, <1>2 DEF LoopProgress, RowProgress, HasSuccess
<1>6. QED BY <1>2, <1>3, <1>4, <1>5 DEF ProgressInv, InLoop

LEMMA ProgressResolve ==
  ASSUME IInv, ProgressInv, [Next]_vars, NEW c \in Conf,
         \/ Decide(c) \/ RunConfirmed(c) \/ CannotRunConfirmed(c)
         \/ FinishConfirmed(c, TRUE) \/ FinishConfirmed(c, FALSE)
  PROVE  ProgressInv'
<1> USE DEF dbVars, ghostVars, lockVars, Step
<1>1. CASE Decide(c)
  <2>1. /\ pc = "begin" /\ pc' \in {"approved", "expired", "declined"} /\ status[c] = "pending"
        /\ holder.conf = c /\ UNCHANGED <<saved, holder, succeeded>>
    BY <1>1 DEF Decide, Resolving, Actionable
  <2>2. \A e \in Conf : e # c => status'[e] = status[e] BY <1>1 DEF Decide, IInv, TypeOK
  <2>3. \A e \in Conf : Resumable(e)' => Resumable(e)
    BY <2>1, <2>2 DEF Resumable, InResolve
  <2>4. QED BY <2>1, <2>3, ProgressFrame DEF InLoop
<1>2. CASE RunConfirmed(c) \/ CannotRunConfirmed(c) \/ FinishConfirmed(c, FALSE)
  <2>1. /\ InResolve /\ InResolve' /\ pc # "ran ok" /\ pc' # "ran ok"
        /\ UNCHANGED <<saved, status, holder, succeeded>>
    BY <1>2 DEF RunConfirmed, CannotRunConfirmed, FinishConfirmed, InResolve
  <2>2. QED BY <2>1, ProgressFrame DEF Resumable, InResolve, InLoop
<1>3. CASE FinishConfirmed(c, TRUE)
  <2>1. /\ InResolve /\ pc' = "ran ok" /\ holder.conf = c
        /\ succeeded' = succeeded \cup {saved[c].msg} /\ UNCHANGED <<saved, status, holder>>
    BY <1>3 DEF FinishConfirmed, InResolve
  <2>2. Said(saved[c].msg) /\ Resumable(c) BY <2>1, ResolveFacts DEF Resumable
  <2>3. \A e \in Conf : Resumable(e)' => e = c
    BY <2>1 DEF Resumable, InResolve, IInv, RowInv, Pending
  <2>4. \A m \in succeeded' : Said(m)' BY <2>1, <2>2, SaidKept DEF ProgressInv
  <2>5. RowProgress(c)' BY <2>1, <2>2 DEF ProgressInv, RowProgress, HasSuccess
  <2>6. QED BY <2>1, <2>3, <2>4, <2>5 DEF ProgressInv, InLoop
<1>4. QED BY <1>1, <1>2, <1>3

\* The resumed loop is honest about what ran before and what was approved.
LEMMA ProgressResumed ==
  ASSUME IInv, ProgressInv, [Next]_vars, NEW c \in Conf, CloseDeclined(c) \/ RecordConfirmed(c)
  PROVE  ProgressInv'
<1> USE DEF dbVars, ghostVars, lockVars, Step
<1>1. /\ InResolve /\ holder.conf = c /\ pc' = "model" /\ UNCHANGED <<saved, status, succeeded>>
  BY DEF CloseDeclined, RecordConfirmed, Resume, InResolve
<1>2. saved[c] \in Turn /\ RowProgress(c)
  BY <1>1, ResolveFacts DEF ProgressInv, Resumable
<1>3. \A e \in Conf : ~Resumable(e)'
  BY <1>1 DEF Resumable, InResolve, IInv, RowInv, Pending
<1>4. \A m \in succeeded' : Said(m)' BY <1>1, SaidKept DEF ProgressInv
<1>5. PICK taint, ok \in BOOLEAN : Resume(c, taint, ok) /\ (ok <=> pc = "ran ok")
  <2>1. CASE CloseDeclined(c)
    <3>1. Resume(c, FALSE, FALSE) /\ pc # "ran ok" BY <2>1 DEF CloseDeclined
    <3>2. QED BY <3>1
  <2>2. CASE RecordConfirmed(c)
    <3>1. PICK ok \in BOOLEAN : ok = (pc = "ran ok") OBVIOUS
    <3>2. Resume(c, UntrustedName(PendingTool(c)), ok) BY <2>2, <3>1 DEF RecordConfirmed
    <3>3. UntrustedName(PendingTool(c)) \in BOOLEAN BY DEF UntrustedName
    <3>4. QED BY <3>1, <3>2, <3>3
  <2>3. QED BY <2>1, <2>2
<1>6. /\ cur'.exec = (saved[c].exec \/ HasSuccess(saved[c]) \/ ok)
      /\ cur'.msg = saved[c].msg /\ cur'.outs = <<>>
  BY <1>2, <1>5 DEF Resume, Turn
<1>7. LoopProgress'
  <2>1. cur'.exec <=> saved[c].exec \/ pc = "ran ok" BY <1>2, <1>5, <1>6 DEF RowProgress
  <2>2. cur'.exec <=> cur'.msg \in succeeded' BY <1>1, <1>2, <1>6, <2>1 DEF RowProgress
  <2>3. QED BY <1>6, <2>2 DEF LoopProgress
<1>8. QED BY <1>3, <1>4, <1>7 DEF ProgressInv

LEMMA ProgressStep == ASSUME IInv, ProgressInv, [Next]_vars PROVE ProgressInv'
BY ProgressEnvironment, ProgressBatch, ProgressLoop, ProgressSuspend, ProgressResolve,
   ProgressResumed
DEF Next, HolderStep

LEMMA ProgressInvariant == Spec => []ProgressInv
<1>1. Init => ProgressInv BY DEF Init, ProgressInv, InLoop, InResolve, Resumable
<1>2. IInv /\ ProgressInv /\ [Next]_vars => ProgressInv' BY ProgressStep
<1>3. QED BY <1>1, <1>2, Invariance, PTL DEF Spec

\* Nothing is answered before the request ends.
ReplyInv == pc # "idle" => reply = "none"

LEMMA ReplyStep ==
  ASSUME [Next]_vars
  PROVE  \/ pc' = "idle" \/ reply' = "none" \/ UNCHANGED <<pc, reply>>
         \/ reply' = reply /\ pc # "idle"
<1> USE DEF Step, Answer
<1>1. CASE AcquireLock \/ Environment \/ UNCHANGED vars
  BY <1>1 DEF AcquireLock, Environment, Deliver, ClickButton, Expire, CancelHolder, CancelWaiter,
              Restart, vars
<1>2. CASE DropDuplicate \/ ModelReplies \/ ModelFails
  BY <1>2 DEF DropDuplicate, ModelReplies, ModelFails
<1>3. CASE AutoDeclinePending \/ AppendUserMessage \/ AppendBatch
  BY <1>3 DEF AutoDeclinePending, AppendUserMessage, AppendBatch
<1>4. CASE \/ \E b \in Batches, s \in SummaryTaint : PlanBatch(b, s)
           \/ \E i \in DOMAIN cur.outs : RunTool(i) \/ RejectArguments(i)
                                         \/ FinishTool(i, "ok") \/ FinishTool(i, "error")
  BY <1>4 DEF PlanBatch, RunTool, RejectArguments, FinishTool
<1>5. ASSUME NEW c \in Conf, AlreadyResolved(c) \/ RefuseStranger(c) \/ CloseExpired(c) \/ Suspend(c)
      PROVE  pc' = "idle"
  BY <1>5 DEF AlreadyResolved, RefuseStranger, CloseExpired, Suspend
<1>6. ASSUME NEW c \in Conf,
             \/ CloseSuperseded(c) \/ Decide(c) \/ CloseDeclined(c) \/ RunConfirmed(c)
             \/ CannotRunConfirmed(c) \/ FinishConfirmed(c, TRUE) \/ FinishConfirmed(c, FALSE)
             \/ RecordConfirmed(c)
      PROVE  reply' = reply /\ pc # "idle"
  BY <1>6 DEF CloseSuperseded, Decide, Resolving, CloseDeclined, RunConfirmed, CannotRunConfirmed,
              FinishConfirmed, RecordConfirmed, Resume, lockVars
<1>7. QED BY <1>1, <1>2, <1>3, <1>4, <1>5, <1>6 DEF Next, HolderStep

\* A turn that ends without a summary says that it completed actions exactly when
\* one of its tools did, before or after a suspension (executed_any).
THEOREM FailuresHonest == Spec => HonestFailure
<1>1. Init => ReplyInv BY DEF Init, ReplyInv
<1>2. ReplyInv /\ [Next]_vars => ReplyInv' BY ReplyStep DEF ReplyInv
<1>3. ASSUME ProgressInv, ReplyInv, [Next]_vars, pc = "model",
             reply' \in {"failed", "failed after actions"}
      PROVE  reply' = "failed after actions" <=> cur.msg \in succeeded
  <2>1. LoopProgress BY <1>3 DEF ProgressInv, InLoop
  <2>2. reply = "none" BY <1>3 DEF ReplyInv
  <2>3. ModelFails
    <3>1. CASE AcquireLock \/ Environment \/ UNCHANGED vars
      BY <1>3, <2>2, <3>1
      DEF AcquireLock, Environment, Deliver, ClickButton, Expire, CancelHolder, CancelWaiter,
          Restart, Answer, vars
    <3>2. CASE HolderStep
      BY <1>3, <2>2, <3>2
      DEF HolderStep, DropDuplicate, AutoDeclinePending, AppendUserMessage, CloseSuperseded,
          ModelReplies, PlanBatch, AppendBatch, Suspend, AlreadyResolved, RefuseStranger, Decide,
          Resolving, CloseExpired, CloseDeclined, RunConfirmed, CannotRunConfirmed,
          FinishConfirmed, RecordConfirmed, Answer, Step
    <3>3. QED BY <1>3, <3>1, <3>2 DEF Next
  <2>4. reply' = IF cur.exec THEN "failed after actions" ELSE "failed"
    BY <2>3 DEF ModelFails, Answer
  <2>5. QED BY <2>1, <2>4 DEF LoopProgress
<1>4. ProgressInv /\ ReplyInv /\ [Next]_vars =>
        [pc = "model" /\ reply' \in {"failed", "failed after actions"} =>
           (reply' = "failed after actions" <=> cur.msg \in succeeded)]_vars
  BY <1>3
<1>5. QED BY <1>1, <1>2, <1>4, ProgressInvariant, PTL DEF Spec, HonestFailure

\* The retry of a message whose turn waits on a confirmation is recognised before
\* anything is declined (handle's duplicate check).
THEOREM RetriesKeepRows == Spec => RetryKeepsConfirmation
<1>1. ASSUME IInv, [Next]_vars, NEW c \in Conf, status[c] = "pending", status'[c] # "pending"
      PROVE  holder # Handle(saved[c].msg)
  <2>1. Said(saved[c].msg) BY <1>1 DEF IInv, RowInv
  <2>2. AutoDeclinePending \/ (pc = "begin" /\ holder.kind = "resolve")
    <3>1. status' # status BY <1>1
    <3>2. ASSUME NEW d \in Conf, Suspend(d) PROVE FALSE
      <4>1. status'[c] = status[c] BY <1>1, <3>2 DEF Suspend, IInv, TypeOK
      <4>2. QED BY <1>1, <4>1
    <3>3. CASE AcquireLock \/ Environment
      BY <3>1, <3>3
      DEF AcquireLock, Environment, Deliver, ClickButton, Expire, CancelHolder, CancelWaiter,
          Restart, dbVars
    <3>4. CASE HolderStep
      BY <3>1, <3>2, <3>4
      DEF HolderStep, DropDuplicate, AppendUserMessage, CloseSuperseded, ModelReplies, ModelFails,
          PlanBatch, RunTool, RejectArguments, FinishTool, AppendBatch, AlreadyResolved,
          RefuseStranger, Decide, Resolving, CloseExpired, CloseDeclined, RunConfirmed,
          CannotRunConfirmed, FinishConfirmed, RecordConfirmed, dbVars
    <3>5. QED BY <1>1, <3>1, <3>3, <3>4 DEF Next, vars
  <2>3. CASE AutoDeclinePending
    BY <2>1, <2>3 DEF AutoDeclinePending, Handle
  <2>4. CASE pc = "begin" /\ holder.kind = "resolve" BY <2>4 DEF Handle
  <2>5. QED BY <2>2, <2>3, <2>4
<1>2. IInv /\ [Next]_vars =>
        [\A c \in Conf :
           status[c] = "pending" /\ status'[c] # "pending" =>
             holder # Handle(saved[c].msg)]_vars
  BY <1>1
<1>3. QED BY <1>2, Invariance, PTL DEF Spec, RetryKeepsConfirmation

===============================================================================
