------------------------------ MODULE HomeActions ------------------------------
(***************************************************************************)
(* Actions an operator starts by a button: /home digests and their         *)
(* single-use tokens, taps, the web endpoint, Runtime.run_action with its  *)
(* deadline and its activity row, and the habits tick as the tool behind   *)
(* a button.  Telegram's handlers run one after the other, web requests    *)
(* beside them.  Callers at the doors of Limiters come in between.         *)
(***************************************************************************)
EXTENDS Limiters

CONSTANTS
  User,      \* allow-listed Telegram users
  Telegram,  \* the handler of Telegram updates
  Request,   \* web requests that may be in progress at once
  Digest,    \* the actions a /home digest offers, in order
  TokenCap,  \* _MAX_ACTION_TOKENS
  TokenTTL,  \* _ACTION_TOKEN_TTL
  DayLength  \* clock units of a local day

ASSUME HomeAssumption ==
  /\ Telegram \notin Request
  /\ TokenCap \in Nat \ {0}
  /\ TokenTTL \in Nat
  /\ DayLength \in Nat \ {0}
  /\ Digest \in Seq({"tick", "undo"})

VARIABLES
  issued,  \* every token ever issued: owner, action and instant
  tokens,  \* _ActionTokens._entries, oldest first
  shown,   \* tokens whose button was delivered
  job,     \* what each handler is doing
  ticks,   \* rows of the tick table, by day
  undone   \* days whose tick an undo has deleted

homeVars == <<issued, tokens, shown, job, ticks, undone>>
vars == <<limiterVars, homeVars>>

Action == {"tick", "undo"}
Slot == {Telegram} \cup Request
Today == now \div DayLength
Days == 0..(MaxTime \div DayLength)

Idle == [phase |-> "idle"]

Init ==
  /\ LimitersInit
  /\ issued = <<>>
  /\ tokens = <<>>
  /\ shown = {}
  /\ job = [s \in Slot |-> Idle]
  /\ ticks = [d \in Days |-> 0]
  /\ undone = {}

At(s, phase) == job[s].phase = phase

-----------------------------------------------------------------------------
(* /home and the tokens of its buttons *)

Home(u) ==
  /\ Event
  /\ At(Telegram, "idle")
  /\ job' = [job EXCEPT ![Telegram] = [phase |-> "home", user |-> u]]
  /\ UNCHANGED <<now, answered, failures, greeted, attempts, issued, tokens, shown, ticks, undone>>

NewTokens == (Len(issued) + 1)..(Len(issued) + Len(Digest))

Issue(u) ==
  /\ issued' = issued \o [i \in DOMAIN Digest |-> [owner |-> u, action |-> Digest[i], at |-> now]]
  /\ tokens' = Capped(tokens \o [i \in DOMAIN Digest |-> Len(issued) + i], TokenCap)

\* A message Telegram rejects goes out without its buttons; their tokens stay.
SendDigest ==
  /\ At(Telegram, "home")
  /\ Issue(job[Telegram].user)
  /\ \/ shown' = shown \cup NewTokens /\ UNCHANGED events
     \/ Event /\ UNCHANGED shown
  /\ job' = [job EXCEPT ![Telegram] = Idle]
  /\ UNCHANGED <<now, answered, failures, greeted, attempts, ticks, undone>>

Expired(t) == now > issued[t].at + TokenTTL
Taken(t) == RemoveAt(tokens, CHOOSE i \in DOMAIN tokens : tokens[i] = t)

-----------------------------------------------------------------------------
(* Runtime.run_action *)

Begun(action, token) ==
  [phase |-> "select", action |-> action, token |-> token, ran |-> TRUE, day |-> Today, result |-> "none", row |-> "none"]

\* Slip: refused arguments leave no row.
Malformed_Unlogged(action, token) ==
  [Begun(action, token) EXCEPT !.phase = "answer", !.ran = FALSE, !.result = "refused"]

\* Arguments that do not coerce leave a row, an unknown name does not.
Malformed(action, token) ==
  [Begun(action, token) EXCEPT !.phase = "log", !.ran = FALSE, !.result = "refused"]

Unknown == [Begun("ghost", 0) EXCEPT !.phase = "answer", !.ran = FALSE, !.result = "unknown"]

RunAction(s, action, token) ==
  job' = [job EXCEPT ![s] = Begun(action, token)]

\* Slip: the token is taken before its owner is compared.
Tap_TakesAnyones(u, t) ==
  /\ Event
  /\ At(Telegram, "idle")
  /\ t \in shown
  /\ IF t \in Range(tokens)
     THEN /\ tokens' = Taken(t)
          /\ IF Expired(t) \/ issued[t].owner # u THEN UNCHANGED job
             ELSE RunAction(Telegram, issued[t].action, t)
     ELSE UNCHANGED <<tokens, job>>
  /\ UNCHANGED <<now, answered, failures, greeted, attempts, issued, shown, ticks, undone>>

\* A token that is unknown or another user's is left alone; an expired one is
\* taken and not run.
Tap(u, t) ==
  /\ Event
  /\ At(Telegram, "idle")
  /\ t \in shown
  /\ IF t \in Range(tokens) /\ issued[t].owner = u
     THEN /\ tokens' = Taken(t)
          /\ IF Expired(t) THEN UNCHANGED job ELSE RunAction(Telegram, issued[t].action, t)
     ELSE UNCHANGED <<tokens, job>>
  /\ UNCHANGED <<now, answered, failures, greeted, attempts, issued, shown, ticks, undone>>

WebAction(r) ==
  /\ Event
  /\ At(r, "idle")
  /\ \/ \E action \in Action : RunAction(r, action, 0)
     \/ \E action \in Action : job' = [job EXCEPT ![r] = Malformed(action, 0)]
     \/ job' = [job EXCEPT ![r] = Unknown]
  /\ UNCHANGED <<now, answered, failures, greeted, attempts, issued, tokens, shown, ticks, undone>>

Ends(s, result) == job' = [job EXCEPT ![s].phase = "log", ![s].result = result]

\* tick_habit and untick_habit read first: a day that is ticked already, or has
\* no tick to undo, is answered at once.
SelectTick(s) ==
  /\ At(s, "select")
  /\ LET settled == (ticks[job[s].day] > 0) = (job[s].action = "tick")
     IN job' = [job EXCEPT ![s].phase = IF settled THEN "log" ELSE "write",
                           ![s].result = IF settled THEN "ok" ELSE "none"]
  /\ UNCHANGED <<limiterVars, issued, tokens, shown, ticks, undone>>

\* Slip: no unique constraint.
Inserted_Unguarded(day) == [ticks EXCEPT ![day] = @ + 1]

\* The unique constraint stands behind the insert.
Inserted(day) == IF ticks[day] > 0 THEN ticks ELSE [ticks EXCEPT ![day] = @ + 1]

Write(s) ==
  LET day == job[s].day IN
  IF job[s].action = "tick" THEN ticks' = Inserted(day) /\ UNCHANGED undone
  ELSE ticks' = [ticks EXCEPT ![day] = 0] /\ undone' = undone \cup {day}

WriteTick(s) ==
  /\ At(s, "write")
  /\ Write(s)
  /\ Ends(s, "ok")
  /\ UNCHANGED <<limiterVars, issued, tokens, shown>>

InTool(s) == job[s].phase \in {"select", "write"}

\* Whatever the tool raises, a TimeoutError or a ValueError of its own included.
ToolRaises(s) ==
  /\ Event
  /\ InTool(s)
  /\ Ends(s, "raised")
  /\ UNCHANGED <<now, answered, failures, greeted, attempts, issued, tokens, shown, ticks, undone>>

\* The deadline may fall before the commit or after it.
ToolTimesOut(s) ==
  /\ Event
  /\ InTool(s)
  /\ Ends(s, "expired")
  /\ \/ UNCHANGED <<ticks, undone>>
     \/ At(s, "write") /\ Write(s)
  /\ UNCHANGED <<now, answered, failures, greeted, attempts, issued, tokens, shown>>

\* One row, whose status is what became of the tool.
LogActivity(s) ==
  /\ At(s, "log")
  /\ job' = [job EXCEPT ![s].phase = "answer",
                        ![s].row = IF job[s].result = "ok" THEN "ok" ELSE "error"]
  /\ UNCHANGED <<limiterVars, issued, tokens, shown, ticks, undone>>

\* The insert fails, and its error is what the caller hears.
LogFails(s) ==
  /\ Event
  /\ At(s, "log")
  /\ job' = [job EXCEPT ![s].phase = "answer", ![s].row = "refused"]
  /\ UNCHANGED <<now, answered, failures, greeted, attempts, issued, tokens, shown, ticks, undone>>

\* What the caller is told: Done or 200, no such action or 404, 400, Failed or 502.
Told(s) ==
  IF job[s].row = "refused" THEN "failed"
  ELSE CASE job[s].result = "ok" -> "done"
         [] job[s].result = "unknown" -> "no such action"
         [] job[s].result = "refused" /\ s # Telegram -> "bad arguments"
         [] OTHER -> "failed"

Answer(s) ==
  /\ At(s, "answer")
  /\ job' = [job EXCEPT ![s] = Idle]
  /\ UNCHANGED <<limiterVars, issued, tokens, shown, ticks, undone>>

\* The shutdown cancels the handler at an await; nothing is logged.
CancelAction(s) ==
  /\ Event
  /\ ~At(s, "idle")
  /\ job' = [job EXCEPT ![s] = Idle]
  /\ UNCHANGED <<now, answered, failures, greeted, attempts, issued, tokens, shown, ticks, undone>>

TimePasses == Tick /\ UNCHANGED <<events, answered, failures, greeted, attempts, homeVars>>

Next ==
  \/ \E u \in User : Home(u) \/ \E t \in shown : Tap(u, t)
  \/ SendDigest
  \/ \E r \in Request : WebAction(r)
  \/ \E s \in Slot :
       \/ SelectTick(s) \/ WriteTick(s) \/ ToolRaises(s) \/ ToolTimesOut(s)
       \/ LogActivity(s) \/ LogFails(s) \/ Answer(s) \/ CancelAction(s)
  \/ LimitersNext /\ UNCHANGED homeVars
  \/ TimePasses

Spec == Init /\ [][Next]_vars

-----------------------------------------------------------------------------

TypeOK ==
  /\ Range(issued) \subseteq [owner : User, action : Action, at : 0..MaxTime]
  /\ Range(tokens) \subseteq DOMAIN issued
  /\ shown \subseteq DOMAIN issued
  /\ ticks \in [Days -> Nat]
  /\ undone \subseteq Days
  /\ \A s \in Slot : job[s].phase \in {"idle", "home", "select", "write", "log", "answer"}

\* A button runs its action at most once, for the user it was made for, while
\* it is fresh; and nothing else takes it from that user: no other user's tap,
\* only its age or as many newer buttons as the table holds.
Starts(t) ==
  /\ job'[Telegram] # job[Telegram]
  /\ InTool(Telegram)'
  /\ ~InTool(Telegram)
  /\ job'[Telegram].token = t

ButtonsHonoured ==
  [][/\ \A t \in DOMAIN issued :
          Starts(t) => t \in Range(tokens) \ Range(tokens') /\ ~Expired(t)
     /\ \A t \in Range(tokens) \ Range(tokens') :
          \/ Starts(t) \/ Expired(t)
          \/ Cardinality({n \in DOMAIN issued' : n > t}) >= TokenCap]_vars

\* A habit is ticked once a day however its ticks race, and an answer that says
\* it is ticked is true unless an undo has come in between.
TickedOnce ==
  /\ \A d \in Days : ticks[d] <= 1
  /\ \A s \in Slot :
       job[s].phase \in {"log", "answer"} /\ job[s].action = "tick" /\ job[s].result = "ok"
       => ticks[job[s].day] = 1 \/ job[s].day \in undone

\* Every end of an action past the name lookup has a row that says how it ended,
\* unless the insert itself was refused; a caller told that there is no such
\* action, or that its arguments are wrong, knows that nothing ran, and one told
\* it is done that it did.
RowsAccountFor ==
  \A s \in Slot : At(s, "answer") =>
    /\ job[s].result # "unknown" => job[s].row # "none"
    /\ job[s].row = "ok" => job[s].result = "ok" /\ job[s].ran
    /\ Told(s) \in {"no such action", "bad arguments"} => ~job[s].ran
    /\ Told(s) = "done" => job[s].row = "ok"

===============================================================================
