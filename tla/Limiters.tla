------------------------------- MODULE Limiters -------------------------------
(***************************************************************************)
(* The two doors that count: Telegram answers a stranger once per cooldown,*)
(* the web login refuses a client after too many failures in a window.     *)
(* Both remember a bounded number of peers, the one heard from last at the *)
(* end, and forget the first.                                              *)
(***************************************************************************)
EXTENDS Naturals, Sequences, FiniteSets, SequencesExt

CONSTANTS
  Stranger,     \* Telegram users nobody allow-listed
  Client,       \* addresses that log in
  Cooldown,     \* _STRANGER_COOLDOWN
  StrangerCap,  \* _MAX_STRANGER_ENTRIES
  Window,       \* WINDOW_SECONDS
  MaxFailures,  \* MAX_FAILURES
  ClientCap,    \* MAX_TRACKED_CLIENTS
  MaxTime,      \* bound: the clock
  MaxEvents     \* bound: what arrives, and what goes wrong

ASSUME LimitersAssumption ==
  /\ {Cooldown, Window, MaxTime, MaxEvents} \subseteq Nat
  /\ {StrangerCap, MaxFailures, ClientCap} \subseteq Nat \ {0}

VARIABLES
  now,
  events,
  answered,  \* _last_stranger_reply: [who, at], oldest first
  failures,  \* FailedAuthThrottle._failures: [who, stamps], oldest first
  greeted,   \* every reply a stranger got, in order
  attempts   \* every login and every bad bearer token

limiterVars == <<now, events, answered, failures, greeted, attempts>>

LimitersInit ==
  /\ now = 0
  /\ events = 0
  /\ answered = <<>>
  /\ failures = <<>>
  /\ greeted = <<>>
  /\ attempts = <<>>

Event == events < MaxEvents /\ events' = events + 1

Tick ==
  /\ now < MaxTime
  /\ now' = now + 1

\* An OrderedDict: of one key, without a key, with a key at its end, capped.
Of(dict, who) == {i \in DOMAIN dict : dict[i].who = who}
Without(dict, who) ==
  IF Of(dict, who) = {} THEN dict ELSE RemoveAt(dict, CHOOSE i \in Of(dict, who) : TRUE)
AtEnd(dict, item) == Append(Without(dict, item.who), item)
Capped(dict, cap) ==
  IF Len(dict) > cap THEN SubSeq(dict, Len(dict) - cap + 1, Len(dict)) ELSE dict

-----------------------------------------------------------------------------
(* TelegramInterface._rate_limited_stranger *)

Limited(who) == \E i \in Of(answered, who) : now < answered[i].at + Cooldown

GreetStranger(who) ==
  /\ Event
  /\ ~Limited(who)
  /\ answered' = Capped(AtEnd(answered, [who |-> who, at |-> now]), StrangerCap)
  /\ greeted' = Append(greeted, [who |-> who, at |-> now])
  /\ UNCHANGED <<now, failures, attempts>>

-----------------------------------------------------------------------------
(* FailedAuthThrottle, /login and the bearer check *)

Stamps(who) ==
  IF Of(failures, who) = {} THEN <<>>
  ELSE failures[CHOOSE i \in Of(failures, who) : TRUE].stamps

\* The stamps ascend: the old ones come first.
Old(stamps) == {i \in DOMAIN stamps : stamps[i] + Window <= now}
Fresh(who) == SubSeq(Stamps(who), Cardinality(Old(Stamps(who))) + 1, Len(Stamps(who)))

\* Looking at a client forgets its old failures, and moves it to the end.
Looked(who) ==
  IF Fresh(who) = <<>> THEN Without(failures, who)
  ELSE AtEnd(failures, [who |-> who, stamps |-> Fresh(who)])

Throttled(who) == Len(Fresh(who)) >= MaxFailures

\* Slip: one stamp too few is kept.
Newest_OneShort(stamps) ==
  IF Len(stamps) >= MaxFailures
  THEN SubSeq(stamps, Len(stamps) - MaxFailures + 2, Len(stamps)) ELSE stamps

Newest(stamps) ==
  IF Len(stamps) > MaxFailures
  THEN SubSeq(stamps, Len(stamps) - MaxFailures + 1, Len(stamps)) ELSE stamps

Recorded(who) ==
  Capped(AtEnd(failures, [who |-> who, stamps |-> Newest(Append(Fresh(who), now))]), ClientCap)

Tried(who, how) == attempts' = Append(attempts, [who |-> who, how |-> how, at |-> now])

\* 401
LoginFails(who) ==
  /\ Event
  /\ ~Throttled(who)
  /\ failures' = Recorded(who)
  /\ Tried(who, "login")
  /\ UNCHANGED <<now, answered, greeted>>

\* 429
LoginThrottled(who) ==
  /\ Event
  /\ Throttled(who)
  /\ failures' = Looked(who)
  /\ Tried(who, "throttled")
  /\ UNCHANGED <<now, answered, greeted>>

\* A wrong bearer token counts, and is never throttled.
BearerFails(who) ==
  /\ Event
  /\ failures' = Recorded(who)
  /\ Tried(who, "bearer")
  /\ UNCHANGED <<now, answered, greeted>>

\* The right token, throttled or not.
Succeeds(who) ==
  /\ Event
  /\ failures' = Without(failures, who)
  /\ Tried(who, "right")
  /\ UNCHANGED <<now, answered, greeted>>

LimitersNext ==
  \/ \E who \in Stranger : GreetStranger(who)
  \/ \E who \in Client :
       LoginFails(who) \/ LoginThrottled(who) \/ BearerFails(who) \/ Succeeds(who)

-----------------------------------------------------------------------------

Others(log, who, i, j) == {log[k].who : k \in i..j} \ {who}

\* A stranger is answered again within the cooldown only when it takes part in a
\* flood: as many others as the door remembers were answered in between.
RepliesSpaced ==
  \A i, j \in DOMAIN greeted :
    i < j /\ greeted[i].who = greeted[j].who /\ greeted[j].at < greeted[i].at + Cooldown
    => Cardinality(Others(greeted, greeted[i].who, i, j)) >= StrangerCap

\* A login that is answered 401 had fewer than MaxFailures failures in the
\* window before it, by either way in, since the client last gave the right
\* token; or as many other clients as are tracked were heard from meanwhile.
FailuresBefore(j) ==
  {i \in 1..(j - 1) :
     /\ attempts[i].who = attempts[j].who /\ attempts[i].how \in {"login", "bearer"}
     /\ attempts[j].at < attempts[i].at + Window
     /\ \A k \in i..j : attempts[k].who = attempts[j].who => attempts[k].how # "right"}

LoginsThrottled ==
  \A j \in DOMAIN attempts : attempts[j].how = "login" =>
    \/ Cardinality(FailuresBefore(j)) < MaxFailures
    \/ \E i \in FailuresBefore(j) :
         Cardinality(Others(attempts, attempts[j].who, i, j)) >= ClientCap

\* Neither door forgets what it counts, at the limits of its memory either.
LimitsHold == RepliesSpaced /\ LoginsThrottled

===============================================================================
