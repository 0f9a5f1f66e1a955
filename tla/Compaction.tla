------------------------------- MODULE Compaction -------------------------------
(***************************************************************************)
(* What the model sees of a long conversation: the window that             *)
(* dudamel/window.py cuts at turn boundaries, and the summary that         *)
(* dudamel/compaction.py keeps of the turns it drops, as Router._loop puts *)
(* the two together at the top of every iteration.                         *)
(*                                                                         *)
(* The conversation's lock is held for the whole loop, so nothing is       *)
(* appended between two reads of one iteration.  The only long await is    *)
(* the summarizer's; rows and summaries survive a restart.                 *)
(***************************************************************************)
EXTENDS Naturals, Sequences, SequencesExt, FiniteSetsExt

CONSTANTS
  Budget,         \* [router].window_tokens
  Horizon,        \* messages ConversationStore.recent reads
  Kept,           \* _KEEP_PER_CONVERSATION
  TaintMode,      \* [router].taint_mode
  Sizes,          \* tokens of a user message or a capped tool result
  SummarySizes,   \* tokens of a framed summary
  MaxRows         \* bound: messages of the conversation

ASSUME CompactionAssumptions ==
  /\ {Budget, MaxRows} \subseteq Nat /\ {Horizon, Kept} \subseteq Nat \ {0}
  /\ TaintMode \in {"off", "turn", "window"}
  /\ Sizes \subseteq Nat \ {0} /\ SummarySizes \subseteq Nat \ {0}

VARIABLES
  rows,       \* messages; the id of a row is its position
  summaries,  \* the conversation's summaries, oldest first
  phase,      \* where the loop is
  tainted,    \* turn_tainted
  cached,     \* _turn_cache has this loop's result
  shown,      \* that result: the summary to prepend, or NoSummary
  first,      \* the first row of the window in front of the model
  suspended,  \* loop_state of the turn that waits on a confirmation
  gap         \* history: rows the turn before kept from the model altogether

loopVars == <<tainted, cached, shown, first>>
vars == <<rows, summaries, phase, tainted, cached, shown, first, suspended, gap>>

Row == [role : {"user", "reply", "call", "result"}, tokens : Nat, untrusted : BOOLEAN]
Summary == [from : Nat, upTo : Nat, tokens : Nat, tainted : BOOLEAN]
NoSummary == [from |-> 1, upTo |-> 0, tokens |-> 0, tainted |-> FALSE]
\* A turn that waits: its taint, whether its batch ran an untrusted call, and
\* whether the call that waits is one.
Suspension == [waits : BOOLEAN, tainted : BOOLEAN, ran : BOOLEAN, pending : BOOLEAN]
NoSuspension == [waits |-> FALSE, tainted |-> FALSE, ran |-> FALSE, pending |-> FALSE]

Init ==
  /\ rows = <<>> /\ summaries = <<>> /\ phase = "idle"
  /\ tainted = FALSE /\ cached = FALSE /\ shown = NoSummary /\ first = 1
  /\ suspended = NoSuspension /\ gap = {}

(***************************************************************************)
(* The window.                                                             *)
(***************************************************************************)
\* The oldest row that recent() still reads.
From == IF Len(rows) > Horizon THEN Len(rows) - Horizon + 1 ELSE 1

\* Tokens of the first n rows.
Total(r) ==
  LET t[n \in 0..Len(r)] == IF n = 0 THEN 0 ELSE t[n - 1] + r[n].tokens IN t

Tokens(a, b) == Total(rows)[b] - Total(rows)[a - 1]

\* Slip: a turn that uses the budget up is left out.
Grow_Exclusive(acc, start, budget) ==
  LET spent == acc.spent + Tokens(start, acc.first - 1)
  IN  IF acc.full \/ (acc.first <= Len(rows) /\ spent >= budget)
      THEN [acc EXCEPT !.full = TRUE]
      ELSE [first |-> start, spent |-> spent, full |-> FALSE]

\* The turn before those kept: the newest in any case, another if it fits.
Grow(acc, start, budget) ==
  LET spent == acc.spent + Tokens(start, acc.first - 1)
  IN  IF acc.full \/ (acc.first <= Len(rows) /\ spent > budget)
      THEN [acc EXCEPT !.full = TRUE]
      ELSE [first |-> start, spent |-> spent, full |-> FALSE]

\* What is kept of the n newest rows; a turn starts at each user message, and
\* rows before the oldest start are orphans.
KeptOf(budget) ==
  LET kept[n \in 0..Len(rows)] ==
        IF n = 0 THEN [first |-> Len(rows) + 1, spent |-> 0, full |-> FALSE]
        ELSE LET start == Len(rows) + 1 - n
             IN  IF rows[start].role = "user" THEN Grow(kept[n - 1], start, budget)
                                              ELSE kept[n - 1]
  IN  kept

\* The first row kept of those that recent() reads.
BuildWindow(budget) == KeptOf(budget)[Len(rows) + 1 - From].first

\* _window_tainted: provenance is read off the tool calls.
UntrustedCall(a, b) == \E i \in a..b : rows[i].role = "call" /\ rows[i].untrusted

Newest == IF summaries = <<>> THEN NoSummary ELSE Last(summaries)
Dropped(cut) == cut > From

\* What a summary leaves of the budget.
Left(summary) == IF summary.tokens > Budget THEN 0 ELSE Budget - summary.tokens

(***************************************************************************)
(* Turns.                                                                  *)
(***************************************************************************)
Batch(untrustedCall, untrustedResult, size) ==
  << [role |-> "call", tokens |-> 1, untrusted |-> untrustedCall],
     [role |-> "result", tokens |-> size, untrusted |-> untrustedResult] >>

\* A suspended batch is closed by a result for the call nobody ran.
Closing(approved, size) ==
  IF suspended.waits
  THEN Batch(suspended.ran \/ suspended.pending,
             suspended.ran \/ (approved /\ suspended.pending), size)
  ELSE <<>>

\* _loop starts: the newest summary's taint counts before anything is shown.
EnterLoop(initial) ==
  /\ phase' = "assemble"
  /\ tainted' = (initial \/ (TaintMode # "off" /\ Newest.tainted))
  /\ cached' = FALSE /\ shown' = NoSummary
  /\ UNCHANGED <<summaries, first>>

\* Rows in neither the window nor the summary that was shown with it.
Hidden == IF shown = NoSummary THEN {} ELSE (From..first - 1) \ (shown.from..shown.upTo)

UserMessage(size) ==
  /\ phase = "idle"
  /\ rows' = Append(rows \o Closing(FALSE, 1),
                    [role |-> "user", tokens |-> size, untrusted |-> FALSE])
  /\ Len(rows') <= MaxRows
  /\ suspended' = NoSuspension
  /\ gap' = Hidden
  /\ EnterLoop(FALSE)

ResumeTurn(approved, size) ==
  /\ phase = "idle" /\ suspended.waits
  /\ rows' = rows \o Closing(approved, size)
  /\ Len(rows') <= MaxRows
  /\ suspended' = NoSuspension
  /\ EnterLoop(suspended.tainted \/ (approved /\ suspended.pending))
  /\ UNCHANGED gap

(***************************************************************************)
(* The top of an iteration: window, summary, window again.                 *)
(***************************************************************************)
\* Slip: the rows the second cut drops are not looked at.
Show_FirstCutOnly(summary) ==
  /\ phase' = "model" /\ shown' = summary
  /\ first' = BuildWindow(Left(summary))
  /\ tainted' = \/ tainted
                \/ summary.tainted
                \/ TaintMode = "window" /\ UntrustedCall(first', Len(rows))

\* The window is cut again to what the summary leaves of the budget.
Show(summary) ==
  /\ phase' = "model" /\ shown' = summary
  /\ first' = BuildWindow(Left(summary))
  /\ tainted' = \/ tainted
                \/ summary.tainted
                \/ /\ summary # NoSummary /\ TaintMode # "off"
                   /\ UntrustedCall(From, first' - 1)
                \/ TaintMode = "window" /\ UntrustedCall(first', Len(rows))

ShowWhole ==
  /\ phase = "assemble" /\ ~Dropped(BuildWindow(Budget))
  /\ Show(NoSummary)
  /\ UNCHANGED <<rows, summaries, cached, suspended, gap>>

ShowAgain ==
  /\ phase = "assemble" /\ Dropped(BuildWindow(Budget)) /\ cached
  /\ Show(shown)
  /\ UNCHANGED <<rows, summaries, cached, suspended, gap>>

\* Slip: the watermark names the first row that is kept.
Watermark_OffByOne(cut) == cut

Watermark(cut) == cut - 1

\* Slip: whatever summary there is will do.
ReuseSummary_Any ==
  LET cut == BuildWindow(Budget)
  IN  /\ phase = "assemble" /\ Dropped(cut) /\ ~cached
      /\ Newest # NoSummary
      /\ cached' = TRUE
      /\ Show(Newest)
      /\ UNCHANGED <<rows, summaries, suspended, gap>>

ReuseSummary ==
  LET cut == BuildWindow(Budget)
  IN  /\ phase = "assemble" /\ Dropped(cut) /\ ~cached
      /\ Newest # NoSummary /\ Newest.upTo >= Watermark(cut)
      /\ cached' = TRUE
      /\ Show(Newest)
      /\ UNCHANGED <<rows, summaries, suspended, gap>>

AskSummarizer ==
  LET cut == BuildWindow(Budget)
  IN  /\ phase = "assemble" /\ Dropped(cut) /\ ~cached
      /\ Newest.upTo < Watermark(cut)
      /\ phase' = "summarizing"
      /\ UNCHANGED <<rows, summaries, tainted, cached, shown, first, suspended, gap>>

Prune(s) == IF Len(s) > Kept THEN SubSeq(s, Len(s) - Kept + 1, Len(s)) ELSE s

\* The row and the pruning are one transaction.
SummaryWritten(size) ==
  LET cut == BuildWindow(Budget)
      summary == [from |-> From, upTo |-> Watermark(cut), tokens |-> size,
                  tainted |-> UntrustedCall(From, cut - 1)]
  IN  /\ phase = "summarizing"
      /\ summaries' = Prune(Append(summaries, summary))
      /\ cached' = TRUE
      /\ Show(summary)
      /\ UNCHANGED <<rows, suspended, gap>>

\* An error, the budget, thirty seconds, or an empty answer.
SummarizerFails ==
  /\ phase = "summarizing"
  /\ cached' = TRUE
  /\ Show(NoSummary)
  /\ UNCHANGED <<rows, summaries, suspended, gap>>

(***************************************************************************)
(* The rest of the iteration.                                              *)
(***************************************************************************)
ModelReplies ==
  /\ phase = "model" /\ Len(rows) < MaxRows
  /\ rows' = Append(rows, [role |-> "reply", tokens |-> 1, untrusted |-> FALSE])
  /\ phase' = "idle"
  /\ UNCHANGED <<summaries, loopVars, suspended, gap>>

ModelFails ==
  /\ phase = "model" /\ phase' = "idle"
  /\ UNCHANGED <<rows, summaries, loopVars, suspended, gap>>

CallTools(untrusted, size) ==
  /\ phase = "model" /\ Len(rows) + 2 <= MaxRows
  /\ rows' = rows \o Batch(untrusted, untrusted, size)
  /\ tainted' = (tainted \/ untrusted)
  /\ phase' = "assemble"
  /\ UNCHANGED <<summaries, cached, shown, first, suspended, gap>>

Suspend(ran, pending) ==
  /\ phase = "model" /\ phase' = "idle"
  /\ suspended' = [waits |-> TRUE, tainted |-> tainted \/ ran, ran |-> ran, pending |-> pending]
  /\ UNCHANGED <<rows, summaries, loopVars, gap>>

\* A cancellation, a crash or a restart, at any await.
Interrupted ==
  /\ phase' = "idle"
  /\ cached' = FALSE /\ shown' = NoSummary
  /\ UNCHANGED <<rows, summaries, tainted, first, suspended, gap>>

Next ==
  \/ \E n \in Sizes : \/ UserMessage(n)
                      \/ \E a \in BOOLEAN : ResumeTurn(a, n)
                      \/ \E u \in BOOLEAN : CallTools(u, n)
  \/ ShowWhole \/ ShowAgain \/ ReuseSummary \/ AskSummarizer \/ SummarizerFails
  \/ \E n \in SummarySizes : SummaryWritten(n)
  \/ ModelReplies \/ ModelFails \/ Interrupted
  \/ \E r, p \in BOOLEAN : Suspend(r, p)

Spec == Init /\ [][Next]_vars

(***************************************************************************)
(* Properties.                                                             *)
(***************************************************************************)
TypeOK ==
  /\ rows \in Seq(Row) /\ summaries \in Seq(Summary) /\ Len(summaries) <= Kept
  /\ phase \in {"idle", "assemble", "summarizing", "model"}
  /\ tainted \in BOOLEAN /\ cached \in BOOLEAN
  /\ shown \in Summary /\ first \in Nat
  /\ suspended \in Suspension
  /\ gap \subseteq 1..Len(rows)

\* The loop of build_window finds the longest run of whole turns that ends with
\* the newest and fits what the summary leaves of the budget; the newest turn is
\* there in full even when it alone does not fit.
WindowIsLongestFit ==
  phase = "model" /\ (\E i \in From..Len(rows) : rows[i].role = "user") =>
    LET Turns == {i \in From..Len(rows) : rows[i].role = "user"}
        Fits(i) == Tokens(i, Len(rows)) <= Left(shown)
    IN  /\ first \in Turns
        /\ first = Max(Turns) \/ Fits(first)
        /\ \A i \in Turns : i < first => ~Fits(i)

\* A summary that is shown and the window shown with it are about different
\* messages: the watermark, written in one turn and reused in later ones against
\* histories of other lengths, never claims a row the model still reads.
SummaryEndsBeforeWindow == phase = "model" => shown.upTo < first

\* What the uncompacted window drops at the loop's first build is covered by the
\* summary it shows: reuse never stretches an old summary over rows it did not read.
SummaryCoversDropped ==
  [][phase # "model" /\ phase' = "model" /\ ~cached /\ shown' # NoSummary =>
       /\ shown'.from <= shown'.upTo
       /\ BuildWindow(Budget) - 1 <= shown'.upTo]_vars

\* An untrusted call taints the loop, under every taint mode but "off", if the
\* newest summary covers it, shown or not, or if its rows made way for a summary.
TaintFollowsCalls ==
  phase = "model" /\ TaintMode # "off" /\ ~tainted =>
    /\ ~UntrustedCall(Newest.from, Newest.upTo)
    /\ shown # NoSummary => ~UntrustedCall(From, first - 1)

\* Documented, and violated: a summary that retells what an untrusted tool
\* answered taints the loop it is shown to.
SummaryTaintFaithful ==
  phase = "model" /\ shown # NoSummary /\ TaintMode # "off" =>
    tainted \/ \A i \in shown.from..shown.upTo : rows[i].role = "result" => ~rows[i].untrusted

\* Documented, and violated: rows that were hidden in one turn because the
\* summary took their place are covered or visible in the next.
GapHeals ==
  phase = "model" /\ shown # NoSummary => gap \cap Hidden = {}
================================================================================
