--------------------------- MODULE Compaction_proofs ---------------------------
(***************************************************************************)
(* Proofs about Compaction.  The first half is about the loop of           *)
(* build_window, which is recursive: its running sums, the invariant of    *)
(* its scan (Kept_OK), what it returns (IsWindow), and that what it        *)
(* returns moves forward when the budget shrinks (WindowShrinks) and when  *)
(* the conversation grows (WindowMoves).  The second half is the           *)
(* invariant: every stored summary is accurate about the rows it covers    *)
(* and ends before the window the whole budget would buy, which is what    *)
(* makes an old summary safe to reuse in a longer conversation.            *)
(***************************************************************************)
EXTENDS Compaction, SetInduction

(***************************************************************************)
(* Tokens.                                                                 *)
(***************************************************************************)
\* Total is the running sum of the rows' tokens.
LEMMA TotalRec ==
  ASSUME NEW r \in Seq(Row)
  PROVE  /\ Total(r) \in [0..Len(r) -> Nat]
         /\ Total(r)[0] = 0
         /\ \A n \in 1..Len(r) : Total(r)[n] = Total(r)[n - 1] + r[n].tokens
<1> DEFINE N == Len(r)
           Body(f) == [n \in 0..N |-> IF n = 0 THEN 0 ELSE f[n - 1] + r[n].tokens]
           step == [n \in Nat |-> [v \in Nat |-> IF n \in 1..N THEN v + r[n].tokens ELSE v]]
<1>1. N \in Nat /\ \A n \in 1..N : r[n].tokens \in Nat
  <2>1. N \in Nat /\ \A n \in 1..N : r[n] \in Row OBVIOUS
  <2>2. QED BY <2>1 DEF Row
<1>2. step \in [Nat -> [Nat -> Nat]] BY <1>1
<1>3. PICK f \in [0..N -> Nat] : f[0] = 0 /\ \A n \in 1..N : f[n] = step[n][f[n - 1]]
  <2> HIDE DEF step, N
  <2>1. \E f : Unfolds(f, N, Nat, 0, step) BY <1>1, <1>2, 0 \in Nat, Recursion
  <2>2. QED BY <2>1 DEF Unfolds
<1>4. ASSUME NEW n \in 1..N PROVE f[n] = f[n - 1] + r[n].tokens
  <2>1. n \in Nat /\ n - 1 \in 0..N BY <1>1
  <2>2. f[n - 1] \in Nat BY <2>1
  <2>3. step[n] = [v \in Nat |-> IF n \in 1..N THEN v + r[n].tokens ELSE v] BY <2>1
  <2>4. step[n][f[n - 1]] = f[n - 1] + r[n].tokens
    <3> HIDE DEF step, N
    <3>1. QED BY <2>2, <2>3
  <2>5. QED BY <1>3, <2>4
<1>5. f = Body(f)
  <2>1. ASSUME NEW n \in 0..N PROVE f[n] = IF n = 0 THEN 0 ELSE f[n - 1] + r[n].tokens
    <3>1. CASE n = 0 BY <1>3, <3>1
    <3>2. CASE n # 0 BY <1>1, <1>4, <3>2
    <3>3. QED BY <3>1, <3>2
  <2>2. QED BY <2>1
<1>6. Total(r) = Body(Total(r))
  <2>1. Total(r) = CHOOSE t : t = Body(t) BY DEF Total
  <2> HIDE DEF Body
  <2>2. QED BY <1>5, <2>1
<1> DEFINE t == Total(r)
<1>7. t[0] = 0 /\ \A n \in 1..N : t[n] = t[n - 1] + r[n].tokens
  <2> HIDE DEF t
  <2>1. t = Body(t) BY <1>6 DEF t
  <2>2. QED BY <1>1, <2>1
<1>8. \A n \in 0..N : t[n] \in Nat
  <2> HIDE DEF t
  <2> DEFINE T == {n \in Nat : n <= N => t[n] \in Nat}
  <2>1. 0 \in T BY <1>7
  <2>2. ASSUME NEW n \in T PROVE n + 1 \in T
    <3>1. CASE n + 1 <= N
      <4>1. t[n] \in Nat /\ n + 1 \in 1..N /\ (n + 1) - 1 = n BY <1>1, <3>1
      <4>2. t[n + 1] = t[n] + r[n + 1].tokens BY <1>7, <4>1
      <4>3. QED BY <1>1, <4>1, <4>2
    <3>2. QED BY <3>1
  <2>3. T \subseteq Nat OBVIOUS
  <2>4. T = Nat
    <3> HIDE DEF T
    <3>1. QED BY <2>1, <2>2, <2>3, Induction
  <2>5. QED BY <1>1, <2>4
<1>9. t \in [0..N -> Nat]
  <2> HIDE DEF t
  <2>1. t = Body(t) BY <1>6 DEF t
  <2>2. QED BY <1>8, <2>1
<1>10. QED BY <1>7, <1>9

\* The running sum never falls.
LEMMA TotalGrows ==
  ASSUME NEW r \in Seq(Row), NEW n \in 0..Len(r), NEW m \in 0..n
  PROVE  Total(r)[m] <= Total(r)[n]
<1> DEFINE N == Len(r)
           t == Total(r)
           T == {k \in Nat : k <= N => \A i \in 0..k : t[i] <= t[k]}
<1>1. /\ N \in Nat /\ t \in [0..N -> Nat]
      /\ \A k \in 1..N : t[k] = t[k - 1] + r[k].tokens /\ r[k].tokens \in Nat
  <2>1. \A k \in 1..N : r[k] \in Row OBVIOUS
  <2>2. QED BY <2>1, TotalRec DEF Row
<1> HIDE DEF N, t
<1>2. 0 \in T BY <1>1
<1>3. ASSUME NEW k \in T PROVE k + 1 \in T
  <2>1. SUFFICES ASSUME k + 1 <= N, NEW i \in 0..k + 1 PROVE t[i] <= t[k + 1] OBVIOUS
  <2>2. k \in Nat /\ k \in 0..N /\ k + 1 \in 1..N /\ (k + 1) - 1 = k BY <1>1, <2>1
  <2>3. t[k] \in Nat /\ r[k + 1].tokens \in Nat /\ t[k + 1] = t[k] + r[k + 1].tokens
    BY <1>1, <2>2
  <2>4. CASE i = k + 1 BY <1>1, <2>1, <2>3, <2>4
  <2>5. CASE i # k + 1
    <3>1. i \in 0..k /\ i \in 0..N BY <1>1, <2>1, <2>2, <2>5
    <3>2. t[i] <= t[k] BY <2>2, <3>1, <1>1
    <3>3. t[i] \in Nat BY <1>1, <3>1
    <3>4. QED BY <2>3, <3>2, <3>3
  <2>6. QED BY <2>4, <2>5
<1>4. T = Nat
  <2>1. T \subseteq Nat OBVIOUS
  <2> HIDE DEF T
  <2>2. QED BY <1>2, <1>3, <2>1, Induction
<1>5. n \in Nat /\ n <= N BY <1>1 DEF N
<1>6. t[m] <= t[n] BY <1>4, <1>5
<1>7. QED BY <1>6 DEF t

\* Messages that follow change nothing of the sums before them.
LEMMA TotalOfPrefix ==
  ASSUME NEW r \in Seq(Row), NEW q \in Seq(Row), Len(r) <= Len(q),
         \A n \in 1..Len(r) : q[n] = r[n], NEW n \in 0..Len(r)
  PROVE  Total(q)[n] = Total(r)[n]
<1> DEFINE N == Len(r)
           t == Total(r)
           u == Total(q)
           T == {k \in Nat : k <= N => u[k] = t[k]}
<1>1. /\ N \in Nat /\ t[0] = 0 /\ \A k \in 1..N : t[k] = t[k - 1] + r[k].tokens
      /\ u[0] = 0 /\ \A k \in 1..N : u[k] = u[k - 1] + r[k].tokens
  <2>1. N \in Nat /\ N \in 0..Len(q) /\ \A k \in 1..N : k \in 1..Len(q) OBVIOUS
  <2>2. t[0] = 0 /\ \A k \in 1..N : t[k] = t[k - 1] + r[k].tokens BY TotalRec
  <2>3. u[0] = 0 /\ \A k \in 1..Len(q) : u[k] = u[k - 1] + q[k].tokens BY TotalRec
  <2> HIDE DEF t, u
  <2>4. QED BY <2>1, <2>2, <2>3
<1> HIDE DEF N, t, u
<1>2. 0 \in T BY <1>1
<1>3. ASSUME NEW k \in T PROVE k + 1 \in T
  <2>1. SUFFICES ASSUME k + 1 <= N PROVE u[k + 1] = t[k + 1] OBVIOUS
  <2>2. k \in Nat /\ k <= N /\ k + 1 \in 1..N /\ (k + 1) - 1 = k BY <1>1, <2>1
  <2>3. u[k] = t[k] BY <2>2
  <2>4. QED BY <1>1, <2>2, <2>3
<1>4. T = Nat
  <2>1. T \subseteq Nat OBVIOUS
  <2> HIDE DEF T
  <2>2. QED BY <1>2, <1>3, <2>1, Induction
<1>5. n \in Nat /\ n <= N BY <1>1 DEF N
<1>6. u[n] = t[n] BY <1>4, <1>5
<1>7. QED BY <1>6 DEF t, u

\* What Tokens says of the rows there are.
LEMMA TokensFacts ==
  ASSUME rows \in Seq(Row)
  PROVE  /\ \A a \in 1..Len(rows) + 1 : Tokens(a, Len(rows)) \in Nat
         /\ Tokens(Len(rows) + 1, Len(rows)) = 0
         /\ \A a, b \in 1..Len(rows) + 1 : Tokens(a, b - 1) \in Int
         /\ \A b \in 1..Len(rows) + 1 : \A a \in 1..b :
              /\ Tokens(a, b - 1) + Tokens(b, Len(rows)) = Tokens(a, Len(rows))
              /\ Tokens(b, Len(rows)) <= Tokens(a, Len(rows))
<1> DEFINE N == Len(rows)
           t == Total(rows)
<1>1. N \in Nat /\ t \in [0..N -> Nat] BY TotalRec
<1>2. \A b \in 0..N : \A a \in 0..b : t[a] <= t[b] BY TotalGrows
<1>3. \A a, b : Tokens(a, b) = t[b] - t[a - 1] BY DEF Tokens
<1> HIDE DEF N, t
<1>4. \A a \in 1..N + 1 : a - 1 \in 0..N /\ t[a - 1] \in Nat /\ t[N] \in Nat /\ t[a - 1] <= t[N]
  BY <1>1, <1>2
<1>5. \A a \in 1..N + 1 : Tokens(a, N) \in Nat BY <1>3, <1>4
<1>6. Tokens(N + 1, N) = 0 BY <1>1, <1>3
<1>7. ASSUME NEW a \in 1..N + 1, NEW b \in 1..N + 1 PROVE Tokens(a, b - 1) \in Int
  <2>1. t[a - 1] \in Nat /\ t[b - 1] \in Nat BY <1>4
  <2>2. Tokens(a, b - 1) = t[b - 1] - t[a - 1] BY <1>3
  <2>3. QED BY <2>1, <2>2
<1>8. ASSUME NEW b \in 1..N + 1, NEW a \in 1..b
      PROVE  /\ Tokens(a, b - 1) + Tokens(b, N) = Tokens(a, N)
             /\ Tokens(b, N) <= Tokens(a, N)
  <2>1. a \in 1..N + 1 /\ a - 1 \in 0..b - 1 /\ b - 1 \in 0..N BY <1>1
  <2>2. t[a - 1] <= t[b - 1] BY <1>2, <2>1
  <2>3. t[a - 1] \in Nat /\ t[b - 1] \in Nat /\ t[N] \in Nat BY <1>4, <2>1
  <2>4. Tokens(a, b - 1) = t[b - 1] - t[a - 1] BY <1>3
  <2>5. Tokens(b, N) = t[N] - t[b - 1] /\ Tokens(a, N) = t[N] - t[a - 1] BY <1>3
  <2>6. QED BY <2>2, <2>3, <2>4, <2>5
<1>9. QED BY <1>5, <1>6, <1>7, <1>8 DEF N

(***************************************************************************)
(* The loop of build_window.                                               *)
(***************************************************************************)
Keep == [first : 1..Len(rows) + 1, spent : Int, full : BOOLEAN]
NoneKept == [first |-> Len(rows) + 1, spent |-> 0, full |-> FALSE]
Users(a, b) == {i \in a..b : rows[i].role = "user"}

LEMMA GrowType ==
  ASSUME rows \in Seq(Row), NEW budget \in Nat, NEW k \in Keep, NEW start \in 1..Len(rows)
  PROVE  Grow(k, start, budget) \in Keep
<1>1. k.first \in 1..Len(rows) + 1 /\ k.spent \in Int /\ k.full \in BOOLEAN BY DEF Keep
<1>2. Len(rows) \in Nat /\ start \in 1..Len(rows) + 1 OBVIOUS
<1>3. Tokens(start, k.first - 1) \in Int BY <1>1, <1>2, TokensFacts
<1> DEFINE spent == k.spent + Tokens(start, k.first - 1)
<1>4. spent \in Int BY <1>1, <1>3
<1>5. [k EXCEPT !.full = TRUE] \in Keep BY DEF Keep
<1>6. [first |-> start, spent |-> spent, full |-> FALSE] \in Keep
  <2> HIDE DEF spent
  <2>1. QED BY <1>2, <1>4 DEF Keep
<1>7. QED
  <2>1. Grow(k, start, budget) \in {[k EXCEPT !.full = TRUE],
                                   [first |-> start, spent |-> spent, full |-> FALSE]}
    BY DEF Grow
  <2> HIDE DEF spent
  <2>2. QED BY <1>5, <1>6, <2>1

\* KeptOf unfolds the loop, a row at a time from the newest.
LEMMA KeptRec ==
  ASSUME rows \in Seq(Row), NEW budget \in Nat
  PROVE  /\ KeptOf(budget)[0] = NoneKept
         /\ \A n \in 1..Len(rows) :
              LET k == KeptOf(budget)[n - 1]
                  start == Len(rows) + 1 - n
              IN  /\ k \in Keep
                  /\ KeptOf(budget)[n] = IF rows[start].role = "user"
                                         THEN Grow(k, start, budget) ELSE k
<1> DEFINE N == Len(rows)
           One(n, k) == IF rows[N + 1 - n].role = "user" THEN Grow(k, N + 1 - n, budget) ELSE k
           Body(f) == [n \in 0..N |-> IF n = 0 THEN NoneKept ELSE One(n, f[n - 1])]
           step == [n \in Nat |-> [k \in Keep |-> IF n \in 1..N THEN One(n, k) ELSE k]]
<1>1. N \in Nat OBVIOUS
<1>2. NoneKept \in Keep BY DEF NoneKept, Keep
<1>3. ASSUME NEW n \in 1..N, NEW k \in Keep PROVE One(n, k) \in Keep
  <2>1. N + 1 - n \in 1..Len(rows) BY <1>1
  <2>2. Grow(k, N + 1 - n, budget) \in Keep BY <2>1, GrowType
  <2>3. QED BY <2>2
<1> HIDE DEF One, N
<1>4. step \in [Nat -> [Keep -> Keep]] BY <1>3
<1>5. PICK f \in [0..N -> Keep] : f[0] = NoneKept /\ \A n \in 1..N : f[n] = step[n][f[n - 1]]
  <2> HIDE DEF step
  <2>1. \E f : Unfolds(f, N, Keep, NoneKept, step) BY <1>1, <1>2, <1>4, Recursion
  <2>2. QED BY <2>1 DEF Unfolds
<1>6. ASSUME NEW n \in 1..N PROVE f[n] = One(n, f[n - 1])
  <2>1. n \in Nat /\ n - 1 \in 0..N BY <1>1
  <2>2. f[n - 1] \in Keep BY <2>1
  <2>3. step[n] = [k \in Keep |-> IF n \in 1..N THEN One(n, k) ELSE k] BY <2>1
  <2>4. step[n][f[n - 1]] = One(n, f[n - 1])
    <3> HIDE DEF step
    <3>1. QED BY <2>2, <2>3
  <2>5. QED BY <1>5, <2>4
<1>7. f = Body(f)
  <2>1. ASSUME NEW n \in 0..N PROVE f[n] = IF n = 0 THEN NoneKept ELSE One(n, f[n - 1])
    <3>1. CASE n = 0 BY <1>5, <3>1
    <3>2. CASE n # 0 BY <1>1, <1>6, <3>2
    <3>3. QED BY <3>1, <3>2
  <2>2. QED BY <2>1
<1>8. KeptOf(budget) = Body(KeptOf(budget))
  <2>1. KeptOf(budget) = CHOOSE t : t = Body(t) BY DEF KeptOf, NoneKept, One, N
  <2> HIDE DEF Body
  <2>2. QED BY <1>7, <2>1
<1> DEFINE t == KeptOf(budget)
<1>9. t[0] = NoneKept /\ \A n \in 1..N : t[n] = One(n, t[n - 1])
  <2> HIDE DEF t
  <2>1. t = Body(t) BY <1>8 DEF t
  <2>2. QED BY <1>1, <2>1
<1>10. \A n \in 0..N : t[n] \in Keep
  <2> HIDE DEF t
  <2> DEFINE T == {n \in Nat : n <= N => t[n] \in Keep}
  <2>1. 0 \in T BY <1>2, <1>9
  <2>2. ASSUME NEW n \in T PROVE n + 1 \in T
    <3>1. CASE n + 1 <= N
      <4>1. t[n] \in Keep /\ n + 1 \in 1..N /\ (n + 1) - 1 = n BY <1>1, <3>1
      <4>2. t[n + 1] = One(n + 1, t[n]) BY <1>9, <4>1
      <4>3. QED BY <1>3, <4>1, <4>2
    <3>2. QED BY <3>1
  <2>3. T \subseteq Nat OBVIOUS
  <2>4. T = Nat
    <3> HIDE DEF T
    <3>1. QED BY <2>1, <2>2, <2>3, Induction
  <2>5. QED BY <1>1, <2>4
<1>11. ASSUME NEW n \in 1..N PROVE t[n - 1] \in Keep
  <2>1. n - 1 \in 0..N BY <1>1
  <2> HIDE DEF t
  <2>2. QED BY <1>10, <2>1
<1>12. QED
  <2> HIDE DEF t
  <2>1. \A n \in 1..N : t[n - 1] \in Keep /\ t[n] = One(n, t[n - 1]) BY <1>9, <1>11
  <2>2. QED BY <1>9, <2>1 DEF t, N, One

\* What holds of the turns kept once the rows from lo on are looked at.
Kept_OK(k, lo, budget) ==
  /\ k.first \in lo..Len(rows) + 1 /\ k.spent = Tokens(k.first, Len(rows))
  /\ k.first = Len(rows) + 1 => ~k.full /\ \A i \in lo..Len(rows) : rows[i].role # "user"
  /\ k.first <= Len(rows) =>
       /\ rows[k.first].role = "user"
       /\ \/ k.spent <= budget
          \/ \A i \in k.first + 1..Len(rows) : rows[i].role # "user"
  /\ \A i \in lo..k.first - 1 :
       rows[i].role = "user" => k.full /\ Tokens(i, Len(rows)) > budget
  /\ k.full => \E i \in lo..k.first - 1 : Tokens(i, Len(rows)) > budget

\* One more turn.
LEMMA GrowKeeps ==
  ASSUME rows \in Seq(Row), NEW budget \in Nat, NEW start \in 1..Len(rows),
         NEW k \in Keep, Kept_OK(k, start + 1, budget), rows[start].role = "user"
  PROVE  Kept_OK(Grow(k, start, budget), start, budget)
<1> DEFINE N == Len(rows)
           spent == k.spent + Tokens(start, k.first - 1)
<1>1. N \in Nat /\ start \in 1..N + 1 /\ k.first \in start + 1..N + 1 /\ k.full \in BOOLEAN
      /\ k.first \in 1..N + 1
  BY DEF Kept_OK, Keep
<1>2. spent = Tokens(start, N) /\ spent \in Nat
  <2>1. start \in 1..k.first BY <1>1
  <2>2. Tokens(start, k.first - 1) + Tokens(k.first, N) = Tokens(start, N)
    BY <1>1, <2>1, TokensFacts
  <2>3. Tokens(start, N) \in Nat /\ Tokens(k.first, N) \in Nat
        /\ Tokens(start, k.first - 1) \in Int
    BY <1>1, TokensFacts
  <2>4. QED BY <2>2, <2>3 DEF Kept_OK
<1> HIDE DEF spent, N
<1>3. CASE k.full \/ (k.first <= N /\ spent > budget)
  <2>1. Grow(k, start, budget) = [k EXCEPT !.full = TRUE] BY <1>3 DEF Grow, spent, N
  <2> DEFINE g == [k EXCEPT !.full = TRUE]
  <2>2. g.first = k.first /\ g.spent = k.spent /\ g.full BY DEF Keep
  <2>3. k.first <= N
    <3>1. k.full => k.first # N + 1 BY DEF Kept_OK, N
    <3>2. QED BY <1>1, <1>3, <3>1
  <2>4. Tokens(start, N) > budget
    <3>1. CASE k.full
      <4>1. PICK i \in start + 1..k.first - 1 : Tokens(i, N) > budget BY <3>1 DEF Kept_OK, N
      <4>2. i \in 1..N + 1 /\ start \in 1..i BY <1>1
      <4>3. Tokens(i, N) <= Tokens(start, N) /\ Tokens(i, N) \in Nat BY <4>2, TokensFacts DEF N
      <4>4. QED BY <1>2, <4>1, <4>3
    <3>2. CASE ~k.full BY <1>2, <1>3, <3>2
    <3>3. QED BY <3>1, <3>2
  <2> HIDE DEF g
  <2>5. \A i \in start..g.first - 1 :
          rows[i].role = "user" => g.full /\ Tokens(i, N) > budget
    <3>1. ASSUME NEW i \in start + 1..k.first - 1, rows[i].role = "user"
          PROVE  Tokens(i, N) > budget
      BY <3>1 DEF Kept_OK, N
    <3>2. QED BY <1>1, <2>2, <2>4, <3>1
  <2>6. \E i \in start..g.first - 1 : Tokens(i, N) > budget
    <3>1. start \in start..g.first - 1 BY <1>1, <2>2
    <3>2. QED BY <2>4, <3>1
  <2>7. g.first \in start..N + 1 BY <1>1, <2>2
  <2>8. /\ rows[g.first].role = "user"
        /\ g.spent <= budget \/ \A i \in g.first + 1..N : rows[i].role # "user"
        /\ g.spent = Tokens(g.first, N)
    BY <2>2, <2>3 DEF Kept_OK, N
  <2>9. Kept_OK(g, start, budget)
    <3>1. g.first # N + 1 BY <1>1, <2>2, <2>3
    <3>2. QED BY <2>5, <2>6, <2>7, <2>8, <3>1 DEF Kept_OK, N
  <2>10. QED BY <2>1, <2>9 DEF g
<1>4. CASE ~(k.full \/ (k.first <= N /\ spent > budget))
  <2> DEFINE g == [first |-> start, spent |-> spent, full |-> FALSE]
  <2>1. Grow(k, start, budget) = g BY <1>4 DEF Grow, spent, N
  <2>2. g.first = start /\ g.spent = spent /\ g.full = FALSE OBVIOUS
  <2> HIDE DEF g
  <2>3. spent <= budget \/ \A i \in start + 1..N : rows[i].role # "user"
    <3>1. CASE k.first <= N BY <1>2, <1>4, <3>1
    <3>2. CASE k.first = N + 1 BY <3>2 DEF Kept_OK, N
    <3>3. QED BY <1>1, <3>1, <3>2
  <2>4. start..start - 1 = {} /\ start \in start..N + 1 /\ start <= N /\ start # N + 1
    BY <1>1 DEF N
  <2>5. QED BY <1>2, <2>1, <2>2, <2>3, <2>4 DEF Kept_OK, N
<1>5. QED BY <1>3, <1>4

\* One more row of the turn being looked at, or an orphan.
LEMMA SkipKeeps ==
  ASSUME rows \in Seq(Row), NEW budget \in Nat, NEW start \in 1..Len(rows),
         NEW k \in Keep, Kept_OK(k, start + 1, budget), rows[start].role # "user"
  PROVE  Kept_OK(k, start, budget)
<1>1. Len(rows) \in Nat /\ start \in Nat /\ k.first \in start + 1..Len(rows) + 1
      /\ k.first \in Nat
  BY DEF Kept_OK
<1>2. k.first \in start..Len(rows) + 1 BY <1>1
<1>3. \A i \in start..Len(rows) : rows[i].role = "user" => i \in start + 1..Len(rows)
  BY <1>1
<1>4. \A i \in start..k.first - 1 : rows[i].role = "user" => i \in start + 1..k.first - 1
  BY <1>1
<1>5. \A i \in start + 1..k.first - 1 : i \in start..k.first - 1 BY <1>1
<1>6. QED BY <1>2, <1>3, <1>4, <1>5 DEF Kept_OK

\* The scan of rows from the newest keeps Kept_OK.
LEMMA KeptScan ==
  ASSUME rows \in Seq(Row), NEW budget \in Nat, NEW n \in 0..Len(rows)
  PROVE  Kept_OK(KeptOf(budget)[n], Len(rows) + 1 - n, budget)
<1> DEFINE N == Len(rows)
           t == KeptOf(budget)
           T == {m \in Nat : m <= N => Kept_OK(t[m], N + 1 - m, budget)}
<1>1. N \in Nat OBVIOUS
<1>2. t[0] = NoneKept BY KeptRec
<1>3. \A m \in 1..N : /\ t[m - 1] \in Keep
                      /\ t[m] = IF rows[N + 1 - m].role = "user"
                                THEN Grow(t[m - 1], N + 1 - m, budget) ELSE t[m - 1]
  BY KeptRec
<1> HIDE DEF t, N
<1>4. 0 \in T
  <2>1. Tokens(N + 1, N) = 0 BY TokensFacts DEF N
  <2>2. /\ t[0].first = N + 1 /\ t[0].spent = 0 /\ t[0].full = FALSE
    BY <1>2 DEF NoneKept, N
  <2>3. N + 1 - 0 = N + 1 /\ N + 1 \in N + 1..N + 1 /\ N + 1..N = {}
        /\ N + 1..(N + 1) - 1 = {} /\ ~(N + 1 <= N)
    BY <1>1
  <2>4. Kept_OK(t[0], N + 1, budget) BY <2>1, <2>2, <2>3 DEF Kept_OK, N
  <2>5. QED BY <2>3, <2>4
<1>5. ASSUME NEW m \in T PROVE m + 1 \in T
  <2>1. SUFFICES ASSUME m + 1 <= N PROVE Kept_OK(t[m + 1], N + 1 - (m + 1), budget) OBVIOUS
  <2>2. /\ m \in Nat /\ m <= N /\ m + 1 \in 1..N /\ (m + 1) - 1 = m
        /\ N + 1 - m = (N - m) + 1 /\ N + 1 - (m + 1) = N - m /\ N - m \in 1..N
    BY <1>1, <2>1
  <2>3. Kept_OK(t[m], (N - m) + 1, budget) BY <2>2
  <2>4. /\ t[m] \in Keep
        /\ t[m + 1] = IF rows[N - m].role = "user" THEN Grow(t[m], N - m, budget) ELSE t[m]
    BY <1>3, <2>2
  <2>5. PICK start \in 1..Len(rows) : start = N - m BY <2>2 DEF N
  <2>6. PICK k \in Keep : k = t[m] BY <2>4
  <2>7. Kept_OK(k, start + 1, budget) BY <2>3, <2>5, <2>6
  <2>8. CASE rows[start].role = "user"
    <3>1. Kept_OK(Grow(k, start, budget), start, budget) BY <2>7, <2>8, GrowKeeps
    <3>2. QED BY <2>2, <2>4, <2>5, <2>6, <2>8, <3>1
  <2>9. CASE rows[start].role # "user"
    <3>1. Kept_OK(k, start, budget) BY <2>7, <2>9, SkipKeeps
    <3>2. QED BY <2>2, <2>4, <2>5, <2>6, <2>9, <3>1
  <2>10. QED BY <2>8, <2>9
<1>6. T = Nat
  <2>1. T \subseteq Nat OBVIOUS
  <2> HIDE DEF T
  <2>2. QED BY <1>4, <1>5, <2>1, Induction
<1>7. n \in Nat /\ n <= N BY <1>1 DEF N
<1>8. Kept_OK(t[n], N + 1 - n, budget) BY <1>6, <1>7
<1>9. QED BY <1>8 DEF t, N

(***************************************************************************)
(* The window.                                                             *)
(***************************************************************************)
LEMMA FromFacts ==
  ASSUME rows \in Seq(Row)
  PROVE  From \in 1..Len(rows) + 1 /\ Len(rows) + 1 - From \in 0..Len(rows)
<1>1. Len(rows) \in Nat /\ Horizon \in Nat \ {0} BY CompactionAssumptions
<1>2. CASE Len(rows) > Horizon
  <2>1. From = Len(rows) - Horizon + 1 BY <1>2 DEF From
  <2>2. QED BY <1>1, <1>2, <2>1
<1>3. CASE ~(Len(rows) > Horizon)
  <2>1. From = 1 BY <1>3 DEF From
  <2>2. QED BY <1>1, <2>1
<1>4. QED BY <1>2, <1>3

\* The window starts at a turn, the newest or one that fits, and no older turn
\* fits; without a turn it is empty.
IsWindow(w, budget) ==
  /\ w \in From..Len(rows) + 1
  /\ w = Len(rows) + 1 => \A i \in From..Len(rows) : rows[i].role # "user"
  /\ w <= Len(rows) =>
       /\ rows[w].role = "user"
       /\ \/ Tokens(w, Len(rows)) <= budget
          \/ \A i \in w + 1..Len(rows) : rows[i].role # "user"
  /\ \A i \in From..w - 1 : rows[i].role = "user" => Tokens(i, Len(rows)) > budget

LEMMA WindowFacts ==
  ASSUME rows \in Seq(Row), NEW budget \in Nat
  PROVE  IsWindow(BuildWindow(budget), budget)
<1>1. PICK n \in 0..Len(rows) : n = Len(rows) + 1 - From BY FromFacts
<1>2. Len(rows) + 1 - n = From BY <1>1, FromFacts
<1>3. Kept_OK(KeptOf(budget)[n], Len(rows) + 1 - n, budget) BY KeptScan
<1>4. Kept_OK(KeptOf(budget)[n], From, budget) BY <1>2, <1>3
<1>5. BuildWindow(budget) = KeptOf(budget)[n].first BY <1>1 DEF BuildWindow
<1>6. QED BY <1>4, <1>5 DEF Kept_OK, IsWindow

LEMMA WindowFactsLater ==
  ASSUME NEW budget \in Nat
  PROVE  (rows \in Seq(Row) => IsWindow(BuildWindow(budget), budget))'
<1>1. rows \in Seq(Row) => IsWindow(BuildWindow(budget), budget) BY WindowFacts
<1>2. QED BY <1>1, PTL

LEMMA WindowRange ==
  ASSUME rows \in Seq(Row), NEW budget \in Nat
  PROVE  /\ BuildWindow(budget) \in 1..Len(rows) + 1 /\ From <= BuildWindow(budget)
         /\ Len(rows) \in Nat
<1>1. BuildWindow(budget) \in From..Len(rows) + 1 BY WindowFacts DEF IsWindow
<1>2. QED BY <1>1, FromFacts

\* A smaller budget never shows more.
LEMMA WindowShrinks ==
  ASSUME rows \in Seq(Row), NEW b \in Nat, NEW c \in Nat, b <= c
  PROVE  BuildWindow(c) <= BuildWindow(b)
<1> DEFINE N == Len(rows)
<1>1. PICK w, v : w = BuildWindow(b) /\ v = BuildWindow(c) OBVIOUS
<1>2. IsWindow(w, b) /\ IsWindow(v, c) BY <1>1, WindowFacts
<1>3. N \in Nat /\ From \in 1..N + 1 /\ w \in From..N + 1 /\ v \in From..N + 1
  BY <1>2, FromFacts DEF IsWindow
<1>4. SUFFICES ASSUME w < v PROVE FALSE BY <1>1, <1>3
<1>5. w \in From..v - 1 /\ w <= N /\ w \in 1..N + 1 /\ w \in From..N BY <1>3, <1>4
<1>6. rows[w].role = "user" BY <1>2, <1>5 DEF IsWindow
<1>7. Tokens(w, N) > c BY <1>2, <1>5, <1>6 DEF IsWindow
<1>8. Tokens(w, N) \in Nat BY <1>5, TokensFacts
<1>9. ~(Tokens(w, N) <= b) BY <1>7, <1>8
<1>10. \A i \in w + 1..N : rows[i].role # "user" BY <1>2, <1>5, <1>9 DEF IsWindow
<1>11. CASE v <= N
  <2>1. rows[v].role = "user" BY <1>2, <1>11 DEF IsWindow
  <2>2. v \in w + 1..N BY <1>3, <1>4, <1>11
  <2>3. QED BY <1>10, <2>1, <2>2
<1>12. CASE v = N + 1 BY <1>2, <1>5, <1>6, <1>12 DEF IsWindow
<1>13. QED BY <1>3, <1>11, <1>12

LEMMA WindowFrame ==
  ASSUME UNCHANGED rows, NEW budget
  PROVE  BuildWindow(budget)' = BuildWindow(budget)
BY DEF BuildWindow, KeptOf, Grow, Tokens, From, Total

Extended ==
  /\ rows \in Seq(Row) /\ rows' \in Seq(Row) /\ Len(rows) <= Len(rows')
  /\ \A n \in 1..Len(rows) : rows'[n] = rows[n]

\* The window moves forward as the conversation grows.
LEMMA WindowMoves ==
  ASSUME Extended, NEW b \in Nat
  PROVE  BuildWindow(b) <= BuildWindow(b)'
<1> DEFINE N == Len(rows)
           M == Len(rows')
<1>1. rows \in Seq(Row) /\ rows' \in Seq(Row) BY DEF Extended
<1>2. PICK w, v : w = BuildWindow(b) /\ v = BuildWindow(b)' OBVIOUS
<1>3. IsWindow(w, b) BY <1>1, <1>2, WindowFacts
<1>4. IsWindow(v, b)'
  <2>1. IsWindow(BuildWindow(b), b)' BY <1>1, WindowFactsLater
  <2>2. QED BY <1>2, <2>1 DEF IsWindow
<1>5. N \in Nat /\ From \in 1..N + 1 /\ w \in From..N + 1 BY <1>1, <1>3, FromFacts DEF IsWindow
<1>6. M \in Nat /\ v \in From'..M + 1 BY <1>1, <1>4 DEF IsWindow
<1>7. From' \in Nat /\ From <= From'
  <2>1. Horizon \in Nat \ {0} /\ N <= M BY CompactionAssumptions DEF Extended
  <2>2. QED BY <1>5, <1>6, <2>1 DEF From
<1>8. SUFFICES ASSUME v < w PROVE FALSE BY <1>2, <1>5, <1>6, <1>7
<1>9. v \in 1..N /\ v \in From..w - 1 /\ v \in From..N /\ v <= M
  BY <1>5, <1>6, <1>7, <1>8 DEF Extended
<1>10. rows'[v].role = "user" BY <1>4, <1>9 DEF IsWindow
<1>11. rows[v].role = "user" BY <1>9, <1>10 DEF Extended
<1>12. Tokens(v, N) > b BY <1>3, <1>9, <1>11 DEF IsWindow
<1>13. (Tokens(v, Len(rows)))' > b
  <2> DEFINE t == Total(rows)
             u == Total(rows')
  <2>1. t \in [0..N -> Nat] /\ u \in [0..M -> Nat] BY <1>1, TotalRec
  <2>2. v - 1 \in 0..N /\ N \in 0..N /\ N \in 0..M /\ M \in 0..M /\ v - 1 \in 0..M
    BY <1>5, <1>6, <1>9 DEF Extended
  <2>3. u[v - 1] = t[v - 1] /\ u[N] = t[N] BY <1>1, <2>2, TotalOfPrefix DEF Extended
  <2>4. u[N] <= u[M] BY <1>1, <2>2, TotalGrows
  <2>5. Tokens(v, N) = t[N] - t[v - 1] /\ (Tokens(v, Len(rows)))' = u[M] - u[v - 1]
    BY DEF Tokens
  <2> HIDE DEF t, u
  <2>6. t[N] \in Nat /\ t[v - 1] \in Nat /\ u[M] \in Nat BY <2>1, <2>2
  <2>7. QED BY <1>12, <2>3, <2>4, <2>5, <2>6
<1>14. ~((Tokens(v, Len(rows)))' <= b)
  <2>1. Total(rows') \in [0..M -> Nat] BY <1>1, TotalRec
  <2>2. M \in 0..M /\ v - 1 \in 0..M BY <1>6, <1>9
  <2>3. (Tokens(v, Len(rows)))' \in Int BY <2>1, <2>2 DEF Tokens
  <2>4. QED BY <1>13, <2>3
<1>15. \A i \in v + 1..M : rows'[i].role # "user" BY <1>4, <1>9, <1>14 DEF IsWindow
<1>16. CASE w <= N
  <2>1. w \in v + 1..M /\ w \in 1..N BY <1>5, <1>6, <1>8, <1>9, <1>16 DEF Extended
  <2>2. rows[w].role = "user" BY <1>3, <1>16 DEF IsWindow
  <2>3. rows'[w].role = "user" BY <2>1, <2>2 DEF Extended
  <2>4. QED BY <1>15, <2>1, <2>3
<1>17. CASE w = N + 1 BY <1>3, <1>9, <1>11, <1>17 DEF IsWindow
<1>18. QED BY <1>5, <1>16, <1>17

(***************************************************************************)
(* The inductive invariant.                                                *)
(***************************************************************************)
\* What a summary says of itself is so: its rows end before the window, and it
\* is tainted exactly when they hold an untrusted call.
Accurate(s) ==
  /\ s.from \in Nat \ {0} /\ s.upTo < BuildWindow(Budget)
  /\ s.tainted <=> UntrustedCall(s.from, s.upTo)

SummaryInv ==
  /\ \A i \in 1..Len(summaries) : Accurate(summaries[i]) /\ summaries[i].from <= summaries[i].upTo
  /\ Accurate(shown)

LoopInv ==
  /\ phase = "summarizing" => Dropped(BuildWindow(Budget))
  /\ phase # "idle" /\ TaintMode # "off" /\ Newest.tainted => tainted
  /\ phase = "model" =>
       /\ first = BuildWindow(Left(shown))
       /\ shown # NoSummary /\ TaintMode # "off" /\ UntrustedCall(From, first - 1) => tainted

TypeInv == TypeOK /\ first <= Len(rows) + 1

CompactionInv == TypeInv /\ SummaryInv /\ LoopInv

LEMMA Constants ==
  /\ Budget \in Nat /\ Horizon \in Nat \ {0} /\ Kept \in Nat \ {0}
  /\ \A n \in Sizes \cup SummarySizes : n \in Nat
BY CompactionAssumptions

LEMMA NoSummaryFacts ==
  ASSUME rows \in Seq(Row)
  PROVE  NoSummary \in Summary /\ Accurate(NoSummary)
<1>1. NoSummary \in Summary BY DEF NoSummary, Summary
<1>2. BuildWindow(Budget) \in 1..Len(rows) + 1 BY Constants, WindowRange
<1>3. ~UntrustedCall(1, 0) BY DEF UntrustedCall
<1>4. QED BY <1>1, <1>2, <1>3 DEF NoSummary, Accurate

LEMMA LeftFacts ==
  ASSUME NEW s \in Summary
  PROVE  Left(s) \in Nat /\ Left(s) <= Budget
<1>1. s.tokens \in Nat BY DEF Summary
<1>2. QED BY <1>1, Constants DEF Left

LEMMA NewestFacts ==
  ASSUME TypeInv, SummaryInv
  PROVE  /\ Newest \in Summary /\ Accurate(Newest)
         /\ Newest # NoSummary => Newest.from <= Newest.upTo
<1>1. CASE summaries = <<>>
  <2>1. Newest = NoSummary BY <1>1 DEF Newest
  <2>2. QED BY <2>1, NoSummaryFacts DEF TypeInv, TypeOK
<1>2. CASE summaries # <<>>
  <2>1. Newest = summaries[Len(summaries)] BY <1>2 DEF Newest, Last
  <2>2. Len(summaries) \in 1..Len(summaries) /\ summaries[Len(summaries)] \in Summary
    BY <1>2 DEF TypeInv, TypeOK
  <2>3. QED BY <2>1, <2>2 DEF SummaryInv
<1>3. QED BY <1>1, <1>2

\* A summary stays accurate as the conversation grows.
LEMMA AccurateKept ==
  ASSUME Extended, NEW s \in Summary, Accurate(s)
  PROVE  Accurate(s)'
<1>1. s.from \in Nat \ {0} /\ s.upTo \in Nat /\ s.upTo < BuildWindow(Budget)
  BY DEF Accurate, Summary
<1>2. BuildWindow(Budget) \in 1..Len(rows) + 1 /\ Len(rows) \in Nat
  BY Constants, WindowRange DEF Extended
<1>3. BuildWindow(Budget)' \in Nat
  <2>1. Budget \in Nat BY Constants
  <2>2. IsWindow(BuildWindow(Budget), Budget)' BY <2>1, WindowFactsLater DEF Extended
  <2>3. From' \in Nat /\ Len(rows') \in Nat BY Constants DEF From, Extended
  <2>4. PICK w : w = BuildWindow(Budget)' OBVIOUS
  <2>5. w \in From'..Len(rows') + 1 BY <2>2, <2>4 DEF IsWindow
  <2>6. QED BY <2>3, <2>4, <2>5
<1>4. s.upTo < BuildWindow(Budget)'
  <2>1. BuildWindow(Budget) <= BuildWindow(Budget)' BY Constants, WindowMoves
  <2>2. QED BY <1>1, <1>2, <1>3, <2>1
<1>5. \A i \in s.from..s.upTo : i \in 1..Len(rows) BY <1>1, <1>2
<1>6. UntrustedCall(s.from, s.upTo)' <=> UntrustedCall(s.from, s.upTo)
  BY <1>5 DEF UntrustedCall, Extended
<1>7. QED BY <1>1, <1>4, <1>6 DEF Accurate

LEMMA RowsSame ==
  ASSUME TypeOK, UNCHANGED rows
  PROVE  Extended
BY DEF Extended, TypeOK

LEMMA AppendExtends ==
  ASSUME NEW q \in Seq(Row), NEW x \in Seq(Row)
  PROVE  /\ q \o x \in Seq(Row) /\ Len(q) <= Len(q \o x)
         /\ \A n \in 1..Len(q) : (q \o x)[n] = q[n]
OBVIOUS

LEMMA PushExtends ==
  ASSUME NEW q \in Seq(Row), NEW x \in Row
  PROVE  /\ Append(q, x) \in Seq(Row) /\ Len(q) <= Len(Append(q, x))
         /\ \A n \in 1..Len(q) : Append(q, x)[n] = q[n]
OBVIOUS

LEMMA BatchType ==
  ASSUME NEW u \in BOOLEAN, NEW v \in BOOLEAN, NEW n \in Nat
  PROVE  Batch(u, v, n) \in Seq(Row)
<1>1. [role |-> "call", tokens |-> 1, untrusted |-> u] \in Row BY DEF Row
<1>2. [role |-> "result", tokens |-> n, untrusted |-> v] \in Row BY DEF Row
<1>3. QED BY <1>1, <1>2 DEF Batch

LEMMA ClosingType ==
  ASSUME TypeOK, NEW a \in BOOLEAN, NEW n \in Nat
  PROVE  Closing(a, n) \in Seq(Row)
<1>1. suspended.ran \in BOOLEAN /\ suspended.pending \in BOOLEAN BY DEF TypeOK, Suspension
<1>2. PICK u \in BOOLEAN : u = (suspended.ran \/ suspended.pending) BY <1>1
<1>3. PICK v \in BOOLEAN : v = (suspended.ran \/ (a /\ suspended.pending)) BY <1>1
<1>4. CASE suspended.waits
  <2>1. Closing(a, n) = Batch(u, v, n) BY <1>2, <1>3, <1>4 DEF Closing
  <2>2. QED BY <2>1, BatchType
<1>5. CASE ~suspended.waits BY <1>5 DEF Closing
<1>6. QED BY <1>4, <1>5

Appends ==
  \/ \E n \in Sizes : \/ UserMessage(n)
                      \/ \E a \in BOOLEAN : ResumeTurn(a, n)
                      \/ \E u \in BOOLEAN : CallTools(u, n)
  \/ ModelReplies

LEMMA AppendsExtend ==
  ASSUME TypeOK, Appends
  PROVE  Extended
<1>0. rows \in Seq(Row) BY DEF TypeOK
<1>1. ASSUME NEW n \in Sizes, UserMessage(n) PROVE Extended
  <2>1. PICK c \in Seq(Row) : c = Closing(FALSE, 1) BY ClosingType
  <2>2. [role |-> "user", tokens |-> n, untrusted |-> FALSE] \in Row BY Constants DEF Row
  <2>3. PICK q \in Seq(Row) : q = rows \o c
    <3>1. rows \o c \in Seq(Row) BY <1>0, AppendExtends
    <3>2. QED BY <3>1
  <2>4. PICK x \in Row : x = [role |-> "user", tokens |-> n, untrusted |-> FALSE] BY <2>2
  <2>5. rows' = Append(q, x) BY <1>1, <2>1, <2>3, <2>4 DEF UserMessage
  <2>6. Len(rows) <= Len(q) /\ \A i \in 1..Len(rows) : q[i] = rows[i]
    BY <1>0, <2>3, AppendExtends
  <2>7. QED BY <1>0, <2>5, <2>6, PushExtends DEF Extended
<1>2. ASSUME NEW n \in Sizes, NEW a \in BOOLEAN, ResumeTurn(a, n) PROVE Extended
  <2>1. n \in Nat BY Constants
  <2>2. Closing(a, n) \in Seq(Row) BY <2>1, ClosingType
  <2>3. rows' = rows \o Closing(a, n) BY <1>2 DEF ResumeTurn
  <2>4. QED BY <1>0, <2>2, <2>3, AppendExtends DEF Extended
<1>3. ASSUME NEW n \in Sizes, NEW u \in BOOLEAN, CallTools(u, n) PROVE Extended
  <2>1. n \in Nat BY Constants
  <2>2. Batch(u, u, n) \in Seq(Row) BY <2>1, BatchType
  <2>3. rows' = rows \o Batch(u, u, n) BY <1>3 DEF CallTools
  <2>4. QED BY <1>0, <2>2, <2>3, AppendExtends DEF Extended
<1>4. ASSUME ModelReplies PROVE Extended
  <2>1. [role |-> "reply", tokens |-> 1, untrusted |-> FALSE] \in Row BY DEF Row
  <2>2. rows' = Append(rows, [role |-> "reply", tokens |-> 1, untrusted |-> FALSE])
    BY <1>4 DEF ModelReplies
  <2>3. QED BY <1>0, <2>1, <2>2, PushExtends DEF Extended
<1>5. QED BY <1>1, <1>2, <1>3, <1>4 DEF Appends

\* Pruning keeps the newest summaries and invents none.
LEMMA PruneFacts ==
  ASSUME NEW s \in Seq(Summary), s # <<>>
  PROVE  /\ Prune(s) \in Seq(Summary) /\ Len(Prune(s)) <= Kept /\ Prune(s) # <<>>
         /\ Prune(s)[Len(Prune(s))] = s[Len(s)]
         /\ \A i \in 1..Len(Prune(s)) : \E j \in 1..Len(s) : Prune(s)[i] = s[j]
<1>1. Len(s) \in Nat \ {0} /\ Kept \in Nat \ {0} BY Constants
<1>2. CASE Len(s) > Kept
  <2> DEFINE m == Len(s) - Kept + 1
             p == SubSeq(s, m, Len(s))
  <2>1. Prune(s) = p BY <1>2 DEF Prune
  <2>2. m \in 1..Len(s) BY <1>1, <1>2
  <2>3. p \in Seq(Summary) /\ Len(p) = Len(s) - m + 1
        /\ \A i \in 1..Len(p) : p[i] = s[i + m - 1]
    BY <1>1, <2>2
  <2>4. Len(p) = Kept BY <1>1, <2>3
  <2> HIDE DEF p
  <2>5. p[Len(p)] = s[Len(s)]
    <3>1. Kept \in 1..Len(p) /\ Kept + m - 1 = Len(s) BY <1>1, <2>4
    <3>2. QED BY <2>3, <2>4, <3>1
  <2>6. \A i \in 1..Len(p) : \E j \in 1..Len(s) : p[i] = s[j]
    <3>1. ASSUME NEW i \in 1..Len(p) PROVE i + m - 1 \in 1..Len(s) BY <1>1, <1>2, <2>4, <3>1
    <3>2. QED BY <2>3, <3>1
  <2>7. p # <<>> /\ Len(p) <= Kept BY <1>1, <2>4
  <2>8. QED BY <2>1, <2>3, <2>5, <2>6, <2>7
<1>3. CASE ~(Len(s) > Kept)
  <2>1. Prune(s) = s BY <1>3 DEF Prune
  <2>2. QED BY <1>1, <1>3, <2>1
<1>4. QED BY <1>2, <1>3

(***************************************************************************)
(* Steps that add messages.                                                *)
(***************************************************************************)
\* Summaries that are there stay accurate while nothing is written.
LEMMA SummariesKept ==
  ASSUME TypeInv, SummaryInv, Extended, UNCHANGED summaries, shown' \in {shown, NoSummary}
  PROVE  SummaryInv'
<1>1. ASSUME NEW i \in 1..Len(summaries)
      PROVE  Accurate(summaries[i])' /\ summaries'[i].from <= summaries'[i].upTo
  <2>1. summaries[i] \in Summary BY DEF TypeInv, TypeOK
  <2>2. PICK s \in Summary : s = summaries[i] BY <2>1
  <2>3. Accurate(s)' BY <2>2, AccurateKept DEF SummaryInv
  <2>4. summaries'[i] = s BY <2>2
  <2>5. QED BY <2>2, <2>3, <2>4 DEF SummaryInv, Accurate
<1>2. Accurate(shown)'
  <2>1. shown \in Summary /\ rows \in Seq(Row) BY DEF TypeInv, TypeOK
  <2>2. shown' \in Summary BY <2>1, NoSummaryFacts
  <2>3. PICK s \in Summary : s = shown' BY <2>2
  <2>4. Accurate(s) BY <2>1, <2>3, NoSummaryFacts DEF SummaryInv
  <2>5. Accurate(s)' BY <2>4, AccurateKept
  <2>6. QED BY <2>3, <2>5 DEF Accurate
<1>3. QED BY <1>1, <1>2 DEF SummaryInv

LEMMA AppendsType ==
  ASSUME TypeInv, Appends
  PROVE  TypeInv'
<1>1. Extended BY AppendsExtend DEF TypeInv
<1>2. first \in Nat /\ first <= Len(rows) + 1 /\ gap \subseteq 1..Len(rows)
      /\ rows \in Seq(Row) /\ Len(rows) \in Nat
  BY DEF TypeInv, TypeOK
<1>3. Len(rows) <= Len(rows') /\ Len(rows') \in Nat /\ rows' \in Seq(Row) BY <1>1 DEF Extended
<1>4. first' = first /\ UNCHANGED summaries
  BY DEF Appends, UserMessage, ResumeTurn, CallTools, ModelReplies, EnterLoop, loopVars
<1>5. gap' \in {gap, Hidden}
  BY DEF Appends, UserMessage, ResumeTurn, CallTools, ModelReplies
<1>6. Hidden \subseteq 1..Len(rows)
  <2>1. From \in Nat \ {0} BY <1>2, FromFacts
  <2>2. From..first - 1 \subseteq 1..Len(rows) BY <1>2, <2>1
  <2>3. QED BY <2>2 DEF Hidden
<1>7. gap' \subseteq 1..Len(rows')
  <2>1. gap' \subseteq 1..Len(rows) BY <1>2, <1>5, <1>6
  <2>2. 1..Len(rows) \subseteq 1..Len(rows') BY <1>2, <1>3
  <2>3. QED BY <2>1, <2>2
<1>8. shown' \in {shown, NoSummary} /\ cached' \in {cached, FALSE}
      /\ phase' \in {"assemble", "idle"} /\ suspended' \in {suspended, NoSuspension}
  BY DEF Appends, UserMessage, ResumeTurn, CallTools, ModelReplies, EnterLoop, loopVars
<1>9. shown' \in Summary /\ suspended' \in Suspension /\ cached' \in BOOLEAN
  <2>1. NoSuspension \in Suspension BY DEF NoSuspension, Suspension
  <2>2. NoSummary \in Summary BY DEF NoSummary, Summary
  <2>3. QED BY <1>8, <2>1, <2>2 DEF TypeInv, TypeOK
<1>10. tainted' \in BOOLEAN
  <2>1. tainted \in BOOLEAN /\ suspended.tainted \in BOOLEAN /\ suspended.pending \in BOOLEAN
    BY DEF TypeInv, TypeOK, Suspension
  <2>2. Newest.tainted \in BOOLEAN
    <3>1. CASE summaries = <<>> BY <3>1 DEF Newest, NoSummary
    <3>2. CASE summaries # <<>>
      <4>1. summaries[Len(summaries)] \in Summary BY <3>2 DEF TypeInv, TypeOK
      <4>2. QED BY <3>2, <4>1 DEF Newest, Last, Summary
    <3>3. QED BY <3>1, <3>2
  <2>3. ASSUME NEW x \in BOOLEAN, EnterLoop(x) PROVE tainted' \in BOOLEAN
    BY <2>2, <2>3 DEF EnterLoop
  <2>4. ASSUME NEW n \in Sizes, UserMessage(n) PROVE tainted' \in BOOLEAN
    BY <2>3, <2>4 DEF UserMessage
  <2>5. ASSUME NEW n \in Sizes, NEW a \in BOOLEAN, ResumeTurn(a, n) PROVE tainted' \in BOOLEAN
    <3>1. PICK x \in BOOLEAN : x = (suspended.tainted \/ (a /\ suspended.pending)) BY <2>1
    <3>2. EnterLoop(x) BY <2>5, <3>1 DEF ResumeTurn
    <3>3. QED BY <2>3, <3>2
  <2>6. ASSUME NEW n \in Sizes, NEW u \in BOOLEAN, CallTools(u, n) PROVE tainted' \in BOOLEAN
    BY <2>1, <2>6 DEF CallTools
  <2>7. ASSUME ModelReplies PROVE tainted' \in BOOLEAN
    BY <2>1, <2>7 DEF ModelReplies, loopVars
  <2>8. QED BY <2>4, <2>5, <2>6, <2>7 DEF Appends
<1>11. summaries' \in Seq(Summary) /\ Len(summaries') <= Kept BY <1>4 DEF TypeInv, TypeOK
<1>12. first' \in Nat /\ first' <= Len(rows') + 1 BY <1>2, <1>3, <1>4
<1>13. phase' \in {"idle", "assemble", "summarizing", "model"} BY <1>8
<1>14. QED BY <1>3, <1>7, <1>9, <1>10, <1>11, <1>12, <1>13 DEF TypeInv, TypeOK

LEMMA AppendsStep ==
  ASSUME CompactionInv, Appends
  PROVE  CompactionInv'
<1>1. TypeInv' BY AppendsType DEF CompactionInv
<1>2. SummaryInv'
  <2>1. UNCHANGED summaries /\ shown' \in {shown, NoSummary}
    BY DEF Appends, UserMessage, ResumeTurn, CallTools, ModelReplies, EnterLoop, loopVars
  <2>2. QED BY <2>1, AppendsExtend, SummariesKept DEF CompactionInv, TypeInv
<1>3. LoopInv'
  <2>1. phase' \in {"assemble", "idle"} /\ UNCHANGED summaries
    BY DEF Appends, UserMessage, ResumeTurn, CallTools, ModelReplies, EnterLoop, loopVars
  <2>2. Newest' = Newest BY <2>1 DEF Newest
  <2>3. phase' # "idle" /\ TaintMode # "off" /\ Newest.tainted => tainted'
    BY DEF Appends, UserMessage, ResumeTurn, CallTools, ModelReplies, EnterLoop,
           CompactionInv, LoopInv
  <2>4. QED BY <2>1, <2>2, <2>3 DEF LoopInv
<1>4. QED BY <1>1, <1>2, <1>3 DEF CompactionInv

(***************************************************************************)
(* Steps that put a window in front of the model.                          *)
(***************************************************************************)
\* A step that shows s, and what it leaves of the rest.
Shows(s) ==
  /\ Show(s) /\ s \in Summary /\ Accurate(s)
  /\ UNCHANGED <<rows, suspended, gap>> /\ cached' \in BOOLEAN
  /\ summaries' \in Seq(Summary) /\ Len(summaries') <= Kept
  /\ \A i \in 1..Len(summaries') :
       Accurate(summaries'[i]) /\ summaries'[i].from <= summaries'[i].upTo
  /\ Newest' \in {Newest, s}
  /\ phase # "idle"

LEMMA AppendFacts ==
  ASSUME NEW S, NEW r \in Seq(S), NEW x \in S
  PROVE  /\ Append(r, x) \in Seq(S) /\ Append(r, x) # <<>>
         /\ Append(r, x)[Len(Append(r, x))] = x
         /\ \A j \in 1..Len(Append(r, x)) :
              Append(r, x)[j] = x \/ (j \in 1..Len(r) /\ Append(r, x)[j] = r[j])
<1> DEFINE a == Append(r, x)
<1>1. Len(r) \in Nat /\ Len(a) = Len(r) + 1 /\ a \in Seq(S) OBVIOUS
<1>2. \A j \in 1..Len(r) + 1 : a[j] = IF j = Len(r) + 1 THEN x ELSE r[j] OBVIOUS
<1>3. a # <<>> BY <1>1
<1> HIDE DEF a
<1>4. a[Len(a)] = x BY <1>1, <1>2
<1>5. ASSUME NEW j \in 1..Len(a) PROVE a[j] = x \/ (j \in 1..Len(r) /\ a[j] = r[j])
  <2>1. j \in 1..Len(r) + 1 BY <1>1
  <2>2. CASE j = Len(r) + 1 BY <1>2, <2>1, <2>2
  <2>3. CASE j # Len(r) + 1
    <3>1. j \in 1..Len(r) BY <1>1, <2>1, <2>3
    <3>2. QED BY <1>2, <2>1, <2>3, <3>1
  <2>4. QED BY <2>2, <2>3
<1>6. QED BY <1>1, <1>3, <1>4, <1>5 DEF a

\* The row SummaryWritten adds says what is so.
LEMMA WrittenFacts ==
  ASSUME CompactionInv, NEW n \in SummarySizes, SummaryWritten(n)
  PROVE  \E s \in Summary : /\ Show(s) /\ Accurate(s) /\ s.from <= s.upTo
                            /\ s.upTo = BuildWindow(Budget) - 1
                            /\ summaries' = Prune(Append(summaries, s))
<1>1. PICK cut : cut = BuildWindow(Budget) OBVIOUS
<1>2. rows \in Seq(Row) /\ phase = "summarizing"
  BY DEF CompactionInv, TypeInv, TypeOK, SummaryWritten
<1>3. From \in 1..Len(rows) + 1 /\ cut \in 1..Len(rows) + 1 /\ Len(rows) \in Nat
  BY <1>1, <1>2, Constants, WindowRange, FromFacts
<1>4. cut > From BY <1>1, <1>2 DEF CompactionInv, LoopInv, Dropped
<1>5. PICK u \in BOOLEAN : u = UntrustedCall(From, cut - 1) BY DEF UntrustedCall
<1> DEFINE s == [from |-> From, upTo |-> cut - 1, tokens |-> n, tainted |-> u]
<1>6. s \in Summary
  <2>1. From \in Nat /\ cut - 1 \in Nat /\ n \in Nat BY <1>3, Constants
  <2>2. QED BY <2>1 DEF Summary
<1>7. s.from = From /\ s.upTo = cut - 1 /\ s.tainted = u OBVIOUS
<1>8. Show(s) /\ summaries' = Prune(Append(summaries, s))
  BY <1>1, <1>5 DEF SummaryWritten, Watermark
<1> HIDE DEF s
<1>9. Accurate(s) BY <1>1, <1>3, <1>5, <1>7 DEF Accurate
<1>10. s.from <= s.upTo BY <1>3, <1>4, <1>7
<1>11. QED BY <1>1, <1>6, <1>7, <1>8, <1>9, <1>10

LEMMA WrittenShows ==
  ASSUME CompactionInv, NEW n \in SummarySizes, SummaryWritten(n)
  PROVE  \E s \in Summary : Shows(s)
<1>1. PICK s \in Summary : /\ Show(s) /\ Accurate(s) /\ s.from <= s.upTo
                           /\ summaries' = Prune(Append(summaries, s))
  BY WrittenFacts
<1>2. summaries \in Seq(Summary)
      /\ \A i \in 1..Len(summaries) :
           Accurate(summaries[i]) /\ summaries[i].from <= summaries[i].upTo
  BY DEF CompactionInv, TypeInv, TypeOK, SummaryInv
<1>3. PICK q : q = Append(summaries, s) OBVIOUS
<1>4. q \in Seq(Summary) /\ q # <<>> /\ q[Len(q)] = s BY <1>2, <1>3, AppendFacts
<1>5. \A j \in 1..Len(q) : Accurate(q[j]) /\ q[j].from <= q[j].upTo
  <2>1. ASSUME NEW j \in 1..Len(q)
        PROVE  q[j] = s \/ (j \in 1..Len(summaries) /\ q[j] = summaries[j])
    BY <1>2, <1>3, AppendFacts
  <2>2. QED BY <1>1, <1>2, <2>1
<1>6. /\ summaries' \in Seq(Summary) /\ Len(summaries') <= Kept /\ summaries' # <<>>
      /\ summaries'[Len(summaries')] = s
      /\ \A i \in 1..Len(summaries') : \E j \in 1..Len(q) : summaries'[i] = q[j]
  BY <1>1, <1>3, <1>4, PruneFacts
<1>7. \A i \in 1..Len(summaries') :
        Accurate(summaries'[i]) /\ summaries'[i].from <= summaries'[i].upTo
  BY <1>5, <1>6
<1>8. Newest' = s BY <1>6 DEF Newest, Last
<1>9. UNCHANGED <<rows, suspended, gap>> /\ cached' \in BOOLEAN /\ phase # "idle"
  BY DEF SummaryWritten
<1>10. QED BY <1>1, <1>6, <1>7, <1>8, <1>9 DEF Shows

ShowSteps ==
  \/ ShowWhole \/ ShowAgain \/ ReuseSummary \/ SummarizerFails
  \/ \E n \in SummarySizes : SummaryWritten(n)

LEMMA ShowStepsShow ==
  ASSUME CompactionInv, ShowSteps
  PROVE  \E s \in Summary : Shows(s)
<1>1. CASE \E n \in SummarySizes : SummaryWritten(n) BY <1>1, WrittenShows
<1>2. CASE ShowWhole \/ ShowAgain \/ ReuseSummary \/ SummarizerFails
  <2>1. PICK s \in {NoSummary, shown, Newest} : Show(s)
    BY <1>2 DEF ShowWhole, ShowAgain, ReuseSummary, SummarizerFails
  <2>2. s \in Summary /\ Accurate(s)
    <3>1. rows \in Seq(Row) /\ shown \in Summary BY DEF CompactionInv, TypeInv, TypeOK
    <3>2. Accurate(shown) BY DEF CompactionInv, SummaryInv
    <3>3. QED BY <3>1, <3>2, NoSummaryFacts, NewestFacts DEF CompactionInv
  <2>3. UNCHANGED <<rows, summaries, suspended, gap>> /\ cached' \in BOOLEAN /\ phase # "idle"
    BY <1>2 DEF ShowWhole, ShowAgain, ReuseSummary, SummarizerFails,
                CompactionInv, TypeInv, TypeOK
  <2>4. Newest' = Newest BY <2>3 DEF Newest
  <2>5. summaries' \in Seq(Summary) /\ Len(summaries') <= Kept
        /\ \A i \in 1..Len(summaries') :
             Accurate(summaries'[i]) /\ summaries'[i].from <= summaries'[i].upTo
    BY <2>3 DEF CompactionInv, TypeInv, TypeOK, SummaryInv
  <2>6. QED BY <2>1, <2>2, <2>3, <2>4, <2>5 DEF Shows
<1>3. QED BY <1>1, <1>2 DEF ShowSteps

LEMMA ShowsStep ==
  ASSUME CompactionInv, NEW s \in Summary, Shows(s)
  PROVE  CompactionInv'
<1>1. /\ phase' = "model" /\ shown' = s /\ first' = BuildWindow(Left(s))
      /\ UNCHANGED <<rows, suspended, gap>> /\ cached' \in BOOLEAN
  BY DEF Shows, Show
<1>2. rows \in Seq(Row) /\ Len(rows) \in Nat BY DEF CompactionInv, TypeInv, TypeOK
<1>3. first' \in Nat /\ first' <= Len(rows) + 1
  <2>1. PICK b \in Nat : b = Left(s) BY LeftFacts
  <2>2. BuildWindow(b) \in 1..Len(rows) + 1 BY <1>2, WindowRange
  <2>3. QED BY <1>1, <1>2, <2>1, <2>2
<1>4. tainted' \in BOOLEAN
  <2>1. tainted \in BOOLEAN /\ s.tainted \in BOOLEAN BY DEF CompactionInv, TypeInv, TypeOK, Summary
  <2>2. QED BY <2>1 DEF Shows, Show
<1>5. TypeInv'
  BY <1>1, <1>2, <1>3, <1>4 DEF CompactionInv, TypeInv, TypeOK, Shows
<1>6. Extended BY <1>1, RowsSame DEF CompactionInv, TypeInv
<1>7. SummaryInv'
  <2>1. ASSUME NEW i \in 1..Len(summaries')
        PROVE  Accurate(summaries[i])' /\ summaries'[i].from <= summaries'[i].upTo
    <3>1. summaries'[i] \in Summary BY DEF Shows
    <3>2. PICK r \in Summary : r = summaries'[i] BY <3>1
    <3>3. Accurate(r)' BY <1>6, <3>2, AccurateKept DEF Shows
    <3>4. QED BY <3>2, <3>3 DEF Shows, Accurate
  <2>2. Accurate(s)' BY <1>6, AccurateKept DEF Shows
  <2>3. Accurate(shown)' BY <1>1, <2>2 DEF Accurate
  <2>4. QED BY <2>1, <2>3 DEF SummaryInv
<1>8. LoopInv'
  <2>1. first' = BuildWindow(Left(shown))'
    <3>1. PICK b \in Nat : b = Left(s) BY LeftFacts
    <3>2. b = Left(shown)' BY <1>1, <3>1 DEF Left
    <3>3. BuildWindow(b)' = BuildWindow(b) BY <1>1, WindowFrame
    <3>4. BuildWindow(b)' = BuildWindow(Left(shown))' BY <3>2 DEF BuildWindow
    <3>5. QED BY <1>1, <3>1, <3>3, <3>4
  <2>2. TaintMode # "off" /\ Newest'.tainted => tainted'
    <3>1. s.tainted => tainted' BY DEF Shows, Show
    <3>2. TaintMode # "off" /\ Newest.tainted => tainted'
      BY DEF CompactionInv, LoopInv, Shows, Show
    <3>3. QED BY <3>1, <3>2 DEF Shows
  <2>3. shown' # NoSummary /\ TaintMode # "off" /\ UntrustedCall(From, first - 1)' => tainted'
    <3>1. UntrustedCall(From, first - 1)' <=> UntrustedCall(From, first' - 1)
      BY <1>1 DEF UntrustedCall, From
    <3>2. QED BY <1>1, <3>1 DEF Shows, Show
  <2>4. QED BY <1>1, <2>1, <2>2, <2>3 DEF LoopInv
<1>9. QED BY <1>5, <1>7, <1>8 DEF CompactionInv

(***************************************************************************)
(* The other steps, and the theorems.                                      *)
(***************************************************************************)
LEMMA OtherSteps ==
  ASSUME CompactionInv,
         \/ AskSummarizer \/ ModelFails \/ Interrupted \/ UNCHANGED vars
         \/ \E r, p \in BOOLEAN : Suspend(r, p)
  PROVE  CompactionInv'
<1>1. /\ UNCHANGED <<rows, summaries, first, gap, tainted>>
      /\ shown' \in {shown, NoSummary} /\ cached' \in {cached, FALSE}
  <2>1. CASE \E r, p \in BOOLEAN : Suspend(r, p) BY <2>1 DEF Suspend, loopVars
  <2>2. CASE AskSummarizer BY <2>2 DEF AskSummarizer
  <2>3. CASE ModelFails BY <2>3 DEF ModelFails, loopVars
  <2>4. CASE Interrupted BY <2>4 DEF Interrupted
  <2>5. CASE UNCHANGED vars BY <2>5 DEF vars
  <2>6. QED BY <2>1, <2>2, <2>3, <2>4, <2>5
<1>2. Extended BY <1>1, RowsSame DEF CompactionInv, TypeInv
<1>3. \/ phase' = phase /\ shown' = shown
      \/ phase' = "idle"
      \/ phase = "assemble" /\ phase' = "summarizing" /\ Dropped(BuildWindow(Budget))
  <2>1. CASE \E r, p \in BOOLEAN : Suspend(r, p) BY <2>1 DEF Suspend
  <2>2. CASE AskSummarizer BY <2>2 DEF AskSummarizer
  <2>3. CASE ModelFails BY <2>3 DEF ModelFails
  <2>4. CASE Interrupted BY <2>4 DEF Interrupted
  <2>5. CASE UNCHANGED vars BY <2>5 DEF vars
  <2>6. QED BY <2>1, <2>2, <2>3, <2>4, <2>5
<1>4. TypeInv'
  <2>1. suspended' \in Suspension
    <3>1. CASE \E r, p \in BOOLEAN : Suspend(r, p)
      <4>1. PICK r, p \in BOOLEAN : Suspend(r, p) BY <3>1
      <4>2. tainted \in BOOLEAN BY DEF CompactionInv, TypeInv, TypeOK
      <4>3. PICK t \in BOOLEAN : t = (tainted \/ r) BY <4>2
      <4>4. suspended' = [waits |-> TRUE, tainted |-> t, ran |-> r, pending |-> p]
        BY <4>1, <4>3 DEF Suspend
      <4>5. QED BY <4>4 DEF Suspension
    <3>2. CASE UNCHANGED suspended BY <3>2 DEF CompactionInv, TypeInv, TypeOK
    <3>3. QED BY <3>1, <3>2 DEF AskSummarizer, ModelFails, Interrupted, vars
  <2>2. shown' \in Summary
    <3>1. NoSummary \in Summary BY DEF NoSummary, Summary
    <3>2. QED BY <1>1, <3>1 DEF CompactionInv, TypeInv, TypeOK
  <2>3. phase' \in {"idle", "assemble", "summarizing", "model"}
    BY <1>3 DEF CompactionInv, TypeInv, TypeOK
  <2>4. QED BY <1>1, <2>1, <2>2, <2>3 DEF CompactionInv, TypeInv, TypeOK
<1>5. SummaryInv' BY <1>1, <1>2, SummariesKept DEF CompactionInv
<1>6. LoopInv'
  <2>1. Newest' = Newest BY <1>1 DEF Newest
  <2>2. BuildWindow(Budget)' = BuildWindow(Budget) BY <1>1, WindowFrame
  <2>3. Dropped(BuildWindow(Budget))' <=> Dropped(BuildWindow(Budget))
    <3>1. PICK w : w = BuildWindow(Budget) OBVIOUS
    <3>2. w = BuildWindow(Budget)' BY <2>2, <3>1
    <3>3. From' = From BY <1>1 DEF From
    <3>4. QED BY <3>1, <3>2, <3>3 DEF Dropped
  <2>4. phase' = "summarizing" => Dropped(BuildWindow(Budget))'
    BY <1>3, <2>3 DEF CompactionInv, LoopInv
  <2>5. phase' # "idle" /\ TaintMode # "off" /\ Newest'.tainted => tainted'
    BY <1>1, <1>3, <2>1 DEF CompactionInv, LoopInv
  <2>6. ASSUME phase' = "model"
        PROVE  /\ first' = BuildWindow(Left(shown))'
               /\ shown' # NoSummary /\ TaintMode # "off" /\ UntrustedCall(From, first - 1)'
                    => tainted'
    <3>1. phase = "model" /\ shown' = shown BY <1>3, <2>6
    <3>2. first' = BuildWindow(Left(shown))'
      <4>1. PICK b : b = Left(shown) OBVIOUS
      <4>2. b = Left(shown)' BY <3>1, <4>1 DEF Left
      <4>3. BuildWindow(b)' = BuildWindow(b) BY <1>1, WindowFrame
      <4>4. BuildWindow(b)' = BuildWindow(Left(shown))' BY <4>2 DEF BuildWindow
      <4>5. QED BY <1>1, <3>1, <4>1, <4>3, <4>4 DEF CompactionInv, LoopInv
    <3>3. UntrustedCall(From, first - 1)' <=> UntrustedCall(From, first - 1)
      BY <1>1 DEF UntrustedCall, From
    <3>4. QED BY <1>1, <3>1, <3>2, <3>3 DEF CompactionInv, LoopInv
  <2>7. QED BY <2>4, <2>5, <2>6 DEF LoopInv
<1>7. QED BY <1>4, <1>5, <1>6 DEF CompactionInv

LEMMA CompactionInit == Init => CompactionInv
<1> SUFFICES ASSUME Init PROVE CompactionInv OBVIOUS
<1> USE DEF Init
<1>1. rows \in Seq(Row) /\ Len(rows) = 0 OBVIOUS
<1>2. TypeInv
  <2>1. NoSummary \in Summary /\ NoSuspension \in Suspension
    BY DEF NoSummary, Summary, NoSuspension, Suspension
  <2>2. Len(summaries) <= Kept BY Constants
  <2>3. summaries \in Seq(Summary) /\ gap \subseteq 1..Len(rows) OBVIOUS
  <2>4. first \in Nat /\ first <= Len(rows) + 1 BY <1>1
  <2>5. QED BY <1>1, <2>1, <2>2, <2>3, <2>4 DEF TypeInv, TypeOK
<1>3. SummaryInv BY <1>1, NoSummaryFacts DEF SummaryInv
<1>4. LoopInv BY DEF LoopInv
<1>5. QED BY <1>2, <1>3, <1>4 DEF CompactionInv

LEMMA CompactionStep == CompactionInv /\ [Next]_vars => CompactionInv'
<1> SUFFICES ASSUME CompactionInv, [Next]_vars PROVE CompactionInv' OBVIOUS
<1>1. CASE Appends BY <1>1, AppendsStep
<1>2. CASE ShowSteps BY <1>2, ShowStepsShow, ShowsStep
<1>3. CASE \/ AskSummarizer \/ ModelFails \/ Interrupted \/ UNCHANGED vars
           \/ \E r, p \in BOOLEAN : Suspend(r, p)
  BY <1>3, OtherSteps
<1>4. QED BY <1>1, <1>2, <1>3 DEF Next, Appends, ShowSteps

\* Every reachable state satisfies the inductive invariant.
THEOREM Invariance == Spec => []CompactionInv
<1>1. QED BY CompactionInit, CompactionStep, PTL DEF Spec

\* Rows, summaries and the loop's state keep their types, and a conversation
\* never has more summaries than _KEEP_PER_CONVERSATION.
THEOREM TypeCorrect == Spec => []TypeOK
<1>1. CompactionInv => TypeOK BY DEF CompactionInv, TypeInv
<1>2. QED BY <1>1, Invariance, PTL

\* build_window shows the longest run of whole turns that ends with the newest
\* and fits what the summary leaves of the budget.
THEOREM LongestFit == Spec => []WindowIsLongestFit
<1>1. CompactionInv => WindowIsLongestFit
  <2> SUFFICES ASSUME CompactionInv, phase = "model",
                      NEW u \in From..Len(rows), rows[u].role = "user"
               PROVE  LET Turns == {i \in From..Len(rows) : rows[i].role = "user"}
                          Fits(i) == Tokens(i, Len(rows)) <= Left(shown)
                      IN  /\ first \in Turns
                          /\ first = Max(Turns) \/ Fits(first)
                          /\ \A i \in Turns : i < first => ~Fits(i)
    BY DEF WindowIsLongestFit
  <2> DEFINE N == Len(rows)
             Turns == {i \in From..N : rows[i].role = "user"}
  <2>1. rows \in Seq(Row) /\ shown \in Summary /\ N \in Nat BY DEF CompactionInv, TypeInv, TypeOK
  <2>2. PICK b \in Nat : b = Left(shown) BY <2>1, LeftFacts
  <2>3. first = BuildWindow(b) BY <2>2 DEF CompactionInv, LoopInv
  <2>4. IsWindow(first, b) BY <2>1, <2>3, WindowFacts
  <2>5. From \in 1..N + 1 /\ first \in From..N + 1 /\ first # N + 1
    BY <2>1, <2>4, FromFacts DEF IsWindow
  <2>6. first \in From..N /\ first <= N /\ first \in 1..N + 1 BY <2>1, <2>5
  <2>7. rows[first].role = "user" BY <2>4, <2>6 DEF IsWindow
  <2>8. first \in Turns BY <2>6, <2>7
  <2>9. ASSUME ~(Tokens(first, N) <= b) PROVE first = Max(Turns)
    <3>1. \A i \in first + 1..N : rows[i].role # "user" BY <2>4, <2>6, <2>9 DEF IsWindow
    <3>2. \A i \in Turns : first >= i BY <2>1, <2>5, <3>1
    <3>3. \A x \in Turns : (\A i \in Turns : x >= i) => x = first BY <2>5, <2>8, <3>2
    <3>4. Max(Turns) = CHOOSE x \in Turns : \A i \in Turns : x >= i BY DEF Max
    <3> HIDE DEF Turns
    <3>5. QED BY <2>8, <3>2, <3>3, <3>4
  <2>10. ASSUME NEW i \in Turns, i < first PROVE ~(Tokens(i, N) <= b)
    <3>1. i \in From..first - 1 /\ i \in 1..N + 1 /\ rows[i].role = "user" BY <2>5, <2>10
    <3>2. Tokens(i, N) > b BY <2>4, <3>1 DEF IsWindow
    <3>3. Tokens(i, N) \in Nat BY <2>1, <3>1, TokensFacts
    <3>4. QED BY <3>2, <3>3
  <2>11. QED BY <2>2, <2>8, <2>9, <2>10
<1>2. QED BY <1>1, Invariance, PTL

\* The watermark of the summary shown never claims a row of the window.
THEOREM EndsBeforeWindow == Spec => []SummaryEndsBeforeWindow
<1>1. CompactionInv => SummaryEndsBeforeWindow
  <2> SUFFICES ASSUME CompactionInv, phase = "model" PROVE shown.upTo < first
    BY DEF SummaryEndsBeforeWindow
  <2>1. rows \in Seq(Row) /\ shown \in Summary BY DEF CompactionInv, TypeInv, TypeOK
  <2>2. PICK b \in Nat : b = Left(shown) BY <2>1, LeftFacts
  <2>3. b <= Budget /\ Budget \in Nat BY <2>1, <2>2, LeftFacts, Constants
  <2>4. first = BuildWindow(b) BY <2>2 DEF CompactionInv, LoopInv
  <2>5. BuildWindow(Budget) <= first BY <2>1, <2>3, <2>4, WindowShrinks
  <2>6. shown.upTo < BuildWindow(Budget) BY DEF CompactionInv, SummaryInv, Accurate
  <2>7. /\ shown.upTo \in Nat /\ first \in 1..Len(rows) + 1 /\ Len(rows) \in Nat
        /\ BuildWindow(Budget) \in 1..Len(rows) + 1
    BY <2>1, <2>3, <2>4, WindowRange DEF Summary
  <2>8. QED BY <2>5, <2>6, <2>7
<1>2. QED BY <1>1, Invariance, PTL

\* Provenance survives compaction: an untrusted call that the newest summary
\* covers, or that made way for the summary shown, has tainted the loop.
THEOREM TaintIsKept == Spec => []TaintFollowsCalls
<1>1. CompactionInv => TaintFollowsCalls
  <2>1. ASSUME CompactionInv PROVE Newest.tainted <=> UntrustedCall(Newest.from, Newest.upTo)
    BY <2>1, NewestFacts DEF CompactionInv, Accurate
  <2>2. QED BY <2>1 DEF TaintFollowsCalls, CompactionInv, LoopInv
<1>2. QED BY <1>1, Invariance, PTL

\* A summary shown at a loop's first build, written or reused, covers everything
\* the uncompacted window drops.
THEOREM DroppedIsCovered == Spec => SummaryCoversDropped
<1> DEFINE Act == phase # "model" /\ phase' = "model" /\ ~cached /\ shown' # NoSummary =>
                    /\ shown'.from <= shown'.upTo
                    /\ BuildWindow(Budget) - 1 <= shown'.upTo
<1>1. CompactionInv /\ [Next]_vars => [Act]_vars
  <2> SUFFICES ASSUME CompactionInv, [Next]_vars, phase # "model", phase' = "model", ~cached,
                      shown' # NoSummary
               PROVE  /\ shown'.from <= shown'.upTo
                      /\ BuildWindow(Budget) - 1 <= shown'.upTo
    OBVIOUS
  <2>1. ReuseSummary \/ \E n \in SummarySizes : SummaryWritten(n)
    BY DEF Next, UserMessage, ResumeTurn, CallTools, ShowWhole, ShowAgain, AskSummarizer,
           SummarizerFails, ModelReplies, ModelFails, Interrupted, Suspend, EnterLoop, Show, vars
  <2>2. rows \in Seq(Row) BY DEF CompactionInv, TypeInv, TypeOK
  <2>3. BuildWindow(Budget) \in 1..Len(rows) + 1 /\ Len(rows) \in Nat
    BY <2>2, Constants, WindowRange
  <2>4. CASE ReuseSummary
    <3>1. shown' = Newest /\ Newest # NoSummary /\ Newest.upTo >= BuildWindow(Budget) - 1
      BY <2>4 DEF ReuseSummary, Show, Watermark
    <3>2. Newest.from <= Newest.upTo /\ Newest.upTo \in Nat
      BY <3>1, NewestFacts DEF CompactionInv, Summary
    <3>3. QED BY <2>3, <3>1, <3>2
  <2>5. ASSUME NEW n \in SummarySizes, SummaryWritten(n)
        PROVE  /\ shown'.from <= shown'.upTo
               /\ BuildWindow(Budget) - 1 <= shown'.upTo
    <3>1. PICK s \in Summary : Show(s) /\ s.from <= s.upTo /\ s.upTo = BuildWindow(Budget) - 1
      BY <2>5, WrittenFacts
    <3>2. shown' = s BY <3>1 DEF Show
    <3>3. QED BY <2>3, <3>1, <3>2
  <2>6. QED BY <2>1, <2>4, <2>5
<1>2. QED BY <1>1, Invariance, PTL DEF Spec, SummaryCoversDropped
===============================================================================
