--------------------------- MODULE HomeActions_proofs ---------------------------
(***************************************************************************)
(* Theorems about HomeActions for every set of users, requests and callers,*)
(* every digest and every limit.                                           *)
(***************************************************************************)
EXTENDS HomeActions, SetInduction, FiniteSetTheorems, SequenceTheorems, TLAPS

Running ==
  [phase : {"select", "write", "log", "answer"}, action : {"tick", "undo", "ghost"},
   token : Nat, ran : BOOLEAN, day : Days,
   result : {"none", "ok", "raised", "expired", "refused", "unknown"},
   row : {"none", "ok", "error", "refused"}]

Digesting == [phase : {"home"}, user : User]
Doing == {Idle} \cup Digesting \cup Running

\* What a handler knows of its action at each place, whoever else is at work.
Sound(j) ==
  j \in Running =>
    /\ j.phase \in {"select", "write"} => j.ran /\ j.row = "none"
    /\ j.result = "ok" => j.ran
    /\ j.result \in {"unknown", "refused"} => ~j.ran
    /\ j.phase = "log" => j.row = "none" /\ j.result # "unknown"
    /\ j.phase = "answer" =>
         \/ j.row = "refused"
         \/ j.row = "none" /\ j.result = "unknown"
         \/ j.row = (IF j.result = "ok" THEN "ok" ELSE "error") /\ j.result # "unknown"

\* An answer that says a day is ticked has that day's row, or an undo has it.
Honest(j, rows, gone) ==
  j.phase \in {"log", "answer"} /\ j.action = "tick" /\ j.result = "ok"
  => rows[j.day] = 1 \/ j.day \in gone

Buttons ==
  /\ issued \in Seq([owner : User, action : Action, at : Nat])
  /\ tokens \in Seq(1..Len(issued))
  /\ \A i, k \in DOMAIN tokens : i < k => tokens[i] < tokens[k]

ActionInv ==
  /\ now \in 0..MaxTime
  /\ ticks \in [Days -> {0, 1}]
  /\ job \in [Slot -> Doing]
  /\ \A s \in Slot : Sound(job[s]) /\ Honest(job[s], ticks, undone)
  /\ Buttons

-----------------------------------------------------------------------------
(* The day of an action, and the sequence of tokens. *)

LEMMA Day == ASSUME now \in 0..MaxTime PROVE Today \in Days
<1>1. MaxTime \in Nat /\ DayLength \in Nat \ {0} /\ now \in Nat /\ now <= MaxTime
  BY HomeAssumption, LimitersAssumption
<1>2. ASSUME NEW a \in Nat, NEW b \in Nat, NEW d \in Nat \ {0}, a <= b
      PROVE  a \div d \in Nat /\ b \div d \in Nat /\ a \div d <= b \div d
  <2>1. a \div d \in Nat /\ b \div d \in Nat BY <1>2
  <2>2. d * (a \div d) <= a /\ b < d * (b \div d) + d BY <1>2
  <2>3. ASSUME NEW q \in Nat, NEW r \in Nat, d * q <= a, b < d * r + d PROVE q <= r
    <3>1. SUFFICES ASSUME q >= r + 1 PROVE FALSE BY <2>3
    <3>2. d * q >= d * (r + 1) BY <1>2, <2>3, <3>1
    <3>3. d * (r + 1) = d * r + d BY <1>2, <2>3
    <3>4. d * q \in Nat /\ d * r \in Nat BY <1>2, <2>3
    <3>5. QED BY <1>2, <2>3, <3>2, <3>3, <3>4
  <2>4. QED BY <2>1, <2>2, <2>3
<1>3. QED BY <1>1, <1>2 DEF Today, Days

Rising(s) == \A i, k \in DOMAIN s : i < k => s[i] < s[k]

\* Taking a token takes that one, and leaves the others in their order.
LEMMA TakenFacts ==
  ASSUME Buttons, NEW t \in Range(tokens)
  PROVE  /\ Taken(t) \in Seq(1..Len(issued))
         /\ Rising(Taken(t))
         /\ Range(Taken(t)) = Range(tokens) \ {t}
<1> DEFINE k == CHOOSE i \in DOMAIN tokens : tokens[i] = t
           T == 1..Len(issued)
           a == SubSeq(tokens, 1, k - 1)
           b == SubSeq(tokens, k + 1, Len(tokens))
<1>1. /\ tokens \in Seq(T) /\ Len(tokens) \in Nat /\ DOMAIN tokens = 1..Len(tokens)
      /\ \A i \in 1..Len(tokens) : tokens[i] \in T
  BY LenProperties, ElementOfSeq DEF Buttons
<1>2. k \in 1..Len(tokens) /\ tokens[k] = t
  <2>1. \E i \in DOMAIN tokens : tokens[i] = t BY DEF Range
  <2>2. QED BY <1>1, <2>1
<1> HIDE DEF k
<1>3. /\ a \in Seq(T) /\ Len(a) = k - 1
      /\ \A i \in 1..(k - 1) : a[i] = tokens[i]
  <2>1. \A i \in 1..(k - 1) : tokens[i] \in T BY <1>1, <1>2
  <2>2. 1 \in Int /\ k - 1 \in Int BY <1>1, <1>2
  <2>3. /\ a \in Seq(T)
        /\ Len(a) = IF 1 <= k - 1 THEN (k - 1) - 1 + 1 ELSE 0
        /\ \A i \in 1..((k - 1) - 1 + 1) : a[i] = tokens[1 + i - 1]
    BY <2>1, <2>2, SubSeqProperties
  <2>4. Len(a) = k - 1 BY <2>3, <1>1, <1>2
  <2>5. QED BY <2>3, <2>4, <1>1, <1>2
<1>4. /\ b \in Seq(T) /\ Len(b) = Len(tokens) - k
      /\ \A i \in 1..(Len(tokens) - k) : b[i] = tokens[k + i]
  <2>1. \A i \in (k + 1)..Len(tokens) : tokens[i] \in T BY <1>1, <1>2
  <2>2. k + 1 \in Int /\ Len(tokens) \in Int BY <1>1, <1>2
  <2>3. /\ b \in Seq(T)
        /\ Len(b) = IF k + 1 <= Len(tokens) THEN Len(tokens) - (k + 1) + 1 ELSE 0
        /\ \A i \in 1..(Len(tokens) - (k + 1) + 1) : b[i] = tokens[(k + 1) + i - 1]
    BY <2>1, <2>2, SubSeqProperties
  <2>4. /\ Len(tokens) - (k + 1) + 1 = Len(tokens) - k
        /\ \A i \in 1..(Len(tokens) - k) : (k + 1) + i - 1 = k + i
        /\ k + 1 <= Len(tokens) \/ Len(tokens) - k = 0
    <3>1. k \in Int /\ Len(tokens) \in Int /\ k <= Len(tokens) BY <1>1, <1>2
    <3>2. \A m, n \in Int : m <= n =>
            n - (m + 1) + 1 = n - m /\ (m + 1 <= n \/ n - m = 0)
      OBVIOUS
    <3>3. \A m, i \in Int : (m + 1) + i - 1 = m + i OBVIOUS
    <3>4. QED BY <3>1, <3>2, <3>3
  <2>5. Len(b) = Len(tokens) - k BY <2>3, <2>4
  <2>6. QED BY <2>3, <2>4, <2>5
<1> DEFINE c == a \o b
<1> HIDE DEF a, b, T
<1>5. /\ c \in Seq(T) /\ Len(c) = Len(tokens) - 1
      /\ \A i \in 1..(Len(tokens) - 1) : c[i] = IF i < k THEN tokens[i] ELSE tokens[i + 1]
  <2>1. /\ c \in Seq(T) /\ Len(c) = Len(a) + Len(b)
        /\ \A i \in 1..(Len(a) + Len(b)) : c[i] = IF i <= Len(a) THEN a[i] ELSE b[i - Len(a)]
    BY <1>3, <1>4, ConcatProperties
  <2>2. Len(c) = Len(tokens) - 1 BY <2>1, <1>1, <1>2, <1>3, <1>4
  <2>3. ASSUME NEW i \in 1..(Len(tokens) - 1)
        PROVE  c[i] = IF i < k THEN tokens[i] ELSE tokens[i + 1]
    <3>1. CASE i < k BY <2>1, <2>3, <3>1, <1>1, <1>2, <1>3, <1>4
    <3>2. CASE ~(i < k)
      <4>1. c[i] = b[i - (k - 1)] BY <2>1, <2>3, <3>2, <1>1, <1>2, <1>3, <1>4
      <4>2. i - (k - 1) \in 1..(Len(tokens) - k) BY <2>3, <3>2, <1>1, <1>2
      <4>3. b[i - (k - 1)] = tokens[k + (i - (k - 1))] BY <4>2, <1>4
      <4>4. k + (i - (k - 1)) = i + 1 BY <2>3, <1>1, <1>2
      <4>5. QED BY <4>1, <4>3, <4>4, <3>2
    <3>3. QED BY <3>1, <3>2
  <2>4. QED BY <2>1, <2>2, <2>3
<1>6. Taken(t) = c BY DEF Taken, RemoveAt, k, a, b, c
<1>7. DOMAIN c = 1..(Len(tokens) - 1) BY <1>5, LenProperties
<1> HIDE DEF c
<1>8. \A i, m \in 1..Len(tokens) : i < m => tokens[i] < tokens[m] BY <1>1 DEF Buttons
<1>9. Rising(c)
  <2>1. SUFFICES ASSUME NEW i \in DOMAIN c, NEW m \in DOMAIN c, i < m PROVE c[i] < c[m]
    BY DEF Rising
  <2>2. i + 1 \in 1..Len(tokens) /\ m + 1 \in 1..Len(tokens) /\ i \in 1..Len(tokens) /\ m \in 1..Len(tokens)
    BY <2>1, <1>7, <1>1
  <2>3. CASE m < k BY <2>1, <2>2, <2>3, <1>5, <1>7, <1>8, <1>2
  <2>4. CASE ~(m < k) /\ i < k
    <3>1. c[i] = tokens[i] /\ c[m] = tokens[m + 1] BY <2>1, <2>4, <1>5, <1>7
    <3>2. i < m + 1 BY <2>1, <2>2
    <3>3. QED BY <3>1, <3>2, <2>2, <1>8
  <2>5. CASE ~(i < k) /\ ~(m < k)
    <3>1. c[i] = tokens[i + 1] /\ c[m] = tokens[m + 1] BY <2>1, <2>5, <1>5, <1>7
    <3>2. i + 1 < m + 1 BY <2>1, <2>2
    <3>3. QED BY <3>1, <3>2, <2>2, <1>8
  <2>6. QED BY <2>1, <2>2, <2>3, <2>4, <2>5, <1>2, <1>7, <1>1
<1>10. Range(c) \subseteq Range(tokens) \ {t}
  <2>1. SUFFICES ASSUME NEW i \in DOMAIN c PROVE c[i] \in Range(tokens) \ {t} BY DEF Range
  <2>2. i \in 1..Len(tokens) /\ i + 1 \in 1..Len(tokens) /\ i \in Nat BY <2>1, <1>7, <1>1
  <2>3. CASE i < k
    <3>1. c[i] = tokens[i] /\ tokens[i] < tokens[k] BY <2>1, <2>2, <2>3, <1>5, <1>7, <1>8, <1>2
    <3>2. tokens[i] \in Nat /\ tokens[k] \in Nat BY <2>2, <1>1, <1>2 DEF T
    <3>3. tokens[i] \in Range(tokens) BY <2>2, <1>1 DEF Range
    <3>4. QED BY <3>1, <3>2, <3>3, <1>2
  <2>4. CASE ~(i < k)
    <3>1. c[i] = tokens[i + 1] /\ tokens[k] < tokens[i + 1] BY <2>1, <2>2, <2>4, <1>5, <1>7, <1>8, <1>2
    <3>2. tokens[i + 1] \in Nat /\ tokens[k] \in Nat BY <2>2, <1>1, <1>2 DEF T
    <3>3. tokens[i + 1] \in Range(tokens) BY <2>2, <1>1 DEF Range
    <3>4. QED BY <3>1, <3>2, <3>3, <1>2
  <2>5. QED BY <2>3, <2>4
<1>11. Range(tokens) \ {t} \subseteq Range(c)
  <2>1. SUFFICES ASSUME NEW i \in 1..Len(tokens), tokens[i] # t PROVE tokens[i] \in Range(c)
    BY <1>1 DEF Range
  <2>2. i # k BY <2>1, <1>2
  <2>3. CASE i < k
    <3>1. i \in DOMAIN c /\ c[i] = tokens[i] BY <2>1, <2>3, <1>5, <1>7, <1>1, <1>2
    <3>2. QED BY <3>1 DEF Range
  <2>4. CASE i > k
    <3>1. i - 1 \in DOMAIN c /\ c[i - 1] = tokens[(i - 1) + 1] BY <2>1, <2>4, <1>5, <1>7, <1>1, <1>2
    <3>2. (i - 1) + 1 = i BY <2>1, <1>1
    <3>3. QED BY <3>1, <3>2 DEF Range
  <2>5. QED BY <2>1, <2>2, <2>3, <2>4, <1>1, <1>2
<1>12. QED BY <1>5, <1>6, <1>9, <1>10, <1>11 DEF T

\* Capping a rising sequence drops elements that have cap greater ones.
LEMMA CappedFacts ==
  ASSUME NEW L \in Nat, NEW s \in Seq(1..L), Rising(s), NEW cap \in Nat \ {0}
  PROVE  /\ Capped(s, cap) \in Seq(1..L)
         /\ Rising(Capped(s, cap))
         /\ \A x \in Range(s) \ Range(Capped(s, cap)) :
              Cardinality({n \in 1..L : n > x}) >= cap
<1>1. /\ Len(s) \in Nat /\ DOMAIN s = 1..Len(s)
      /\ \A i \in 1..Len(s) : s[i] \in 1..L
  BY LenProperties, ElementOfSeq
<1>2. CASE ~(Len(s) > cap)
  <2>1. Capped(s, cap) = s BY <1>2 DEF Capped
  <2>2. QED BY <2>1
<1>3. CASE Len(s) > cap
  <2> DEFINE c == SubSeq(s, Len(s) - cap + 1, Len(s))
             d == Len(s) - cap
  <2>1. d \in Nat /\ d + cap = Len(s) BY <1>1, <1>3
  <2>2. /\ c \in Seq(1..L) /\ Len(c) = cap
        /\ \A i \in 1..cap : c[i] = s[d + i]
    <3>1. \A i \in (Len(s) - cap + 1)..Len(s) : s[i] \in 1..L BY <1>1, <1>3
    <3>2. Len(s) - cap + 1 \in Int /\ Len(s) \in Int BY <1>1
    <3>3. /\ c \in Seq(1..L)
          /\ Len(c) = IF Len(s) - cap + 1 <= Len(s) THEN Len(s) - (Len(s) - cap + 1) + 1 ELSE 0
          /\ \A i \in 1..(Len(s) - (Len(s) - cap + 1) + 1) : c[i] = s[(Len(s) - cap + 1) + i - 1]
      BY <3>1, <3>2, SubSeqProperties
    <3>4. Len(s) - (Len(s) - cap + 1) + 1 = cap BY <1>1
    <3>5. Len(c) = cap BY <3>3, <3>4, <1>1
    <3>6. \A i \in 1..cap : (Len(s) - cap + 1) + i - 1 = d + i BY <1>1
    <3>7. QED BY <3>3, <3>4, <3>5, <3>6
  <2>3. Capped(s, cap) = c BY <1>3 DEF Capped
  <2>4. DOMAIN c = 1..cap BY <2>2, LenProperties
  <2> HIDE DEF c, d
  <2>5. \A i \in 1..cap : d + i \in 1..Len(s) BY <2>1
  <2>6. Rising(c)
    <3>1. SUFFICES ASSUME NEW i \in 1..cap, NEW k \in 1..cap, i < k PROVE c[i] < c[k]
      BY <2>4 DEF Rising
    <3>2. d + i < d + k BY <3>1, <2>1
    <3>3. s[d + i] < s[d + k] BY <3>2, <2>5, <1>1 DEF Rising
    <3>4. QED BY <3>3, <2>2
  <2>7. ASSUME NEW x \in Range(s) \ Range(c)
        PROVE  Cardinality({n \in 1..L : n > x}) >= cap
    <3>1. PICK j \in 1..Len(s) : s[j] = x BY <2>7, <1>1 DEF Range
    <3>2. j <= d
      <4>1. SUFFICES ASSUME j > d PROVE FALSE BY <3>1, <2>1
      <4>2. j - d \in 1..cap /\ d + (j - d) = j BY <4>1, <3>1, <2>1
      <4>3. c[j - d] = x BY <4>2, <3>1, <2>2
      <4>4. QED BY <4>2, <4>3, <2>4, <2>7 DEF Range
    <3>3. \A i \in 1..cap : c[i] \in {n \in 1..L : n > x}
      <4>1. SUFFICES ASSUME NEW i \in 1..cap PROVE c[i] \in 1..L /\ c[i] > x OBVIOUS
      <4>2. j < d + i BY <4>1, <3>1, <3>2, <2>1
      <4>3. s[j] < s[d + i] BY <4>2, <3>1, <2>5, <1>1 DEF Rising
      <4>4. c[i] \in 1..L BY <4>1, <2>2, ElementOfSeq
      <4>5. x \in 1..L BY <3>1, <1>1
      <4>6. QED BY <4>3, <4>4, <4>5, <3>1, <2>2
    <3>4. Cardinality(Range(c)) = cap
      <4>1. c \in [1..cap -> Range(c)] BY <2>2, <2>4, LenProperties DEF Range
      <4>2. \A i, k \in 1..cap : c[i] = c[k] => i = k
        <5>1. SUFFICES ASSUME NEW i \in 1..cap, NEW k \in 1..cap, i < k PROVE c[i] # c[k] OBVIOUS
        <5>2. c[i] < c[k] BY <5>1, <2>4, <2>6 DEF Rising
        <5>3. c[i] \in 1..L /\ c[k] \in 1..L BY <5>1, <2>2, ElementOfSeq
        <5>4. QED BY <5>2, <5>3
      <4>3. c \in Bijection(1..cap, Range(c))
        BY <4>1, <4>2, <2>4 DEF Bijection, Injection, IsInjective, Surjection, Range
      <4>4. QED BY <4>3, FS_CountingElements DEF ExistsBijection
    <3>5. Range(c) \subseteq {n \in 1..L : n > x} BY <3>3, <2>4 DEF Range
    <3>6. IsFiniteSet({n \in 1..L : n > x})
      <4>1. IsFiniteSet(1..L) BY FS_Interval
      <4>2. {n \in 1..L : n > x} \subseteq 1..L OBVIOUS
      <4>3. QED BY <4>1, <4>2, FS_Subset
    <3>7. Cardinality(Range(c)) <= Cardinality({n \in 1..L : n > x}) BY <3>5, <3>6, FS_Subset
    <3>8. Cardinality({n \in 1..L : n > x}) \in Nat BY <3>6, FS_CardinalityType
    <3>9. QED BY <3>4, <3>7, <3>8
  <2>8. QED BY <2>2, <2>3, <2>6, <2>7
<1>4. QED BY <1>2, <1>3

\* A digest's tokens are newer than every other, and push out the oldest.
LEMMA IssueFacts ==
  ASSUME Buttons, now \in 0..MaxTime, NEW u \in User, Issue(u)
  PROVE  /\ Buttons'
         /\ \A t \in Range(tokens) \ Range(tokens') :
              Cardinality({n \in DOMAIN issued' : n > t}) >= TokenCap
<1> DEFINE R == [owner : User, action : Action, at : Nat]
           D == Len(Digest)
           L == Len(issued) + D
           made == [i \in DOMAIN Digest |-> [owner |-> u, action |-> Digest[i], at |-> now]]
           ids == [i \in DOMAIN Digest |-> Len(issued) + i]
           s == tokens \o ids
<1>1. /\ D \in Nat /\ DOMAIN Digest = 1..D
      /\ \A i \in 1..D : Digest[i] \in Action
  BY HomeAssumption, LenProperties, ElementOfSeq DEF Action
<1>2. /\ issued \in Seq(R) /\ Len(issued) \in Nat /\ DOMAIN issued = 1..Len(issued)
      /\ tokens \in Seq(1..Len(issued)) /\ Len(tokens) \in Nat /\ DOMAIN tokens = 1..Len(tokens)
      /\ \A i \in 1..Len(tokens) : tokens[i] \in 1..Len(issued)
  BY LenProperties, ElementOfSeq DEF Buttons
<1> HIDE DEF D
<1>3. made \in Seq(R) /\ Len(made) = D
  <2>1. now \in Nat BY LimitersAssumption
  <2>2. \A i \in 1..D : [owner |-> u, action |-> Digest[i], at |-> now] \in R BY <1>1, <2>1
  <2>3. made = [i \in 1..D |-> [owner |-> u, action |-> Digest[i], at |-> now]] BY <1>1
  <2> HIDE DEF R
  <2>4. QED BY <1>1, <2>2, <2>3
<1>4. ids \in Seq(1..L) /\ Len(ids) = D /\ \A i \in 1..D : ids[i] = Len(issued) + i
  <2>1. \A i \in 1..D : Len(issued) + i \in 1..L BY <1>1, <1>2
  <2>2. ids = [i \in 1..D |-> Len(issued) + i] BY <1>1
  <2> HIDE DEF L
  <2>3. QED BY <1>1, <2>1, <2>2
<1>5. issued' \in Seq(R) /\ Len(issued') = L
  <2>1. issued' = issued \o made BY DEF Issue
  <2> HIDE DEF R, made
  <2>2. QED BY <2>1, <1>2, <1>3, ConcatProperties
<1>6. tokens' = Capped(s, TokenCap) BY DEF Issue
<1>7. L \in Nat /\ 1..Len(issued) \subseteq 1..L BY <1>1, <1>2
<1> HIDE DEF R, L, made, ids
<1>8. /\ s \in Seq(1..L) /\ Len(s) = Len(tokens) + D
      /\ \A i \in 1..(Len(tokens) + D) : s[i] = IF i <= Len(tokens) THEN tokens[i] ELSE ids[i - Len(tokens)]
  <2>1. tokens \in Seq(1..L) BY <1>2, <1>7, SeqMonotonic
  <2>2. QED BY <2>1, <1>4, ConcatProperties
<1>9. DOMAIN s = 1..(Len(tokens) + D) BY <1>8, LenProperties
<1> HIDE DEF s
<1>10. Rising(s)
  <2>1. SUFFICES ASSUME NEW i \in 1..(Len(tokens) + D), NEW k \in 1..(Len(tokens) + D), i < k
                 PROVE  s[i] < s[k]
    BY <1>9 DEF Rising
  <2>2. CASE k <= Len(tokens)
    <3>1. i \in DOMAIN tokens /\ k \in DOMAIN tokens BY <2>1, <2>2, <1>2
    <3>2. QED BY <3>1, <2>1, <2>2, <1>8, <1>2 DEF Buttons
  <2>3. CASE i <= Len(tokens) /\ ~(k <= Len(tokens))
    <3>1. s[i] \in 1..Len(issued) BY <2>1, <2>3, <1>8, <1>2
    <3>2. k - Len(tokens) \in 1..D BY <2>1, <2>3, <1>1, <1>2
    <3>3. s[k] = Len(issued) + (k - Len(tokens)) BY <2>1, <2>3, <3>2, <1>8, <1>4
    <3>4. QED BY <3>1, <3>2, <3>3, <1>1, <1>2
  <2>4. CASE ~(i <= Len(tokens))
    <3>1. i - Len(tokens) \in 1..D /\ k - Len(tokens) \in 1..D /\ ~(k <= Len(tokens))
      BY <2>1, <2>4, <1>1, <1>2
    <3>2. s[i] = Len(issued) + (i - Len(tokens)) /\ s[k] = Len(issued) + (k - Len(tokens))
      BY <2>1, <2>4, <3>1, <1>8, <1>4
    <3>3. QED BY <3>1, <3>2, <2>1, <1>1, <1>2
  <2>5. QED BY <2>1, <2>2, <2>3, <2>4, <1>1, <1>2
<1>11. /\ tokens' \in Seq(1..L)
       /\ Rising(tokens')
       /\ \A x \in Range(s) \ Range(tokens') : Cardinality({n \in 1..L : n > x}) >= TokenCap
  BY <1>6, <1>7, <1>8, <1>10, CappedFacts, HomeAssumption
<1>12. Range(tokens) \subseteq Range(s)
  <2>1. SUFFICES ASSUME NEW i \in 1..Len(tokens) PROVE tokens[i] \in Range(s) BY <1>2 DEF Range
  <2>2. i \in DOMAIN s /\ s[i] = tokens[i] BY <2>1, <1>1, <1>2, <1>8, <1>9
  <2>3. QED BY <2>2 DEF Range
<1>13. Buttons' BY <1>5, <1>11 DEF Buttons, Rising, R
<1>14. DOMAIN issued' = 1..L BY <1>5, LenProperties
<1>15. QED BY <1>11, <1>12, <1>13, <1>14

-----------------------------------------------------------------------------
(* Every step changes what one handler is doing, at most. *)

LEMMA OneSlot ==
  ASSUME ActionInv, NEW s \in Slot, NEW j \in Doing, job' = [job EXCEPT ![s] = j],
         now' = now, ticks' \in [Days -> {0, 1}],
         Sound(j), Honest(j, ticks', undone'),
         \A d \in Days : ticks[d] = 1 \/ d \in undone => ticks'[d] = 1 \/ d \in undone',
         Buttons'
  PROVE  ActionInv'
<1>1. job' \in [Slot -> Doing] BY DEF ActionInv
<1>2. ASSUME NEW r \in Slot PROVE Sound(job'[r]) /\ Honest(job'[r], ticks', undone')
  <2>1. CASE r = s BY <2>1 DEF ActionInv
  <2>2. CASE r # s
    <3>1. job'[r] = job[r] /\ job[r] \in Doing /\ Sound(job[r]) /\ Honest(job[r], ticks, undone)
      BY <2>2 DEF ActionInv
    <3>2. Honest(job[r], ticks', undone')
      <4>1. CASE job[r] \in Running BY <3>1, <4>1 DEF Honest, Running
      <4>2. CASE job[r] \notin Running BY <3>1, <4>2 DEF Honest, Doing, Digesting, Idle
      <4>3. QED BY <4>1, <4>2
    <3>3. QED BY <3>1, <3>2
  <2>3. QED BY <2>1, <2>2
<1>3. QED BY <1>1, <1>2 DEF ActionInv

LEMMA SameButtons == ASSUME Buttons, UNCHANGED <<issued, tokens>> PROVE Buttons'
<1>1. QED BY DEF Buttons

\* A handler past the name lookup is at a Running record.
LEMMA InAction ==
  ASSUME ActionInv, NEW s \in Slot, job[s].phase \in {"select", "write", "log", "answer"}
  PROVE  job[s] \in Running /\ Sound(job[s])
<1>1. job[s] \in Doing /\ Sound(job[s]) BY DEF ActionInv
<1>2. QED BY <1>1 DEF Doing, Digesting, Idle

LEMMA Starting ==
  ASSUME ActionInv, NEW action \in Action, NEW token \in Nat
  PROVE  /\ Begun(action, token) \in Doing /\ Sound(Begun(action, token))
         /\ Malformed(action, token) \in Doing /\ Sound(Malformed(action, token))
         /\ Unknown \in Doing /\ Sound(Unknown)
         /\ \A rows, gone : /\ Honest(Begun(action, token), rows, gone)
                            /\ Honest(Malformed(action, token), rows, gone)
                            /\ Honest(Unknown, rows, gone)
<1>1. Today \in Days BY Day DEF ActionInv
<1>2. ASSUME NEW a \in {"tick", "undo", "ghost"}, NEW t \in Nat PROVE Begun(a, t) \in Running
  BY <1>1, <1>2 DEF Begun, Running
<1>3. Begun(action, token) \in Running BY <1>2 DEF Action
<1>4. Begun("ghost", 0) \in Running BY <1>2
<1>5. Begun(action, token).row = "none" /\ Begun("ghost", 0).row = "none" BY DEF Begun
<1>6. LET e == Malformed(action, token) IN
      e \in Running /\ e.phase = "log" /\ ~e.ran /\ e.result = "refused" /\ e.row = "none"
  <2>1. PICK b \in Running : b = Begun(action, token) BY <1>3
  <2>2. Malformed(action, token) = [b EXCEPT !.phase = "log", !.ran = FALSE, !.result = "refused"]
    BY <2>1 DEF Malformed
  <2>3. b.row = "none" BY <2>1, <1>5
  <2> HIDE DEF Malformed, Unknown
  <2>4. QED BY <2>2, <2>3 DEF Running
<1>7. LET e == Unknown IN
      e \in Running /\ e.phase = "answer" /\ ~e.ran /\ e.result = "unknown" /\ e.row = "none"
  <2>1. PICK b \in Running : b = Begun("ghost", 0) BY <1>4
  <2>2. Unknown = [b EXCEPT !.phase = "answer", !.ran = FALSE, !.result = "unknown"]
    BY <2>1 DEF Unknown
  <2>3. b.row = "none" BY <2>1, <1>5
  <2> HIDE DEF Malformed, Unknown
  <2>4. QED BY <2>2, <2>3 DEF Running
<1>8. Sound(Begun(action, token)) BY DEF Sound, Begun
<1>9. Sound(Malformed(action, token)) /\ Sound(Unknown) BY <1>6, <1>7 DEF Sound
<1>10. \A rows, gone : Honest(Begun(action, token), rows, gone) BY DEF Honest, Begun
<1>11. \A rows, gone : Honest(Malformed(action, token), rows, gone) /\ Honest(Unknown, rows, gone)
  BY <1>6, <1>7 DEF Honest
<1>12. QED BY <1>3, <1>6, <1>7, <1>8, <1>9, <1>10, <1>11 DEF Doing

LEMMA Resting ==
  /\ Idle \in Doing /\ Sound(Idle) /\ \A rows, gone : Honest(Idle, rows, gone)
  /\ \A u \in User : LET j == [phase |-> "home", user |-> u] IN
       j \in Doing /\ Sound(j) /\ \A rows, gone : Honest(j, rows, gone)
<1>1. QED BY DEF Doing, Digesting, Idle, Sound, Honest, Running

LEMMA HandlersKept ==
  ASSUME ActionInv, UNCHANGED <<job, issued, tokens, ticks, undone>>, now' \in 0..MaxTime
  PROVE  ActionInv'
<1>1. QED BY SameButtons DEF ActionInv

LEMMA TapStep ==
  ASSUME ActionInv, NEW u \in User, NEW t, Tap(u, t)
  PROVE  ActionInv'
<1>1. Telegram \in Slot BY DEF Slot
<1>2. now' = now /\ UNCHANGED <<issued, ticks, undone>> /\ Buttons BY DEF Tap, ActionInv
<1>3. CASE t \in Range(tokens) /\ issued[t].owner = u
  <2>1. tokens' = Taken(t) BY <1>3 DEF Tap
  <2>2. Buttons'
    <3>1. Taken(t) \in Seq(1..Len(issued)) /\ Rising(Taken(t)) BY <1>2, <1>3, TakenFacts
    <3>2. issued' = issued /\ issued \in Seq([owner : User, action : Action, at : Nat])
      BY <1>2 DEF Buttons
    <3> HIDE DEF Taken
    <3>3. QED BY <2>1, <3>1, <3>2 DEF Buttons, Rising
  <2>3. CASE Expired(t)
    <3>1. UNCHANGED job BY <1>3, <2>3 DEF Tap
    <3>2. QED BY <1>2, <2>2, <3>1 DEF ActionInv
  <2>4. CASE ~Expired(t)
    <3>1. RunAction(Telegram, issued[t].action, t) BY <1>3, <2>4 DEF Tap
    <3>2. t \in 1..Len(issued)
      <4>1. tokens \in Seq(1..Len(issued)) BY <1>2 DEF Buttons
      <4>2. \A i \in DOMAIN tokens : tokens[i] \in 1..Len(issued)
        BY <4>1, LenProperties, ElementOfSeq
      <4>3. QED BY <4>2, <1>3 DEF Range
    <3>3. t \in Nat /\ issued[t].action \in Action
      <4>1. issued \in Seq([owner : User, action : Action, at : Nat]) BY <1>2 DEF Buttons
      <4>2. issued[t] \in [owner : User, action : Action, at : Nat] BY <4>1, <3>2, ElementOfSeq
      <4>3. Len(issued) \in Nat BY <4>1, LenProperties
      <4>4. QED BY <4>2, <4>3, <3>2
    <3>4. QED BY <1>1, <1>2, <2>2, <3>1, <3>3, Starting, OneSlot DEF RunAction, ActionInv
  <2>5. QED BY <2>3, <2>4
<1>4. CASE ~(t \in Range(tokens) /\ issued[t].owner = u)
  <2>1. UNCHANGED <<tokens, job>> BY <1>4 DEF Tap
  <2>2. QED BY <1>2, <2>1, SameButtons DEF ActionInv
<1>5. QED BY <1>3, <1>4

\* What the tool behind the button does to the table.
LEMMA Written ==
  ASSUME ActionInv, NEW s \in Slot, At(s, "write"), Write(s)
  PROVE  /\ ticks' \in [Days -> {0, 1}]
         /\ \A d \in Days : ticks[d] = 1 \/ d \in undone => ticks'[d] = 1 \/ d \in undone'
         /\ job[s].action = "tick" => ticks'[job[s].day] = 1
<1>1. job[s] \in Running BY InAction DEF At
<1>2. PICK day \in Days : day = job[s].day BY <1>1 DEF Running
<1>3. ticks \in [Days -> {0, 1}] BY DEF ActionInv
<1>4. CASE job[s].action = "tick"
  <2>1. ticks' = Inserted(day) /\ UNCHANGED undone BY <1>2, <1>4 DEF Write
  <2>2. ticks[day] = 0 \/ ticks[day] = 1 BY <1>2, <1>3
  <2>3. CASE ticks[day] = 1
    <3>1. ticks' = ticks BY <2>1, <2>3 DEF Inserted
    <3>2. QED BY <3>1, <2>1, <2>3, <1>2, <1>3
  <2>4. CASE ticks[day] = 0
    <3>1. ticks' = [ticks EXCEPT ![day] = 1] BY <2>1, <2>4 DEF Inserted
    <3>2. QED BY <3>1, <2>1, <1>2, <1>3
  <2>5. QED BY <2>2, <2>3, <2>4
<1>5. CASE job[s].action # "tick"
  <2>1. ticks' = [ticks EXCEPT ![day] = 0] /\ undone' = undone \cup {day} BY <1>2, <1>5 DEF Write
  <2>2. QED BY <2>1, <1>3, <1>5
<1>6. QED BY <1>4, <1>5

\* An action that ends goes to the log with its outcome.
LEMMA Ended ==
  ASSUME ActionInv, NEW s \in Slot, InTool(s), NEW result \in {"ok", "raised", "expired"}, Ends(s, result)
  PROVE  \E j \in Doing :
           /\ job' = [job EXCEPT ![s] = j] /\ Sound(j)
           /\ j.phase = "log" /\ j.result = result /\ j.action = job[s].action /\ j.day = job[s].day
<1>1. job[s] \in Running /\ Sound(job[s]) BY InAction DEF InTool
<1> DEFINE j == [job[s] EXCEPT !.phase = "log", !.result = result]
<1>2. job' = [job EXCEPT ![s] = j]
  <2>1. job \in [Slot -> Doing] BY DEF ActionInv
  <2>2. job' = [job EXCEPT ![s].phase = "log", ![s].result = result] BY DEF Ends
  <2>3. QED BY <2>1, <2>2
<1>3. PICK b \in Running : b = job[s] BY <1>1
<1>4. /\ j \in Running /\ j.phase = "log" /\ j.result = result
      /\ j.action = b.action /\ j.day = b.day /\ j.ran = b.ran /\ j.row = b.row
  <2>1. j = [b EXCEPT !.phase = "log", !.result = result] BY <1>3
  <2>2. j \in Running BY <2>1 DEF Running
  <2>3. /\ j.phase = "log" /\ j.result = result
        /\ j.action = b.action /\ j.day = b.day /\ j.ran = b.ran /\ j.row = b.row
    BY <2>1 DEF Running
  <2>4. QED BY <2>2, <2>3
<1>5. b.ran /\ b.row = "none" BY <1>1, <1>3 DEF Sound, InTool
<1> HIDE DEF j
<1>6. Sound(j) BY <1>4, <1>5 DEF Sound
<1>7. QED BY <1>2, <1>3, <1>4, <1>6 DEF Doing

LEMMA SelectStep == ASSUME ActionInv, NEW s \in Slot, SelectTick(s) PROVE ActionInv'
<1>1. now' = now /\ UNCHANGED <<issued, tokens, ticks, undone>> /\ Buttons'
  BY SameButtons DEF SelectTick, limiterVars, ActionInv
<1>2. PICK b \in Running : b = job[s] BY InAction DEF SelectTick, At
<1>3. Sound(b) /\ b.phase = "select" BY <1>2 DEF ActionInv, SelectTick, At
<1> DEFINE settled == (ticks[b.day] > 0) = (b.action = "tick")
           j == [b EXCEPT !.phase = IF settled THEN "log" ELSE "write",
                          !.result = IF settled THEN "ok" ELSE "none"]
<1>4. job' = [job EXCEPT ![s] = j]
  <2>1. job \in [Slot -> Doing] BY DEF ActionInv
  <2>2. job' = [job EXCEPT ![s].phase = IF settled THEN "log" ELSE "write",
                           ![s].result = IF settled THEN "ok" ELSE "none"]
    BY <1>2 DEF SelectTick
  <2> HIDE DEF settled
  <2>3. QED BY <2>1, <2>2, <1>2
<1>5. CASE settled
  <2>1. /\ j \in Running /\ j.phase = "log" /\ j.result = "ok" /\ j.action = b.action
        /\ j.day = b.day /\ j.ran = b.ran /\ j.row = b.row
    <3>1. j = [b EXCEPT !.phase = "log", !.result = "ok"] BY <1>5
    <3> HIDE DEF j
    <3>2. QED BY <3>1 DEF Running
  <2>2. Sound(j) BY <2>1, <1>3 DEF Sound
  <2>3. Honest(j, ticks', undone')
    <3>1. SUFFICES ASSUME b.action = "tick" PROVE ticks[b.day] = 1 BY <1>1, <2>1 DEF Honest
    <3>2. ticks[b.day] > 0 BY <3>1, <1>5
    <3>3. b.day \in Days BY DEF Running
    <3>4. QED BY <3>2, <3>3 DEF ActionInv
  <2> HIDE DEF j
  <2>4. QED BY <1>1, <1>4, <2>1, <2>2, <2>3, OneSlot DEF ActionInv, Doing
<1>6. CASE ~settled
  <2>1. j \in Running /\ j.phase = "write" /\ j.result = "none" /\ j.ran = b.ran /\ j.row = b.row
    <3>1. j = [b EXCEPT !.phase = "write", !.result = "none"] BY <1>6
    <3> HIDE DEF j
    <3>2. QED BY <3>1 DEF Running
  <2>2. Sound(j) /\ Honest(j, ticks', undone') BY <2>1, <1>3 DEF Sound, Honest
  <2> HIDE DEF j
  <2>3. QED BY <1>1, <1>4, <2>1, <2>2, OneSlot DEF ActionInv, Doing
<1>7. QED BY <1>5, <1>6

LEMMA ToolStep ==
  ASSUME ActionInv, NEW s \in Slot, WriteTick(s) \/ ToolRaises(s) \/ ToolTimesOut(s)
  PROVE  ActionInv'
<1>1. now' = now /\ UNCHANGED <<issued, tokens>> /\ Buttons' /\ InTool(s)
  BY SameButtons DEF WriteTick, ToolRaises, ToolTimesOut, limiterVars, ActionInv, InTool, At
<1>2. ticks \in [Days -> {0, 1}] BY DEF ActionInv
<1>3. CASE WriteTick(s)
  <2>1. At(s, "write") /\ Write(s) /\ Ends(s, "ok") BY <1>3 DEF WriteTick
  <2>2. PICK j \in Doing :
          /\ job' = [job EXCEPT ![s] = j] /\ Sound(j)
          /\ j.phase = "log" /\ j.result = "ok" /\ j.action = job[s].action /\ j.day = job[s].day
    BY <1>1, <2>1, Ended
  <2>3. Honest(j, ticks', undone') BY <2>1, <2>2, Written DEF Honest
  <2>4. QED BY <1>1, <2>1, <2>2, <2>3, Written, OneSlot
<1>4. CASE ToolRaises(s)
  <2>1. Ends(s, "raised") /\ UNCHANGED <<ticks, undone>> BY <1>4 DEF ToolRaises
  <2>2. PICK j \in Doing :
          /\ job' = [job EXCEPT ![s] = j] /\ Sound(j) /\ j.result = "raised"
    BY <1>1, <2>1, Ended
  <2>3. Honest(j, ticks', undone') BY <2>2 DEF Honest
  <2>4. QED BY <1>1, <1>2, <2>1, <2>2, <2>3, OneSlot
<1>5. CASE ToolTimesOut(s)
  <2>1. Ends(s, "expired") BY <1>5 DEF ToolTimesOut
  <2>2. PICK j \in Doing :
          /\ job' = [job EXCEPT ![s] = j] /\ Sound(j) /\ j.result = "expired"
    BY <1>1, <2>1, Ended
  <2>3. Honest(j, ticks', undone') BY <2>2 DEF Honest
  <2>4. CASE UNCHANGED <<ticks, undone>> BY <1>1, <1>2, <2>2, <2>3, <2>4, OneSlot
  <2>5. CASE At(s, "write") /\ Write(s) BY <1>1, <2>2, <2>3, <2>5, Written, OneSlot
  <2>6. QED BY <1>5, <2>4, <2>5 DEF ToolTimesOut
<1>6. QED BY <1>3, <1>4, <1>5

LEMMA LogStep ==
  ASSUME ActionInv, NEW s \in Slot, LogActivity(s) \/ LogFails(s)
  PROVE  ActionInv'
<1>1. now' = now /\ UNCHANGED <<issued, tokens, ticks, undone>> /\ Buttons' /\ At(s, "log")
  BY SameButtons DEF LogActivity, LogFails, limiterVars, ActionInv
<1>2. PICK b \in Running : b = job[s] BY <1>1, InAction DEF At
<1>3. Sound(b) /\ Honest(b, ticks, undone) /\ b.phase = "log" BY <1>1, <1>2 DEF ActionInv, At
<1>4. PICK row \in {"ok", "error", "refused"} :
        /\ job' = [job EXCEPT ![s].phase = "answer", ![s].row = row]
        /\ row # "refused" => row = (IF b.result = "ok" THEN "ok" ELSE "error")
  <2>1. CASE LogActivity(s)
    <3>1. (IF b.result = "ok" THEN "ok" ELSE "error") \in {"ok", "error", "refused"} OBVIOUS
    <3>2. QED BY <3>1, <2>1, <1>2 DEF LogActivity
  <2>2. CASE LogFails(s) BY <2>2 DEF LogFails
  <2>3. QED BY <2>1, <2>2
<1> DEFINE j == [b EXCEPT !.phase = "answer", !.row = row]
<1>5. job' = [job EXCEPT ![s] = j]
  <2>1. job \in [Slot -> Doing] BY DEF ActionInv
  <2>2. QED BY <2>1, <1>2, <1>4
<1>6. /\ j \in Running /\ j.phase = "answer" /\ j.row = row
      /\ j.result = b.result /\ j.action = b.action /\ j.day = b.day /\ j.ran = b.ran
  BY DEF Running
<1> HIDE DEF j
<1>7. Sound(j)
  <2>1. b.result # "unknown" BY <1>3 DEF Sound
  <2>2. b.result = "ok" => b.ran BY <1>3 DEF Sound
  <2>3. b.result = "refused" => ~b.ran BY <1>3 DEF Sound
  <2>4. row = "refused" \/ row = (IF b.result = "ok" THEN "ok" ELSE "error") BY <1>4
  <2>5. QED BY <1>6, <2>1, <2>2, <2>3, <2>4 DEF Sound
<1>8. Honest(j, ticks', undone') BY <1>1, <1>3, <1>6 DEF Honest
<1>9. QED BY <1>1, <1>5, <1>6, <1>7, <1>8, OneSlot DEF ActionInv, Doing

LEMMA RestStep ==
  ASSUME ActionInv, NEW s \in Slot, Answer(s) \/ CancelAction(s)
  PROVE  ActionInv'
<1>1. now' = now /\ UNCHANGED <<issued, tokens, ticks, undone>> /\ Buttons'
  BY SameButtons DEF Answer, CancelAction, limiterVars, ActionInv
<1>2. job' = [job EXCEPT ![s] = Idle] BY DEF Answer, CancelAction
<1>3. QED BY <1>1, <1>2, Resting, OneSlot DEF ActionInv

LEMMA HomeStep == ASSUME ActionInv, NEW u \in User, Home(u) PROVE ActionInv'
<1>1. now' = now /\ UNCHANGED <<issued, tokens, ticks, undone>> /\ Buttons'
  BY SameButtons DEF Home, ActionInv
<1>2. PICK j \in Doing : j = [phase |-> "home", user |-> u] BY Resting
<1>3. job' = [job EXCEPT ![Telegram] = j] BY <1>2 DEF Home
<1>4. Sound(j) /\ Honest(j, ticks', undone') BY <1>2, Resting
<1>5. Telegram \in Slot BY DEF Slot
<1>6. QED BY <1>1, <1>3, <1>4, <1>5, OneSlot DEF ActionInv

LEMMA Recipient == ASSUME ActionInv, At(Telegram, "home") PROVE job[Telegram].user \in User
<1>1. job[Telegram] \in Doing BY DEF ActionInv, Slot
<1>2. job[Telegram] \in Digesting BY <1>1 DEF Doing, Running, Idle, At
<1>3. QED BY <1>2 DEF Digesting

LEMMA SendStep == ASSUME ActionInv, SendDigest PROVE ActionInv'
<1>1. now' = now /\ UNCHANGED <<ticks, undone>> BY DEF SendDigest
<1>2. PICK u \in User : Issue(u) BY Recipient DEF SendDigest
<1>3. Buttons' BY <1>2, IssueFacts DEF ActionInv
<1>4. job' = [job EXCEPT ![Telegram] = Idle] BY DEF SendDigest
<1>5. Telegram \in Slot BY DEF Slot
<1>6. QED BY <1>1, <1>3, <1>4, <1>5, Resting, OneSlot DEF ActionInv

LEMMA WebStep == ASSUME ActionInv, NEW r \in Request, WebAction(r) PROVE ActionInv'
<1>1. now' = now /\ UNCHANGED <<issued, tokens, ticks, undone>> /\ Buttons'
  BY SameButtons DEF WebAction, ActionInv
<1>2. r \in Slot BY DEF Slot
<1>3. \E j \in Doing : job' = [job EXCEPT ![r] = j] /\ Sound(j) /\ Honest(j, ticks', undone')
  <2>1. CASE \E action \in Action : RunAction(r, action, 0)
    BY <2>1, Starting DEF RunAction
  <2>2. CASE \E action \in Action : job' = [job EXCEPT ![r] = Malformed(action, 0)]
    BY <2>2, Starting
  <2>3. CASE job' = [job EXCEPT ![r] = Unknown]
    <3>1. "tick" \in Action BY DEF Action
    <3>2. QED BY <2>3, <3>1, Starting
  <2>4. QED BY <2>1, <2>2, <2>3 DEF WebAction
<1>4. QED BY <1>1, <1>2, <1>3, OneSlot DEF ActionInv

LEMMA InitAction == Init => ActionInv
<1> SUFFICES ASSUME Init PROVE ActionInv OBVIOUS
<1>1. now \in 0..MaxTime BY LimitersAssumption DEF Init, LimitersInit
<1>2. ticks \in [Days -> {0, 1}] BY DEF Init
<1>3. job \in [Slot -> Doing] BY Resting DEF Init
<1>4. \A s \in Slot : Sound(job[s]) /\ Honest(job[s], ticks, undone) BY Resting DEF Init
<1>5. Buttons
  <2>1. issued = <<>> /\ tokens = <<>> BY DEF Init
  <2>2. QED BY <2>1, EmptySeq DEF Buttons
<1>6. QED BY <1>1, <1>2, <1>3, <1>4, <1>5 DEF ActionInv

LEMMA ActionStep == ActionInv /\ [Next]_vars => ActionInv'
<1> SUFFICES ASSUME ActionInv, [Next]_vars PROVE ActionInv' OBVIOUS
<1>1. CASE \E u \in User : Home(u) \/ \E t \in shown : Tap(u, t) BY <1>1, HomeStep, TapStep
<1>2. CASE SendDigest \/ \E r \in Request : WebAction(r) BY <1>2, SendStep, WebStep
<1>3. CASE \E s \in Slot :
             \/ SelectTick(s) \/ WriteTick(s) \/ ToolRaises(s) \/ ToolTimesOut(s)
             \/ LogActivity(s) \/ LogFails(s) \/ Answer(s) \/ CancelAction(s)
  BY <1>3, SelectStep, ToolStep, LogStep, RestStep
<1>4. CASE LimitersNext /\ UNCHANGED homeVars
  <2>1. now' = now
    BY <1>4 DEF LimitersNext, GreetStranger, LoginFails, LoginThrottled, BearerFails, Succeeds
  <2>2. QED BY <1>4, <2>1, HandlersKept DEF homeVars, ActionInv
<1>5. CASE TimePasses
  <2>1. now' \in 0..MaxTime
    <3>1. now \in 0..MaxTime /\ MaxTime \in Nat BY LimitersAssumption DEF ActionInv
    <3>2. now < MaxTime /\ now' = now + 1 BY <1>5 DEF TimePasses, Tick
    <3>3. QED BY <3>1, <3>2
  <2>2. QED BY <1>5, <2>1, HandlersKept DEF TimePasses, homeVars
<1>6. CASE UNCHANGED vars BY <1>6, HandlersKept DEF vars, homeVars, limiterVars, ActionInv
<1>7. QED BY <1>1, <1>2, <1>3, <1>4, <1>5, <1>6 DEF Next

LEMMA ActionAlways == Spec => []ActionInv
<1>1. QED BY InitAction, ActionStep, PTL DEF Spec

\* A habit is ticked once a day however its ticks race, and an answer that says
\* it is ticked is true unless an undo has come in between.
THEOREM OneTickADay == Spec => []TickedOnce
<1>1. ActionInv => TickedOnce
  <2>1. SUFFICES ASSUME ActionInv PROVE TickedOnce OBVIOUS
  <2>2. \A d \in Days : ticks[d] <= 1 BY <2>1 DEF ActionInv
  <2>3. QED BY <2>1, <2>2 DEF TickedOnce, ActionInv, Honest
<1>2. QED BY <1>1, ActionAlways, PTL

\* Every end of an action past the name lookup has a row that says how it ended,
\* unless the insert was refused, and the caller is told what the row says.
THEOREM RowsTellAnswers == Spec => []RowsAccountFor
<1>1. ActionInv => RowsAccountFor
  <2>1. SUFFICES ASSUME ActionInv, NEW s \in Slot, At(s, "answer")
                 PROVE  /\ job[s].result # "unknown" => job[s].row # "none"
                        /\ job[s].row = "ok" => job[s].result = "ok" /\ job[s].ran
                        /\ Told(s) \in {"no such action", "bad arguments"} => ~job[s].ran
                        /\ Told(s) = "done" => job[s].row = "ok"
    BY DEF RowsAccountFor
  <2>2. job[s] \in Running /\ Sound(job[s]) BY <2>1, InAction DEF At
  <2>3. PICK j \in Running : j = job[s] BY <2>2
  <2>4. /\ j.result = "ok" => j.ran
        /\ j.result \in {"unknown", "refused"} => ~j.ran
        /\ \/ j.row = "refused"
           \/ j.row = "none" /\ j.result = "unknown"
           \/ j.row = (IF j.result = "ok" THEN "ok" ELSE "error") /\ j.result # "unknown"
    BY <2>1, <2>2, <2>3 DEF Sound, At
  <2>5. Told(s) \in {"no such action", "bad arguments"} =>
          j.row # "refused" /\ j.result \in {"unknown", "refused"}
    BY <2>3 DEF Told
  <2>6. Told(s) = "done" => j.row # "refused" /\ j.result = "ok" BY <2>3 DEF Told
  <2>7. QED BY <2>3, <2>4, <2>5, <2>6
<1>2. QED BY <1>1, ActionAlways, PTL

-----------------------------------------------------------------------------
(* The buttons. *)

\* Nothing but a tap starts an action of a button.
LEMMA NoStart ==
  ASSUME ActionInv, [Next]_vars, ~\E u \in User : \E t \in shown : Tap(u, t)
  PROVE  \A t : ~Starts(t)
<1>1. Telegram \in Slot /\ job \in [Slot -> Doing] BY DEF Slot, ActionInv
<1>2. CASE \E u \in User : Home(u)
  <2>1. job'[Telegram].phase = "home" BY <1>1, <1>2 DEF Home
  <2>2. QED BY <2>1 DEF Starts, InTool
<1>3. CASE SendDigest
  <2>1. job'[Telegram].phase = "idle" BY <1>1, <1>3 DEF SendDigest, Idle
  <2>2. QED BY <2>1 DEF Starts, InTool
<1>4. CASE \E r \in Request : WebAction(r)
  <2>1. PICK r \in Request : WebAction(r) BY <1>4
  <2>2. r # Telegram BY HomeAssumption
  <2>3. job'[Telegram] = job[Telegram] BY <1>1, <2>1, <2>2 DEF WebAction, RunAction
  <2>4. QED BY <2>3 DEF Starts
<1>5. ASSUME NEW s \in Slot,
             \/ SelectTick(s) \/ WriteTick(s) \/ ToolRaises(s) \/ ToolTimesOut(s)
             \/ LogActivity(s) \/ LogFails(s) \/ Answer(s) \/ CancelAction(s)
      PROVE  \A t : ~Starts(t)
  <2>1. CASE s # Telegram
    <3>1. job'[Telegram] = job[Telegram]
      BY <1>1, <1>5, <2>1
         DEF SelectTick, WriteTick, ToolRaises, ToolTimesOut, Ends, LogActivity, LogFails, Answer, CancelAction
    <3>2. QED BY <3>1 DEF Starts
  <2>2. CASE s = Telegram /\ (SelectTick(s) \/ WriteTick(s) \/ ToolRaises(s) \/ ToolTimesOut(s))
    BY <2>2 DEF Starts, SelectTick, WriteTick, ToolRaises, ToolTimesOut, InTool, At
  <2>3. CASE s = Telegram /\ (LogActivity(s) \/ LogFails(s))
    <3>1. PICK b \in Running : b = job[s] BY <1>5, <2>3, InAction DEF LogActivity, LogFails, At
    <3>2. job'[Telegram].phase = "answer" BY <1>1, <2>3, <3>1 DEF LogActivity, LogFails, Running
    <3>3. QED BY <3>2 DEF Starts, InTool
  <2>4. CASE s = Telegram /\ (Answer(s) \/ CancelAction(s))
    <3>1. job'[Telegram].phase = "idle" BY <1>1, <2>4 DEF Answer, CancelAction, Idle
    <3>2. QED BY <3>1 DEF Starts, InTool
  <2>5. QED BY <1>5, <2>1, <2>2, <2>3, <2>4
<1>6. CASE UNCHANGED job BY <1>6 DEF Starts
<1>7. QED BY <1>2, <1>3, <1>4, <1>5, <1>6 DEF Next, TimePasses, homeVars, vars

\* Nothing but a tap or a digest takes a token.
LEMMA NoneTaken ==
  ASSUME [Next]_vars, ~SendDigest, ~\E u \in User : \E t \in shown : Tap(u, t)
  PROVE  tokens' = tokens
<1>1. CASE \E u \in User : Home(u) BY <1>1 DEF Home
<1>2. CASE \E r \in Request : WebAction(r) BY <1>2 DEF WebAction
<1>3. CASE \E s \in Slot :
             \/ SelectTick(s) \/ WriteTick(s) \/ ToolRaises(s) \/ ToolTimesOut(s)
             \/ LogActivity(s) \/ LogFails(s) \/ Answer(s) \/ CancelAction(s)
  BY <1>3 DEF SelectTick, WriteTick, ToolRaises, ToolTimesOut, LogActivity, LogFails, Answer, CancelAction
<1>4. QED BY <1>1, <1>2, <1>3 DEF Next, TimePasses, homeVars, vars

\* A button runs its action at most once, for its owner and while it is fresh, and
\* only its age or newer buttons take it from that user.
THEOREM ButtonsRunOnce == Spec => ButtonsHonoured
<1> DEFINE Gone == Range(tokens) \ Range(tokens')
           Good ==
             /\ \A t \in DOMAIN issued :
                  Starts(t) => t \in Range(tokens) \ Range(tokens') /\ ~Expired(t)
             /\ \A t \in Range(tokens) \ Range(tokens') :
                  \/ Starts(t) \/ Expired(t)
                  \/ Cardinality({n \in DOMAIN issued' : n > t}) >= TokenCap
<1>1. ASSUME ActionInv, [Next]_vars PROVE Good
  <2>1. CASE \E u \in User : \E t \in shown : Tap(u, t)
    <3>1. PICK u \in User, t \in shown : Tap(u, t) BY <2>1
    <3>2. CASE ~(t \in Range(tokens) /\ issued[t].owner = u)
      <4>1. UNCHANGED <<tokens, job>> BY <3>1, <3>2 DEF Tap
      <4>2. QED BY <4>1 DEF Starts
    <3>3. CASE t \in Range(tokens) /\ issued[t].owner = u
      <4>1. Range(tokens') = Range(tokens) \ {t}
        <5>1. tokens' = Taken(t) BY <3>1, <3>3 DEF Tap
        <5>2. QED BY <1>1, <3>3, <5>1, TakenFacts DEF ActionInv
      <4>2. CASE Expired(t)
        <5>1. UNCHANGED job BY <3>1, <3>3, <4>2 DEF Tap
        <5>2. QED BY <3>3, <4>1, <4>2, <5>1 DEF Starts
      <4>3. CASE ~Expired(t)
        <5>1. job' = [job EXCEPT ![Telegram] = Begun(issued[t].action, t)]
          BY <3>1, <3>3, <4>3 DEF Tap, RunAction
        <5>2. Telegram \in Slot /\ job \in [Slot -> Doing] BY <1>1 DEF Slot, ActionInv
        <5>3. job'[Telegram].phase = "select" /\ job'[Telegram].token = t
          BY <5>1, <5>2 DEF Begun
        <5>4. job[Telegram].phase = "idle" BY <3>1 DEF Tap, At
        <5>5. Starts(t) /\ \A x : Starts(x) => x = t BY <5>3, <5>4 DEF Starts, InTool
        <5>6. QED BY <3>3, <4>1, <4>3, <5>5
      <4>4. QED BY <4>2, <4>3
    <3>4. QED BY <3>2, <3>3
  <2>2. CASE SendDigest /\ ~\E u \in User : \E t \in shown : Tap(u, t)
    <3>1. PICK u \in User : Issue(u) BY <1>1, <2>2, Recipient DEF SendDigest
    <3>2. \A t \in Range(tokens) \ Range(tokens') :
            Cardinality({n \in DOMAIN issued' : n > t}) >= TokenCap
      BY <1>1, <3>1, IssueFacts DEF ActionInv
    <3>3. QED BY <1>1, <2>2, <3>2, NoStart
  <2>3. CASE ~SendDigest /\ ~\E u \in User : \E t \in shown : Tap(u, t)
    BY <1>1, <2>3, NoStart, NoneTaken
  <2>4. QED BY <2>1, <2>2, <2>3
<1>2. ActionInv /\ [Next]_vars => [Good]_vars BY <1>1
<1>3. QED BY <1>2, ActionAlways, PTL DEF Spec, ButtonsHonoured

-----------------------------------------------------------------------------
(* The dictionaries of the two doors.  They keep one item per key, and the   *)
(* keys behind an item are those heard from since: an item that is forgotten *)
(* at the cap has as many others behind it as the cap allows.                *)

Keyed(d) == \A i, k \in DOMAIN d : d[i].who = d[k].who => i = k

Behind(d, k) == {d[m].who : m \in (k + 1)..Len(d)}

LEMMA BehindCounts ==
  ASSUME NEW S, NEW d \in Seq(S), Keyed(d), NEW k \in 0..Len(d)
  PROVE  IsFiniteSet(Behind(d, k)) /\ Cardinality(Behind(d, k)) = Len(d) - k
<1>1. Len(d) \in Nat /\ DOMAIN d = 1..Len(d) BY LenProperties
<1> DEFINE M == (k + 1)..Len(d)
           f == [m \in M |-> d[m].who]
<1>2. M \subseteq DOMAIN d BY <1>1
<1>3. IsFiniteSet(M) /\ Cardinality(M) = Len(d) - k
  <2>1. IsFiniteSet(M) /\ Cardinality(M) = IF k + 1 > Len(d) THEN 0 ELSE Len(d) - (k + 1) + 1
    <3>1. k + 1 \in Int /\ Len(d) \in Int BY <1>1
    <3>2. QED BY <3>1, FS_Interval
  <2>2. QED BY <1>1, <2>1
<1>4. f \in Bijection(M, Behind(d, k))
  <2>1. f \in [M -> Behind(d, k)] BY DEF Behind
  <2>2. \A a, b \in M : f[a] = f[b] => a = b BY <1>2 DEF Keyed
  <2>3. \A t \in Behind(d, k) : \E m \in M : f[m] = t BY DEF Behind
  <2>4. QED BY <2>1, <2>2, <2>3 DEF Bijection, Injection, Surjection, IsInjective
<1>5. ExistsBijection(M, Behind(d, k)) BY <1>4 DEF ExistsBijection
<1>6. QED BY <1>3, <1>5, FS_Bijection

\* e is d without the key x, in the same order.
Thinned(d, e, x) ==
  /\ Keyed(e)
  /\ \A n \in DOMAIN e : e[n].who # x /\ \E k \in DOMAIN d : e[n] = d[k]
  /\ \A k \in DOMAIN d : d[k].who # x =>
       \E n \in DOMAIN e : e[n] = d[k] /\ Behind(e, n) \subseteq Behind(d, k)

LEMMA WithoutFacts ==
  ASSUME NEW S, NEW d \in Seq(S), Keyed(d), NEW x
  PROVE  /\ Without(d, x) \in Seq(S)
         /\ Thinned(d, Without(d, x), x)
         /\ Len(Without(d, x)) = IF Of(d, x) = {} THEN Len(d) ELSE Len(d) - 1
<1>1. Len(d) \in Nat /\ DOMAIN d = 1..Len(d) /\ \A i \in DOMAIN d : d[i] \in S
  BY LenProperties, ElementOfSeq
<1>2. CASE Of(d, x) = {}
  <2>1. Without(d, x) = d BY <1>2 DEF Without
  <2>2. \A n \in DOMAIN d : d[n].who # x BY <1>2 DEF Of
  <2>3. Thinned(d, d, x) BY <2>2 DEF Thinned
  <2>4. QED BY <1>2, <2>1, <2>3
<1>3. CASE Of(d, x) # {}
  <2>1. PICK c : c = CHOOSE i \in Of(d, x) : TRUE OBVIOUS
  <2>2. c \in Of(d, x) BY <1>3, <2>1
  <2>3. c \in 1..Len(d) /\ d[c].who = x BY <1>1, <2>2 DEF Of
  <2> DEFINE a == SubSeq(d, 1, c - 1)
             b == SubSeq(d, c + 1, Len(d))
             e == a \o b
  <2>4. Without(d, x) = e BY <1>3, <2>1 DEF Without, RemoveAt
  <2>5. /\ a \in Seq(S) /\ Len(a) = c - 1 /\ \A i \in 1..c - 1 : a[i] = d[i]
    <3>1. c - 1 \in Int /\ 1 \in Int /\ \A i \in 1..c - 1 : d[i] \in S BY <1>1, <2>3
    <3>2. /\ a \in Seq(S) /\ Len(a) = IF 1 <= c - 1 THEN (c - 1) - 1 + 1 ELSE 0
          /\ \A i \in 1..(c - 1) - 1 + 1 : a[i] = d[1 + i - 1]
      BY <3>1, SubSeqProperties
    <3> HIDE DEF a
    <3>3. QED BY <2>3, <3>2
  <2>6. /\ b \in Seq(S) /\ Len(b) = Len(d) - c /\ \A i \in 1..Len(d) - c : b[i] = d[c + i]
    <3>1. c + 1 \in Int /\ Len(d) \in Int /\ \A i \in c + 1..Len(d) : d[i] \in S BY <1>1, <2>3
    <3>2. /\ b \in Seq(S) /\ Len(b) = IF c + 1 <= Len(d) THEN Len(d) - (c + 1) + 1 ELSE 0
          /\ \A i \in 1..Len(d) - (c + 1) + 1 : b[i] = d[c + 1 + i - 1]
      BY <3>1, SubSeqProperties
    <3> HIDE DEF b
    <3>3. Len(b) = Len(d) - c
      <4>1. Len(d) \in Nat /\ c \in Nat /\ c <= Len(d) BY <1>1, <2>3
      <4>2. Len(b) = IF c + 1 <= Len(d) THEN Len(d) - (c + 1) + 1 ELSE 0 BY <3>2
      <4>3. QED BY <4>1, <4>2
    <3>4. ASSUME NEW i \in 1..Len(d) - c PROVE b[i] = d[c + i]
      <4>1. i \in 1..Len(d) - (c + 1) + 1 /\ c + 1 + i - 1 = c + i BY <1>1, <2>3
      <4>2. QED BY <3>2, <4>1
    <3>5. QED BY <3>2, <3>3, <3>4
  <2>7. /\ e \in Seq(S) /\ Len(e) = Len(a) + Len(b)
        /\ \A i \in 1..Len(a) + Len(b) : e[i] = IF i <= Len(a) THEN a[i] ELSE b[i - Len(a)]
    BY <2>5, <2>6, ConcatProperties
  <2> HIDE DEF a, b, e
  <2>8. Len(e) = Len(d) - 1 /\ DOMAIN e = 1..Len(d) - 1
    BY <1>1, <2>3, <2>5, <2>6, <2>7, LenProperties
  <2>9. \A i \in 1..Len(d) - 1 : e[i] = d[IF i < c THEN i ELSE i + 1]
    <3> TAKE i \in 1..Len(d) - 1
    <3>1. CASE i < c
      <4>1. i \in 1..c - 1 /\ i <= Len(a) /\ i \in 1..Len(a) + Len(b)
        BY <1>1, <2>3, <2>5, <2>6, <3>1
      <4>2. QED BY <2>5, <2>7, <3>1, <4>1
    <3>2. CASE ~(i < c)
      <4>1. /\ ~(i <= Len(a)) /\ i \in 1..Len(a) + Len(b) /\ i - Len(a) \in 1..Len(d) - c
            /\ c + (i - Len(a)) = i + 1
        BY <1>1, <2>3, <2>5, <2>6, <3>2
      <4>2. QED BY <2>6, <2>7, <3>2, <4>1
    <3>3. QED BY <3>1, <3>2
  <2>10. Keyed(e)
    <3> SUFFICES ASSUME NEW i \in 1..Len(d) - 1, NEW k \in 1..Len(d) - 1, e[i].who = e[k].who
                 PROVE  i = k
      BY <2>8 DEF Keyed
    <3> DEFINE u == IF i < c THEN i ELSE i + 1
               v == IF k < c THEN k ELSE k + 1
    <3>1. u \in DOMAIN d /\ v \in DOMAIN d /\ (u = v => i = k) BY <1>1, <2>3
    <3>2. d[u].who = d[v].who BY <2>9
    <3>3. QED BY <3>1, <3>2 DEF Keyed
  <2>11. ASSUME NEW n \in DOMAIN e PROVE e[n].who # x /\ \E k \in DOMAIN d : e[n] = d[k]
    <3> DEFINE u == IF n < c THEN n ELSE n + 1
    <3>1. u \in DOMAIN d /\ u # c /\ c \in DOMAIN d BY <1>1, <2>3, <2>8
    <3>2. e[n] = d[u] BY <2>8, <2>9
    <3>3. d[u].who # x BY <2>3, <3>1 DEF Keyed
    <3>4. QED BY <3>1, <3>2, <3>3
  <2>12. ASSUME NEW k \in DOMAIN d, d[k].who # x
         PROVE  \E n \in DOMAIN e : e[n] = d[k] /\ Behind(e, n) \subseteq Behind(d, k)
    <3>1. k # c BY <2>3, <2>12
    <3> DEFINE n == IF k < c THEN k ELSE k - 1
    <3>2. n \in 1..Len(d) - 1 /\ k = IF n < c THEN n ELSE n + 1 BY <1>1, <2>3, <3>1
    <3>3. ASSUME NEW m \in (n + 1)..Len(e) PROVE e[m].who \in Behind(d, k)
      <4> DEFINE u == IF m < c THEN m ELSE m + 1
      <4>1. m \in 1..Len(d) - 1 /\ u \in (k + 1)..Len(d) BY <1>1, <2>3, <2>8, <3>1, <3>2
      <4>2. e[m] = d[u] BY <2>9, <4>1
      <4>3. QED BY <4>1, <4>2 DEF Behind
    <3>4. e[n] = d[k] BY <2>9, <3>2
    <3> HIDE DEF n
    <3>5. Behind(e, n) \subseteq Behind(d, k) BY <3>3 DEF Behind
    <3>6. QED BY <2>8, <3>2, <3>4, <3>5
  <2>13. Thinned(d, e, x) BY <2>10, <2>11, <2>12 DEF Thinned
  <2>14. QED BY <1>3, <2>4, <2>7, <2>8, <2>13
<1>4. QED BY <1>2, <1>3

\* e is d after x was heard from: item is at the end, and who is no longer there
\* has as many others as the cap behind it.
Heard(d, e, x, item, cap) ==
  /\ Keyed(e)
  /\ Len(e) <= cap
  /\ \E n \in DOMAIN e : e[n] = item /\ Behind(e, n) = {}
  /\ \A n \in DOMAIN e : e[n] = item \/ \E k \in DOMAIN d : e[n] = d[k]
  /\ \A k \in DOMAIN d : d[k].who # x =>
       \/ \E n \in DOMAIN e : e[n] = d[k] /\ Behind(e, n) \subseteq Behind(d, k) \cup {x}
       \/ \E T : T \subseteq Behind(d, k) \cup {x} /\ IsFiniteSet(T) /\ Cardinality(T) = cap

LEMMA AtEndFacts ==
  ASSUME NEW S, NEW d \in Seq(S), Keyed(d), NEW item \in S, NEW x, item.who = x,
         NEW cap \in Nat \ {0}, Len(d) <= cap
  PROVE  /\ Capped(AtEnd(d, item), cap) \in Seq(S)
         /\ Heard(d, Capped(AtEnd(d, item), cap), x, item, cap)
<1>1. PICK t : t = Without(d, x) OBVIOUS
<1>2. /\ t \in Seq(S) /\ Thinned(d, t, x)
      /\ Len(t) = IF Of(d, x) = {} THEN Len(d) ELSE Len(d) - 1
  BY <1>1, WithoutFacts
<1>3. Len(d) \in Nat /\ Len(t) \in Nat /\ DOMAIN t = 1..Len(t) /\ Len(t) <= cap
  BY <1>2, LenProperties
<1>4. PICK u : u = Append(t, item) OBVIOUS
<1>5. /\ u \in Seq(S) /\ Len(u) = Len(t) + 1 /\ DOMAIN u = 1..Len(t) + 1
      /\ \A i \in 1..Len(t) : u[i] = t[i]
      /\ u[Len(t) + 1] = item
  BY <1>2, <1>4, AppendProperties, LenProperties
<1>6. AtEnd(d, item) = u BY <1>1, <1>4 DEF AtEnd
<1>7. Keyed(u)
  <2> SUFFICES ASSUME NEW i \in 1..Len(t) + 1, NEW k \in 1..Len(t) + 1, u[i].who = u[k].who
               PROVE  i = k
    BY <1>5 DEF Keyed
  <2>1. \A n \in 1..Len(t) : u[n] = t[n] /\ t[n].who # x BY <1>2, <1>3, <1>5 DEF Thinned
  <2>2. CASE i \in 1..Len(t) /\ k \in 1..Len(t)
    <3>1. i \in DOMAIN t /\ k \in DOMAIN t /\ t[i].who = t[k].who BY <1>3, <2>1, <2>2
    <3>2. QED BY <1>2, <3>1 DEF Thinned, Keyed
  <2>3. CASE i = Len(t) + 1 \/ k = Len(t) + 1 BY <1>3, <1>5, <2>1, <2>3
  <2>4. QED BY <1>3, <2>2, <2>3
<1>8. ASSUME NEW k \in DOMAIN t PROVE Behind(u, k) = Behind(t, k) \cup {x}
  <2>1. k \in 1..Len(t) BY <1>3
  <2>2. (k + 1)..Len(u) = (k + 1)..Len(t) \cup {Len(t) + 1} BY <1>3, <1>5, <2>1
  <2>3. \A m \in (k + 1)..Len(t) : u[m] = t[m] BY <1>3, <1>5, <2>1
  <2>4. PICK I : I = (k + 1)..Len(t) OBVIOUS
  <2>5. {u[m].who : m \in I \cup {Len(t) + 1}} = {u[m].who : m \in I} \cup {x} BY <1>5
  <2>6. {u[m].who : m \in I} = {t[m].who : m \in I} BY <2>3, <2>4
  <2>7. QED BY <2>2, <2>4, <2>5, <2>6 DEF Behind
<1>9. Behind(u, Len(u)) = {} /\ Len(u) \in 1..Len(u)
  <2>1. (Len(u) + 1)..Len(u) = {} /\ Len(u) \in 1..Len(u) BY <1>3, <1>5
  <2>2. QED BY <2>1 DEF Behind
<1>10. \A n \in DOMAIN u : u[n] = item \/ \E k \in DOMAIN d : u[n] = d[k]
  <2> TAKE n \in DOMAIN u
  <2>1. n = Len(t) + 1 \/ n \in DOMAIN t BY <1>3, <1>5
  <2>2. QED BY <1>2, <1>3, <1>5, <2>1 DEF Thinned
<1>11. \A k \in DOMAIN d : d[k].who # x =>
         \E n \in DOMAIN t : u[n] = d[k] /\ Behind(u, n) \subseteq Behind(d, k) \cup {x}
  <2> TAKE k \in DOMAIN d
  <2> HAVE d[k].who # x
  <2>1. PICK n \in DOMAIN t : t[n] = d[k] /\ Behind(t, n) \subseteq Behind(d, k)
    BY <1>2 DEF Thinned
  <2>2. u[n] = d[k] BY <1>3, <1>5, <2>1
  <2>3. QED BY <1>8, <2>1, <2>2
<1>12. CASE Len(u) <= cap
  <2>1. Capped(AtEnd(d, item), cap) = u BY <1>3, <1>5, <1>6, <1>12 DEF Capped
  <2>2. \A n \in DOMAIN t : n \in DOMAIN u BY <1>3, <1>5
  <2>3. \A k \in DOMAIN d : d[k].who # x =>
          \E n \in DOMAIN u : u[n] = d[k] /\ Behind(u, n) \subseteq Behind(d, k) \cup {x}
    BY <1>11, <2>2
  <2>4. \E n \in DOMAIN u : u[n] = item /\ Behind(u, n) = {} BY <1>5, <1>9
  <2>5. Heard(d, u, x, item, cap) BY <1>7, <1>10, <1>12, <2>3, <2>4 DEF Heard
  <2>6. QED BY <1>5, <2>1, <2>5
<1>13. CASE Len(u) > cap
  <2>1. Len(u) = cap + 1 /\ Len(t) = cap
    <3>1. Len(t) \in Nat /\ Len(t) <= cap BY <1>3
    <3>2. Len(u) = Len(t) + 1 BY <1>5
    <3>3. QED BY <1>13, <3>1, <3>2
  <2>2. PICK e : e = SubSeq(u, 2, Len(u)) OBVIOUS
  <2>3. Capped(AtEnd(d, item), cap) = e
    <3>1. Len(u) - cap + 1 = 2 BY <2>1
    <3>2. QED BY <1>6, <1>13, <2>2, <3>1 DEF Capped
  <2>4. /\ e \in Seq(S) /\ Len(e) = cap /\ DOMAIN e = 1..cap
        /\ \A i \in 1..cap : e[i] = u[i + 1]
    <3>1. \A i \in 2..Len(u) : u[i] \in S BY <1>3, <1>5, ElementOfSeq
    <3>2. 2 \in Int /\ Len(u) \in Int BY <1>3, <1>5
    <3>3. /\ e \in Seq(S) /\ Len(e) = IF 2 <= Len(u) THEN Len(u) - 2 + 1 ELSE 0
          /\ \A i \in 1..Len(u) - 2 + 1 : e[i] = u[2 + i - 1]
      BY <2>2, <3>1, <3>2, SubSeqProperties
    <3>4. Len(e) = cap BY <2>1, <3>3
    <3>5. ASSUME NEW i \in 1..cap PROVE e[i] = u[i + 1]
      <4>1. i \in 1..Len(u) - 2 + 1 /\ 2 + i - 1 = i + 1 BY <2>1
      <4>2. QED BY <3>3, <4>1
    <3>6. QED BY <3>3, <3>4, <3>5, LenProperties
  <2>5. ASSUME NEW n \in 1..cap PROVE Behind(e, n) = Behind(u, n + 1)
    <3>1. ASSUME NEW m \in (n + 1)..Len(e)
          PROVE  \E b \in (n + 1 + 1)..Len(u) : e[m] = u[b]
      <4>1. PICK b : b = m + 1 OBVIOUS
      <4>2. b \in (n + 1 + 1)..Len(u) /\ m \in 1..cap
        <5>1. Len(e) = cap /\ Len(u) = cap + 1 BY <2>1, <2>4
        <5>2. QED BY <4>1, <5>1
      <4>3. e[m] = u[b] BY <2>4, <4>1, <4>2
      <4>4. QED BY <4>2, <4>3
    <3>2. ASSUME NEW m \in (n + 1 + 1)..Len(u)
          PROVE  \E b \in (n + 1)..Len(e) : e[b] = u[m]
      <4>1. PICK b : b = m - 1 OBVIOUS
      <4>2. b \in (n + 1)..Len(e) /\ b \in 1..cap /\ b + 1 = m
        <5>1. Len(e) = cap /\ Len(u) = cap + 1 BY <2>1, <2>4
        <5>2. QED BY <4>1, <5>1
      <4>3. e[b] = u[m] BY <2>4, <4>2
      <4>4. QED BY <4>2, <4>3
    <3>3. PICK I, J : I = (n + 1)..Len(e) /\ J = (n + 1 + 1)..Len(u) OBVIOUS
    <3>4. /\ \A m \in I : \E b \in J : e[m].who = u[b].who
          /\ \A m \in J : \E b \in I : e[b].who = u[m].who
      BY <3>1, <3>2, <3>3
    <3>5. {e[m].who : m \in I} = {u[m].who : m \in J} BY <3>4
    <3>6. QED BY <3>3, <3>5 DEF Behind
  <2>6. Keyed(e)
    <3>1. ASSUME NEW i \in 1..cap, NEW k \in 1..cap, e[i].who = e[k].who PROVE i = k
      <4>1. i + 1 \in DOMAIN u /\ k + 1 \in DOMAIN u /\ u[i + 1].who = u[k + 1].who
        BY <1>5, <2>1, <2>4, <3>1
      <4>2. i + 1 = k + 1 BY <1>7, <4>1 DEF Keyed
      <4>3. QED BY <4>2
    <3>2. QED BY <2>4, <3>1 DEF Keyed
  <2>7. \E n \in DOMAIN e : e[n] = item /\ Behind(e, n) = {}
    <3>1. cap \in 1..cap /\ cap + 1 = Len(u) BY <2>1
    <3>2. QED BY <1>5, <1>9, <2>1, <2>4, <2>5, <3>1
  <2>8. \A n \in DOMAIN e : e[n] = item \/ \E k \in DOMAIN d : e[n] = d[k]
    <3> TAKE n \in DOMAIN e
    <3>1. n + 1 \in DOMAIN u /\ e[n] = u[n + 1] BY <1>5, <2>1, <2>4
    <3>2. QED BY <1>10, <3>1
  <2>9. ASSUME NEW k \in DOMAIN d, d[k].who # x
        PROVE  \/ \E n \in DOMAIN e : e[n] = d[k] /\ Behind(e, n) \subseteq Behind(d, k) \cup {x}
               \/ \E T : T \subseteq Behind(d, k) \cup {x} /\ IsFiniteSet(T) /\ Cardinality(T) = cap
    <3>1. PICK n \in DOMAIN t : u[n] = d[k] /\ Behind(u, n) \subseteq Behind(d, k) \cup {x}
      BY <1>11, <2>9
    <3>2. CASE n = 1
      <4>1. 1 \in 0..Len(u) BY <2>1
      <4>2. IsFiniteSet(Behind(u, 1)) /\ Cardinality(Behind(u, 1)) = Len(u) - 1
        BY <1>5, <1>7, <4>1, BehindCounts
      <4>3. Cardinality(Behind(u, 1)) = cap BY <2>1, <4>2
      <4>4. QED BY <3>1, <3>2, <4>2, <4>3
    <3>3. CASE n # 1
      <4>1. n - 1 \in 1..cap /\ (n - 1) + 1 = n BY <1>3, <2>1, <3>3
      <4>2. e[n - 1] = d[k] /\ Behind(e, n - 1) = Behind(u, n) BY <2>4, <2>5, <3>1, <4>1
      <4>3. QED BY <2>4, <3>1, <4>1, <4>2
    <3>4. QED BY <3>2, <3>3
  <2>10. Heard(d, e, x, item, cap) BY <2>4, <2>6, <2>7, <2>8, <2>9 DEF Heard
  <2>11. QED BY <2>3, <2>4, <2>10
<1>14. QED BY <1>3, <1>5, <1>12, <1>13

-----------------------------------------------------------------------------
(* The door for strangers. *)

\* Who else a log names since its entry i.
Since(log, i) == Others(log, log[i].who, i, Len(log))

\* longer is log and one entry more.
Longer(log, longer, g) ==
  /\ Len(longer) = Len(log) + 1
  /\ DOMAIN longer = DOMAIN log \cup {Len(longer)} /\ DOMAIN log = 1..Len(log)
  /\ longer[Len(longer)] = g
  /\ \A i \in DOMAIN log : longer[i] = log[i]
  /\ \A i \in DOMAIN log : Since(longer, i) = Since(log, i) \cup ({g.who} \ {log[i].who})
  /\ \A i, j \in DOMAIN log : \A w : Others(longer, w, i, j) = Others(log, w, i, j)
  /\ \A i \in DOMAIN longer : IsFiniteSet(Since(longer, i))

LEMMA SinceGrows ==
  ASSUME NEW S, NEW log \in Seq(S), NEW g \in S, NEW longer, longer = Append(log, g)
  PROVE  longer \in Seq(S) /\ Longer(log, longer, g)
<1>1. Len(log) \in Nat /\ DOMAIN log = 1..Len(log) BY LenProperties
<1>2. /\ longer \in Seq(S) /\ Len(longer) = Len(log) + 1
      /\ \A i \in 1..Len(log) : longer[i] = log[i]
      /\ longer[Len(log) + 1] = g
  BY AppendProperties
<1>3. DOMAIN longer = 1..Len(log) + 1 BY <1>2, LenProperties
<1>4. DOMAIN longer = DOMAIN log \cup {Len(longer)} BY <1>1, <1>2, <1>3
<1>5. ASSUME NEW i \in DOMAIN log
      PROVE  Since(longer, i) = Since(log, i) \cup ({g.who} \ {log[i].who})
  <2>1. i..Len(longer) = i..Len(log) \cup {Len(log) + 1} BY <1>1, <1>2
  <2>2. \A m \in i..Len(log) : longer[m] = log[m] BY <1>1, <1>2
  <2>3. longer[i] = log[i] BY <1>1, <1>2
  <2>4. {longer[m].who : m \in i..Len(longer)} = {log[m].who : m \in i..Len(log)} \cup {g.who}
    BY <1>2, <2>1, <2>2
  <2>5. QED BY <2>3, <2>4 DEF Since, Others
<1>6. ASSUME NEW i \in DOMAIN log, NEW j \in DOMAIN log, NEW w
      PROVE  Others(longer, w, i, j) = Others(log, w, i, j)
  <2>1. \A m \in i..j : longer[m] = log[m] BY <1>1, <1>2
  <2>2. QED BY <2>1 DEF Others
<1>7. ASSUME NEW i \in DOMAIN longer PROVE IsFiniteSet(Since(longer, i))
  <2> DEFINE M == i..Len(longer)
             f == [m \in M |-> longer[m].who]
             T == {longer[m].who : m \in M}
  <2>1. i \in Int /\ Len(longer) \in Int BY <1>1, <1>2, <1>3
  <2>2. IsFiniteSet(M) BY <2>1, FS_Interval
  <2>3. f \in Surjection(M, T) BY DEF Surjection
  <2>4. IsFiniteSet(T) BY <2>2, <2>3, FS_Surjection
  <2>5. Since(longer, i) \subseteq T BY DEF Since, Others
  <2>6. QED BY <2>4, <2>5, FS_Subset
<1>8. QED BY <1>1, <1>2, <1>4, <1>5, <1>6, <1>7 DEF Longer

\* A set that holds as many as the cap has that many.
LEMMA AtLeast ==
  ASSUME NEW U, NEW T, T \subseteq U, IsFiniteSet(U)
  PROVE  Cardinality(T) <= Cardinality(U) /\ Cardinality(U) \in Nat /\ Cardinality(T) \in Nat
<1>1. IsFiniteSet(T) /\ Cardinality(T) <= Cardinality(U) BY FS_Subset
<1>2. QED BY <1>1, FS_CardinalityType

Reply == [who : Stranger, at : Nat]

LEMMA ReplyAt == \A log \in Seq(Reply) : \A i \in DOMAIN log : log[i].at \in Nat
<1> SUFFICES ASSUME NEW log \in Seq(Reply), NEW i \in DOMAIN log PROVE log[i].at \in Nat
  OBVIOUS
<1>1. log[i] \in Reply BY LenProperties, ElementOfSeq
<1>2. QED BY <1>1 DEF Reply

\* A reply is remembered, or as many others as the door remembers came since.
Remembered(i) ==
  \/ Cardinality(Since(greeted, i)) >= StrangerCap
  \/ \E k \in DOMAIN answered :
       /\ answered[k].who = greeted[i].who /\ answered[k].at >= greeted[i].at
       /\ Behind(answered, k) \subseteq Since(greeted, i)

StrangersInv ==
  /\ greeted \in Seq(Reply)
  /\ answered \in Seq(Reply) /\ Keyed(answered) /\ Len(answered) <= StrangerCap
  /\ \A i \in DOMAIN greeted : greeted[i].at <= now /\ Remembered(i)
  /\ RepliesSpaced

LEMMA GreetStep ==
  ASSUME now \in Nat, StrangersInv, NEW who \in Stranger, GreetStranger(who)
  PROVE  StrangersInv'
<1> DEFINE g == [who |-> who, at |-> now]
<1>1. /\ ~Limited(who) /\ now' = now /\ greeted' = Append(greeted, g)
      /\ answered' = Capped(AtEnd(answered, g), StrangerCap)
  BY DEF GreetStranger
<1>2. g \in Reply /\ g.who = who /\ g.at = now BY DEF Reply
<1> HIDE DEF g
<1>3. /\ greeted' \in Seq(Reply) /\ Len(greeted') = Len(greeted) + 1
      /\ DOMAIN greeted' = DOMAIN greeted \cup {Len(greeted')} /\ DOMAIN greeted = 1..Len(greeted)
      /\ greeted'[Len(greeted')] = g
      /\ \A i \in DOMAIN greeted : greeted'[i] = greeted[i]
      /\ \A i \in DOMAIN greeted :
           Since(greeted', i) = Since(greeted, i) \cup ({g.who} \ {greeted[i].who})
      /\ \A i, j \in DOMAIN greeted : \A w : Others(greeted', w, i, j) = Others(greeted, w, i, j)
      /\ \A i \in DOMAIN greeted' : IsFiniteSet(Since(greeted', i))
  <2>1. greeted' \in Seq(Reply) /\ Longer(greeted, greeted', g)
    BY <1>1, <1>2, SinceGrows DEF StrangersInv
  <2>2. QED BY <2>1 DEF Longer
<1>4. StrangerCap \in Nat \ {0} BY LimitersAssumption
<1>5. answered' \in Seq(Reply) /\ Heard(answered, answered', who, g, StrangerCap)
  BY <1>1, <1>2, <1>4, AtEndFacts DEF StrangersInv
<1>6. Len(greeted) \in Nat BY LenProperties DEF StrangersInv
<1>7. \A i \in DOMAIN greeted : greeted[i].at \in Nat BY ReplyAt DEF StrangersInv
<1>8. \A i \in DOMAIN greeted : Cardinality(Since(greeted, i)) >= StrangerCap =>
        Cardinality(Since(greeted', i)) >= StrangerCap
  <2> TAKE i \in DOMAIN greeted
  <2>1. Since(greeted, i) \subseteq Since(greeted', i) /\ IsFiniteSet(Since(greeted', i))
    BY <1>3
  <2>2. QED BY <1>4, <2>1, AtLeast
\* Whoever is not limited was forgotten among many.
<1>9. ASSUME NEW i \in DOMAIN greeted, greeted[i].who = who, now < greeted[i].at + Cooldown
      PROVE  Cardinality(Since(greeted', i)) >= StrangerCap
  <2> SUFFICES ASSUME NEW k \in DOMAIN answered,
                      answered[k].who = who, answered[k].at >= greeted[i].at
               PROVE  FALSE
    BY <1>8, <1>9 DEF StrangersInv, Remembered
  <2>1. answered[k].at \in Nat BY ReplyAt DEF StrangersInv
  <2>2. Cooldown \in Nat BY LimitersAssumption
  <2>3. now < answered[k].at + Cooldown BY <1>7, <1>9, <2>1, <2>2
  <2>4. k \in Of(answered, who) BY DEF Of
  <2>5. QED BY <1>1, <2>3, <2>4 DEF Limited
<1>10. ASSUME NEW i \in DOMAIN greeted' PROVE greeted'[i].at <= now' /\ Remembered(i)'
  <2>1. CASE greeted'[i].who = who
    <3>1. greeted'[i].at \in Nat /\ greeted'[i].at <= now
      BY <1>2, <1>3, <1>7 DEF StrangersInv
    <3>2. PICK n \in DOMAIN answered' : answered'[n] = g /\ Behind(answered', n) = {}
      BY <1>5 DEF Heard
    <3>3. QED BY <1>1, <1>2, <2>1, <3>1, <3>2 DEF Remembered
  <2>2. CASE greeted'[i].who # who
    <3>1. i \in DOMAIN greeted /\ greeted'[i] = greeted[i] BY <1>2, <1>3, <2>2
    <3>2. greeted[i].at <= now /\ Remembered(i) BY <3>1 DEF StrangersInv
    <3>3. Since(greeted', i) = Since(greeted, i) \cup {who} BY <1>2, <1>3, <2>2, <3>1
    <3>4. CASE Cardinality(Since(greeted, i)) >= StrangerCap
      BY <1>1, <1>8, <3>1, <3>2, <3>4 DEF Remembered
    <3>5. CASE \E k \in DOMAIN answered :
                 /\ answered[k].who = greeted[i].who /\ answered[k].at >= greeted[i].at
                 /\ Behind(answered, k) \subseteq Since(greeted, i)
      <4>1. PICK k \in DOMAIN answered :
              /\ answered[k].who = greeted[i].who /\ answered[k].at >= greeted[i].at
              /\ Behind(answered, k) \subseteq Since(greeted, i)
        BY <3>5
      <4>2. Behind(answered, k) \cup {who} \subseteq Since(greeted', i) BY <3>3, <4>1
      <4>3. \/ \E n \in DOMAIN answered' :
                 answered'[n] = answered[k] /\ Behind(answered', n) \subseteq Since(greeted', i)
            \/ \E T : T \subseteq Since(greeted', i) /\ Cardinality(T) = StrangerCap
        BY <1>5, <2>2, <3>1, <4>1, <4>2 DEF Heard
      <4>4. ASSUME NEW T, T \subseteq Since(greeted', i), Cardinality(T) = StrangerCap
            PROVE  Cardinality(Since(greeted', i)) >= StrangerCap
        <5>1. IsFiniteSet(Since(greeted', i)) BY <1>3
        <5>2. QED BY <1>4, <4>4, <5>1, AtLeast
      <4>5. QED BY <1>1, <3>1, <3>2, <4>1, <4>3, <4>4 DEF Remembered
    <3>6. QED BY <3>2, <3>4, <3>5 DEF Remembered
  <2>3. QED BY <2>1, <2>2
<1>11. RepliesSpaced'
  <2> SUFFICES ASSUME NEW i \in DOMAIN greeted', NEW j \in DOMAIN greeted', i < j,
                      greeted'[i].who = greeted'[j].who,
                      greeted'[j].at < greeted'[i].at + Cooldown
               PROVE  Cardinality(Others(greeted', greeted'[i].who, i, j)) >= StrangerCap
    BY DEF RepliesSpaced
  <2>1. i \in DOMAIN greeted /\ greeted'[i] = greeted[i] BY <1>3, <1>6
  <2>2. CASE j \in DOMAIN greeted BY <1>3, <2>1, <2>2 DEF StrangersInv, RepliesSpaced
  <2>3. CASE j = Len(greeted')
    <3>1. greeted[i].who = who /\ now < greeted[i].at + Cooldown BY <1>2, <1>3, <2>1, <2>3
    <3>2. QED BY <1>9, <2>1, <2>3, <3>1 DEF Since
  <2>4. QED BY <1>3, <2>2, <2>3
<1>12. QED BY <1>3, <1>5, <1>10, <1>11 DEF StrangersInv, Heard

-----------------------------------------------------------------------------
(* The door for logins: what the stamps of a client are worth.               *)

\* The instants of failures: in order, and past.
Stamped(s, n) ==
  /\ s \in Seq(Nat)
  /\ \A i \in DOMAIN s : s[i] <= n
  /\ \A i, k \in DOMAIN s : i < k => s[i] <= s[k]

\* The stamps account for a failure at t with r - 1 after it: there are r as late
\* as t, or as many as throttle.
Holds(s, r, t) ==
  \E n \in 1..Len(s) :
    /\ n = r \/ n = MaxFailures
    /\ n <= MaxFailures
    /\ s[Len(s) - n + 1] >= t

LEMMA FreshKeeps ==
  ASSUME now \in Nat, NEW who, Stamped(Stamps(who), now)
  PROVE  /\ Stamped(Fresh(who), now)
         /\ \A r, t \in Nat :
              t + Window > now /\ Holds(Stamps(who), r, t) => Holds(Fresh(who), r, t)
<1>0. Window \in Nat /\ MaxFailures \in Nat BY LimitersAssumption
<1>1. PICK s : s = Stamps(who) OBVIOUS
<1>2. /\ s \in Seq(Nat) /\ Len(s) \in Nat /\ DOMAIN s = 1..Len(s)
      /\ \A i \in 1..Len(s) : s[i] \in Nat /\ s[i] <= now
      /\ \A i, k \in 1..Len(s) : i < k => s[i] <= s[k]
  <2>1. Stamped(s, now) BY <1>1
  <2>2. s \in Seq(Nat) BY <2>1 DEF Stamped
  <2>3. Len(s) \in Nat /\ DOMAIN s = 1..Len(s) BY <2>2, LenProperties
  <2>4. \A i \in 1..Len(s) : s[i] \in Nat BY <2>2, ElementOfSeq
  <2>5. QED BY <2>1, <2>2, <2>3, <2>4 DEF Stamped
<1>3. \E c \in 0..Len(s) : Old(s) = 1..c
  <2> DEFINE young == {i \in 1..Len(s) : ~(s[i] + Window <= now)}
  <2>1. CASE young = {}
    <3>1. Old(s) = 1..Len(s) BY <1>2, <2>1 DEF Old
    <3>2. Len(s) \in 0..Len(s) BY <1>2
    <3>3. QED BY <3>1, <3>2
  <2>2. CASE young # {}
    <3>1. young \in SUBSET Nat BY <1>2
    <3>2. PICK m \in young : \A n \in young : m <= n
      <4> HIDE DEF young
      <4>1. QED BY <2>2, <3>1, Least
    <3>3. m \in 1..Len(s) /\ ~(s[m] + Window <= now) /\ m - 1 \in 0..Len(s) BY <1>2, <3>2
    <3>4. ASSUME NEW i \in 1..Len(s) PROVE i \in Old(s) <=> i \in 1..m - 1
      <4>1. CASE i < m
        <5>1. i \notin young BY <1>2, <3>2, <3>3, <4>1
        <5>2. QED BY <1>2, <3>3, <4>1, <5>1 DEF Old
      <4>2. CASE ~(i < m)
        <5>1. s[m] <= s[i] /\ s[i] \in Nat /\ s[m] \in Nat
          <6>1. CASE i = m BY <1>2, <3>3, <6>1
          <6>2. CASE i # m BY <1>2, <3>3, <4>2, <6>2
          <6>3. QED BY <6>1, <6>2
        <5>2. ~(s[i] + Window <= now) BY <1>0, <3>3, <5>1
        <5>3. QED BY <3>3, <4>2, <5>2 DEF Old
      <4>3. QED BY <4>1, <4>2
    <3>5. Old(s) = 1..m - 1 BY <1>2, <3>3, <3>4 DEF Old
    <3>6. QED BY <3>3, <3>5
  <2>3. QED BY <2>1, <2>2
<1>4. PICK c \in 0..Len(s) : Old(s) = 1..c BY <1>3
<1>5. Cardinality(Old(s)) = c
  <2>1. Cardinality(1..c) = IF 1 > c THEN 0 ELSE c - 1 + 1 BY FS_Interval
  <2>2. QED BY <1>4, <2>1
<1>6. PICK f : f = Fresh(who) OBVIOUS
<1>7. f = SubSeq(s, c + 1, Len(s)) BY <1>1, <1>5, <1>6 DEF Fresh
<1>8. /\ f \in Seq(Nat) /\ Len(f) = Len(s) - c /\ DOMAIN f = 1..Len(s) - c
      /\ \A i \in 1..Len(s) - c : f[i] = s[c + i]
  <2>1. c + 1 \in Int /\ Len(s) \in Int /\ \A i \in c + 1..Len(s) : s[i] \in Nat
    BY <1>2
  <2>2. /\ f \in Seq(Nat) /\ Len(f) = IF c + 1 <= Len(s) THEN Len(s) - (c + 1) + 1 ELSE 0
        /\ \A i \in 1..Len(s) - (c + 1) + 1 : f[i] = s[c + 1 + i - 1]
    BY <1>7, <2>1, SubSeqProperties
  <2>3. Len(f) = Len(s) - c
    <3>1. Len(f) = IF c + 1 <= Len(s) THEN Len(s) - (c + 1) + 1 ELSE 0 BY <2>2
    <3>2. Len(s) \in Nat /\ c \in Nat /\ c <= Len(s) BY <1>2
    <3>3. QED BY <3>1, <3>2
  <2>4. ASSUME NEW i \in 1..Len(s) - c PROVE f[i] = s[c + i]
    <3>1. i \in 1..Len(s) - (c + 1) + 1 /\ c + 1 + i - 1 = c + i BY <1>2
    <3>2. QED BY <2>2, <3>1
  <2>5. QED BY <2>2, <2>3, <2>4, LenProperties
<1>9. Stamped(f, now)
  <2>1. \A i \in 1..Len(s) - c : c + i \in 1..Len(s) BY <1>2
  <2>2. \A i, k \in 1..Len(s) - c : i < k => c + i < c + k BY <1>2
  <2>3. QED BY <1>2, <1>8, <2>1, <2>2 DEF Stamped
<1>10. ASSUME NEW r, NEW t \in Nat, t + Window > now, Holds(s, r, t) PROVE Holds(f, r, t)
  <2>1. PICK n \in 1..Len(s) : /\ n = r \/ n = MaxFailures
                               /\ n <= MaxFailures
                               /\ s[Len(s) - n + 1] >= t
    BY <1>10 DEF Holds
  <2>2. Len(s) - n + 1 \in 1..Len(s) BY <1>2
  <2>3. ~(s[Len(s) - n + 1] + Window <= now) BY <1>0, <1>2, <1>10, <2>1, <2>2
  <2>4. Len(s) - n + 1 \notin 1..c BY <1>2, <1>4, <2>2, <2>3 DEF Old
  <2>5. n \in 1..Len(s) - c /\ Len(s) - c - n + 1 \in 1..Len(s) - c
        /\ c + (Len(s) - c - n + 1) = Len(s) - n + 1
    BY <1>2, <2>2, <2>4
  <2>6. f[Len(f) - n + 1] = s[Len(s) - n + 1]
    <3>1. PICK i : i = Len(s) - c - n + 1 OBVIOUS
    <3>2. i \in 1..Len(s) - c /\ c + i = Len(s) - n + 1 BY <2>5, <3>1
    <3>3. f[i] = s[Len(s) - n + 1] BY <1>8, <3>2
    <3>4. Len(f) - n + 1 = i BY <1>8, <3>1
    <3>5. QED BY <3>3, <3>4
  <2>7. QED BY <1>8, <2>1, <2>5, <2>6 DEF Holds
<1>11. QED BY <1>1, <1>6, <1>9, <1>10

LEMMA NewestCounts ==
  ASSUME now \in Nat, NEW f, Stamped(f, now)
  PROVE  /\ Stamped(Newest(Append(f, now)), now)
         /\ Holds(Newest(Append(f, now)), 1, now)
         /\ \A r, t \in Nat : Holds(f, r, t) => Holds(Newest(Append(f, now)), r + 1, t)
<1>0. MaxFailures \in Nat \ {0} BY LimitersAssumption
<1>1. /\ f \in Seq(Nat) /\ Len(f) \in Nat /\ DOMAIN f = 1..Len(f)
      /\ \A i \in 1..Len(f) : f[i] \in Nat /\ f[i] <= now
      /\ \A i, k \in 1..Len(f) : i < k => f[i] <= f[k]
  <2>2. f \in Seq(Nat) BY DEF Stamped
  <2>3. Len(f) \in Nat /\ DOMAIN f = 1..Len(f) BY <2>2, LenProperties
  <2>4. \A i \in 1..Len(f) : f[i] \in Nat BY <2>2, ElementOfSeq
  <2>5. QED BY <2>2, <2>3, <2>4 DEF Stamped
<1>2. PICK a : a = Append(f, now) OBVIOUS
<1>3. /\ a \in Seq(Nat) /\ Len(a) = Len(f) + 1 /\ DOMAIN a = 1..Len(f) + 1
      /\ \A i \in 1..Len(f) : a[i] = f[i]
      /\ a[Len(f) + 1] = now
  BY <1>1, <1>2, AppendProperties, LenProperties
<1>4. /\ \A i \in 1..Len(a) : a[i] \in Nat /\ a[i] <= now
      /\ \A i, k \in 1..Len(a) : i < k => a[i] <= a[k]
  <2>1. ASSUME NEW i \in 1..Len(a) PROVE a[i] \in Nat /\ a[i] <= now
    <3>1. i \in 1..Len(f) \/ i = Len(f) + 1 BY <1>1, <1>3
    <3>2. CASE i \in 1..Len(f) BY <1>1, <1>3, <3>2
    <3>3. CASE i = Len(f) + 1 BY <1>3, <3>3
    <3>4. QED BY <3>1, <3>2, <3>3
  <2>2. ASSUME NEW i \in 1..Len(a), NEW k \in 1..Len(a), i < k PROVE a[i] <= a[k]
    <3>0. Len(f) \in Nat /\ Len(a) = Len(f) + 1 BY <1>1, <1>3
    <3>1. i \in 1..Len(f) /\ (k \in 1..Len(f) \/ k = Len(f) + 1) BY <2>2, <3>0
    <3>2. CASE k \in 1..Len(f) BY <1>1, <1>3, <2>2, <3>1, <3>2
    <3>3. CASE k = Len(f) + 1 BY <1>3, <2>1, <3>3
    <3>4. QED BY <3>1, <3>2, <3>3
  <2>3. QED BY <2>1, <2>2
<1>5. PICK s : s = Newest(a) OBVIOUS
\* Counted from the end, the newest are where they were.
<1>6. PICK d \in 0..Len(f) :
        /\ s \in Seq(Nat) /\ Len(s) = Len(a) - d /\ DOMAIN s = 1..Len(a) - d
        /\ \A i \in 1..Len(a) - d : s[i] = a[d + i]
        /\ d > 0 => Len(a) - d = MaxFailures
  <2>1. CASE Len(a) > MaxFailures
    <3>1. PICK d : d = Len(a) - MaxFailures OBVIOUS
    <3>2. d \in 1..Len(f) /\ Len(a) - d = MaxFailures BY <1>0, <1>1, <1>3, <2>1, <3>1
    <3>3. s = SubSeq(a, d + 1, Len(a)) BY <1>5, <2>1, <3>1 DEF Newest
    <3>4. d + 1 \in Int /\ Len(a) \in Int /\ \A i \in d + 1..Len(a) : a[i] \in Nat
      BY <1>1, <1>3, <1>4, <3>2
    <3>5. /\ s \in Seq(Nat) /\ Len(s) = IF d + 1 <= Len(a) THEN Len(a) - (d + 1) + 1 ELSE 0
          /\ \A i \in 1..Len(a) - (d + 1) + 1 : s[i] = a[d + 1 + i - 1]
      BY <3>3, <3>4, SubSeqProperties
    <3>6. Len(s) = Len(a) - d
      <4>1. Len(s) = IF d + 1 <= Len(a) THEN Len(a) - (d + 1) + 1 ELSE 0 BY <3>5
      <4>2. QED BY <1>1, <1>3, <3>2, <4>1
    <3>7. ASSUME NEW i \in 1..Len(a) - d PROVE s[i] = a[d + i]
      <4>1. i \in 1..Len(a) - (d + 1) + 1 /\ d + 1 + i - 1 = d + i BY <1>1, <1>3, <3>2
      <4>2. QED BY <3>5, <4>1
    <3>8. DOMAIN s = 1..Len(a) - d BY <3>5, <3>6, LenProperties
    <3>9. d \in 0..Len(f) BY <3>2
    <3>10. QED BY <3>2, <3>5, <3>6, <3>7, <3>8, <3>9
  <2>2. CASE ~(Len(a) > MaxFailures)
    <3>1. s = a BY <1>5, <2>2 DEF Newest
    <3>2. PICK d : d = 0 OBVIOUS
    <3>3. d \in 0..Len(f) /\ Len(a) - d = Len(a) /\ ~(d > 0) BY <1>1, <1>3, <3>2
    <3>4. \A i \in 1..Len(a) - d : s[i] = a[d + i]
      <4> TAKE i \in 1..Len(a) - d
      <4>1. d + i = i BY <3>2
      <4>2. QED BY <3>1, <4>1
    <3>5. s \in Seq(Nat) /\ Len(s) = Len(a) - d /\ DOMAIN s = 1..Len(a) - d
      BY <1>3, <3>1, <3>3
    <3>6. QED BY <3>3, <3>4, <3>5
  <2>3. QED BY <2>1, <2>2
<1>7. Len(a) \in Nat /\ Len(a) - d \in Nat /\ Len(a) - d >= 1 BY <1>1, <1>3, <1>6
<1>8. Stamped(s, now)
  <2>1. \A i \in 1..Len(a) - d : d + i \in 1..Len(a) BY <1>6, <1>7
  <2>2. \A i, k \in 1..Len(a) - d : i < k => d + i < d + k BY <1>6, <1>7
  <2>3. QED BY <1>4, <1>6, <2>1, <2>2 DEF Stamped
<1>9. \A n \in 1..Len(a) - d : s[Len(s) - n + 1] = a[Len(a) - n + 1]
  <2> TAKE n \in 1..Len(a) - d
  <2>1. PICK i : i = Len(a) - d - n + 1 OBVIOUS
  <2>2. i \in 1..Len(a) - d /\ d + i = Len(a) - n + 1 BY <1>7, <2>1
  <2>3. s[i] = a[Len(a) - n + 1] BY <1>6, <2>2
  <2>4. Len(s) - n + 1 = i BY <1>6, <2>1
  <2>5. QED BY <2>3, <2>4
<1>10. Holds(s, 1, now)
  <2>1. 1 \in 1..Len(a) - d /\ Len(a) - 1 + 1 = Len(f) + 1 BY <1>1, <1>3, <1>7
  <2>2. s[Len(s) - 1 + 1] = now
    <3>1. s[Len(s) - 1 + 1] = a[Len(a) - 1 + 1] BY <1>9, <2>1
    <3>2. QED BY <1>3, <2>1, <3>1
  <2>3. 1 <= MaxFailures /\ 1 \in 1..Len(s) BY <1>0, <1>6, <2>1
  <2>4. s[Len(s) - 1 + 1] >= now BY <2>2
  <2>5. QED BY <2>3, <2>4 DEF Holds
<1>11. ASSUME NEW r \in Nat, NEW t \in Nat, Holds(f, r, t) PROVE Holds(s, r + 1, t)
  <2>1. PICK n \in 1..Len(f) : /\ n = r \/ n = MaxFailures
                               /\ n <= MaxFailures
                               /\ f[Len(f) - n + 1] >= t
    BY <1>11 DEF Holds
  <2>2. Len(f) - n + 1 \in 1..Len(f) BY <1>1
  <2>3. a[Len(f) - n + 1] >= t /\ a[Len(f) - n + 1] \in Nat BY <1>1, <1>3, <2>1, <2>2
  <2>4. CASE n < MaxFailures
    <3>1. n = r /\ n + 1 \in 1..Len(a) - d /\ n + 1 <= MaxFailures
      BY <1>0, <1>1, <1>3, <1>6, <2>1, <2>4
    <3>2. Len(a) - (n + 1) + 1 = Len(f) - n + 1 BY <1>1, <1>3
    <3>3. s[Len(s) - (n + 1) + 1] >= t BY <1>9, <2>3, <3>1, <3>2
    <3>4. n + 1 = r + 1 /\ n + 1 \in 1..Len(s) BY <1>6, <3>1
    <3>5. QED BY <3>1, <3>3, <3>4 DEF Holds
  <2>5. CASE n = MaxFailures
    <3>1. n \in 1..Len(a) - d BY <1>0, <1>1, <1>3, <1>6, <2>5
    <3>2. Len(f) - n + 1 < Len(a) - n + 1 /\ Len(a) - n + 1 \in 1..Len(a)
          /\ Len(f) - n + 1 \in 1..Len(a)
      <4>1. Len(f) \in Nat /\ Len(a) = Len(f) + 1 BY <1>1, <1>3
      <4>2. n \in 1..Len(f) OBVIOUS
      <4>3. QED BY <4>1, <4>2
    <3>3. a[Len(f) - n + 1] <= a[Len(a) - n + 1] /\ a[Len(a) - n + 1] \in Nat
      BY <1>4, <3>2
    <3>4. s[Len(s) - n + 1] >= t
      <4>1. s[Len(s) - n + 1] = a[Len(a) - n + 1] BY <1>9, <3>1
      <4>2. \A x, y \in Nat : x >= t /\ x <= y => y >= t OBVIOUS
      <4>3. QED BY <2>3, <3>3, <4>1, <4>2
    <3>5. n \in 1..Len(s) BY <1>6, <3>1
    <3>6. QED BY <2>1, <2>5, <3>4, <3>5 DEF Holds
  <2>6. QED BY <1>0, <2>1, <2>4, <2>5
<1>12. QED BY <1>2, <1>5, <1>8, <1>10, <1>11

-----------------------------------------------------------------------------
(* The door for logins: which failures count. *)

Attempt == [who : Client, how : {"login", "bearer", "right", "throttled"}, at : Nat]
Tracked == [who : Client, stamps : Seq(Nat)]

\* The failures of a client since it last gave the right token.
Counting(log, who) ==
  {i \in DOMAIN log :
     /\ log[i].who = who /\ log[i].how \in {"login", "bearer"}
     /\ \A k \in i..Len(log) : log[k].who = who => log[k].how # "right"}

CountingFrom(log, i) == {m \in Counting(log, log[i].who) : m >= i}

LEMMA AttemptFacts ==
  ASSUME NEW log \in Seq(Attempt)
  PROVE  /\ Len(log) \in Nat /\ DOMAIN log = 1..Len(log)
         /\ \A i \in DOMAIN log :
              /\ log[i].at \in Nat /\ log[i].who \in Client
              /\ IsFiniteSet(CountingFrom(log, i)) /\ Cardinality(CountingFrom(log, i)) \in Nat
<1>1. Len(log) \in Nat /\ DOMAIN log = 1..Len(log) BY LenProperties
<1>2. ASSUME NEW i \in DOMAIN log
      PROVE  /\ log[i].at \in Nat /\ log[i].who \in Client
             /\ IsFiniteSet(CountingFrom(log, i)) /\ Cardinality(CountingFrom(log, i)) \in Nat
  <2>1. log[i] \in Attempt BY <1>1, ElementOfSeq
  <2>2. CountingFrom(log, i) \subseteq 1..Len(log) BY <1>1 DEF CountingFrom, Counting
  <2>3. IsFiniteSet(1..Len(log)) BY <1>1, FS_Interval
  <2>4. IsFiniteSet(CountingFrom(log, i)) BY <2>2, <2>3, FS_Subset
  <2>5. QED BY <2>1, <2>4, FS_CardinalityType DEF Attempt
<1>3. QED BY <1>1, <1>2

LEMMA CountingGrows ==
  ASSUME NEW log \in Seq(Attempt), NEW g \in Attempt, NEW longer, Longer(log, longer, g), NEW who
  PROVE  Counting(longer, who) =
           IF who # g.who \/ g.how = "throttled" THEN Counting(log, who)
           ELSE IF g.how = "right" THEN {}
           ELSE Counting(log, who) \cup {Len(longer)}
<1>1. Len(log) \in Nat /\ DOMAIN log = 1..Len(log) BY LenProperties
<1>2. /\ Len(longer) = Len(log) + 1 /\ DOMAIN longer = DOMAIN log \cup {Len(longer)}
      /\ longer[Len(longer)] = g /\ \A i \in DOMAIN log : longer[i] = log[i]
  BY DEF Longer
<1>3. g.how \in {"login", "bearer", "right", "throttled"} BY DEF Attempt
<1>4. ASSUME NEW i \in DOMAIN log
      PROVE  i \in Counting(longer, who) <=>
               i \in Counting(log, who) /\ (g.who = who => g.how # "right")
  <2>1. i..Len(longer) = i..Len(log) \cup {Len(longer)} BY <1>1, <1>2
  <2>2. \A k \in i..Len(log) : longer[k] = log[k] BY <1>1, <1>2
  <2>3. QED BY <1>2, <2>1, <2>2 DEF Counting
<1>5. Len(longer) \in Counting(longer, who) <=> g.who = who /\ g.how \in {"login", "bearer"}
  <2>1. Len(longer)..Len(longer) = {Len(longer)} BY <1>1, <1>2
  <2>2. QED BY <1>2, <2>1 DEF Counting
<1>6. Counting(log, who) \subseteq DOMAIN log BY DEF Counting
<1>7. Counting(longer, who) \subseteq DOMAIN log \cup {Len(longer)} BY <1>2 DEF Counting
<1>8. Len(longer) \notin DOMAIN log BY <1>1, <1>2
<1>9. CASE who # g.who \/ g.how = "throttled"
  <2>1. \A i \in DOMAIN log : i \in Counting(longer, who) <=> i \in Counting(log, who)
    BY <1>4, <1>9
  <2>2. Len(longer) \notin Counting(longer, who) BY <1>5, <1>9
  <2>3. Counting(longer, who) = Counting(log, who) BY <1>6, <1>7, <2>1, <2>2
  <2>4. QED BY <1>9, <2>3
<1>10. CASE who = g.who /\ g.how = "right" BY <1>4, <1>5, <1>7, <1>10
<1>11. CASE who = g.who /\ g.how \in {"login", "bearer"} BY <1>4, <1>5, <1>6, <1>7, <1>11
<1>12. QED BY <1>3, <1>9, <1>10, <1>11

\* A failure that counts is in the stamps, is old, or as many others as are
\* tracked were heard from since.
Accounted(i) ==
  i \in Counting(attempts, attempts[i].who) =>
    \/ attempts[i].at + Window <= now
    \/ Cardinality(Since(attempts, i)) >= ClientCap
    \/ \E k \in DOMAIN failures :
         /\ failures[k].who = attempts[i].who
         /\ Behind(failures, k) \subseteq Since(attempts, i)
         /\ Holds(failures[k].stamps, Cardinality(CountingFrom(attempts, i)), attempts[i].at)

LoginsTypes ==
  /\ attempts \in Seq(Attempt)
  /\ failures \in Seq(Tracked) /\ Keyed(failures) /\ Len(failures) <= ClientCap

LoginsInv ==
  /\ LoginsTypes
  /\ \A i \in DOMAIN attempts : attempts[i].at <= now /\ Accounted(i)
  /\ \A k \in DOMAIN failures : Stamped(failures[k].stamps, now)
  /\ LoginsThrottled

\* What is kept of a client is found under its key.
LEMMA StampsOf ==
  ASSUME LoginsTypes, NEW k \in DOMAIN failures
  PROVE  Stamps(failures[k].who) = failures[k].stamps
<1>1. Of(failures, failures[k].who) = {k} BY DEF Of, LoginsTypes, Keyed
<1>2. (CHOOSE i \in {k} : TRUE) = k OBVIOUS
<1>3. QED BY <1>1, <1>2 DEF Stamps

LEMMA FreshFacts ==
  ASSUME now \in Nat, LoginsInv, NEW who
  PROVE  /\ Stamped(Fresh(who), now)
         /\ \A r, t \in Nat :
              t + Window > now /\ Holds(Stamps(who), r, t) => Holds(Fresh(who), r, t)
<1>1. Stamped(Stamps(who), now)
  <2>1. CASE Of(failures, who) = {}
    <3>1. Stamps(who) = <<>> BY <2>1 DEF Stamps
    <3>2. Stamped(<<>>, now) BY EmptySeq DEF Stamped
    <3>3. QED BY <3>1, <3>2
  <2>2. CASE Of(failures, who) # {}
    <3>1. PICK k \in DOMAIN failures : failures[k].who = who BY <2>2 DEF Of
    <3>2. Stamps(who) = failures[k].stamps BY <3>1, StampsOf DEF LoginsInv
    <3>3. QED BY <3>2 DEF LoginsInv
  <2>3. QED BY <2>1, <2>2
<1>2. QED BY <1>1, FreshKeeps

\* The others keep their items, or are forgotten among many.
OthersKept(who) ==
  \A k \in DOMAIN failures : failures[k].who # who =>
    \/ \E n \in DOMAIN failures' :
         /\ failures'[n] = failures[k]
         /\ Behind(failures', n) \subseteq Behind(failures, k) \cup {who}
    \/ \E T : /\ T \subseteq Behind(failures, k) \cup {who}
              /\ IsFiniteSet(T) /\ Cardinality(T) = ClientCap

\* What is known of another client's failures survives.
LEMMA OthersAccounted ==
  ASSUME LoginsInv, now' = now, NEW g \in Attempt, Longer(attempts, attempts', g),
         OthersKept(g.who), NEW i \in DOMAIN attempts, attempts[i].who # g.who
  PROVE  Accounted(i)'
<1>0. ClientCap \in Nat /\ attempts \in Seq(Attempt)
  BY LimitersAssumption DEF LoginsInv, LoginsTypes
<1>1. /\ attempts'[i] = attempts[i] /\ IsFiniteSet(Since(attempts', i))
      /\ Since(attempts', i) = Since(attempts, i) \cup {g.who}
  <2>1. i \in DOMAIN attempts' BY DEF Longer
  <2>2. QED BY <2>1 DEF Longer
<1>2. Counting(attempts', attempts[i].who) = Counting(attempts, attempts[i].who)
  BY <1>0, CountingGrows
<1>3. CountingFrom(attempts', i) = CountingFrom(attempts, i) BY <1>1, <1>2 DEF CountingFrom
<1> SUFFICES ASSUME i \in Counting(attempts, attempts[i].who), Accounted(i)
             PROVE  Accounted(i)'
  BY <1>1, <1>2 DEF LoginsInv, Accounted
<1>4. CASE attempts[i].at + Window <= now BY <1>1, <1>4 DEF Accounted
<1>5. ASSUME NEW T, T \subseteq Since(attempts', i), Cardinality(T) >= ClientCap
      PROVE  Accounted(i)'
  <2>1. Cardinality(Since(attempts', i)) >= ClientCap BY <1>0, <1>1, <1>5, AtLeast
  <2>2. QED BY <2>1 DEF Accounted
<1>6. CASE Cardinality(Since(attempts, i)) >= ClientCap BY <1>1, <1>5, <1>6
<1>7. ASSUME NEW k \in DOMAIN failures,
             failures[k].who = attempts[i].who,
             Behind(failures, k) \subseteq Since(attempts, i),
             Holds(failures[k].stamps, Cardinality(CountingFrom(attempts, i)), attempts[i].at)
      PROVE  Accounted(i)'
  <2>1. Behind(failures, k) \cup {g.who} \subseteq Since(attempts', i) BY <1>1, <1>7
  <2>2. CASE \E n \in DOMAIN failures' :
               /\ failures'[n] = failures[k]
               /\ Behind(failures', n) \subseteq Behind(failures, k) \cup {g.who}
    <3>1. PICK n \in DOMAIN failures' :
            /\ failures'[n] = failures[k]
            /\ Behind(failures', n) \subseteq Since(attempts', i)
      BY <2>1, <2>2
    <3>2. QED BY <1>1, <1>3, <1>7, <3>1 DEF Accounted
  <2>3. CASE \E T : /\ T \subseteq Behind(failures, k) \cup {g.who}
                    /\ IsFiniteSet(T) /\ Cardinality(T) = ClientCap
    BY <1>0, <1>5, <2>1, <2>3
  <2>4. QED BY <1>7, <2>2, <2>3 DEF OthersKept
<1>8. QED BY <1>4, <1>6, <1>7 DEF Accounted

\* What is known of the client's own failures survives.
LEMMA OwnAccounted ==
  ASSUME now \in Nat, LoginsInv, now' = now, NEW g \in Attempt, g.at = now,
         Longer(attempts, attempts', g), NEW i \in DOMAIN attempts', attempts'[i].who = g.who,
         g.how # "right" =>
           \E n \in DOMAIN failures' :
             /\ failures'[n].who = g.who /\ Behind(failures', n) = {}
             /\ failures'[n].stamps = IF g.how = "throttled" THEN Fresh(g.who)
                                      ELSE Newest(Append(Fresh(g.who), now))
  PROVE  Accounted(i)'
<1>0. attempts \in Seq(Attempt) /\ LoginsTypes BY DEF LoginsInv, LoginsTypes
<1>1. /\ Len(attempts) \in Nat /\ DOMAIN attempts = 1..Len(attempts)
      /\ \A m \in DOMAIN attempts :
           /\ attempts[m].at \in Nat /\ attempts[m].who \in Client
           /\ IsFiniteSet(CountingFrom(attempts, m))
           /\ Cardinality(CountingFrom(attempts, m)) \in Nat
  BY <1>0, AttemptFacts
<1>2. /\ DOMAIN attempts' = DOMAIN attempts \cup {Len(attempts')}
      /\ Len(attempts') = Len(attempts) + 1
      /\ attempts'[Len(attempts')] = g
  BY DEF Longer
<1>3. Counting(attempts', g.who) =
        IF g.how = "throttled" THEN Counting(attempts, g.who)
        ELSE IF g.how = "right" THEN {}
        ELSE Counting(attempts, g.who) \cup {Len(attempts')}
  <2>1. PICK who : who = g.who OBVIOUS
  <2>2. Counting(attempts', who) =
          IF who # g.who \/ g.how = "throttled" THEN Counting(attempts, who)
          ELSE IF g.how = "right" THEN {}
          ELSE Counting(attempts, who) \cup {Len(attempts')}
    BY <1>0, CountingGrows
  <2>3. QED BY <2>1, <2>2
<1>4. g.how \in {"login", "bearer", "right", "throttled"} BY DEF Attempt
<1>5. PICK f : f = Fresh(g.who) OBVIOUS
<1>6. /\ Stamped(f, now)
      /\ \A r, t \in Nat :
           t + Window > now /\ Holds(Stamps(g.who), r, t) => Holds(f, r, t)
  BY <1>5, FreshFacts
<1> SUFFICES ASSUME i \in Counting(attempts', g.who) PROVE Accounted(i)'
  BY DEF Accounted
<1>7. g.how # "right" BY <1>3
<1>8. PICK n \in DOMAIN failures' :
        /\ failures'[n].who = g.who /\ Behind(failures', n) = {}
        /\ failures'[n].stamps = IF g.how = "throttled" THEN f ELSE Newest(Append(f, now))
  BY <1>5, <1>7
<1>9. CASE i = Len(attempts')
  <2>1. Len(attempts') \notin Counting(attempts, g.who) BY <1>1, <1>2 DEF Counting
  <2>2. g.how # "throttled" BY <1>3, <1>9, <2>1
  <2>3. CountingFrom(attempts', i) = {i}
    <3>1. \A m \in Counting(attempts, g.who) : m < i BY <1>1, <1>2, <1>9 DEF Counting
    <3>2. Counting(attempts', g.who) = Counting(attempts, g.who) \cup {i}
      BY <1>3, <1>7, <1>9, <2>2
    <3>3. i \in Nat /\ \A m \in Counting(attempts, g.who) : m \in Nat
      BY <1>1, <1>2, <1>9 DEF Counting
    <3>4. QED BY <3>1, <3>2, <3>3 DEF CountingFrom
  <2>4. Cardinality(CountingFrom(attempts', i)) = 1 BY <2>3, FS_Singleton
  <2>5. Holds(failures'[n].stamps, 1, now) BY <1>6, <1>8, <2>2, NewestCounts
  <2>6. QED BY <1>2, <1>8, <1>9, <2>4, <2>5 DEF Accounted
<1>10. CASE i # Len(attempts')
  <2>1. i \in DOMAIN attempts /\ attempts'[i] = attempts[i] /\ attempts[i].who = g.who
    BY <1>2, <1>10 DEF Longer
  <2>2. i \in Counting(attempts, g.who) BY <1>3, <1>7, <1>10
  <2>3. Since(attempts', i) = Since(attempts, i)
    <3>1. Since(attempts', i) = Since(attempts, i) \cup ({g.who} \ {attempts[i].who})
      BY <2>1 DEF Longer
    <3>2. QED BY <2>1, <3>1
  <2>4. Accounted(i) /\ attempts[i].at \in Nat BY <1>1, <2>1 DEF LoginsInv
  <2>5. CASE attempts[i].at + Window <= now BY <2>1, <2>5 DEF Accounted
  <2>6. CASE Cardinality(Since(attempts, i)) >= ClientCap BY <2>3, <2>6 DEF Accounted
  <2>7. ASSUME ~(attempts[i].at + Window <= now), NEW k \in DOMAIN failures,
               failures[k].who = attempts[i].who,
               Holds(failures[k].stamps, Cardinality(CountingFrom(attempts, i)), attempts[i].at)
        PROVE  Accounted(i)'
    <3>1. PICK r : r = Cardinality(CountingFrom(attempts, i)) OBVIOUS
    <3>2. PICK t : t = attempts[i].at OBVIOUS
    <3>3. r \in Nat /\ t \in Nat /\ IsFiniteSet(CountingFrom(attempts, i))
      BY <1>1, <2>1, <3>1, <3>2
    <3>4. Stamps(g.who) = failures[k].stamps BY <1>0, <2>1, <2>7, StampsOf
    <3>5. t + Window > now
      <4>1. Window \in Nat BY LimitersAssumption
      <4>2. QED BY <2>7, <3>2, <3>3, <4>1
    <3>6. Holds(f, r, t) BY <1>6, <2>7, <3>1, <3>2, <3>3, <3>4, <3>5
    <3>7. CASE g.how = "throttled"
      <4>1. CountingFrom(attempts', i) = CountingFrom(attempts, i)
        BY <1>3, <2>1, <3>7 DEF CountingFrom
      <4>2. Holds(failures'[n].stamps, r, t) BY <1>8, <3>6, <3>7
      <4>3. QED BY <1>8, <2>1, <3>1, <3>2, <4>1, <4>2 DEF Accounted
    <3>8. CASE g.how # "throttled"
      <4>1. CountingFrom(attempts', i) = CountingFrom(attempts, i) \cup {Len(attempts')}
        <5>1. Len(attempts') >= i BY <1>1, <1>2, <2>1
        <5>2. Counting(attempts', g.who) = Counting(attempts, g.who) \cup {Len(attempts')}
          BY <1>3, <1>7, <3>8
        <5>3. QED BY <2>1, <5>1, <5>2 DEF CountingFrom
      <4>2. Len(attempts') \notin CountingFrom(attempts, i)
        BY <1>1, <1>2 DEF CountingFrom, Counting
      <4>3. Cardinality(CountingFrom(attempts', i)) = r + 1
        BY <3>1, <3>3, <4>1, <4>2, FS_AddElement
      <4>4. Holds(failures'[n].stamps, r + 1, t) BY <1>6, <1>8, <3>3, <3>6, <3>8, NewestCounts
      <4>5. QED BY <1>8, <2>1, <3>2, <4>3, <4>4 DEF Accounted
    <3>9. QED BY <3>7, <3>8
  <2>8. QED BY <2>1, <2>2, <2>4, <2>5, <2>6, <2>7 DEF Accounted
<1>11. QED BY <1>9, <1>10

\* A login that is let through to fail had too few failures to be throttled, or
\* its client was forgotten among many.
LEMMA LetThrough ==
  ASSUME now \in Nat, LoginsInv, NEW g \in Attempt, g.at = now,
         Longer(attempts, attempts', g),
         g.how = "login" => ~Throttled(g.who)
  PROVE  LoginsThrottled'
<1>0. attempts \in Seq(Attempt) /\ LoginsTypes BY DEF LoginsInv, LoginsTypes
<1>1. /\ Len(attempts) \in Nat /\ DOMAIN attempts = 1..Len(attempts)
      /\ \A m \in DOMAIN attempts :
           /\ attempts[m].at \in Nat /\ attempts[m].who \in Client
           /\ IsFiniteSet(CountingFrom(attempts, m))
           /\ Cardinality(CountingFrom(attempts, m)) \in Nat
  BY <1>0, AttemptFacts
<1>2. /\ DOMAIN attempts' = DOMAIN attempts \cup {Len(attempts')}
      /\ Len(attempts') = Len(attempts) + 1
      /\ attempts'[Len(attempts')] = g
      /\ \A m \in DOMAIN attempts : attempts'[m] = attempts[m]
      /\ \A m, j \in DOMAIN attempts : \A w :
           Others(attempts', w, m, j) = Others(attempts, w, m, j)
  BY DEF Longer
<1>3. MaxFailures \in Nat \ {0} /\ ClientCap \in Nat \ {0} /\ Window \in Nat
  BY LimitersAssumption
<1> SUFFICES ASSUME NEW j \in DOMAIN attempts', attempts'[j].how = "login",
                    ~(Cardinality(FailuresBefore(j)') < MaxFailures)
             PROVE  \E i \in FailuresBefore(j)' :
                      Cardinality(Others(attempts', attempts'[j].who, i, j)) >= ClientCap
  BY DEF LoginsThrottled
<1>4. CASE j \in DOMAIN attempts
  <2>1. attempts'[j] = attempts[j] /\ attempts[j].how = "login" BY <1>2, <1>4
  <2>2. FailuresBefore(j)' = FailuresBefore(j)
    <3>1. ASSUME NEW i \in 1..j - 1
          PROVE  /\ attempts'[i] = attempts[i]
                 /\ \A k \in i..j : attempts'[k] = attempts[k]
      <4>1. \A k \in i..j : k \in DOMAIN attempts BY <1>1, <1>4
      <4>2. i \in i..j BY <1>1, <1>4
      <4>3. QED BY <1>2, <4>1, <4>2
    <3>2. QED BY <2>1, <3>1 DEF FailuresBefore
  <2>3. PICK i \in FailuresBefore(j) :
          Cardinality(Others(attempts, attempts[j].who, i, j)) >= ClientCap
    BY <1>4, <2>1, <2>2 DEF LoginsInv, LoginsThrottled
  <2>4. i \in DOMAIN attempts BY <1>1, <1>4 DEF FailuresBefore
  <2>5. Others(attempts', attempts'[j].who, i, j) = Others(attempts, attempts[j].who, i, j)
    BY <1>2, <1>4, <2>1, <2>4
  <2>6. QED BY <2>2, <2>3, <2>5
<1>5. CASE j = Len(attempts')
  <2>1. attempts'[j] = g /\ g.how = "login" BY <1>2, <1>5
  <2>2. PICK B : B = FailuresBefore(j)' OBVIOUS
  <2>3. ASSUME NEW i \in B
        PROVE  /\ i \in DOMAIN attempts /\ attempts[i].who = g.who
               /\ i \in Counting(attempts, g.who)
               /\ now < attempts[i].at + Window
    <3>1. /\ i \in 1..j - 1
          /\ attempts'[i].who = g.who /\ attempts'[i].how \in {"login", "bearer"}
          /\ now < attempts'[i].at + Window
          /\ \A k \in i..j : attempts'[k].who = g.who => attempts'[k].how # "right"
      BY <2>1, <2>2 DEF FailuresBefore
    <3>2. i \in DOMAIN attempts /\ i..Len(attempts) \subseteq i..j
      BY <1>1, <1>2, <1>5, <3>1
    <3>3. \A k \in i..Len(attempts) : attempts'[k] = attempts[k] BY <1>1, <1>2, <3>2
    <3>4. attempts'[i] = attempts[i] BY <1>2, <3>2
    <3>5. QED BY <3>1, <3>2, <3>3, <3>4 DEF Counting
  <2>4. PICK m \in B : \A n \in B : m <= n
    <3>1. B \in SUBSET Nat BY <1>1, <2>3
    <3>2. B # {}
      <4>1. B = {} => Cardinality(B) = 0 BY FS_EmptySet
      <4>2. QED BY <1>3, <2>2, <4>1
    <3>3. QED BY <3>1, <3>2, Least
  <2>5. m \in DOMAIN attempts /\ attempts[m].who = g.who BY <2>3
  <2>6. CASE Cardinality(Since(attempts, m)) >= ClientCap
    <3>1. Since(attempts', m) = Since(attempts, m) \cup ({g.who} \ {attempts[m].who})
      BY <2>5 DEF Longer
    <3>2. Since(attempts', m) = Since(attempts, m) BY <2>5, <3>1
    <3>3. attempts'[m].who = attempts'[j].who BY <1>2, <2>1, <2>5
    <3>4. Others(attempts', attempts'[j].who, m, j) = Since(attempts', m)
      BY <1>5, <3>3 DEF Since
    <3>5. QED BY <2>2, <2>6, <3>2, <3>4
  <2>7. CASE ~(Cardinality(Since(attempts, m)) >= ClientCap)
    <3>1. m \in Counting(attempts, g.who) /\ now < attempts[m].at + Window BY <2>3
    <3>2. PICK t : t = attempts[m].at OBVIOUS
    <3>3. PICK r : r = Cardinality(CountingFrom(attempts, m)) OBVIOUS
    <3>4. t \in Nat /\ r \in Nat /\ IsFiniteSet(CountingFrom(attempts, m))
      BY <1>1, <2>5, <3>2, <3>3
    <3>5. ~(t + Window <= now) /\ t + Window > now BY <1>3, <3>1, <3>2, <3>4
    <3>6. PICK k \in DOMAIN failures :
            failures[k].who = g.who /\ Holds(failures[k].stamps, r, t)
      BY <2>5, <2>7, <3>1, <3>2, <3>3, <3>5 DEF LoginsInv, Accounted
    <3>7. Stamps(g.who) = failures[k].stamps BY <1>0, <3>6, StampsOf
    <3>8. Holds(Fresh(g.who), r, t) BY <3>4, <3>5, <3>6, <3>7, FreshFacts
    <3>9. ~(Len(Fresh(g.who)) >= MaxFailures) BY <2>1 DEF Throttled
    <3>10. Len(Fresh(g.who)) \in Nat BY FreshFacts, LenProperties DEF Stamped
    <3>11. r < MaxFailures BY <1>3, <3>4, <3>8, <3>9, <3>10 DEF Holds
    <3>12. B \subseteq CountingFrom(attempts, m)
      <4>1. \A n \in B : n >= m
        <5>1. \A n \in B : n \in Nat /\ m \in Nat BY <1>1, <2>3
        <5>2. QED BY <2>4, <5>1
      <4>2. QED BY <2>3, <2>5, <4>1 DEF CountingFrom
    <3>13. Cardinality(B) <= r /\ Cardinality(B) \in Nat BY <3>3, <3>4, <3>12, AtLeast
    <3>14. Cardinality(B) < MaxFailures BY <1>3, <3>4, <3>11, <3>13
    <3>15. QED BY <2>2, <3>14
  <2>8. QED BY <2>6, <2>7
<1>6. QED BY <1>2, <1>4, <1>5

LEMMA LoginStep ==
  ASSUME now \in Nat, LoginsInv, NEW who \in Client,
         LoginFails(who) \/ LoginThrottled(who) \/ BearerFails(who) \/ Succeeds(who)
  PROVE  LoginsInv'
<1>0. /\ MaxFailures \in Nat \ {0} /\ ClientCap \in Nat \ {0}
      /\ attempts \in Seq(Attempt) /\ LoginsTypes
      /\ failures \in Seq(Tracked) /\ Keyed(failures) /\ Len(failures) <= ClientCap
  BY LimitersAssumption DEF LoginsInv, LoginsTypes
<1>1. PICK g \in Attempt :
        /\ g.who = who /\ g.at = now /\ attempts' = Append(attempts, g)
        /\ g.how = "login" => LoginFails(who)
        /\ g.how = "bearer" => BearerFails(who)
        /\ g.how = "throttled" => LoginThrottled(who)
        /\ g.how = "right" => Succeeds(who)
  <2> DEFINE entry(how) == [who |-> who, how |-> how, at |-> now]
  <2>1. \A how \in {"login", "bearer", "right", "throttled"} :
          /\ entry(how) \in Attempt
          /\ entry(how).who = who /\ entry(how).at = now /\ entry(how).how = how
    BY DEF Attempt
  <2> HIDE DEF entry
  <2>2. CASE LoginFails(who)
    <3>1. attempts' = Append(attempts, entry("login")) BY <2>2 DEF LoginFails, Tried, entry
    <3>2. QED BY <2>1, <2>2, <3>1
  <2>3. CASE BearerFails(who)
    <3>1. attempts' = Append(attempts, entry("bearer")) BY <2>3 DEF BearerFails, Tried, entry
    <3>2. QED BY <2>1, <2>3, <3>1
  <2>4. CASE LoginThrottled(who)
    <3>1. attempts' = Append(attempts, entry("throttled"))
      BY <2>4 DEF LoginThrottled, Tried, entry
    <3>2. QED BY <2>1, <2>4, <3>1
  <2>5. CASE Succeeds(who)
    <3>1. attempts' = Append(attempts, entry("right")) BY <2>5 DEF Succeeds, Tried, entry
    <3>2. QED BY <2>1, <2>5, <3>1
  <2>6. QED BY <2>2, <2>3, <2>4, <2>5
<1>2. now' = now BY DEF LoginFails, BearerFails, LoginThrottled, Succeeds
<1>3. attempts' \in Seq(Attempt) /\ Longer(attempts, attempts', g) BY <1>0, <1>1, SinceGrows
<1>4. PICK f : f = Fresh(who) OBVIOUS
<1>5. Stamped(f, now) /\ f \in Seq(Nat) BY <1>4, FreshFacts DEF Stamped
<1>6. g.how \in {"login", "bearer", "right", "throttled"} BY DEF Attempt
<1>7. ASSUME NEW item \in Tracked, item.who = who, Stamped(item.stamps, now),
             failures' = Capped(AtEnd(failures, item), ClientCap),
             item.stamps = IF g.how = "throttled" THEN f ELSE Newest(Append(f, now))
      PROVE  /\ LoginsTypes' /\ OthersKept(who)
             /\ \A k \in DOMAIN failures' : Stamped(failures'[k].stamps, now)
             /\ \E n \in DOMAIN failures' :
                  /\ failures'[n].who = who /\ Behind(failures', n) = {}
                  /\ failures'[n].stamps = IF g.how = "throttled" THEN Fresh(who)
                                           ELSE Newest(Append(Fresh(who), now))
  <2>1. failures' \in Seq(Tracked) /\ Heard(failures, failures', who, item, ClientCap)
    BY <1>0, <1>7, AtEndFacts
  <2>2. LoginsTypes' BY <1>3, <2>1 DEF LoginsTypes, Heard
  <2>3. OthersKept(who) BY <2>1 DEF OthersKept, Heard
  <2>4. \A k \in DOMAIN failures' : Stamped(failures'[k].stamps, now)
    BY <1>7, <2>1 DEF Heard, LoginsInv
  <2>5. QED BY <1>4, <1>7, <2>1, <2>2, <2>3, <2>4 DEF Heard
<1>8. /\ LoginsTypes' /\ OthersKept(who)
      /\ \A k \in DOMAIN failures' : Stamped(failures'[k].stamps, now)
      /\ g.how # "right" =>
           \E n \in DOMAIN failures' :
             /\ failures'[n].who = who /\ Behind(failures', n) = {}
             /\ failures'[n].stamps = IF g.how = "throttled" THEN Fresh(who)
                                      ELSE Newest(Append(Fresh(who), now))
  <2>1. CASE g.how \in {"login", "bearer"}
    <3> DEFINE item == [who |-> who, stamps |-> Newest(Append(Fresh(who), now))]
    <3>1. failures' = Capped(AtEnd(failures, item), ClientCap)
      BY <1>1, <2>1 DEF LoginFails, BearerFails, Recorded
    <3>2. Stamped(Newest(Append(f, now)), now) BY <1>5, NewestCounts
    <3>3. /\ item \in Tracked /\ item.who = who /\ item.stamps = Newest(Append(f, now))
          /\ Stamped(item.stamps, now)
      BY <1>4, <3>2 DEF Tracked, Stamped
    <3> HIDE DEF item
    <3>4. QED BY <1>7, <2>1, <3>1, <3>3
  <2>2. CASE g.how = "throttled"
    <3> DEFINE item == [who |-> who, stamps |-> Fresh(who)]
    <3>1. Len(f) >= MaxFailures /\ failures' = Looked(who)
      BY <1>1, <1>4, <2>2 DEF LoginThrottled, Throttled
    <3>2. f # <<>> BY <1>0, <3>1, EmptySeq
    <3>3. failures' = AtEnd(failures, item) BY <1>4, <3>1, <3>2 DEF Looked
    <3>4. item \in Tracked /\ item.who = who /\ item.stamps = f BY <1>4, <1>5 DEF Tracked
    <3> HIDE DEF item
    <3>5. Of(failures, who) # {}
      <4> SUFFICES ASSUME Of(failures, who) = {} PROVE FALSE OBVIOUS
      <4>1. Stamps(who) = <<>> /\ Len(Stamps(who)) = 0 BY EmptySeq DEF Stamps
      <4>2. Old(Stamps(who)) = {} BY <4>1, EmptySeq DEF Old
      <4>3. Fresh(who) = SubSeq(<<>>, 0 + 1, 0) BY <4>1, <4>2, FS_EmptySet DEF Fresh
      <4>4. SubSeq(<<>>, 0 + 1, 0) = <<>> BY SubSeqEmpty
      <4>5. QED BY <1>4, <3>2, <4>3, <4>4
    <3>6. Len(AtEnd(failures, item)) <= ClientCap
      <4>1. PICK t : t = Without(failures, who) OBVIOUS
      <4>2. t \in Seq(Tracked) /\ Len(t) = Len(failures) - 1
        BY <1>0, <3>5, <4>1, WithoutFacts
      <4>3. Len(Append(t, item)) = Len(t) + 1 BY <3>4, <4>2, AppendProperties
      <4>4. AtEnd(failures, item) = Append(t, item) BY <3>4, <4>1 DEF AtEnd
      <4>5. Len(failures) \in Nat BY <1>0, LenProperties
      <4>6. QED BY <1>0, <4>2, <4>3, <4>4, <4>5
    <3>7. failures' = Capped(AtEnd(failures, item), ClientCap)
      <4>1. PICK e : e = AtEnd(failures, item) OBVIOUS
      <4>2. e \in Seq(Tracked)
        <5>1. Without(failures, who) \in Seq(Tracked) BY <1>0, WithoutFacts
        <5>2. QED BY <3>4, <4>1, <5>1, AppendProperties DEF AtEnd
      <4>3. Len(e) \in Nat BY <4>2, LenProperties
      <4>4. ~(Len(e) > ClientCap) BY <1>0, <3>6, <4>1, <4>3
      <4>5. QED BY <3>3, <4>1, <4>4 DEF Capped
    <3>8. QED BY <1>5, <1>7, <2>2, <3>4, <3>7
  <2>3. CASE g.how = "right"
    <3>1. failures' = Without(failures, who) BY <1>1, <2>3 DEF Succeeds
    <3>2. /\ failures' \in Seq(Tracked) /\ Thinned(failures, failures', who)
          /\ Len(failures') = IF Of(failures, who) = {} THEN Len(failures) ELSE Len(failures) - 1
      BY <1>0, <3>1, WithoutFacts
    <3>3. Len(failures) \in Nat BY <1>0, LenProperties
    <3>4. Len(failures') <= ClientCap BY <1>0, <3>2, <3>3
    <3>5. LoginsTypes' BY <1>3, <3>2, <3>4 DEF LoginsTypes, Thinned
    <3>6. OthersKept(who) BY <3>2 DEF OthersKept, Thinned
    <3>7. \A k \in DOMAIN failures' : Stamped(failures'[k].stamps, now)
      BY <3>2 DEF Thinned, LoginsInv
    <3>8. QED BY <2>3, <3>5, <3>6, <3>7
  <2>4. QED BY <1>6, <2>1, <2>2, <2>3
<1>9. ASSUME NEW i \in DOMAIN attempts' PROVE attempts'[i].at <= now' /\ Accounted(i)'
  <2>1. attempts'[i].at <= now
    <3>1. CASE i \in DOMAIN attempts BY <1>3, <3>1 DEF Longer, LoginsInv
    <3>2. CASE i = Len(attempts') BY <1>1, <1>3, <3>2 DEF Longer
    <3>3. QED BY <1>3, <3>1, <3>2 DEF Longer
  <2>2. CASE attempts'[i].who = who
    <3>1. g.who = who /\ g.at = now /\ attempts'[i].who = g.who BY <1>1, <2>2
    <3>2. g.how # "right" =>
            \E n \in DOMAIN failures' :
              /\ failures'[n].who = g.who /\ Behind(failures', n) = {}
              /\ failures'[n].stamps = IF g.how = "throttled" THEN Fresh(g.who)
                                       ELSE Newest(Append(Fresh(g.who), now))
      BY <1>8, <3>1
    <3>3. Longer(attempts, attempts', g) BY <1>3
    <3>4. QED BY <1>2, <2>1, <3>1, <3>2, <3>3, OwnAccounted
  <2>3. CASE attempts'[i].who # who
    <3>1. i \in DOMAIN attempts /\ attempts[i].who # g.who BY <1>1, <1>3, <2>3 DEF Longer
    <3>2. OthersKept(g.who) BY <1>1, <1>8
    <3>3. Longer(attempts, attempts', g) BY <1>3
    <3>4. QED BY <1>2, <2>1, <3>1, <3>2, <3>3, OthersAccounted
  <2>4. QED BY <1>2, <2>1, <2>2, <2>3
<1>10. LoginsThrottled'
  <2>1. g.how = "login" => ~Throttled(g.who) BY <1>1 DEF LoginFails
  <2>2. QED BY <1>1, <1>3, <2>1, LetThrough
<1>11. QED BY <1>2, <1>8, <1>9, <1>10 DEF LoginsInv

-----------------------------------------------------------------------------
(* Both doors, beside everything else. *)

DoorsInv == now \in Nat /\ StrangersInv /\ LoginsInv

LEMMA InitDoors == Init => DoorsInv
<1> SUFFICES ASSUME Init PROVE DoorsInv OBVIOUS
<1>1. now = 0 /\ answered = <<>> /\ failures = <<>> /\ greeted = <<>> /\ attempts = <<>>
  BY DEF Init, LimitersInit
<1>2. \A S : <<>> \in Seq(S) BY EmptySeq
<1>3. Len(<<>>) = 0 /\ DOMAIN <<>> = {} BY EmptySeq
<1>4. StrangerCap \in Nat /\ ClientCap \in Nat BY LimitersAssumption
<1>5. StrangersInv BY <1>1, <1>2, <1>3, <1>4 DEF StrangersInv, Keyed, RepliesSpaced
<1>6. LoginsInv BY <1>1, <1>2, <1>3, <1>4 DEF LoginsInv, LoginsTypes, Keyed, LoginsThrottled
<1>7. QED BY <1>1, <1>5, <1>6 DEF DoorsInv

\* A caller at one door is not seen at the other.
LEMMA StrangersKept ==
  ASSUME StrangersInv, UNCHANGED <<now, answered, greeted>> PROVE StrangersInv'
BY DEF StrangersInv, Remembered, RepliesSpaced

LEMMA LoginsKept ==
  ASSUME LoginsInv, UNCHANGED <<now, failures, attempts>> PROVE LoginsInv'
<1>1. LoginsTypes' /\ \A k \in DOMAIN failures' : Stamped(failures'[k].stamps, now')
  BY DEF LoginsInv, LoginsTypes
<1>2. \A i \in DOMAIN attempts' : attempts'[i].at <= now' /\ Accounted(i)'
  BY DEF LoginsInv, Accounted
<1>3. LoginsThrottled' BY DEF LoginsInv, LoginsThrottled, FailuresBefore
<1>4. QED BY <1>1, <1>2, <1>3 DEF LoginsInv

\* The clock makes what is past no later, and what is old no younger.
LEMMA TickStep == ASSUME DoorsInv, TimePasses PROVE DoorsInv'
<1>1. /\ now \in Nat /\ now' \in Nat /\ now' = now + 1
      /\ UNCHANGED <<answered, failures, greeted, attempts>>
  BY DEF DoorsInv, TimePasses, Tick
<1>2. \A n \in Nat : n <= now => n <= now' BY <1>1
<1>3. StrangersInv'
  <2>1. \A i \in DOMAIN greeted : greeted[i].at <= now'
    <3>1. \A i \in DOMAIN greeted : greeted[i].at \in Nat BY ReplyAt DEF DoorsInv, StrangersInv
    <3>2. QED BY <1>2, <3>1 DEF DoorsInv, StrangersInv
  <2>2. QED BY <1>1, <2>1 DEF DoorsInv, StrangersInv, Remembered, RepliesSpaced
<1>4. LoginsInv'
  <2>1. attempts \in Seq(Attempt) /\ LoginsTypes' /\ LoginsThrottled'
    BY <1>1 DEF DoorsInv, LoginsInv, LoginsTypes, LoginsThrottled, FailuresBefore
  <2>2. ASSUME NEW k \in DOMAIN failures PROVE Stamped(failures[k].stamps, now')
    <3>1. PICK s : s = failures[k].stamps OBVIOUS
    <3>2. Stamped(s, now) BY <3>1 DEF DoorsInv, LoginsInv
    <3>3. \A i \in DOMAIN s : s[i] \in Nat
      BY <3>2, LenProperties, ElementOfSeq DEF Stamped
    <3>4. Stamped(s, now') BY <1>2, <3>2, <3>3 DEF Stamped
    <3>5. QED BY <3>1, <3>4
  <2>3. ASSUME NEW i \in DOMAIN attempts PROVE attempts[i].at <= now' /\ Accounted(i)'
    <3>1. attempts[i].at \in Nat BY <2>1, AttemptFacts
    <3>2. attempts[i].at <= now /\ Accounted(i) BY DEF DoorsInv, LoginsInv
    <3>3. attempts[i].at + Window <= now => attempts[i].at + Window <= now'
      <4>1. Window \in Nat BY LimitersAssumption
      <4>2. attempts[i].at + Window \in Nat BY <3>1, <4>1
      <4>3. QED BY <1>2, <4>2
    <3>4. Accounted(i)' BY <1>1, <3>2, <3>3 DEF Accounted
    <3>5. QED BY <1>2, <3>1, <3>2, <3>4
  <2>4. QED BY <1>1, <2>1, <2>2, <2>3 DEF LoginsInv
<1>5. QED BY <1>1, <1>3, <1>4 DEF DoorsInv

\* A handler of a button does not touch the doors, save the clock's.
LEMMA DoorsKept ==
  ASSUME DoorsInv, UNCHANGED <<now, answered, failures, greeted, attempts>> PROVE DoorsInv'
BY StrangersKept, LoginsKept DEF DoorsInv

LEMMA DoorsStep == DoorsInv /\ [Next]_vars => DoorsInv'
<1> SUFFICES ASSUME DoorsInv, [Next]_vars PROVE DoorsInv' OBVIOUS
<1>1. CASE \E u \in User : Home(u) \/ \E t \in shown : Tap(u, t)
  BY <1>1, DoorsKept DEF Home, Tap
<1>2. CASE SendDigest \/ \E r \in Request : WebAction(r)
  BY <1>2, DoorsKept DEF SendDigest, WebAction
<1>3. CASE \E s \in Slot : SelectTick(s) \/ WriteTick(s) \/ ToolRaises(s) \/ ToolTimesOut(s)
  BY <1>3, DoorsKept DEF SelectTick, WriteTick, ToolRaises, ToolTimesOut, limiterVars
<1>4. CASE \E s \in Slot : LogActivity(s) \/ LogFails(s) \/ Answer(s) \/ CancelAction(s)
  BY <1>4, DoorsKept DEF LogActivity, LogFails, Answer, CancelAction, limiterVars
<1>5. CASE \E who \in Stranger : GreetStranger(who)
  <2>1. PICK who \in Stranger : GreetStranger(who) BY <1>5
  <2>2. UNCHANGED <<now, failures, attempts>> BY <2>1 DEF GreetStranger
  <2>3. StrangersInv' BY <2>1, GreetStep DEF DoorsInv
  <2>4. LoginsInv' BY <2>2, LoginsKept DEF DoorsInv
  <2>5. QED BY <2>2, <2>3, <2>4 DEF DoorsInv
<1>6. CASE \E who \in Client :
             LoginFails(who) \/ LoginThrottled(who) \/ BearerFails(who) \/ Succeeds(who)
  <2>1. PICK who \in Client :
          LoginFails(who) \/ LoginThrottled(who) \/ BearerFails(who) \/ Succeeds(who)
    BY <1>6
  <2>2. UNCHANGED <<now, answered, greeted>>
    BY <2>1 DEF LoginFails, LoginThrottled, BearerFails, Succeeds
  <2>3. LoginsInv' BY <2>1, LoginStep DEF DoorsInv
  <2>4. StrangersInv' BY <2>2, StrangersKept DEF DoorsInv
  <2>5. QED BY <2>2, <2>3, <2>4 DEF DoorsInv
<1>7. CASE TimePasses BY <1>7, TickStep
<1>8. CASE UNCHANGED vars BY <1>8, DoorsKept DEF vars, limiterVars
<1>9. QED BY <1>1, <1>2, <1>3, <1>4, <1>5, <1>6, <1>7, <1>8 DEF Next, LimitersNext

\* A stranger hears no second reply within the cooldown, and a login past the
\* limit of failures is refused, unless as many others as a door remembers were
\* heard from in between: the doors do not forget at their limits.
THEOREM DoorsHold == Spec => []LimitsHold
<1>1. Spec => []DoorsInv BY InitDoors, DoorsStep, PTL DEF Spec
<1>2. DoorsInv => LimitsHold BY DEF DoorsInv, StrangersInv, LoginsInv, LimitsHold
<1>3. QED BY <1>1, <1>2, PTL

===============================================================================
