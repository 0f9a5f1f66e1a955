-------------------------- MODULE ChatRequests_proofs --------------------------
(***************************************************************************)
(* Theorems about ChatRequests for every set of messages, channels and     *)
(* jobs, every limit and every cost of a call.                             *)
(***************************************************************************)
EXTENDS ChatRequests, FiniteSetTheorems, SequenceTheorems, TLAPS

USE ChatAssumption

Using(of, e) == {r \in Request : of[r] = e}
InLine(r) == at[r] \in {"waiting", "turn"}

\* Each channel has one row, and a lock place beside it.
Rows ==
  /\ Len(locks) = Len(conversations)
  /\ \A i, j \in Ids : conversations[i] = conversations[j] => i = j

\* A request goes on with the row of its own channel.
Placed ==
  \A r \in Request : at[r] \in {"located", "waiting", "turn"} =>
    conv[r] \in Ids /\ conversations[conv[r]] = ChannelOf[r]

\* A request counts in the entry its conversation's place shows, and in no
\* other, exactly while it waits for the lock or holds it.
Counted ==
  \A r \in Request :
    /\ entry[r] # 0 <=> InLine(r)
    /\ InLine(r) => entry[r] \in DOMAIN entries /\ locks[conv[r]] = entry[r]

\* The holder of an entry's lock is the one turn that counts in it.
Held ==
  /\ \A r \in Request : at[r] = "turn" => entries[entry[r]].holder = r
  /\ \A e \in DOMAIN entries :
       LET h == entries[e].holder IN h # Nobody => at[h] = "turn" /\ entry[h] = e

CountsRight == \A e \in DOMAIN entries : entries[e].users = Cardinality(Using(entry, e))

\* An entry in the table has a user, and one place.
Table ==
  /\ \A id \in Ids : locks[id] # 0 => \E r \in Request : InLine(r) /\ entry[r] = locks[id]
  /\ \A i, j \in Ids : locks[i] = locks[j] /\ locks[i] # 0 => i = j

TurnsCall == \A r \in Request : r \in calling => at[r] = "turn"

LockInv == TypeOK /\ Rows /\ Placed /\ Counted /\ Held /\ CountsRight /\ Table /\ TurnsCall

USE DEF Caller

LEMMA Users == ASSUME TypeOK, NEW e PROVE IsFiniteSet(Using(entry, e)) /\ Cardinality(Using(entry, e)) \in Nat
<1>1. Using(entry, e) \in SUBSET Request BY DEF Using
<1>2. QED BY <1>1, FS_Subset, FS_CardinalityType

LEMMA Holders ==
  ASSUME TypeOK, NEW e \in DOMAIN entries
  PROVE  entries[e].users \in Nat /\ entries[e].holder \in Request \cup {Nobody}
<1>1. entries \in Seq([users : Nat, holder : Request \cup {Nobody}]) BY DEF TypeOK
<1>2. e \in 1..Len(entries) BY <1>1, LenProperties
<1>3. entries[e] \in [users : Nat, holder : Request \cup {Nobody}] BY <1>1, <1>2, ElementOfSeq
<1>4. QED BY <1>3

LEMMA InitLock == Init => LockInv
<1> SUFFICES ASSUME Init PROVE LockInv OBVIOUS
<1>1. TypeOK BY DEF Init, TypeOK
<1>2. Ids = {} /\ DOMAIN entries = {} BY DEF Init, Ids
<1>3. QED BY <1>1, <1>2 DEF Init, LockInv, Rows, Placed, Counted, Held, CountsRight, Table, TurnsCall, InLine

\* The next request to reach a row finds it or makes it.
LEMMA Locating ==
  ASSUME LockInv, NEW r \in Request,
         FindConversation(r) \/ FindNothing(r) \/ LoseInsert(r)
  PROVE  LockInv'
<1> USE DEF LockInv
<1>1. /\ at' \in [Request -> {"sent", "inserting", "located", "waiting", "turn", "done"}]
      /\ conv' \in [Request -> Nat]
      /\ \A x \in Request \ {r} : at'[x] = at[x] /\ conv'[x] = conv[x]
      /\ at[r] \in {"sent", "inserting"}
      /\ \/ at'[r] = "inserting"
         \/ at'[r] = "located" /\ RowOf(r, conv'[r])
      /\ UNCHANGED <<conversations, locks, entries, entry, calling, calls, spent, events>>
  <2>1. CASE FindConversation(r) BY <2>1 DEF FindConversation, Step, TypeOK, RowOf, Ids
  <2>2. CASE FindNothing(r) BY <2>2 DEF FindNothing, Step, TypeOK
  <2>3. CASE LoseInsert(r) BY <2>3 DEF LoseInsert, Step, TypeOK, RowOf, Ids
  <2>4. QED BY <2>1, <2>2, <2>3
<1>2. TypeOK' BY <1>1 DEF TypeOK
<1>3. Rows' /\ CountsRight' BY <1>1 DEF Rows, CountsRight, Ids, Using
<1>4. Placed' BY <1>1 DEF Placed, Ids, RowOf
<1>5. Counted'
  <2>1. \A x \in Request : InLine(x) <=> InLine(x)' BY <1>1 DEF InLine
  <2>2. \A x \in Request : InLine(x) => conv'[x] = conv[x] BY <1>1 DEF InLine
  <2>3. QED BY <1>1, <2>1, <2>2 DEF Counted
<1>6. Held' BY <1>1, Holders DEF Held
<1>7. Table' BY <1>1 DEF Table, InLine, Ids
<1>8. TurnsCall' BY <1>1 DEF TurnsCall
<1>9. QED BY <1>2, <1>3, <1>4, <1>5, <1>6, <1>7, <1>8

LEMMA Inserting ==
  ASSUME LockInv, NEW r \in Request, InsertConversation(r)
  PROVE  LockInv'
<1> USE DEF LockInv
<1> DEFINE n == Len(conversations)
<1>1. /\ at' \in [Request -> {"sent", "inserting", "located", "waiting", "turn", "done"}]
      /\ conv' \in [Request -> Nat]
      /\ \A x \in Request \ {r} : at'[x] = at[x] /\ conv'[x] = conv[x]
      /\ at[r] = "inserting" /\ at'[r] = "located" /\ conv'[r] = n + 1
      /\ UNCHANGED <<entries, entry, calling, calls, spent, events>>
  BY DEF InsertConversation, Step, TypeOK
<1>2. /\ conversations' \in Seq(Channel) /\ locks' \in Seq(Nat)
      /\ Ids = 1..n /\ Ids' = 1..(n + 1) /\ n \in Nat
      /\ Len(conversations') = n + 1 /\ Len(locks') = n + 1 /\ Len(locks) = n
      /\ \A i \in Ids : conversations'[i] = conversations[i] /\ locks'[i] = locks[i]
      /\ conversations'[n + 1] = ChannelOf[r] /\ locks'[n + 1] = 0
  BY DEF InsertConversation, TypeOK, Rows, Ids
<1>3. \A i \in Ids : conversations[i] # ChannelOf[r]
  BY DEF InsertConversation, RowOf
<1>4. TypeOK' BY <1>1, <1>2 DEF TypeOK
<1>5. Rows' BY <1>2, <1>3 DEF Rows
<1>6. Placed' BY <1>1, <1>2 DEF Placed
<1>7. Counted'
  <2>1. ASSUME NEW x \in Request
        PROVE  (InLine(x)' <=> InLine(x)) /\ (InLine(x) => conv'[x] = conv[x])
    BY <1>1 DEF InLine
  <2>2. ASSUME NEW x \in Request, InLine(x) PROVE locks'[conv[x]] = locks[conv[x]]
    BY <1>2, <2>2 DEF Placed, InLine
  <2>3. QED BY <1>1, <2>1, <2>2 DEF Counted
<1>8. Held' BY <1>1, Holders DEF Held
<1>9. CountsRight' BY <1>1 DEF CountsRight, Using
<1>10. Table'
  <2>1. \A x \in Request : InLine(x) => InLine(x)' /\ entry'[x] = entry[x] BY <1>1 DEF InLine
  <2>2. \A id \in Ids' : locks'[id] # 0 => id \in Ids /\ locks'[id] = locks[id] BY <1>2
  <2>3. QED BY <2>1, <2>2 DEF Table
<1>11. TurnsCall' BY <1>1 DEF TurnsCall
<1>12. QED BY <1>4, <1>5, <1>6, <1>7, <1>8, <1>9, <1>10, <1>11

Places == {"sent", "inserting", "located", "waiting", "turn", "done"}
Entry == [users : Nat, holder : Request \cup {Nobody}]

\* A new entry has the one user that made it.
LEMMA Registering ==
  ASSUME LockInv, NEW r \in Request, RegisterNew(r)
  PROVE  LockInv'
<1> USE DEF LockInv
<1> DEFINE n == Len(entries)
           c == conv[r]
<1>1. /\ at' \in [Request -> Places] /\ entry' \in [Request -> Nat]
      /\ \A x \in Request \ {r} : at'[x] = at[x] /\ entry'[x] = entry[x]
      /\ at[r] = "located" /\ at'[r] = "waiting" /\ n \in Nat /\ entry'[r] = n + 1
      /\ UNCHANGED <<conversations, conv, calling, calls, spent, events>>
  BY DEF RegisterNew, Step, TypeOK, Places
<1>2. /\ entries' \in Seq(Entry) /\ DOMAIN entries = 1..n /\ DOMAIN entries' = 1..(n + 1)
      /\ \A e \in DOMAIN entries : entries'[e] = entries[e]
      /\ entries'[n + 1] = [users |-> 1, holder |-> Nobody]
  <2>1. entries \in Seq(Entry) /\ [users |-> 1, holder |-> Nobody] \in Entry
    BY DEF TypeOK, Entry
  <2>2. QED BY <2>1, AppendProperties, LenProperties DEF RegisterNew
<1>3. /\ c \in Ids /\ locks[c] = 0 /\ locks' \in Seq(Nat) /\ Len(locks') = Len(locks)
      /\ \A i \in Ids : locks'[i] = IF i = c THEN n + 1 ELSE locks[i]
      /\ Ids = 1..Len(locks)
  <2>1. c \in 1..Len(locks) /\ Ids = 1..Len(locks) /\ locks \in Seq(Nat)
    BY <1>1, LenProperties DEF Placed, Rows, TypeOK, Ids
  <2>2. QED BY <1>1, <2>1, ExceptSeq DEF RegisterNew
<1>4. \A x \in Request : entry[x] # n + 1 /\ (InLine(x) => conv[x] # c)
  <2>1. ASSUME NEW x \in Request PROVE entry[x] \in 1..n \/ entry[x] = 0
    BY <1>2 DEF Counted
  <2>2. ASSUME NEW x \in Request, InLine(x), conv[x] = c PROVE FALSE
    <3>1. entry[x] # 0 /\ locks[c] = entry[x] BY <2>2 DEF Counted
    <3>2. QED BY <1>3, <3>1
  <2>3. QED BY <1>1, <2>1, <2>2
<1>5. TypeOK' BY <1>1, <1>2, <1>3 DEF TypeOK, Places, Entry
<1>6. Rows' /\ Placed' BY <1>1, <1>3 DEF Rows, Placed, Ids
<1>7. Counted'
  <2>1. ASSUME NEW x \in Request \ {r}, InLine(x) PROVE locks'[conv[x]] = locks[conv[x]]
    BY <2>1, <1>3, <1>4 DEF Placed, InLine
  <2>2. ASSUME NEW x \in Request, x # r
        PROVE  /\ entry'[x] # 0 <=> InLine(x)'
               /\ InLine(x)' => entry'[x] \in DOMAIN entries' /\ locks'[conv'[x]] = entry'[x]
    <3>1. entry'[x] = entry[x] /\ conv'[x] = conv[x] /\ (InLine(x)' <=> InLine(x))
      BY <1>1, <2>2 DEF InLine
    <3>2. /\ entry[x] # 0 <=> InLine(x)
          /\ InLine(x) => entry[x] \in DOMAIN entries /\ locks[conv[x]] = entry[x]
      BY DEF Counted
    <3>3. \A e \in DOMAIN entries : e \in DOMAIN entries' BY <1>1, <1>2
    <3>4. InLine(x) => locks'[conv[x]] = locks[conv[x]] BY <2>1, <2>2
    <3>5. QED BY <3>1, <3>2, <3>3, <3>4
  <2>3. /\ entry'[r] # 0 /\ InLine(r)'
        /\ entry'[r] \in DOMAIN entries' /\ locks'[conv'[r]] = entry'[r]
    BY <1>1, <1>2, <1>3 DEF InLine
  <2>4. QED BY <2>2, <2>3 DEF Counted
<1>8. Held'
  <2>1. \A x \in Request : at'[x] = "turn" => entries'[entry'[x]].holder = x
    BY <1>1, <1>2 DEF Held, Counted, InLine
  <2>2. ASSUME NEW e \in DOMAIN entries', entries'[e].holder # Nobody
        PROVE  at'[entries'[e].holder] = "turn" /\ entry'[entries'[e].holder] = e
    <3>1. e # n + 1 BY <1>2, <2>2
    <3>2. e \in DOMAIN entries /\ entries'[e] = entries[e] BY <1>1, <1>2, <3>1
    <3>3. entries[e].holder \in Request BY <2>2, <3>2, Holders
    <3>4. at[entries[e].holder] = "turn" /\ entry[entries[e].holder] = e
      BY <2>2, <3>2 DEF Held
    <3>5. entries[e].holder # r BY <1>1, <3>4
    <3>6. QED BY <1>1, <3>2, <3>3, <3>4, <3>5
  <2>3. QED BY <2>1, <2>2 DEF Held
<1>9. CountsRight'
  <2>1. ASSUME NEW e \in DOMAIN entries PROVE Using(entry', e) = Using(entry, e)
    BY <1>1, <1>2 DEF Using, Counted, InLine
  <2>2. Using(entry', n + 1) = {r} BY <1>1, <1>4 DEF Using
  <2>3. entries'[n + 1].users = Cardinality(Using(entry', n + 1))
    <3>1. Cardinality({r}) = 1 BY FS_Singleton
    <3>2. Cardinality(Using(entry', n + 1)) = 1 BY <2>2, <3>1
    <3>3. QED BY <1>2, <3>2
  <2>4. \A e \in DOMAIN entries : entries'[e].users = Cardinality(Using(entry', e))
    BY <1>2, <2>1 DEF CountsRight
  <2>5. QED BY <1>1, <1>2, <2>3, <2>4 DEF CountsRight
<1>10. Table'
  <2>1. \A x \in Request : InLine(x) => InLine(x)' /\ entry'[x] = entry[x] BY <1>1 DEF InLine
  <2>2. ASSUME NEW id \in Ids PROVE locks[id] # n + 1
    <3>1. locks[id] # 0 => \E x \in Request : entry[x] = locks[id] BY DEF Table
    <3>2. QED BY <1>1, <1>4, <3>1
  <2>3. InLine(r)' /\ entry'[r] = n + 1 BY <1>1 DEF InLine
  <2>4. ASSUME NEW i \in Ids, NEW j \in Ids, locks'[i] = locks'[j], locks'[i] # 0 PROVE i = j
    <3>1. locks[i] = locks[j] /\ locks[i] # 0 => i = j BY DEF Table
    <3>2. i = c <=> locks'[i] = n + 1 BY <1>3, <2>2
    <3>3. j = c <=> locks'[j] = n + 1 BY <1>3, <2>2
    <3>4. QED BY <1>3, <2>4, <3>1, <3>2, <3>3
  <2>5. \A id \in Ids : locks'[id] # 0 => \E x \in Request : InLine(x)' /\ entry'[x] = locks'[id]
    BY <1>3, <2>1, <2>3 DEF Table
  <2>6. QED BY <1>1, <2>4, <2>5 DEF Table, Ids
<1>11. TurnsCall' BY <1>1 DEF TurnsCall
<1>12. QED BY <1>5, <1>6, <1>7, <1>8, <1>9, <1>10, <1>11

\* A known entry has one user more.
LEMMA Joining ==
  ASSUME LockInv, NEW r \in Request, RegisterKnown(r)
  PROVE  LockInv'
<1> USE DEF LockInv
<1> DEFINE k == locks[conv[r]]
<1>1. /\ at' \in [Request -> Places] /\ entry' \in [Request -> Nat]
      /\ \A x \in Request \ {r} : at'[x] = at[x] /\ entry'[x] = entry[x]
      /\ at[r] = "located" /\ at'[r] = "waiting" /\ entry'[r] = k
      /\ UNCHANGED <<conversations, conv, locks, calling, calls, spent, events>>
  <2>1. conv[r] \in 1..Len(locks) /\ locks \in Seq(Nat)
    BY LenProperties DEF RegisterKnown, Step, Placed, Rows, TypeOK, Ids
  <2>2. k \in Nat BY <2>1, ElementOfSeq
  <2>3. QED BY <2>2 DEF RegisterKnown, Step, TypeOK, Places
<1>2. k # 0 /\ k \in DOMAIN entries /\ entry[r] = 0
  BY <1>1 DEF RegisterKnown, Placed, Table, Counted, InLine
<1>3. /\ entries' \in Seq(Entry) /\ DOMAIN entries' = DOMAIN entries
      /\ \A e \in DOMAIN entries \ {k} : entries'[e] = entries[e]
      /\ entries'[k] = [users |-> entries[k].users + 1, holder |-> entries[k].holder]
  <2>1. entries \in Seq(Entry) BY DEF TypeOK, Entry
  <2>2. k \in 1..Len(entries) BY <1>2, <2>1, LenProperties
  <2>3. entries[k] \in Entry BY <2>1, <2>2, ElementOfSeq
  <2>7. [entries[k] EXCEPT !.users = @ + 1]
          = [users |-> entries[k].users + 1, holder |-> entries[k].holder]
    BY <2>3 DEF Entry
  <2>4. entries' = [entries EXCEPT ![k] = [users |-> entries[k].users + 1, holder |-> entries[k].holder]]
    BY <2>7 DEF RegisterKnown
  <2>5. [users |-> entries[k].users + 1, holder |-> entries[k].holder] \in Entry BY <2>3 DEF Entry
  <2>6. QED BY <2>1, <2>2, <2>4, <2>5, ExceptSeq, LenProperties
<1>4. TypeOK' BY <1>1, <1>3 DEF TypeOK, Places, Entry
<1>5. Rows' /\ Placed' BY <1>1 DEF Rows, Placed, Ids
<1>6. Counted' BY <1>1, <1>2, <1>3 DEF Counted, InLine
<1>7. \A e \in DOMAIN entries : entries'[e].holder = entries[e].holder BY <1>3
<1>8. Held'
  <2>1. \A x \in Request : at'[x] = "turn" => entries'[entry'[x]].holder = x
    BY <1>1, <1>7 DEF Held, Counted, InLine
  <2>2. ASSUME NEW e \in DOMAIN entries', entries'[e].holder # Nobody
        PROVE  at'[entries'[e].holder] = "turn" /\ entry'[entries'[e].holder] = e
    BY <1>1, <1>3, <1>7, <2>2, Holders DEF Held
  <2>3. QED BY <2>1, <2>2 DEF Held
<1>9. CountsRight'
  <2>1. ASSUME NEW e \in DOMAIN entries \ {k} PROVE Using(entry', e) = Using(entry, e)
    <3>1. e # 0 BY DEF TypeOK
    <3>2. QED BY <1>1, <1>2, <3>1 DEF Using
  <2>2. Using(entry', k) = Using(entry, k) \cup {r} /\ r \notin Using(entry, k)
    BY <1>1, <1>2 DEF Using
  <2>3. entries'[k].users = Cardinality(Using(entry', k))
    <3>1. Cardinality(Using(entry, k) \cup {r}) = Cardinality(Using(entry, k)) + 1
      BY <2>2, Users, FS_AddElement
    <3>2. Cardinality(Using(entry', k)) = Cardinality(Using(entry, k)) + 1 BY <2>2, <3>1
    <3>3. entries[k].users = Cardinality(Using(entry, k)) BY <1>2 DEF CountsRight
    <3>4. QED BY <1>3, <3>2, <3>3
  <2>4. \A e \in DOMAIN entries \ {k} : entries'[e].users = Cardinality(Using(entry', e))
    BY <1>3, <2>1 DEF CountsRight
  <2>5. QED BY <1>3, <2>3, <2>4 DEF CountsRight
<1>10. Table'
  <2>1. \A x \in Request : InLine(x) => InLine(x)' /\ entry'[x] = entry[x] BY <1>1 DEF InLine
  <2>2. QED BY <1>1, <2>1 DEF Table, Ids
<1>11. TurnsCall' BY <1>1 DEF TurnsCall
<1>12. QED BY <1>4, <1>5, <1>6, <1>8, <1>9, <1>10, <1>11

\* The lock goes to a request that waits in its line.
LEMMA Acquiring ==
  ASSUME LockInv, NEW r \in Request, AcquireLock(r)
  PROVE  LockInv'
<1> USE DEF LockInv
<1> DEFINE k == entry[r]
<1>1. /\ at' \in [Request -> Places]
      /\ \A x \in Request \ {r} : at'[x] = at[x]
      /\ at[r] = "waiting" /\ at'[r] = "turn"
      /\ UNCHANGED <<conversations, conv, locks, entry, calling, calls, spent, events>>
  BY DEF AcquireLock, Step, TypeOK, Places
<1>2. k \in DOMAIN entries /\ entries[k].holder = Nobody
  BY <1>1 DEF Counted, InLine, AcquireLock
<1>3. /\ entries' \in Seq(Entry) /\ DOMAIN entries' = DOMAIN entries
      /\ \A e \in DOMAIN entries \ {k} : entries'[e] = entries[e]
      /\ entries'[k] = [users |-> entries[k].users, holder |-> r]
  <2>1. entries \in Seq(Entry) BY DEF TypeOK, Entry
  <2>2. k \in 1..Len(entries) BY <1>2, <2>1, LenProperties
  <2>3. entries[k] \in Entry BY <2>1, <2>2, ElementOfSeq
  <2>4. [entries[k] EXCEPT !.holder = r] = [users |-> entries[k].users, holder |-> r]
    BY <2>3 DEF Entry
  <2>5. entries' = [entries EXCEPT ![k] = [users |-> entries[k].users, holder |-> r]]
    BY <2>4 DEF AcquireLock
  <2>6. [users |-> entries[k].users, holder |-> r] \in Entry BY <2>3 DEF Entry
  <2>7. QED BY <2>1, <2>2, <2>5, <2>6, ExceptSeq, LenProperties
<1>4. TypeOK' BY <1>1, <1>3 DEF TypeOK, Places, Entry
<1>5. Rows' /\ Placed' BY <1>1 DEF Rows, Placed, Ids
<1>6. Counted' BY <1>1, <1>3 DEF Counted, InLine
<1>7. Held'
  <2>1. ASSUME NEW x \in Request, at'[x] = "turn" PROVE entries'[entry'[x]].holder = x
    <3>1. CASE x = r BY <1>1, <1>3, <3>1
    <3>2. CASE x # r
      <4>1. entries[entry[x]].holder = x /\ entry[x] \in DOMAIN entries
        BY <1>1, <2>1, <3>2 DEF Held, Counted, InLine
      <4>2. entry[x] # k BY <1>2, <4>1
      <4>3. QED BY <1>1, <1>3, <4>1, <4>2
    <3>3. QED BY <3>1, <3>2
  <2>2. ASSUME NEW e \in DOMAIN entries', entries'[e].holder # Nobody
        PROVE  at'[entries'[e].holder] = "turn" /\ entry'[entries'[e].holder] = e
    <3>1. CASE e = k BY <1>1, <1>3, <3>1
    <3>2. CASE e # k BY <1>1, <1>3, <2>2, <3>2, Holders DEF Held
    <3>3. QED BY <3>1, <3>2
  <2>3. QED BY <2>1, <2>2 DEF Held
<1>8. CountsRight' BY <1>1, <1>2, <1>3 DEF CountsRight
<1>9. Table' BY <1>1 DEF Table, InLine, Ids
<1>10. TurnsCall' BY <1>1 DEF TurnsCall
<1>11. QED BY <1>4, <1>5, <1>6, <1>7, <1>8, <1>9, <1>10

\* Who leaves the line gives back the lock and its count, and the last one to
\* leave takes the entry out of the table.
LEMMA Leaving ==
  ASSUME LockInv, NEW r \in Request, InLine(r), Unregister(r),
         at' = [at EXCEPT ![r] = "done"], calling' = calling \ {r}, events' \in Nat,
         UNCHANGED <<conversations, conv, calls, spent>>
  PROVE  LockInv'
<1> USE DEF LockInv
<1> DEFINE k == entry[r]
           c == conv[r]
           h == IF entries[k].holder = r THEN Nobody ELSE entries[k].holder
<1>1. /\ at' \in [Request -> Places] /\ entry' \in [Request -> Nat]
      /\ \A x \in Request \ {r} : at'[x] = at[x] /\ entry'[x] = entry[x]
      /\ at'[r] = "done" /\ entry'[r] = 0
  BY DEF Unregister, TypeOK, Places
<1>2. k \in DOMAIN entries /\ k # 0 /\ locks[c] = k /\ c \in Ids
  BY DEF Counted, Placed, InLine
<1>3. /\ r \in Using(entry, k) /\ Using(entry', k) = Using(entry, k) \ {r}
      /\ Cardinality(Using(entry', k)) = Cardinality(Using(entry, k)) - 1
      /\ IsFiniteSet(Using(entry', k)) /\ Cardinality(Using(entry', k)) \in Nat
  <2>1. r \in Using(entry, k) /\ Using(entry', k) = Using(entry, k) \ {r}
    BY <1>1, <1>2 DEF Using
  <2>2. IsFiniteSet(Using(entry, k)) BY Users
  <2>3. /\ IsFiniteSet(Using(entry, k) \ {r})
        /\ Cardinality(Using(entry, k) \ {r}) = Cardinality(Using(entry, k)) - 1
    BY <2>1, <2>2, FS_RemoveElement
  <2>4. QED BY <2>1, <2>3, FS_CardinalityType
<1>4. entries[k].users = Cardinality(Using(entry', k)) + 1 /\ entries[k].users - 1 \in Nat
  <2>1. entries[k].users = Cardinality(Using(entry, k)) BY <1>2 DEF CountsRight
  <2>2. Cardinality(Using(entry, k)) \in Nat BY Users
  <2>3. QED BY <1>3, <2>1, <2>2
<1>5. /\ entries' \in Seq(Entry) /\ DOMAIN entries' = DOMAIN entries
      /\ \A e \in DOMAIN entries \ {k} : entries'[e] = entries[e]
      /\ entries'[k] = [users |-> entries[k].users - 1, holder |-> h]
  <2>1. entries \in Seq(Entry) BY DEF TypeOK, Entry
  <2>2. k \in 1..Len(entries) BY <1>2, <2>1, LenProperties
  <2>3. entries' = [entries EXCEPT ![k] = [users |-> entries[k].users - 1, holder |-> h]]
    BY DEF Unregister, Released
  <2>4. [users |-> entries[k].users - 1, holder |-> h] \in Entry
    BY <1>2, <1>4, Holders DEF Entry
  <2>5. QED BY <2>1, <2>2, <2>3, <2>4, ExceptSeq, LenProperties
<1>6. /\ locks' \in Seq(Nat) /\ Len(locks') = Len(locks) /\ Ids = 1..Len(locks)
      /\ \A i \in Ids : locks'[i] = IF i = c /\ Using(entry', k) = {} THEN 0 ELSE locks[i]
  <2>1. locks \in Seq(Nat) /\ Ids = 1..Len(locks)
    BY LenProperties DEF Rows, TypeOK, Ids
  <2>2. entries[k].users = 1 <=> Using(entry', k) = {}
    BY <1>3, <1>4, FS_EmptySet
  <2>3. locks' = IF Using(entry', k) = {} THEN [locks EXCEPT ![c] = 0] ELSE locks
    BY <1>2, <2>2 DEF Unregister, Evicted
  <2>4. QED BY <1>2, <2>1, <2>3, ExceptSeq
<1>7. TypeOK' BY <1>1, <1>5, <1>6 DEF TypeOK, Places, Entry
<1>8. Rows' /\ Placed' BY <1>1, <1>6 DEF Rows, Placed, Ids
<1>9. Counted'
  <2>1. ASSUME NEW x \in Request \ {r}, InLine(x) PROVE locks'[conv[x]] = locks[conv[x]]
    <3>1. entry[x] = locks[conv[x]] /\ conv[x] \in Ids BY <2>1 DEF Counted, Placed, InLine
    <3>2. CASE conv[x] # c BY <1>6, <3>1, <3>2
    <3>3. CASE conv[x] = c
      <4>1. x \in Using(entry', k) BY <1>1, <1>2, <3>1, <3>3 DEF Using
      <4>2. QED BY <1>6, <3>1, <4>1
    <3>4. QED BY <3>2, <3>3
  <2>2. ASSUME NEW x \in Request \ {r}
        PROVE  /\ entry'[x] # 0 <=> InLine(x)'
               /\ InLine(x)' => entry'[x] \in DOMAIN entries' /\ locks'[conv'[x]] = entry'[x]
    BY <1>1, <1>5, <2>1 DEF Counted, InLine
  <2>3. entry'[r] = 0 /\ ~InLine(r)' BY <1>1 DEF InLine
  <2>4. QED BY <2>2, <2>3 DEF Counted
<1>10. Held'
  <2>1. ASSUME NEW x \in Request, at'[x] = "turn" PROVE entries'[entry'[x]].holder = x
    <3>1. x # r /\ at[x] = "turn" /\ entry'[x] = entry[x] BY <1>1, <2>1
    <3>2. entries[entry[x]].holder = x /\ entry[x] \in DOMAIN entries
      BY <3>1 DEF Held, Counted, InLine
    <3>3. entries'[entry[x]].holder = x BY <1>5, <3>1, <3>2
    <3>4. QED BY <3>1, <3>3
  <2>2. ASSUME NEW e \in DOMAIN entries', entries'[e].holder # Nobody
        PROVE  at'[entries'[e].holder] = "turn" /\ entry'[entries'[e].holder] = e
    <3>1. entries'[e].holder = entries[e].holder /\ entries[e].holder # Nobody /\ e \in DOMAIN entries
      BY <1>5, <2>2
    <3>2. /\ entries[e].holder \in Request /\ at[entries[e].holder] = "turn"
          /\ entry[entries[e].holder] = e
      BY <3>1, Holders DEF Held
    <3>3. entries[e].holder # r BY <1>5, <2>2, <3>1, <3>2
    <3>4. QED BY <1>1, <3>1, <3>2, <3>3
  <2>3. QED BY <2>1, <2>2 DEF Held
<1>11. CountsRight'
  <2>1. ASSUME NEW e \in DOMAIN entries \ {k} PROVE Using(entry', e) = Using(entry, e)
    <3>1. e # 0 BY DEF TypeOK
    <3>2. QED BY <1>1, <3>1 DEF Using
  <2>2. \A e \in DOMAIN entries \ {k} : entries'[e].users = Cardinality(Using(entry', e))
    BY <1>5, <2>1 DEF CountsRight
  <2>3. entries'[k].users = Cardinality(Using(entry', k)) BY <1>3, <1>4, <1>5
  <2>4. QED BY <1>5, <2>2, <2>3 DEF CountsRight
<1>12. Table'
  <2>1. ASSUME NEW id \in Ids, locks'[id] # 0
        PROVE  \E x \in Request : InLine(x)' /\ entry'[x] = locks'[id]
    <3>1. locks[id] # 0 /\ locks'[id] = locks[id] BY <1>6, <2>1
    <3>2. CASE id = c
      <4>1. PICK x \in Using(entry', k) : TRUE BY <1>6, <2>1, <3>2
      <4>2. x \in Request /\ x # r /\ entry'[x] = k BY <1>1, <1>2, <4>1 DEF Using
      <4>3. InLine(x)' BY <1>1, <1>2, <4>2 DEF Counted, InLine
      <4>4. QED BY <1>2, <3>1, <3>2, <4>2, <4>3
    <3>3. CASE id # c
      <4>1. PICK x \in Request : InLine(x) /\ entry[x] = locks[id] BY <3>1 DEF Table
      <4>2. x # r BY <1>2, <3>1, <3>3, <4>1 DEF Table
      <4>3. QED BY <1>1, <3>1, <4>1, <4>2 DEF InLine
    <3>4. QED BY <3>2, <3>3
  <2>2. \A i, j \in Ids : locks'[i] = locks'[j] /\ locks'[i] # 0 => i = j
    BY <1>6 DEF Table
  <2>3. QED BY <2>1, <2>2 DEF Table, Ids
<1>13. TurnsCall' BY <1>1 DEF TurnsCall
<1>14. QED BY <1>7, <1>8, <1>9, <1>10, <1>11, <1>12, <1>13

LEMMA CancelKeeps ==
  ASSUME LockInv, NEW r \in Request, Cancel(r)
  PROVE  LockInv'
<1>1. CASE CancelLate(r)
  <2>1. events' \in Nat BY DEF Cancel, Event, LockInv, TypeOK
  <2>2. QED BY <1>1, <2>1, Leaving DEF Cancel, CancelLate, InLine
<1>2. CASE CancelEarly(r)
  <2> USE DEF LockInv
  <2>1. /\ at' \in [Request -> Places]
        /\ \A x \in Request \ {r} : at'[x] = at[x]
        /\ at[r] \notin {"waiting", "turn"} /\ at'[r] = "done"
        /\ calling' \in SUBSET calling /\ events' \in Nat
        /\ UNCHANGED <<conversations, conv, locks, entries, entry, calls, spent>>
    BY <1>2 DEF CancelEarly, Cancel, Event, TypeOK, Places
  <2>2. TypeOK' BY <2>1 DEF TypeOK, Places
  <2>3. Rows' /\ Placed' /\ CountsRight' BY <2>1 DEF Rows, Placed, CountsRight, Ids
  <2>4. Counted' /\ Table' BY <2>1 DEF Counted, Table, InLine, Ids
  <2>5. Held' BY <2>1, Holders DEF Held
  <2>6. TurnsCall' BY <2>1 DEF TurnsCall
  <2>7. QED BY <2>2, <2>3, <2>4, <2>5, <2>6
<1>3. QED BY <1>1, <1>2 DEF Cancel

\* What a turn or a job does with the model leaves the locks alone.
LEMMA ModelKeeps ==
  ASSUME LockInv,
         \/ \E x \in Caller : CallModel(x) \/ ModelStep(x)
         \/ Midnight
  PROVE  LockInv'
<1> USE DEF LockInv
<1> DEFINE OnlyCalls ==
             /\ UNCHANGED <<conversations, at, conv, locks, entries, entry>>
             /\ calls' \in [Caller -> Nat] /\ spent' \in Nat /\ events' \in Nat
             /\ calling' \in SUBSET Caller
             /\ \A r \in Request : r \in calling' => r \in calling \/ at[r] = "turn"
<1>1. OnlyCalls
  <2>1. ASSUME NEW x \in Caller, CallModel(x) PROVE OnlyCalls
    BY <2>1 DEF CallModel, MayCall, TypeOK
  <2>2. ASSUME NEW x \in Caller, ModelStep(x) PROVE OnlyCalls
    <3>1. CASE ModelAnswers(x) BY <2>2, <3>1 DEF ModelAnswers, TypeOK
    <3>2. CASE ModelUnrecorded(x) BY <3>2 DEF ModelUnrecorded, Event, TypeOK
    <3>3. QED BY <2>2, <3>1, <3>2 DEF ModelStep
  <2>3. ASSUME Midnight PROVE OnlyCalls BY <2>3 DEF Midnight, Event, TypeOK
  <2>4. QED BY <2>1, <2>2, <2>3
<1>2. TypeOK' BY <1>1 DEF TypeOK
<1>3. Rows' /\ Placed' /\ Counted' /\ Held' /\ CountsRight' /\ Table'
  BY <1>1 DEF Rows, Placed, Counted, Held, CountsRight, Table, InLine, Ids
<1>4. TurnsCall' BY <1>1 DEF TurnsCall
<1>5. QED BY <1>2, <1>3, <1>4

LEMMA EndingKeeps ==
  ASSUME LockInv, NEW r \in Request, EndTurn(r)
  PROVE  LockInv'
<1>1. at[r] = "turn" /\ calling \ {r} = calling /\ events \in Nat
  BY DEF EndTurn, Step, LockInv, TypeOK
<1>2. QED BY <1>1, Leaving DEF EndTurn, Step, InLine

LEMMA LockStep == LockInv /\ [Next]_vars => LockInv'
<1> SUFFICES ASSUME LockInv, [Next]_vars PROVE LockInv' OBVIOUS
<1>1. ASSUME NEW r \in Request, RequestStep(r) PROVE LockInv'
  BY <1>1, Locating, Inserting, Registering, Joining, Acquiring, EndingKeeps
  DEF RequestStep, Refuse
<1>2. ASSUME NEW r \in Request, Cancel(r) PROVE LockInv' BY <1>2, CancelKeeps
<1>3. CASE (\E x \in Caller : CallModel(x) \/ ModelStep(x)) \/ Midnight BY <1>3, ModelKeeps
<1>4. CASE UNCHANGED vars
  BY <1>4 DEF vars, LockInv, TypeOK, Rows, Placed, Counted, Held, CountsRight, Table,
              TurnsCall, InLine, Ids
<1>5. QED BY <1>1, <1>2, <1>3, <1>4 DEF Next

\* Every entry of the lock table, its users and its holder agree with where the
\* requests are, through every insertion, eviction and cancellation.
THEOREM LocksConsistent == Spec => []LockInv
<1>1. QED BY InitLock, LockStep, PTL DEF Spec

\* The lock table holds the locks of the conversations somebody waits for or
\* holds, and no other.
THEOREM NoLockLeaks == Spec => []LocksInUse
<1>1. LockInv => LocksInUse
  <2> SUFFICES ASSUME LockInv, NEW id \in Ids
               PROVE  locks[id] # 0 <=> \E r \in Request : conv[r] = id /\ InLine(r)
    BY DEF LocksInUse, InLine
  <2> USE DEF LockInv
  <2>1. ASSUME locks[id] # 0 PROVE \E r \in Request : conv[r] = id /\ InLine(r)
    <3>1. PICK r \in Request : InLine(r) /\ entry[r] = locks[id] BY <2>1 DEF Table
    <3>2. locks[conv[r]] = locks[id] /\ conv[r] \in Ids BY <3>1 DEF Counted, Placed, InLine
    <3>3. QED BY <2>1, <3>1, <3>2 DEF Table
  <2>2. ASSUME NEW r \in Request, conv[r] = id, InLine(r) PROVE locks[id] # 0
    BY <2>2 DEF Counted
  <2>3. QED BY <2>1, <2>2
<1>2. QED BY <1>1, LocksConsistent, PTL

--------------------------------------------------------------------------------
(* Turns exclude each other. *)

LEMMA OneTurn ==
  ASSUME LockInv, NEW r \in Request, NEW x \in Request,
         at[r] = "turn", at[x] = "turn", ChannelOf[r] = ChannelOf[x]
  PROVE  r = x
<1>1. conv[r] = conv[x] BY DEF LockInv, Placed, Rows
<1>2. entry[r] = entry[x] BY <1>1 DEF LockInv, Counted, InLine
<1>3. QED BY <1>2 DEF LockInv, Held

\* Who acquires a lock finds no turn of its channel running.
LEMMA NoTurnBefore ==
  ASSUME LockInv, NEW r \in Request, AcquireLock(r), NEW x \in Request, ChannelOf[x] = ChannelOf[r]
  PROVE  at[x] # "turn"
<1> SUFFICES ASSUME at[x] = "turn" PROVE FALSE OBVIOUS
<1>1. at[r] = "waiting" /\ entries[entry[r]].holder = Nobody BY DEF AcquireLock, Step
<1>2. conv[r] = conv[x] BY <1>1 DEF LockInv, Placed, Rows
<1>3. entry[r] = entry[x] BY <1>1, <1>2 DEF LockInv, Counted, InLine
<1>4. QED BY <1>1, <1>3 DEF LockInv, Held

TurnsOn(ch) == {r \in Request : at[r] = "turn" /\ ChannelOf[r] = ch}
TurnsNow == [ch \in Channel |-> TurnsOn(ch)]

LEMMA Maps ==
  ASSUME LockInv, [Next]_vars
  PROVE  Turns!Next \/ TurnsNow' = TurnsNow
<1>1. ASSUME NEW r \in Request, AcquireLock(r) PROVE Turns!Next
  <2>1. at[r] = "waiting" /\ at' = [at EXCEPT ![r] = "turn"] /\ at \in [Request -> Places]
    BY <1>1 DEF AcquireLock, Step, LockInv, TypeOK, Places
  <2>2. TurnsOn(ChannelOf[r]) = {} BY <1>1, NoTurnBefore DEF TurnsOn
  <2>3. TurnsNow' = [TurnsNow EXCEPT ![ChannelOf[r]] = {r}]
    BY <2>1, <2>2 DEF TurnsNow, TurnsOn
  <2>4. Turns!Begin(ChannelOf[r], r) BY <2>2, <2>3 DEF Turns!Begin, TurnsNow, TurnsOn
  <2>5. QED BY <2>4 DEF Turns!Next
<1>2. ASSUME NEW r \in Request, at[r] = "turn", at' = [at EXCEPT ![r] = "done"] PROVE Turns!Next
  <2>1. at \in [Request -> Places] BY DEF LockInv, TypeOK, Places
  <2>2. TurnsOn(ChannelOf[r]) = {r} BY <1>2, OneTurn DEF TurnsOn
  <2>3. TurnsNow' = [TurnsNow EXCEPT ![ChannelOf[r]] = {}]
    BY <1>2, <2>1, <2>2 DEF TurnsNow, TurnsOn
  <2>4. Turns!End(ChannelOf[r]) BY <2>2, <2>3 DEF Turns!End, TurnsNow, TurnsOn
  <2>5. QED BY <2>4 DEF Turns!Next
<1>3. ASSUME NEW r \in Request, at[r] # "turn", NEW to \in Places \ {"turn"},
             at' = [at EXCEPT ![r] = to]
      PROVE  TurnsNow' = TurnsNow
  <2>1. at \in [Request -> Places] BY DEF LockInv, TypeOK, Places
  <2>2. \A ch \in Channel : TurnsOn(ch)' = TurnsOn(ch) BY <1>3, <2>1 DEF TurnsOn
  <2>3. QED BY <2>2 DEF TurnsNow
<1>4. ASSUME at' = at PROVE TurnsNow' = TurnsNow BY <1>4 DEF TurnsNow, TurnsOn
<1>5. ASSUME NEW r \in Request, RequestStep(r) PROVE Turns!Next \/ TurnsNow' = TurnsNow
  <2>1. CASE AcquireLock(r) BY <1>1, <2>1
  <2>2. CASE EndTurn(r) \/ Refuse(r) BY <1>2, <2>2 DEF EndTurn, Refuse, Step
  <2>3. CASE \/ FindConversation(r) \/ FindNothing(r) \/ InsertConversation(r) \/ LoseInsert(r)
             \/ RegisterNew(r) \/ RegisterKnown(r)
    <3>1. PICK to \in {"located", "inserting", "waiting"} :
            at[r] # "turn" /\ at' = [at EXCEPT ![r] = to]
      BY <2>3 DEF FindConversation, FindNothing, InsertConversation, LoseInsert, RegisterNew,
                  RegisterKnown, Step
    <3>2. QED BY <1>3, <3>1 DEF Places
  <2>4. QED BY <1>5, <2>1, <2>2, <2>3 DEF RequestStep
<1>6. ASSUME NEW r \in Request, Cancel(r) PROVE Turns!Next \/ TurnsNow' = TurnsNow
  <2>1. at' = [at EXCEPT ![r] = "done"] BY <1>6 DEF Cancel
  <2>2. QED BY <1>2, <1>3, <2>1 DEF Places
<1>7. CASE (\E x \in Caller : CallModel(x) \/ ModelStep(x)) \/ Midnight
  BY <1>4, <1>7 DEF CallModel, ModelStep, ModelAnswers, ModelUnrecorded, Midnight
<1>8. CASE UNCHANGED vars BY <1>4, <1>8 DEF vars
<1>9. QED BY <1>5, <1>6, <1>7, <1>8 DEF Next

\* ChatRequests implements TurnMutex: from the first message of a new channel on,
\* its turns run one at a time.
THEOREM Refinement == Spec => TurnsExclude
<1>1. Init => Turns!Init BY DEF Init, Turns!Init
<1>2. LockInv /\ [Next]_vars => [Turns!Next]_TurnsNow BY Maps
<1>3. QED BY <1>1, <1>2, LocksConsistent, PTL DEF Spec, TurnsExclude, Turns!Spec, TurnsNow, TurnsOn

--------------------------------------------------------------------------------
(* The budget. *)

LEMMA TimesMonotone ==
  ASSUME NEW a \in Nat, NEW b \in Nat, NEW d \in Nat, a <= b
  PROVE  a * d \in Nat /\ b * d \in Nat /\ a * d <= b * d
<1>1. b - a \in Nat OBVIOUS
<1>2. (b - a) * d \in Nat /\ a * d \in Nat BY <1>1
<1>3. b * d = a * d + (b - a) * d BY <1>1
<1>4. QED BY <1>2, <1>3

LEMMA TimesSucc ==
  ASSUME NEW a \in Nat, NEW d \in Nat
  PROVE  (a + 1) * d = a * d + d
OBVIOUS

LEMMA DearestBounds == Dearest \in Nat /\ \A size \in Sizes : size <= Dearest
BY DEF Dearest

\* A channel and a job wait for the model once at most.
LEMMA CallersBounded ==
  ASSUME LockInv
  PROVE  /\ IsFiniteSet(calling) /\ Cardinality(calling) \in Nat
         /\ Cardinality(Channel) \in Nat /\ Cardinality(Job) \in Nat
         /\ Cardinality(calling) <= Cardinality(Channel) + Cardinality(Job)
<1> DEFINE R == calling \cap Request
           J == calling \cap Job
           f == [r \in R |-> ChannelOf[r]]
<1>1. f \in Injection(R, Channel)
  <2>1. f \in [R -> Channel] OBVIOUS
  <2>2. ASSUME NEW r \in R, NEW x \in R, f[r] = f[x] PROVE r = x
    BY <2>2, OneTurn DEF LockInv, TurnsCall
  <2>3. QED BY <2>1, <2>2 DEF Injection, IsInjective
<1>2. IsFiniteSet(R) /\ Cardinality(R) <= Cardinality(Channel) BY <1>1, FS_Injection
<1>3. IsFiniteSet(J) /\ Cardinality(J) <= Cardinality(Job)
  <2>1. J \in SUBSET Job OBVIOUS
  <2>2. QED BY <2>1, FS_Subset
<1>4. R \cap J = {} /\ calling = R \cup J BY DEF LockInv, TypeOK
<1>5. Cardinality(R) \in Nat /\ Cardinality(J) \in Nat BY <1>2, <1>3, FS_CardinalityType
<1>6. IsFiniteSet(calling) /\ Cardinality(calling) = Cardinality(R) + Cardinality(J)
  <2>1. /\ IsFiniteSet(R \cup J)
        /\ Cardinality(R \cup J) = Cardinality(R) + Cardinality(J) - Cardinality(R \cap J)
    BY <1>2, <1>3, FS_Union
  <2>2. Cardinality(R \cap J) = 0 BY <1>4, FS_EmptySet
  <2> HIDE DEF R, J
  <2>3. Cardinality(R \cup J) = Cardinality(R) + Cardinality(J) BY <1>5, <2>1, <2>2
  <2>4. QED BY <1>4, <2>1, <2>3
<1>7. Cardinality(Channel) \in Nat /\ Cardinality(Job) \in Nat BY FS_CardinalityType
<1>8. QED BY <1>2, <1>3, <1>5, <1>6, <1>7

AtMost == Cardinality(Channel) + Cardinality(Job)

\* Calls in flight cost less than one apiece, and they are at most AtMost.
CostOK ==
  /\ Cardinality(calling) * Dearest \in Nat /\ AtMost * Dearest \in Nat
  /\ Cardinality(calling) * Dearest <= AtMost * Dearest

LEMMA CostBounded == LockInv => CostOK
BY CallersBounded, DearestBounds, TimesMonotone DEF AtMost, CostOK

LEMMA FewerCost ==
  ASSUME LockInv, calling' \in SUBSET calling
  PROVE  Cardinality(calling') * Dearest <= Cardinality(calling) * Dearest
<1>1. IsFiniteSet(calling) /\ Cardinality(calling) \in Nat BY CallersBounded
<1>2. Cardinality(calling') <= Cardinality(calling) /\ Cardinality(calling') \in Nat
  BY <1>1, FS_Subset, FS_CardinalityType
<1>3. QED BY <1>1, <1>2, DearestBounds, TimesMonotone

LEMMA BudgetStep ==
  LockInv /\ LockInv' /\ OverrunBounded /\ [Next]_vars => OverrunBounded'
<1> SUFFICES ASSUME LockInv, LockInv', OverrunBounded, [Next]_vars, Limit > 0
             PROVE  spent' + Cardinality(calling') * Dearest < Limit + AtMost * Dearest
  BY DEF OverrunBounded, AtMost
<1>1. /\ spent + Cardinality(calling) * Dearest < Limit + AtMost * Dearest
      /\ spent \in Nat /\ spent' \in Nat /\ Limit \in Nat
      /\ Cardinality(calling) * Dearest \in Nat
      /\ AtMost * Dearest \in Nat
  BY CostBounded DEF OverrunBounded, AtMost, LockInv, TypeOK, CostOK
<1>2. /\ Cardinality(calling') * Dearest \in Nat
      /\ Cardinality(calling') * Dearest <= AtMost * Dearest
  <2>1. (LockInv => CostOK)' BY CostBounded, PTL
  <2>2. QED BY <2>1 DEF CostOK
<1>3. ASSUME spent' = spent, calling' \in SUBSET calling
      PROVE  spent' + Cardinality(calling') * Dearest < Limit + AtMost * Dearest
  BY <1>1, <1>2, <1>3, FewerCost
<1>4. ASSUME NEW x \in Caller, CallModel(x)
      PROVE  spent' + Cardinality(calling') * Dearest < Limit + AtMost * Dearest
  BY <1>1, <1>2, <1>4 DEF CallModel
<1>5. ASSUME NEW x \in Caller, ModelAnswers(x)
      PROVE  spent' + Cardinality(calling') * Dearest < Limit + AtMost * Dearest
  <2>1. PICK size \in Sizes : spent' = spent + size BY <1>5 DEF ModelAnswers
  <2>2. Cardinality(calling) = Cardinality(calling') + 1 /\ Cardinality(calling') \in Nat
    <3>1. IsFiniteSet(calling) /\ Cardinality(calling) \in Nat BY CallersBounded
    <3>2. x \in calling /\ calling' = calling \ {x} BY <1>5 DEF ModelAnswers
    <3>3. /\ IsFiniteSet(calling \ {x})
          /\ Cardinality(calling \ {x}) = Cardinality(calling) - 1
      BY <3>1, <3>2, FS_RemoveElement
    <3>4. Cardinality(calling \ {x}) \in Nat BY <3>3, FS_CardinalityType
    <3>5. QED BY <3>1, <3>2, <3>3, <3>4
  <2>3. Cardinality(calling) * Dearest = Cardinality(calling') * Dearest + Dearest
    BY <2>2, DearestBounds, TimesSucc
  <2>4. size <= Dearest /\ size \in Nat /\ Dearest \in Nat BY DearestBounds
  <2>5. QED BY <1>1, <1>2, <2>1, <2>3, <2>4
<1>6. ASSUME NEW x \in Caller, ModelUnrecorded(x)
      PROVE  spent' + Cardinality(calling') * Dearest < Limit + AtMost * Dearest
  BY <1>3, <1>6 DEF ModelUnrecorded
<1>7. ASSUME Midnight
      PROVE  spent' + Cardinality(calling') * Dearest < Limit + AtMost * Dearest
  BY <1>1, <1>2, <1>7 DEF Midnight
<1>8. ASSUME NEW r \in Request, RequestStep(r) \/ Cancel(r)
      PROVE  spent' + Cardinality(calling') * Dearest < Limit + AtMost * Dearest
  <2>1. spent' = spent /\ calling' \in SUBSET calling
    BY <1>8 DEF RequestStep, FindConversation, FindNothing, InsertConversation, LoseInsert,
                RegisterNew, RegisterKnown, AcquireLock, EndTurn, Refuse, Cancel
  <2>2. QED BY <1>3, <2>1
<1>9. CASE UNCHANGED vars BY <1>3, <1>9 DEF vars
<1>10. QED BY <1>4, <1>5, <1>6, <1>7, <1>8, <1>9 DEF Next, ModelStep

\* However many calls find the budget open at once, the day's rows exceed it by
\* less than one call's cost for each channel and each job.
THEOREM BudgetHolds == Spec => []OverrunBounded
<1>1. Init => OverrunBounded
  <2> SUFFICES ASSUME Init, Limit > 0
               PROVE  spent + Cardinality(calling) * Dearest < Limit + AtMost * Dearest
    BY DEF OverrunBounded, AtMost
  <2>1. LockInv BY InitLock
  <2>2. QED BY <2>1, CostBounded DEF Init, CostOK
<1>2. QED BY <1>1, BudgetStep, LocksConsistent, PTL DEF Spec

===============================================================================
