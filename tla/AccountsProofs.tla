---------------------------- MODULE AccountsProofs --------------------------
(* Proofs about Accounts, for any calls, names, texts and faults.             *)
EXTENDS Accounts, TLAPS

-----------------------------------------------------------------------------
(* Types. *)

LEMMA CallTypes ==
  ASSUME NEW c \in Calls
  PROVE  /\ c # NoCall /\ c.op \in {"register", "login", "get", "update"}
         /\ c.op = "register" => c.name \in Names /\ c.email \in Emails
                                 /\ c.password \in Passwords
         /\ c.op = "update" => c.user \in Requests /\ c.display \in Texts /\ c.bio \in Texts
BY DEF Calls, NoCall

LEMMA TypeInit == Init => TypeOK
BY AccountsAssumption DEF Init, TypeOK, Ids

(* What is asked is a call, and none has been asked before it.                *)
LEMMA Asks ==
  ASSUME NEW r \in Requests, Asking(r)
  PROVE  \E c \in Calls, p \in {"insert", "read"} :
           /\ Ask(r, c, p)
           /\ p = "insert" <=> c.op = "register"
           /\ c.op = "update" => c.user \in tokens
           /\ \/ UNCHANGED visible
              \/ /\ visible' = visible \cup {r}
                 /\ \A db \in Views : Asked(c, db) # {}
<1>1. ASSUME NEW n \in Names, NEW w \in Passwords, AskLogin(r, n, w)
      PROVE  \E c \in Calls : AskRead(r, c) /\ c.op = "login"
  BY <1>1 DEF AskLogin, Calls
<1>2. ASSUME NEW n \in Names, AskUser(r, n)
      PROVE  \E c \in Calls : AskRead(r, c) /\ c.op = "get"
  BY <1>2 DEF AskUser, Calls
<1>3. ASSUME NEW u \in Requests, NEW d \in Texts, NEW b \in Texts, AskUpdate(r, u, d, b)
      PROVE  \E c \in Calls : AskRead(r, c) /\ c.op = "update" /\ c.user \in tokens
  BY <1>3 DEF AskUpdate, Authenticated, Calls
<1>4. ASSUME NEW n \in Names, NEW w \in Passwords, NEW e \in Emails, AskRegister(r, n, e, w)
      PROVE  \E c \in Calls :
               Ask(r, c, "insert") /\ c.op = "register" /\ UNCHANGED visible
  BY <1>4 DEF AskRegister, Calls
<1>5. ASSUME NEW c \in Calls, AskRead(r, c)
      PROVE  /\ Ask(r, c, "read")
             /\ \/ UNCHANGED visible
                \/ /\ visible' = visible \cup {r}
                   /\ \A db \in Views : Asked(c, db) # {}
  BY <1>5 DEF AskRead
<1>6. QED
  BY <1>1, <1>2, <1>3, <1>4, <1>5 DEF Asking

(* An UPDATE of follower_count leaves the other columns. *)
LEMMA Columns ==
  ASSUME NEW row \in Rows
  PROVE  \A n \in Nat :
           LET new == [row EXCEPT !.followers = n] IN
           /\ new \in Rows /\ new.display = row.display /\ new.bio = row.bio
           /\ new.name = row.name /\ new.email = row.email
           /\ new.password = row.password /\ new.followers = n
BY DEF Rows

(* UPDATE of one row. *)
LEMMA OneRow ==
  ASSUME TypeOK, NEW u \in Ids, NEW row \in Rows,
         users' = [users EXCEPT ![u] = row]
  PROVE  /\ Ids' = Ids /\ users' \in [Ids -> Rows]
         /\ users'[u] = row /\ \A v \in Ids \ {u} : users'[v] = users[v]
BY DEF TypeOK, Ids

LEMMA OneRowKeys ==
  ASSUME TypeOK, NEW u \in Ids, NEW row \in Rows,
         users' = [users EXCEPT ![u] = row],
         row.name = users[u].name, row.email = users[u].email,
         row.password = users[u].password
  PROVE  /\ Ids \subseteq Ids'
         /\ \A v \in Ids :
              /\ users'[v].name = users[v].name /\ users'[v].email = users[v].email
              /\ users'[v].password = users[v].password
BY OneRow

LEMMA Counts ==
  ASSUME TypeOK, NEW u \in Requests, Follow(u) \/ Unfollow(u)
  PROVE  /\ u \in Ids
         /\ \E n \in Nat :
              users' = [users EXCEPT ![u] = [users[u] EXCEPT !.followers = n]]
<1>1. u \in Ids
  BY DEF Follow, Unfollow
<1>2. users[u].followers \in Nat
  BY <1>1 DEF TypeOK, Rows
<1> DEFINE Counted(n) == users' = [users EXCEPT ![u] = [users[u] EXCEPT !.followers = n]]
<1>3. \/ Counted(users[u].followers + 1)
      \/ Counted(FlooredDecrement(users[u].followers))
  BY DEF Follow, Unfollow
<1>4. /\ users[u].followers + 1 \in Nat
      /\ FlooredDecrement(users[u].followers) \in Nat
  BY <1>2 DEF FlooredDecrement
<1>5. QED
  BY <1>1, <1>3, <1>4

(* What a request at a statement has asked for; who a user is, and whose row   *)
(* an UPDATE writes.                                                           *)
OpsInv ==
  /\ \A r \in Requests :
       /\ pc[r] = "insert" => call[r].op = "register"
       /\ pc[r] = "read" => call[r].op # "register"
       /\ pc[r] = "update" => call[r].op = "update"
       /\ pc[r] # "idle" /\ call[r].op = "update" => call[r].user \in Ids
  /\ \A u \in Ids : pc[u] \in {"ok", "error"}

(* What the UPDATE makes of its row. *)
LEMMA UpdatedRow ==
  ASSUME TypeOK, OpsInv, NEW r \in Requests, pc[r] = "update"
  PROVE  LET u == call[r].user
             row == Updated(r, users[u])
         IN /\ call[r].op = "update" /\ u \in Ids /\ row \in Rows
            /\ row.display = call[r].display /\ row.bio = call[r].bio
            /\ row.name = users[u].name /\ row.email = users[u].email
            /\ row.password = users[u].password
            /\ row.followers = users[u].followers
<1>1. call[r] \in Calls /\ call[r].op = "update" /\ call[r].user \in Ids
  BY DEF TypeOK, OpsInv
<1>2. users[call[r].user] \in Rows /\ call[r].display \in Texts /\ call[r].bio \in Texts
  BY <1>1, CallTypes DEF TypeOK
<1>3. ASSUME NEW row \in Rows, NEW d \in Texts, NEW b \in Texts,
             d = call[r].display, b = call[r].bio
      PROVE  LET new == Updated(r, row) IN
             /\ new \in Rows /\ new.display = d /\ new.bio = b
             /\ new.name = row.name /\ new.email = row.email
             /\ new.password = row.password /\ new.followers = row.followers
  BY <1>3 DEF Updated, Rows
<1>4. QED
  BY <1>1, <1>2, <1>3

LEMMA TypeStep == ASSUME TypeOK, OpsInv, [Next]_vars PROVE TypeOK'
<1>1. ASSUME NEW r \in Requests, Asking(r) PROVE TypeOK'
  <2>1. PICK c \in Calls, p \in {"insert", "read"} : 
           Ask(r, c, p) /\ (UNCHANGED visible \/ visible' = visible \cup {r})
    BY <1>1, Asks
  <2>2. call' \in [Requests -> Calls \cup {NoCall}] 
        /\ \A q \in Requests : IF pc'[q] = "idle" THEN call'[q] = NoCall ELSE call'[q] \in Calls
    BY <2>1 DEF TypeOK, Ask, Goto
  <2>3. QED
    BY <2>1, <2>2 DEF TypeOK, Ask, Goto, tables, Ids
<1>2. ASSUME NEW r \in Requests, InsertUser(r) PROVE TypeOK'
  <2>1. NewRow(r) \in Rows
    <3>1. call[r] \in Calls /\ call[r].op = "register"
      BY <1>2 DEF TypeOK, OpsInv, InsertUser
    <3>2. QED
      BY <3>1, CallTypes DEF NewRow, Rows
  <2>2. CASE UNCHANGED <<users, counted>>
    BY <1>2, <2>2 DEF TypeOK, InsertUser, Goto, Fail, Ids
  <2>3. CASE /\ users' = [u \in Ids \cup {r} |-> IF u = r THEN NewRow(r) ELSE users[u]]
             /\ counted' = [u \in Ids \cup {r} |-> IF u = r THEN 0 ELSE counted[u]]
    <3>1. Ids' = Ids \cup {r} /\ users' \in [Ids' -> Rows] /\ counted' \in [Ids' -> 0 .. MaxFollows]
      BY <2>1, <2>3, AccountsAssumption DEF TypeOK, Ids
    <3>2. QED
      BY <1>2, <2>3, <3>1 DEF TypeOK, InsertUser, Goto, Fail
  <2>4. QED
    BY <1>2, <2>2, <2>3 DEF InsertUser
<1>3. ASSUME NEW r \in Requests, QueryOne(r) PROVE TypeOK'
  <2>1. UNCHANGED Ids
    BY <1>3 DEF QueryOne, tables, Ids
  <2>2. ASSUME NEW db \in Views, NEW u \in Asked(call[r], db)
        PROVE  u \in Ids /\ db[u] \in Rows
    BY DEF Views, Asked, WithId, Named, TypeOK, Ids
  <2>3. tokens' \subseteq Ids /\ loaded' \in [Requests -> Rows \cup {NoUser}]
        /\ pc' \in [Requests -> {"idle", "insert", "read", "update", "ok", "error"}]
        /\ pc'[r] # "idle" /\ \A q \in Requests \ {r} : pc'[q] = pc[q]
    <3>1. ASSUME NEW db \in Views, NEW u \in Asked(call[r], db), Found(r, u, db[u])
          PROVE  /\ tokens' \subseteq Ids /\ loaded' \in [Requests -> Rows \cup {NoUser}]
                 /\ pc' \in [Requests -> {"idle", "insert", "read", "update", "ok", "error"}]
                 /\ pc'[r] # "idle" /\ \A q \in Requests \ {r} : pc'[q] = pc[q]
      BY <2>2, <3>1 DEF Found, TypeOK, Goto
    <3>2. CASE Goto(r, "error") /\ UNCHANGED <<tokens, loaded>>
      BY <3>2 DEF TypeOK, Goto
    <3>3. QED
      BY <1>3, <3>1, <3>2 DEF QueryOne
  <2>4. failed' \subseteq Requests
    BY <1>3 DEF QueryOne, Fail, TypeOK
  <2>5. QED
    BY <1>3, <2>1, <2>3, <2>4 DEF TypeOK, QueryOne, tables
<1>4. ASSUME NEW r \in Requests, Update(r) PROVE TypeOK'
  <2>1. pc[r] = "update"
    BY <1>4 DEF Update
  <2>3. UNCHANGED Ids /\ users' \in [Ids' -> Rows]
    <3>1. CASE UNCHANGED users
      BY <3>1 DEF TypeOK, Ids
    <3>2. CASE users' = [users EXCEPT ![call[r].user] = Updated(r, @)]
      BY <2>1, <3>2, UpdatedRow, OneRow
    <3>3. QED
      BY <1>4, <3>1, <3>2 DEF Update
  <2>4. QED
    BY <1>4, <2>3 DEF TypeOK, Update, Goto, Fail, OnError
<1>5. ASSUME NEW u \in Requests, Follow(u) \/ Unfollow(u) PROVE TypeOK'
  <2>1. u \in Ids
    BY <1>5 DEF Follow, Unfollow
  <2>2. UNCHANGED Ids /\ users' \in [Ids' -> Rows]
    <3>1. PICK n \in Nat : users' = [users EXCEPT ![u] = [users[u] EXCEPT !.followers = n]]
      BY <1>5, Counts
    <3>2. [users[u] EXCEPT !.followers = n] \in Rows
      BY <2>1, Columns DEF TypeOK
    <3>3. QED
      BY <2>1, <3>1, <3>2, OneRow
  <2>3. counted' \in [Ids -> 0 .. MaxFollows]
    BY <1>5, <2>1, AccountsAssumption DEF Follow, Unfollow, FlooredDecrement, TypeOK
  <2>4. QED
    BY <1>5, <2>2, <2>3 DEF TypeOK, Follow, Unfollow
<1>6. CASE CatchUp
  BY <1>6 DEF TypeOK, CatchUp, history, Ids
<1>7. CASE UNCHANGED vars
  BY <1>7 DEF TypeOK, vars, tables, history, Ids
<1>8. QED
  BY <1>1, <1>2, <1>3, <1>4, <1>5, <1>6, <1>7 DEF Next

-----------------------------------------------------------------------------
(* What steps do not change. *)

(* A call and its answer stay as they are, users too but for their texts and   *)
(* their count.                                                                *)
LEMMA Stable ==
  ASSUME TypeOK, OpsInv, [Next]_vars
  PROVE  /\ \A r \in Requests :
              pc[r] # "idle" =>
                /\ pc'[r] # "idle" /\ call'[r] = call[r] /\ before'[r] = before[r]
                /\ pc[r] \in {"ok", "error"} => pc'[r] = pc[r]
         /\ Ids \subseteq Ids'
         /\ \A u \in Ids :
              /\ users'[u].name = users[u].name /\ users'[u].email = users[u].email
              /\ users'[u].password = users[u].password
<1> DEFINE Kept ==
      \A r \in Requests :
        pc[r] # "idle" =>
          /\ pc'[r] # "idle" /\ call'[r] = call[r] /\ before'[r] = before[r]
          /\ pc[r] \in {"ok", "error"} => pc'[r] = pc[r]
    SameKeys ==
      /\ Ids \subseteq Ids'
      /\ \A u \in Ids :
           /\ users'[u].name = users[u].name /\ users'[u].email = users[u].email
           /\ users'[u].password = users[u].password
<1>1. ASSUME NEW r \in Requests, Asking(r) PROVE Kept /\ SameKeys
  BY <1>1, Asks DEF TypeOK, Ask, Goto, tables, Ids
<1>2. ASSUME NEW r \in Requests, InsertUser(r) PROVE Kept /\ SameKeys
  <2>1. r \notin Ids
    BY <1>2 DEF OpsInv, InsertUser
  <2>2. SameKeys
    BY <1>2, <2>1 DEF InsertUser, Ids
  <2>3. QED
    BY <1>2, <2>2 DEF TypeOK, InsertUser, Goto
<1>3. ASSUME NEW r \in Requests, QueryOne(r) PROVE Kept /\ SameKeys
  <2>1. SameKeys
    BY <1>3 DEF QueryOne, tables, Ids
  <2>2. \A q \in Requests \ {r} : pc'[q] = pc[q]
    BY <1>3 DEF QueryOne, Found, Goto, TypeOK
  <2>3. pc'[r] # "idle"
    BY <1>3 DEF QueryOne, Found, Goto, TypeOK
  <2>4. QED
    BY <1>3, <2>1, <2>2, <2>3 DEF QueryOne
<1>4. ASSUME NEW r \in Requests, Update(r) PROVE Kept /\ SameKeys
  <2>1. pc[r] = "update"
    BY <1>4 DEF Update
  <2>2. SameKeys
    <3>1. CASE UNCHANGED users
      BY <3>1 DEF Ids
    <3>2. CASE users' = [users EXCEPT ![call[r].user] = Updated(r, @)]
      BY <2>1, <3>2, UpdatedRow, OneRowKeys
    <3>3. QED
      BY <1>4, <3>1, <3>2 DEF Update
  <2>3. QED
    BY <1>4, <2>2 DEF TypeOK, Update, Goto, OnError
<1>5. ASSUME NEW u \in Requests, Follow(u) \/ Unfollow(u) PROVE Kept /\ SameKeys
  <2>1. SameKeys
    <3>1. u \in Ids
      BY <1>5, Counts
    <3>2. PICK n \in Nat : users' = [users EXCEPT ![u] = [users[u] EXCEPT !.followers = n]]
      BY <1>5, Counts
    <3> DEFINE row == [users[u] EXCEPT !.followers = n]
    <3>3. /\ row \in Rows /\ row.name = users[u].name
          /\ row.email = users[u].email /\ row.password = users[u].password
      BY <3>1, Columns DEF TypeOK
    <3>4. users' = [users EXCEPT ![u] = row]
      BY <3>2
    <3> HIDE DEF row
    <3>5. QED
      BY <3>1, <3>3, <3>4, OneRowKeys
  <2>2. QED
    BY <1>5, <2>1 DEF Follow, Unfollow
<1>6. CASE CatchUp
  BY <1>6 DEF CatchUp, history, Ids
<1>7. CASE UNCHANGED vars
  BY <1>7 DEF vars, tables, history, Ids
<1>8. QED
  BY <1>1, <1>2, <1>3, <1>4, <1>5, <1>6, <1>7 DEF Next

LEMMA NewRowIs ==
  ASSUME NEW r
  PROVE  /\ NewRow(r).name = call[r].name /\ NewRow(r).email = call[r].email
         /\ NewRow(r).password = call[r].password /\ NewRow(r).followers = 0
         /\ NewRow(r).display = NoText /\ NewRow(r).bio = NoText
BY DEF NewRow

(* A row is new: its INSERT has just been made.                                *)
LEMMA Inserted ==
  ASSUME TypeOK, OpsInv, [Next]_vars, NEW u \in Ids', u \notin Ids
  PROVE  /\ u \in Requests /\ pc[u] = "insert" /\ call[u].op = "register"
         /\ ~Taken(u) /\ users'[u] = NewRow(u) /\ counted'[u] = 0
         /\ Ids' = Ids \cup {u} /\ stored' = stored
<1>1. ASSUME NEW r \in Requests, InsertUser(r)
      PROVE  /\ r = u /\ pc[u] = "insert" /\ call[u].op = "register"
             /\ ~Taken(u) /\ users'[u] = NewRow(u) /\ counted'[u] = 0
             /\ Ids' = Ids \cup {u} /\ stored' = stored
  BY <1>1 DEF InsertUser, OpsInv, Ids
<1>2. ASSUME NEW r \in Requests, Asking(r) PROVE FALSE
  BY <1>2, Asks DEF Ask, tables, Ids
<1>3. ASSUME NEW r \in Requests, QueryOne(r) PROVE FALSE
  BY <1>3 DEF QueryOne, tables, Ids
<1>4. ASSUME NEW r \in Requests, Update(r) PROVE FALSE
  <2>1. pc[r] = "update"
    BY <1>4 DEF Update
  <2>2. UNCHANGED users \/ users' = [users EXCEPT ![call[r].user] = Updated(r, @)]
    BY <1>4 DEF Update
  <2>3. QED
    BY <2>1, <2>2, UpdatedRow, OneRow DEF Ids
<1>5. ASSUME NEW v \in Requests, Follow(v) \/ Unfollow(v) PROVE FALSE
  BY <1>5 DEF Follow, Unfollow, Ids
<1>6. ASSUME CatchUp \/ UNCHANGED vars PROVE FALSE
  BY <1>6 DEF CatchUp, vars, tables, Ids
<1>7. QED
  BY <1>1, <1>2, <1>3, <1>4, <1>5, <1>6 DEF Next

(* What an answer takes: a row inserted, a profile stored, or a cause.         *)
LEMMA Answers ==
  ASSUME TypeOK, OpsInv, [Next]_vars, NEW r \in Requests,
         pc'[r] # pc[r], pc'[r] \in {"ok", "error"}
  PROVE  /\ call'[r] = call[r]
         /\ \/ InsertUser(r) /\ call[r].op = "register"
            \/ QueryOne(r) /\ call[r].op # "register"
                           /\ (call[r].op = "update" => pc'[r] = "error")
            \/ Update(r) /\ call[r].op = "update"
<1>1. ASSUME NEW q \in Requests, Asking(q) PROVE FALSE
  BY <1>1, Asks DEF Ask, Goto, TypeOK
<1>2. ASSUME NEW q \in Requests, InsertUser(q)
      PROVE  q = r /\ call' = call /\ call[r].op = "register"
  BY <1>2 DEF InsertUser, Goto, TypeOK, OpsInv
<1>3. ASSUME NEW q \in Requests, QueryOne(q)
      PROVE  /\ q = r /\ call' = call /\ call[r].op # "register"
             /\ call[r].op = "update" => pc'[r] = "error"
  BY <1>3 DEF QueryOne, Found, Goto, TypeOK, OpsInv
<1>4. ASSUME NEW q \in Requests, Update(q)
      PROVE  q = r /\ call' = call /\ call[r].op = "update"
  BY <1>4 DEF Update, Goto, TypeOK, OpsInv
<1>5. ASSUME NEW u \in Requests, Follow(u) \/ Unfollow(u) PROVE FALSE
  BY <1>5 DEF Follow, Unfollow
<1>6. ASSUME CatchUp \/ UNCHANGED vars PROVE FALSE
  BY <1>6 DEF CatchUp, vars
<1>7. QED
  BY <1>1, <1>2, <1>3, <1>4, <1>5, <1>6 DEF Next

LEMMA OpsStep == ASSUME TypeOK, OpsInv, [Next]_vars PROVE OpsInv'
<1>1. \A u \in Ids' : pc'[u] \in {"ok", "error"}
  <2>1. SUFFICES ASSUME NEW u \in Ids' PROVE pc'[u] \in {"ok", "error"}
    OBVIOUS
  <2>2. CASE u \in Ids
    BY <2>2, Stable DEF TypeOK, OpsInv
  <2>3. CASE u \notin Ids
    <3>1. /\ u \in Requests /\ pc[u] = "insert"
          /\ Ids' # Ids
      BY <2>3, Inserted
    <3>2. ~UNCHANGED users
      BY <3>1 DEF Ids
    <3>3. ASSUME NEW r \in Requests, InsertUser(r) PROVE pc'[u] \in {"ok", "error"}
      BY <3>2, <3>3, <2>3 DEF InsertUser, Goto, TypeOK, Ids
    <3>4. ASSUME NEW r \in Requests, Update(r) \/ Follow(r) \/ Unfollow(r) PROVE Ids' = Ids
      BY <3>4 DEF Update, Follow, Unfollow, Ids
    <3>5. ASSUME NEW r \in Requests, Asking(r) \/ QueryOne(r) PROVE UNCHANGED users
      BY <3>5, Asks DEF QueryOne, Ask, tables
    <3>6. ASSUME CatchUp \/ UNCHANGED vars PROVE UNCHANGED users
      BY <3>6 DEF CatchUp, vars, tables
    <3>7. QED
      BY <3>1, <3>2, <3>3, <3>4, <3>5, <3>6 DEF Next
  <2>4. QED
    BY <2>2, <2>3
<1> DEFINE Op(r) ==
      /\ pc[r] = "insert" => call[r].op = "register"
      /\ pc[r] = "read" => call[r].op # "register"
      /\ pc[r] = "update" => call[r].op = "update"
      /\ pc[r] # "idle" /\ call[r].op = "update" => call[r].user \in Ids
<1>2. ASSUME NEW r \in Requests, Asking(r), NEW q \in Requests PROVE Op(q)'
  BY <1>2, Asks DEF Ask, Goto, TypeOK, OpsInv, tables, Ids
<1>3. ASSUME NEW r \in Requests, InsertUser(r), NEW q \in Requests PROVE Op(q)'
  BY <1>3, Stable DEF InsertUser, Goto, TypeOK, OpsInv
<1>4. ASSUME NEW r \in Requests, QueryOne(r), NEW q \in Requests PROVE Op(q)'
  BY <1>4, Stable DEF QueryOne, Found, Goto, TypeOK, OpsInv
<1>5. ASSUME NEW r \in Requests, Update(r), NEW q \in Requests PROVE Op(q)'
  BY <1>5, Stable DEF Update, Goto, TypeOK, OpsInv, OnError
<1>6. ASSUME NEW u \in Requests, Follow(u) \/ Unfollow(u), NEW q \in Requests PROVE Op(q)'
  BY <1>6, Stable DEF Follow, Unfollow, OpsInv
<1>7. ASSUME CatchUp \/ UNCHANGED vars, NEW q \in Requests PROVE Op(q)'
  BY <1>7 DEF CatchUp, vars, tables, OpsInv, Ids
<1>8. \A q \in Requests : Op(q)'
  BY <1>2, <1>3, <1>4, <1>5, <1>6, <1>7 DEF Next
<1>9. QED
  BY <1>1, <1>8 DEF OpsInv

LEMMA OpsInit == Init => OpsInv
BY DEF Init, OpsInv, Ids, NoCall

LEMMA Types == Spec => [](TypeOK /\ OpsInv)
BY TypeInit, TypeStep, OpsInit, OpsStep, PTL DEF Spec

(* Every value has its type, and every id of a table is a registration's.      *)
THEOREM TypeCorrect == Spec => []TypeOK
BY Types, PTL

-----------------------------------------------------------------------------
(* Counters. *)

LEMMA CountersStep ==
  ASSUME TypeOK, OpsInv, CountersKept, [Next]_vars
  PROVE  CountersKept'
<1>1. SUFFICES ASSUME NEW u \in Ids' PROVE users'[u].followers = counted'[u]
  BY DEF CountersKept
<1>2. CASE u \notin Ids
  BY <1>2, Inserted, NewRowIs
<1>3. CASE u \in Ids
  <2>1. ASSUME NEW r \in Requests, InsertUser(r)
        PROVE  users'[u] = users[u] /\ counted'[u] = counted[u]
    BY <1>3, <2>1 DEF InsertUser, OpsInv
  <2>2. ASSUME NEW r \in Requests, Update(r)
        PROVE  users'[u].followers = users[u].followers /\ counted'[u] = counted[u]
    <3>1. pc[r] = "update"
      BY <2>2 DEF Update
    <3>2. UNCHANGED users \/ users' = [users EXCEPT ![call[r].user] = Updated(r, @)]
      BY <2>2 DEF Update
    <3>3. QED
      BY <1>3, <2>2, <3>1, <3>2, UpdatedRow, OneRow DEF Update
  <2>3. ASSUME NEW v \in Requests, Follow(v) \/ Unfollow(v)
        PROVE  users'[u].followers = counted'[u]
    <3>1. v \in Ids /\ users[v] \in Rows /\ users[v].followers \in Nat
          /\ users[v].followers = counted[v] /\ users[u].followers = counted[u]
      BY <1>3, <2>3 DEF Follow, Unfollow, TypeOK, Rows, CountersKept
    <3>2. PICK n \in Nat :
            /\ users' = [users EXCEPT ![v] = [users[v] EXCEPT !.followers = n]]
            /\ counted' = [counted EXCEPT ![v] = n]
      <4>1. CASE Follow(v)
        <5>1. users[v].followers + 1 \in Nat
          BY <3>1
        <5>2. QED
          BY <3>1, <4>1, <5>1 DEF Follow
      <4>2. CASE Unfollow(v)
        <5>1. FlooredDecrement(users[v].followers) \in Nat
          BY <3>1 DEF FlooredDecrement
        <5>2. QED
          BY <3>1, <4>2, <5>1 DEF Unfollow
      <4>3. QED
        BY <2>3, <4>1, <4>2
    <3> DEFINE row == [users[v] EXCEPT !.followers = n]
    <3>3. row \in Rows /\ row.followers = n
      BY <3>1, Columns
    <3>4. users' = [users EXCEPT ![v] = row]
      BY <3>2
    <3> HIDE DEF row
    <3>5. QED
      BY <1>3, <3>1, <3>2, <3>3, <3>4, OneRow DEF TypeOK
  <2>4. ASSUME \/ \E r \in Requests : Asking(r) \/ QueryOne(r)
               \/ CatchUp \/ UNCHANGED vars
        PROVE  users' = users /\ counted' = counted
    BY <2>4, Asks DEF QueryOne, Ask, CatchUp, vars, tables, history
  <2>5. QED
    BY <1>3, <2>1, <2>2, <2>3, <2>4 DEF Next, CountersKept
<1>4. QED
  BY <1>2, <1>3

(* Whatever is updated meanwhile, follower_count is what Follow and Unfollow    *)
(* have made of it.                                                            *)
THEOREM CountersHold == Spec => []CountersKept
<1>1. Init => CountersKept
  BY DEF Init, CountersKept, Ids
<1>2. QED
  BY <1>1, Types, CountersStep, PTL DEF Spec

-----------------------------------------------------------------------------
(* Names and emails. *)

(* A user is as he registered, and the columns that are UNIQUE are.            *)
RegisteredInv ==
  /\ \A u \in Ids :
       /\ call[u].op = "register" /\ users[u].name = call[u].name
       /\ users[u].email = call[u].email /\ users[u].password = call[u].password
  /\ \A r \in Requests : Answered(r, "register") => r \in Ids
  /\ \A u, v \in Ids :
       users[u].name = users[v].name \/ users[u].email = users[v].email => u = v

LEMMA RegisteredStep ==
  ASSUME TypeOK, OpsInv, RegisteredInv, [Next]_vars
  PROVE  RegisteredInv'
<1>1. ASSUME NEW u \in Ids'
      PROVE  /\ call'[u].op = "register" /\ users'[u].name = call'[u].name
             /\ users'[u].email = call'[u].email /\ users'[u].password = call'[u].password
  <2>1. CASE u \in Ids
    BY <2>1, Stable DEF OpsInv, RegisteredInv, TypeOK
  <2>2. CASE u \notin Ids
    BY <2>2, Inserted, Stable, NewRowIs
  <2>3. QED
    BY <2>1, <2>2
<1>2. ASSUME NEW r \in Requests, Answered(r, "register")' PROVE r \in Ids'
  <2>1. CASE pc[r] = "ok"
    BY <1>2, <2>1, Stable DEF Answered, RegisteredInv
  <2>2. CASE pc[r] # "ok"
    <3>1. InsertUser(r)
      BY <1>2, <2>2, Answers DEF Answered
    <3>2. QED
      BY <1>2, <3>1 DEF InsertUser, Goto, Answered, TypeOK, Ids
  <2>3. QED
    BY <2>1, <2>2
<1>3. ASSUME NEW u \in Ids', NEW v \in Ids', u # v, v \in Ids
      PROVE  users'[u].name # users'[v].name /\ users'[u].email # users'[v].email
  <2>1. CASE u \in Ids
    BY <1>3, <2>1, Stable DEF RegisteredInv
  <2>2. CASE u \notin Ids
    <3>1. users[v].name # call[u].name /\ users[v].email # call[u].email
      BY <1>3, <2>2, Inserted DEF Taken
    <3>2. QED
      BY <1>3, <2>2, <3>1, Inserted, Stable, NewRowIs
  <2>3. QED
    BY <2>1, <2>2
<1>4. ASSUME NEW u \in Ids', NEW v \in Ids',
             users'[u].name = users'[v].name \/ users'[u].email = users'[v].email
      PROVE  u = v
  <2>1. CASE u \in Ids \/ v \in Ids
    BY <1>3, <1>4, <2>1
  <2>2. CASE u \notin Ids /\ v \notin Ids
    BY <2>2, Inserted
  <2>3. QED
    BY <2>1, <2>2
<1>5. QED
  BY <1>1, <1>2, <1>4 DEF RegisteredInv

LEMMA Registered == Spec => []RegisteredInv
<1>1. Init => RegisteredInv
  BY DEF Init, RegisteredInv, Answered, Ids
<1>2. QED
  BY <1>1, Types, RegisteredStep, PTL DEF Spec

(* However registrations overlap, a username and an email go to one of them.   *)
THEOREM Owned == Spec => []OneOwner
<1>1. RegisteredInv => OneOwner
  BY DEF RegisteredInv, OneOwner
<1>2. QED
  BY <1>1, Registered, PTL

-----------------------------------------------------------------------------
(* Profiles. *)

(* The profile shown is by the call that wrote it last, which was not answered *)
(* when any that wrote it was made.                                            *)
LastOf(r, u) ==
  /\ r \in stored /\ Wrote(r, u)
  /\ \A q \in stored : call[q].user = u => r \notin before[q]

Untouched(u) ==
  /\ users[u].display = NoText /\ users[u].bio = NoText
  /\ \A q \in stored : call[q].user # u

ProfileInv ==
  /\ \A r \in stored : pc[r] \in {"ok", "error"} /\ call[r].op = "update"
  /\ \A r \in Requests : Answered(r, "update") => r \in stored
  /\ \A q \in Requests : \A r \in before[q] : pc[r] \in {"ok", "error"}
  /\ \A u \in Ids : Untouched(u) \/ \E r \in stored : LastOf(r, u)

Writes(r) ==
  /\ Update(r) /\ stored' = stored \cup {r}
  /\ users' = [users EXCEPT ![call[r].user] = Updated(r, @)]

WritesNone ==
  /\ stored' = stored
  /\ \A u \in Ids :
       users'[u].display = users[u].display /\ users'[u].bio = users[u].bio

(* Nothing but the UPDATE of a profile writes one. *)
LEMMA OnlyUpdate ==
  ASSUME TypeOK, OpsInv, [Next]_vars
  PROVE  WritesNone \/ \E r \in Requests : Writes(r)
<1>1. ASSUME UNCHANGED <<users, stored>> PROVE WritesNone
  BY <1>1 DEF WritesNone
<1>2. ASSUME NEW r \in Requests, Asking(r) PROVE UNCHANGED <<users, stored>>
  BY <1>2, Asks DEF Ask, tables
<1>3. ASSUME NEW r \in Requests, InsertUser(r) PROVE WritesNone
  BY <1>3 DEF InsertUser, WritesNone, OpsInv
<1>4. ASSUME NEW r \in Requests, QueryOne(r) PROVE UNCHANGED <<users, stored>>
  BY <1>4 DEF QueryOne, tables
<1>5. ASSUME NEW r \in Requests, Update(r)
      PROVE  Writes(r) \/ UNCHANGED <<users, stored>>
  BY <1>5 DEF Update, Writes
<1>6. ASSUME NEW v \in Requests, Follow(v) \/ Unfollow(v) PROVE WritesNone
  <2>1. v \in Ids /\ stored' = stored
    BY <1>6 DEF Follow, Unfollow
  <2>2. PICK n \in Nat : users' = [users EXCEPT ![v] = [users[v] EXCEPT !.followers = n]]
    BY <1>6, Counts
  <2> DEFINE row == [users[v] EXCEPT !.followers = n]
  <2>3. row \in Rows /\ row.display = users[v].display /\ row.bio = users[v].bio
    BY <2>1, Columns DEF TypeOK
  <2>4. users' = [users EXCEPT ![v] = row]
    BY <2>2
  <2> HIDE DEF row
  <2>5. QED
    BY <2>1, <2>3, <2>4, OneRow DEF WritesNone
<1>7. ASSUME CatchUp \/ UNCHANGED vars PROVE UNCHANGED <<users, stored>>
  BY <1>7 DEF CatchUp, vars, tables, history
<1>8. QED
  BY <1>1, <1>2, <1>3, <1>4, <1>5, <1>6, <1>7 DEF Next

(* A step that writes no profile. *)
LEMMA ProfilesKept ==
  ASSUME TypeOK, OpsInv, ProfileInv, [Next]_vars, stored' = stored,
         NEW u \in Ids, users'[u].display = users[u].display, users'[u].bio = users[u].bio
  PROVE  Untouched(u)' \/ \E r \in stored' : LastOf(r, u)'
<1>1. \A r \in stored : call'[r] = call[r] /\ before'[r] = before[r]
  BY Stable DEF ProfileInv, TypeOK
<1>2. ASSUME Untouched(u) PROVE Untouched(u)'
  BY <1>1, <1>2 DEF Untouched
<1>3. ASSUME NEW r \in stored, LastOf(r, u) PROVE LastOf(r, u)'
  BY <1>1, <1>3 DEF LastOf, Wrote
<1>4. QED
  BY <1>2, <1>3 DEF ProfileInv

LEMMA ProfileStep ==
  ASSUME TypeOK, OpsInv, ProfileInv, [Next]_vars
  PROVE  ProfileInv'
<1>1. stored' = stored \/ \E r \in Requests : Update(r) /\ stored' = stored \cup {r}
  BY OnlyUpdate DEF WritesNone, Writes
<1>2. \A r \in stored' : pc'[r] \in {"ok", "error"} /\ call'[r].op = "update"
  <2>1. ASSUME NEW r \in stored PROVE pc'[r] \in {"ok", "error"} /\ call'[r].op = "update"
    BY Stable DEF ProfileInv, TypeOK
  <2>2. ASSUME NEW r \in Requests, Update(r)
        PROVE  pc'[r] \in {"ok", "error"} /\ call'[r].op = "update"
    BY <2>2 DEF Update, Goto, OnError, TypeOK, OpsInv
  <2>3. QED
    BY <1>1, <2>1, <2>2
<1>3. ASSUME NEW r \in Requests, Answered(r, "update")' PROVE r \in stored'
  <2>1. CASE pc[r] = "ok"
    BY <1>1, <1>3, <2>1, Stable DEF ProfileInv, Answered
  <2>2. CASE pc[r] # "ok"
    <3>1. Update(r) /\ pc'[r] = "ok"
      BY <1>3, <2>2, Answers DEF Answered
    <3>2. QED
      BY <3>1 DEF Update, Goto, OnError, TypeOK
  <2>3. QED
    BY <2>1, <2>2
<1>4. ASSUME NEW q \in Requests, NEW r \in before'[q] PROVE pc'[r] \in {"ok", "error"}
  <2>1. CASE before'[q] = before[q]
    BY <1>4, <2>1, Stable DEF ProfileInv, TypeOK
  <2>2. CASE before'[q] # before[q]
    <3>1. PICK p \in Requests : Asking(p)
      BY <2>2 DEF Next, InsertUser, QueryOne, Update, Follow, Unfollow, CatchUp,
        vars, history
    <3>2. before'[q] = {o \in Requests : pc[o] \in {"ok", "error"}}
      BY <2>2, <3>1, Asks DEF Ask, TypeOK
    <3>3. QED
      BY <1>4, <3>2, Stable
  <2>3. QED
    BY <2>1, <2>2
<1>5. ASSUME NEW u \in Ids' PROVE Untouched(u)' \/ \E r \in stored' : LastOf(r, u)'
  <2>1. CASE u \notin Ids
    <3>1. /\ stored' = stored
          /\ users'[u].display = NoText /\ users'[u].bio = NoText
      BY <2>1, Inserted, NewRowIs
    <3>2. ASSUME NEW q \in stored PROVE call'[q].user # u
      BY <2>1, Stable DEF ProfileInv, OpsInv, TypeOK
    <3>3. QED
      BY <3>1, <3>2 DEF Untouched
  <2>2. ASSUME NEW r \in Requests, u \in Ids, Update(r), stored' = stored \cup {r},
               users' = [users EXCEPT ![call[r].user] = Updated(r, @)]
        PROVE  Untouched(u)' \/ \E q \in stored' : LastOf(q, u)'
    <3>1. pc[r] = "update"
      BY <2>2 DEF Update
    <3>2. /\ call[r].op = "update" /\ call[r].user \in Ids
          /\ users'[call[r].user].display = call[r].display
          /\ users'[call[r].user].bio = call[r].bio
          /\ \A v \in Ids \ {call[r].user} : users'[v] = users[v]
      BY <2>2, <3>1, UpdatedRow, OneRow
    <3>3. call' = call /\ before' = before
      BY <2>2 DEF Update
    <3>4. CASE u = call[r].user
      <4>1. \A q \in stored' : r \notin before'[q]
        BY <3>1, <3>3, <2>2 DEF ProfileInv, TypeOK
      <4>2. LastOf(r, u)'
        BY <2>2, <3>2, <3>3, <3>4, <4>1 DEF LastOf, Wrote
      <4>3. QED
        BY <2>2, <4>2
    <3>5. CASE u # call[r].user
      <4>1. ASSUME Untouched(u) PROVE Untouched(u)'
        BY <2>2, <3>2, <3>3, <3>5, <4>1 DEF Untouched
      <4>2. ASSUME NEW q \in stored, LastOf(q, u) PROVE LastOf(q, u)'
        BY <2>2, <3>2, <3>3, <3>5, <4>2 DEF LastOf, Wrote
      <4>3. QED
        BY <2>2, <4>1, <4>2 DEF ProfileInv
    <3>6. QED
      BY <3>4, <3>5
  <2>3. CASE u \in Ids /\ WritesNone
    BY <2>3, ProfilesKept DEF WritesNone
  <2>4. QED
    BY <2>1, <2>2, <2>3, OnlyUpdate DEF Writes
<1>6. QED
  BY <1>2, <1>3, <1>4, <1>5 DEF ProfileInv

LEMMA Profiles == Spec => []ProfileInv
<1>1. Init => ProfileInv
  BY DEF Init, ProfileInv, Answered, Ids
<1>2. QED
  BY <1>1, Types, ProfileStep, PTL DEF Spec

(* No profile mixes the texts of two updates that overlap. *)
THEOREM NotMixed == Spec => []ProfileWhole
<1>1. ProfileInv => ProfileWhole
  BY DEF ProfileInv, Untouched, LastOf, ProfileWhole
<1>2. QED
  BY <1>1, Profiles, PTL

(* No update that was answered as done is lost to an earlier one.              *)
THEOREM NotLost == Spec => []UpdatesKept
<1>1. ASSUME TypeOK, OpsInv, ProfileInv PROVE UpdatesKept
  <2>1. SUFFICES ASSUME NEW q \in Requests, Answered(q, "update")
                 PROVE  \E r \in stored : Wrote(r, call[q].user) /\ r \notin before[q]
    BY DEF UpdatesKept
  <2>2. q \in stored /\ call[q].user \in Ids
    BY <1>1, <2>1 DEF Answered, ProfileInv, OpsInv
  <2>3. PICK r \in stored : LastOf(r, call[q].user)
    BY <1>1, <2>2 DEF ProfileInv, Untouched
  <2>4. QED
    BY <2>2, <2>3 DEF LastOf
<1>2. QED
  BY <1>1, Types, Profiles, PTL

-----------------------------------------------------------------------------
(* Errors. *)

(* A replica is behind in texts, counts and rows, but in no key; who was shown *)
(* by every database stays so.                                                 *)
ShownInv ==
  /\ \A u \in DOMAIN replica :
       /\ replica[u].name = users[u].name
       /\ replica[u].password = users[u].password
  /\ \A r \in visible :
       pc[r] # "idle" /\ \A db \in Views : Asked(call[r], db) # {}

LEMMA ShownStep ==
  ASSUME TypeOK, OpsInv, ShownInv, [Next]_vars
  PROVE  ShownInv'
<1>1. UNCHANGED replica \/ (replica' = users /\ users' = users)
  <2>1. ASSUME NEW r \in Requests, Asking(r) PROVE UNCHANGED replica
    BY <2>1, Asks DEF Ask, tables
  <2>2. ASSUME NEW r \in Requests, InsertUser(r) \/ QueryOne(r) \/ Update(r)
        PROVE  UNCHANGED replica
    BY <2>2 DEF InsertUser, QueryOne, Update, tables
  <2>3. ASSUME NEW u \in Requests, Follow(u) \/ Unfollow(u) PROVE UNCHANGED replica
    BY <2>3 DEF Follow, Unfollow
  <2>4. CASE CatchUp
    BY <2>4 DEF CatchUp
  <2>5. CASE UNCHANGED vars
    BY <2>5 DEF vars, tables
  <2>6. QED
    BY <2>1, <2>2, <2>3, <2>4, <2>5 DEF Next
<1>2. \A u \in DOMAIN replica' :
        replica'[u].name = users'[u].name /\ replica'[u].password = users'[u].password
  BY <1>1, Stable DEF ShownInv, TypeOK
<1>3. ASSUME NEW c, \A db \in Views : Asked(c, db) # {}
      PROVE  \A db \in Views' : Asked(c, db) # {}
  <2>1. Asked(c, users) # {} => Asked(c, users') # {}
    BY Stable DEF Asked, Named, WithId, Ids
  <2>2. Views' \subseteq {users', replica'} /\ users \in Views
    BY DEF Views
  <2>3. "lag" \in Faults => replica \in Views
    BY DEF Views
  <2>4. "lag" \notin Faults => Views' = {users'}
    BY DEF Views
  <2>5. QED
    BY <1>1, <1>3, <2>1, <2>2, <2>3, <2>4
<1>4. ASSUME NEW r \in visible'
      PROVE  pc'[r] # "idle" /\ \A db \in Views' : Asked(call'[r], db) # {}
  <2>1. CASE r \in visible
    BY <1>3, <2>1, Stable DEF ShownInv, TypeOK
  <2>2. CASE r \notin visible
    <3>1. PICK q \in Requests : Asking(q)
      <4>1. ASSUME NEW q \in Requests, \/ InsertUser(q) \/ QueryOne(q) \/ Update(q)
                                       \/ Follow(q) \/ Unfollow(q)
            PROVE  UNCHANGED visible
        BY <4>1 DEF InsertUser, QueryOne, Update, Follow, Unfollow
      <4>2. ASSUME CatchUp \/ UNCHANGED vars PROVE UNCHANGED visible
        BY <4>2 DEF CatchUp, vars, history
      <4>3. QED
        BY <2>2, <4>1, <4>2 DEF Next
    <3>2. PICK c \in Calls, p \in {"insert", "read"} :
            /\ Ask(q, c, p)
            /\ \/ UNCHANGED visible
               \/ /\ visible' = visible \cup {q}
                  /\ \A db \in Views : Asked(c, db) # {}
      BY <3>1, Asks
    <3>3. r = q /\ \A db \in Views : Asked(c, db) # {}
      BY <2>2, <3>2
    <3>4. call'[r] = c /\ pc'[r] = p
      BY <3>2, <3>3 DEF Ask, Goto, TypeOK
    <3>5. QED
      BY <1>3, <3>3, <3>4
  <2>3. QED
    BY <2>1, <2>2
<1>5. QED
  BY <1>2, <1>4 DEF ShownInv

LEMMA Shown == Spec => []ShownInv
<1>1. Init => ShownInv
  BY DEF Init, ShownInv
<1>2. QED
  BY <1>1, Types, ShownStep, PTL DEF Spec

Justified(r) ==
  \/ /\ call[r].op = "register"
     /\ \/ call[r].password \in TooLong
        \/ \E u \in Ids : call[u].name = call[r].name \/ call[u].email = call[r].email
  \/ call[r].op # "register" /\ r \notin visible
  \/ /\ call[r].op = "login"
     /\ \E u \in Ids : call[u].name = call[r].name
                      /\ call[u].password # call[r].password

LEMMA ErrorsStep ==
  ASSUME TypeOK, OpsInv, RegisteredInv, ShownInv, ErrorsJustified, [Next]_vars
  PROVE  ErrorsJustified'
<1>1. SUFFICES ASSUME NEW r \in Requests, r \notin failed', pc'[r] = "error"
               PROVE  Justified(r)'
  BY DEF ErrorsJustified, Justified
<1>2. /\ Ids \subseteq Ids' /\ \A u \in Ids : call'[u] = call[u]
      /\ pc[r] # "idle" => call'[r] = call[r] /\ (r \in visible' => r \in visible)
  <2>1. pc[r] # "idle" /\ r \in visible' => r \in visible
    <3>1. ASSUME NEW q \in Requests, Asking(q), pc[r] # "idle" PROVE r \in visible' => r \in visible
      BY <3>1, Asks DEF Ask
    <3>2. QED
      BY <3>1 DEF Next, InsertUser, QueryOne, Update, Follow, Unfollow, CatchUp, vars, history
  <2>2. QED
    BY <2>1, Stable DEF OpsInv, TypeOK
<1>3. ASSUME Justified(r), pc[r] # "idle" PROVE Justified(r)'
  BY <1>2, <1>3 DEF Justified
<1>4. CASE pc[r] = "error"
  <2>1. r \notin failed
    <3>1. ASSUME NEW q \in Requests, Asking(q) PROVE failed' = failed
      BY <3>1, Asks DEF Ask
    <3>2. QED
      BY <1>1, <3>1 DEF Next, InsertUser, QueryOne, Update, Follow, Unfollow, CatchUp,
        Fail, vars, history
  <2>2. QED
    BY <1>3, <1>4, <2>1 DEF ErrorsJustified, Justified
<1>5. CASE pc[r] # "error"
  <2>1. CASE InsertUser(r) /\ call[r].op = "register"
    <3>1. (~Hashable(call[r].password) \/ Taken(r)) /\ pc[r] # "idle"
      BY <1>1, <2>1 DEF InsertUser, Fail, Goto, TypeOK
    <3>2. Justified(r)
      BY <2>1, <3>1 DEF Hashable, Taken, RegisteredInv, Justified
    <3>3. QED
      BY <1>3, <3>1, <3>2
  <2>2. CASE QueryOne(r) /\ call[r].op # "register"
    <3>1. pc[r] = "read"
      BY <2>2 DEF QueryOne
    <3>2. PICK db \in Views :
            \/ \E u \in Asked(call[r], db) : Found(r, u, db[u])
            \/ Asked(call[r], db) = {}
      BY <1>1, <2>2 DEF QueryOne, Fail
    <3>3. CASE Asked(call[r], db) = {}
      BY <1>3, <2>2, <3>1, <3>3 DEF ShownInv, Justified
    <3>4. ASSUME NEW u \in Asked(call[r], db), Found(r, u, db[u]) PROVE Justified(r)
      <4>1. call[r].op = "login" /\ db[u].password # call[r].password
        BY <1>1, <3>4 DEF Found, Goto, TypeOK
      <4>2. u \in Ids /\ users[u].name = call[r].name
            /\ users[u].password # call[r].password
        BY <4>1 DEF Asked, Named, Views, ShownInv, TypeOK, Ids
      <4>3. QED
        BY <4>1, <4>2 DEF RegisteredInv, Justified
    <3>5. QED
      BY <1>3, <3>1, <3>2, <3>3, <3>4
  <2>3. CASE Update(r)
    BY <1>1, <2>3 DEF Update, Fail, Goto, TypeOK, OnError
  <2>4. QED
    BY <1>1, <1>5, <2>1, <2>2, <2>3, Answers
<1>6. QED
  BY <1>4, <1>5

(* Nobody is refused without a cause: not for a registration under way that     *)
(* fails, nor for texts and counts a replica has not yet.                      *)
THEOREM NotRefused == Spec => []ErrorsJustified
<1>1. Init => ErrorsJustified
  BY DEF Init, ErrorsJustified
<1>2. QED
  BY <1>1, Types, Registered, Shown, ErrorsStep, PTL DEF Spec

=============================================================================
