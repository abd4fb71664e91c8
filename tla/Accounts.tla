------------------------------ MODULE Accounts ------------------------------
(* Registration, login and profiles of the user service.  Writes go to the    *)
(* primary, single statements each; reads go through Reader(), so to the      *)
(* primary or to a replica that lags.  UpdateMe reads a row and then writes   *)
(* it, while follows change other columns of it.                              *)
EXTENDS Integers

CONSTANTS
  Requests,   \* the HTTP requests, one call each; a user's id is the call that
              \* registered it
  Names,      \* usernames
  Emails,
  Passwords,
  TooLong,    \* those of them with more bytes than bcrypt hashes (72)
  Texts,      \* display names and bios
  MaxFollows, \* bound: the follower_count of a user
  Faults      \* what may go wrong, a subset of FaultKinds

(* "db": a statement fails or its answer is lost; "lag": a replica is behind. *)
FaultKinds == {"db", "lag"}

ASSUME AccountsAssumption ==
  /\ MaxFollows \in Nat
  /\ TooLong \subseteq Passwords
  /\ Faults \subseteq FaultKinds

NoText == "empty"
NoCall == [op |-> "none"]
NoUser == [name |-> "none"]

VARIABLES
  users,    \* table users, committed: a row per id
  replica,  \* what the replica has of it
  pc,       \* per request: the statement it runs next, or its answer
  call,     \* per request: its arguments
  loaded,   \* per request: the row UpdateMe has read
  tokens,   \* the users for whom a token has been signed
  visible,  \* history: the calls that named a user all databases showed
  failed,   \* history: the calls of which a statement failed
  stored,   \* history: the calls whose profile was written
  before,   \* history: per request, the calls answered when it was made
  counted   \* history: per user, what Follow and Unfollow alone made of the
            \* follower_count

tables  == <<users, replica>>
history == <<visible, failed, stored, before, counted>>
vars    == <<tables, pc, call, loaded, tokens, history>>

Ids == DOMAIN users
Views == {users} \cup IF "lag" \in Faults THEN {replica} ELSE {}

(* WHERE username = $1, WHERE id = $1 *)
Named(db, name) == {u \in DOMAIN db : db[u].name = name}
WithId(db, id) == {u \in DOMAIN db : u = id}

(* The rows a call asks for. *)
Asked(c, db) == IF c.op = "update" THEN WithId(db, c.user) ELSE Named(db, c.name)

(* Operators that end in "Mutant" are slips with which a property must fail.  *)

(* The UNIQUE columns of users. *)
TakenMutant(r) == \E u \in Ids : users[u].email = call[r].email
Taken(r) == \E u \in Ids : users[u].name = call[r].name \/ users[u].email = call[r].email

(* bcrypt.GenerateFromPassword makes a hash of it. *)
Hashable(w) == w \notin TooLong

(* VALUES ($1, $2, $3, ...) *)
NewRowMutant(r) ==
  [name |-> call[r].name, email |-> call[r].email, password |-> call[r].email,
   display |-> NoText, bio |-> NoText, followers |-> 0]
NewRow(r) ==
  [name |-> call[r].name, email |-> call[r].email, password |-> call[r].password,
   display |-> NoText, bio |-> NoText, followers |-> 0]

(* UPDATE users SET display_name=$1, bio=$2 *)
UpdatedMutant(r, row) ==
  [loaded[r] EXCEPT !.display = call[r].display, !.bio = call[r].bio]
UpdatedMutant2(r, row) ==
  [row EXCEPT !.display = call[r].display,
              !.bio = IF loaded[r].bio = NoText THEN call[r].bio ELSE loaded[r].bio]
Updated(r, row) == [row EXCEPT !.display = call[r].display, !.bio = call[r].bio]

(* What an error of the UPDATE is answered with. *)
OnErrorMutant == "ok"
OnError == "error"

Init ==
  /\ users = [u \in {} |-> NoUser] /\ replica = users /\ counted = [u \in {} |-> 0]
  /\ pc = [r \in Requests |-> "idle"]
  /\ call = [r \in Requests |-> NoCall]
  /\ loaded = [r \in Requests |-> NoUser]
  /\ tokens = {} /\ visible = {} /\ failed = {} /\ stored = {}
  /\ before = [r \in Requests |-> {}]

-----------------------------------------------------------------------------
(* GREATEST(n - 1, 0) *)
FlooredDecrement(n) == IF n > 0 THEN n - 1 ELSE 0

Goto(r, p) == pc' = [pc EXCEPT ![r] = p]

Ask(r, c, p) ==
  /\ pc[r] = "idle"
  /\ call' = [call EXCEPT ![r] = c]
  /\ Goto(r, p)
  /\ before' = [before EXCEPT ![r] = {q \in Requests : pc[q] \in {"ok", "error"}}]
  /\ UNCHANGED <<tables, loaded, tokens, failed, stored, counted>>

AskRegister(r, n, e, w) ==
  /\ Ask(r, [op |-> "register", name |-> n, email |-> e, password |-> w], "insert")
  /\ UNCHANGED visible

(* auth.Middleware: the bearer token is one signed for u.                      *)
Authenticated(u) == u \in tokens

(* Login, GetUser and, behind the JWT middleware, UpdateMe start with a read. *)
AskRead(r, c) ==
  /\ Ask(r, c, "read")
  /\ visible' = IF \A db \in Views : Asked(c, db) # {} THEN visible \cup {r} ELSE visible

AskLogin(r, n, w) == AskRead(r, [op |-> "login", name |-> n, password |-> w])
AskUser(r, n) == AskRead(r, [op |-> "get", name |-> n])
AskUpdate(r, u, d, b) ==
  Authenticated(u) /\ AskRead(r, [op |-> "update", user |-> u, display |-> d, bio |-> b])

(* A statement fails and the call with it. *)
Fail(r) ==
  /\ "db" \in Faults
  /\ failed' = failed \cup {r}

(* Register hashes the password, which ends the call if it is too long, then   *)
(* INSERT INTO users ... RETURNING id, then the token of the new user.         *)
InsertUser(r) ==
  /\ pc[r] = "insert"
  /\ \/ /\ Hashable(call[r].password) /\ ~Taken(r)
        /\ users' = [u \in Ids \cup {r} |-> IF u = r THEN NewRow(r) ELSE users[u]]
        /\ counted' = [u \in Ids \cup {r} |-> IF u = r THEN 0 ELSE counted[u]]
        /\ \/ Goto(r, "ok") /\ tokens' = tokens \cup {r} /\ UNCHANGED failed
           \/ Goto(r, "error") /\ Fail(r) /\ UNCHANGED tokens
     \/ /\ ~Hashable(call[r].password) \/ Taken(r)
        /\ Goto(r, "error")
        /\ UNCHANGED <<users, counted, tokens, failed>>
     \/ /\ Hashable(call[r].password)
        /\ Goto(r, "error") /\ Fail(r)
        /\ UNCHANGED <<users, counted, tokens>>
  /\ UNCHANGED <<replica, call, loaded, visible, stored, before>>

(* queryOne in any database.  No row is an error like any other.              *)
Found(r, u, row) ==
  \/ /\ call[r].op = "login" /\ row.password = call[r].password
     /\ Goto(r, "ok") /\ tokens' = tokens \cup {u} /\ UNCHANGED loaded
  \/ /\ call[r].op = "login" /\ row.password # call[r].password
     /\ Goto(r, "error") /\ UNCHANGED <<tokens, loaded>>
  \/ call[r].op = "get" /\ Goto(r, "ok") /\ UNCHANGED <<tokens, loaded>>
  \/ /\ call[r].op = "update"
     /\ Goto(r, "update") /\ loaded' = [loaded EXCEPT ![r] = row] /\ UNCHANGED tokens

QueryOne(r) ==
  /\ pc[r] = "read"
  /\ \/ /\ \E db \in Views :
             \/ \E u \in Asked(call[r], db) : Found(r, u, db[u])
             \/ /\ Asked(call[r], db) = {}
                /\ Goto(r, "error") /\ UNCHANGED <<tokens, loaded>>
        /\ UNCHANGED failed
     \/ Goto(r, "error") /\ Fail(r) /\ UNCHANGED <<tokens, loaded>>
  /\ UNCHANGED <<tables, call, visible, stored, before, counted>>

(* The UPDATE, on the primary. *)
Update(r) ==
  LET u == call[r].user IN
  /\ pc[r] = "update"
  /\ \/ /\ users' = [users EXCEPT ![u] = Updated(r, @)]
        /\ stored' = stored \cup {r}
        /\ \/ Goto(r, "ok") /\ UNCHANGED failed
           \/ Goto(r, OnError) /\ Fail(r)
     \/ Goto(r, OnError) /\ Fail(r) /\ UNCHANGED <<users, stored>>
  /\ UNCHANGED <<replica, call, loaded, tokens, visible, before, counted>>

-----------------------------------------------------------------------------
(* Follow and Unfollow of followee u, as they commit (see FollowGraph).       *)
Follow(u) ==
  /\ u \in Ids /\ counted[u] < MaxFollows
  /\ users' = [users EXCEPT ![u].followers = @ + 1]
  /\ counted' = [counted EXCEPT ![u] = @ + 1]
  /\ UNCHANGED <<replica, pc, call, loaded, tokens, visible, failed, stored, before>>

Unfollow(u) ==
  /\ u \in Ids
  /\ users' = [users EXCEPT ![u].followers = FlooredDecrement(@)]
  /\ counted' = [counted EXCEPT ![u] = FlooredDecrement(@)]
  /\ UNCHANGED <<replica, pc, call, loaded, tokens, visible, failed, stored, before>>

(* Replication: any state of the primary may be the next the replica shows.   *)
CatchUp ==
  /\ "lag" \in Faults
  /\ replica' = users
  /\ UNCHANGED <<users, pc, call, loaded, tokens, history>>

Asking(r) ==
  \/ \E n \in Names, w \in Passwords :
       AskLogin(r, n, w) \/ \E e \in Emails : AskRegister(r, n, e, w)
  \/ \E n \in Names : AskUser(r, n)
  \/ \E u \in Requests, d, b \in Texts : AskUpdate(r, u, d, b)

Next ==
  \/ \E r \in Requests : Asking(r) \/ InsertUser(r) \/ QueryOne(r) \/ Update(r)
  \/ \E u \in Requests : Follow(u) \/ Unfollow(u)
  \/ CatchUp

Spec == Init /\ [][Next]_vars

-----------------------------------------------------------------------------
(* Properties. *)

Rows ==
  [name : Names, email : Emails, password : Passwords,
   display : Texts \cup {NoText}, bio : Texts \cup {NoText}, followers : Nat]

Calls ==
  [op : {"register"}, name : Names, email : Emails, password : Passwords]
    \cup [op : {"login"}, name : Names, password : Passwords]
    \cup [op : {"get"}, name : Names]
    \cup [op : {"update"}, user : Requests, display : Texts, bio : Texts]

TypeOK ==
  /\ Ids \subseteq Requests /\ users \in [Ids -> Rows]
  /\ DOMAIN replica \subseteq Ids /\ replica \in [DOMAIN replica -> Rows]
  /\ counted \in [Ids -> 0 .. MaxFollows]
  /\ pc \in [Requests -> {"idle", "insert", "read", "update", "ok", "error"}]
  /\ call \in [Requests -> Calls \cup {NoCall}]
  /\ \A r \in Requests : IF pc[r] = "idle" THEN call[r] = NoCall ELSE call[r] \in Calls
  /\ loaded \in [Requests -> Rows \cup {NoUser}]
  /\ tokens \subseteq Ids
  /\ visible \subseteq Requests /\ failed \subseteq Requests /\ stored \subseteq Requests
  /\ before \in [Requests -> SUBSET Requests]

(* UpdateMe: "so we only change the two mutable fields".  A profile written    *)
(* from a row that is stale by then leaves follower_count as Follow and         *)
(* Unfollow have made it.                                                      *)
CountersKept == \A u \in Ids : users[u].followers = counted[u]

Answered(r, op) == pc[r] = "ok" /\ call[r].op = op

(* Of registrations under way at the same time only one gets a username or an  *)
(* email.                                                                      *)
OneOwner ==
  \A q, r \in Requests :
    /\ Answered(q, "register") /\ Answered(r, "register")
    /\ call[q].name = call[r].name \/ call[q].email = call[r].email
    => q = r

(* r has written the profile u shows, both texts of it. *)
Wrote(r, u) ==
  /\ r \in stored /\ call[r].op = "update" /\ call[r].user = u
  /\ call[r].display = users[u].display /\ call[r].bio = users[u].bio

(* A profile is as one call wrote it, never the display name of one and the    *)
(* bio of another of two calls that overlap.                                   *)
ProfileWhole ==
  \A u \in Ids :
    \/ users[u].display = NoText /\ users[u].bio = NoText
    \/ \E r \in stored : Wrote(r, u)

(* An update answered as done is lost to no call but one that came later or    *)
(* overlapped: the profile shown is by a call not answered before it was made. *)
UpdatesKept ==
  \A q \in Requests :
    Answered(q, "update") =>
      \E r \in stored : Wrote(r, call[q].user) /\ r \notin before[q]

(* An error has a cause: a statement failed, the name or email is another      *)
(* user's, the password is too long to be hashed or not the one registered, or *)
(* some database did not show the user when he asked.  It is about well-formed *)
(* calls; a statement fails also for a name longer than its column.            *)
ErrorsJustified ==
  \A r \in Requests \ failed :
    pc[r] = "error" =>
      \/ /\ call[r].op = "register"
         /\ \/ call[r].password \in TooLong
            \/ \E u \in Ids : \/ call[u].name = call[r].name
                             \/ call[u].email = call[r].email
      \/ call[r].op # "register" /\ r \notin visible
      \/ /\ call[r].op = "login"
         /\ \E u \in Ids : call[u].name = call[r].name
                          /\ call[u].password # call[r].password
=============================================================================
