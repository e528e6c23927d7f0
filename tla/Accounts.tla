------------------------------ MODULE Accounts ------------------------------
(***************************************************************************)
(* The users of the chat (data_server/user_manager.c, and the first three  *)
(* cases of handle_action) with several sessions of the logic server at    *)
(* work on them.                                                           *)
(*                                                                         *)
(* A request is served by a child of the data server with one query, and a *)
(* login takes two: VALIDATE_USER for the password and, on a connection of *)
(* its own, GET_USER_INFO for the id that goes into the token.  Between the*)
(* two other sessions may create accounts whose username is the key, or    *)
(* whose email is.  LogicSession has the whole of a session; here it is    *)
(* reduced to the requests that touch users.                               *)
(***************************************************************************)
EXTENDS Integers, Sequences

CONSTANTS
    Sessions,
    Strings,     \* usernames and email addresses
    Passwords,   \* users.password_hash, which the client computes
    Cut,         \* their first 64 characters, which validate_user copies
    Rubbish,     \* what memory that was never written reads as
    Requests,    \* what a client may send
    SystemRow,   \* the row with user_id 1
    MaxUsers,
    MaxRequests, \* requests of all sessions together
    MaxFaults,   \* failed queries and lost connections
    None

SystemUser == 1

Row(name, email, hash) == [username |-> name, email |-> email, hash |-> hash]
Rows == [username: Strings, email: Strings, hash: Passwords]

\* form is "bad" when a field is there and is no string.
RequestType ==
    [op: {"CREATE_USER"}, username: Strings, email: Strings, password: Passwords,
     form: {"ok", "bad"}]
    \cup [op: {"VALIDATE_USER"}, key: Strings, password: Passwords]

NoRequest == [op |-> "none"]

ASSUME RequestsAssumption == Requests \subseteq RequestType
ASSUME RowsAssumption ==
    /\ SystemRow \in Rows
    /\ Rubbish \in Strings /\ Rubbish \in Passwords
    /\ Cut \in [Passwords -> Passwords]
    /\ None \notin Passwords
ASSUME BoundsAssumption ==
    MaxUsers \in Nat \ {0} /\ MaxRequests \in Nat /\ MaxFaults \in Nat

VARIABLES
    users,    \* the table users; the position of a row is its user_id
    pc,       \* where a session and the child that serves it are
    req,      \* current_request
    hash,     \* password_hash in the answer to VALIDATE_USER, or None
    told,     \* what the client was told last
    acked,    \* history: rows whose creation was acknowledged
    known,    \* history: acked when the request was sent
    hit,      \* history: whether a fault ended the session's last request
    count,
    faults

vars == <<users, pc, req, hash, told, acked, known, hit, count, faults>>

\* kind is "none", "created", "failed", "token", "denied" or "lost"; id is the
\* user of the token, or the row that was created.
Told(kind, id) == [kind |-> kind, id |-> id]

Init ==
    /\ users  = <<SystemRow>>
    /\ pc     = [s \in Sessions |-> "idle"]
    /\ req    = [s \in Sessions |-> NoRequest]
    /\ hash   = [s \in Sessions |-> None]
    /\ told   = [s \in Sessions |-> Told("none", 0)]
    /\ acked  = {}
    /\ known  = [s \in Sessions |-> {}]
    /\ hit    = [s \in Sessions |-> FALSE]
    /\ count  = 0
    /\ faults = 0

-----------------------------------------------------------------------------
(* The table. *)

Ids == 1 .. Len(users)

\* Mutant: WHERE username = '%s' only.
Named_UsernameOnly(i, k) == users[i].username = k

\* WHERE username = '%s' OR email = '%s'
Named(i, k) == users[i].username = k \/ users[i].email = k

\* Mutant: the newest row comes first.
Selected_Newest(i, k) ==
    i \in Ids /\ Named(i, k) /\ \A j \in Ids : Named(j, k) => j <= i

\* mysql_fetch_row gives the first row of the result: rows come in the order of
\* the primary key.
Selected(i, k) ==
    i \in Ids /\ Named(i, k) /\ \A j \in Ids : Named(j, k) => i <= j

Unknown(k) == \A i \in Ids : ~Named(i, k)

\* Mutant: only the username is a unique key.
Duplicate_Username(r) == \E i \in Ids : users[i].username = r.username

\* The unique keys: "an identical username or email already exists in users".
Duplicate(r) ==
    \E i \in Ids : users[i].username = r.username \/ users[i].email = r.email

-----------------------------------------------------------------------------
(* The sessions and the children that serve them. *)

Goto(s, to) == pc' = [pc EXCEPT ![s] = to]
Tell(s, kind, id) ==
    /\ told' = [told EXCEPT ![s] = Told(kind, id)]
    /\ Goto(s, "idle")

Ask(s) ==
    /\ pc[s] = "idle"
    /\ count < MaxRequests /\ count' = count + 1
    /\ \E r \in Requests :
          /\ req' = [req EXCEPT ![s] = r]
          /\ Goto(s, r.op)
    /\ known' = [known EXCEPT ![s] = acked]
    /\ hit' = [hit EXCEPT ![s] = FALSE]
    /\ hash' = [hash EXCEPT ![s] = None]
    /\ UNCHANGED <<users, told, acked, faults>>

\* create_user stores a row, and the answer is on its way.
Store(s, r) ==
    /\ Len(users) < MaxUsers
    /\ users' = Append(users, r)
    /\ told' = [told EXCEPT ![s] = Told("none", Len(users) + 1)]
    /\ Goto(s, "stored")

\* The INSERT.  When a field is no string newUser is not assigned, and the
\* query is made of what its pointers happen to point to.
CreateUser(s) ==
    LET r == req[s] IN
    /\ pc[s] = "CREATE_USER"
    /\ \E row \in IF r.form = "ok" THEN {Row(r.username, r.email, r.password)}
                  ELSE {Row(Rubbish, Rubbish, Rubbish)} :
          \/ Duplicate(row) /\ Tell(s, "failed", 0) /\ UNCHANGED users
          \/ ~Duplicate(row) /\ Store(s, row)
    /\ UNCHANGED <<req, hash, acked, known, hit, count, faults>>

\* ... or the child does not survive to use, or to free, those pointers.
CreateUserCrashes(s) ==
    /\ pc[s] \in {"CREATE_USER", "stored"}
    /\ req[s].form = "bad"
    /\ Tell(s, "lost", 0)
    /\ UNCHANGED <<users, req, hash, acked, known, hit, count, faults>>

\* "User %s with email %s has been stored in the database"
Created(s) ==
    /\ pc[s] = "stored"
    /\ acked' = acked \cup {told[s].id}
    /\ Tell(s, "created", told[s].id)
    /\ UNCHANGED <<users, req, hash, known, hit, count, faults>>

\* validate_user: the first row, unless it is the system user's, and the first
\* 64 characters of its password_hash.
ValidateUser(s) ==
    /\ pc[s] = "VALIDATE_USER"
    /\ \/ \E i \in Ids \ {SystemUser} :
             /\ Selected(i, req[s].key)
             /\ hash' = [hash EXCEPT ![s] = Cut[users[i].hash]]
       \/ /\ Unknown(req[s].key) \/ Selected(SystemUser, req[s].key)
          /\ UNCHANGED hash
    /\ Goto(s, "compare")
    /\ UNCHANGED <<users, req, told, acked, known, hit, count, faults>>

\* AUTH_STATE_INITIAL: the passwords are compared.
Compare(s) ==
    /\ pc[s] = "compare"
    /\ \/ /\ hash[s] = req[s].password
          /\ Goto(s, "GET_USER_INFO")
          /\ UNCHANGED told
       \/ /\ hash[s] # req[s].password
          /\ Tell(s, "denied", 0)
    /\ UNCHANGED <<users, req, hash, acked, known, hit, count, faults>>

\* get_user_info and AUTH_STATE_VALIDATED.
GetUserInfo(s) ==
    /\ pc[s] = "GET_USER_INFO"
    /\ \/ \E i \in Ids : Selected(i, req[s].key) /\ Tell(s, "token", i)
       \/ Unknown(req[s].key) /\ Tell(s, "denied", 0)
    /\ UNCHANGED <<users, req, hash, acked, known, hit, count, faults>>

\* A query fails, or the balancer has no server for the request: the answer has
\* a code other than 200.  The client sees that of CREATE_USER as it is; of both
\* steps of a login the logic server makes "Invalid credentials".
QueryFails(s) ==
    /\ pc[s] \in {"CREATE_USER", "VALIDATE_USER", "GET_USER_INFO"}
    /\ faults < MaxFaults /\ faults' = faults + 1
    /\ Tell(s, IF pc[s] = "CREATE_USER" THEN "failed" ELSE "denied", 0)
    /\ hit' = [hit EXCEPT ![s] = TRUE]
    /\ UNCHANGED <<users, req, hash, acked, known, count>>

\* The connection to the data server ends without an answer, the answer comes
\* torn, or the connection for the second step is refused: the client does not
\* know what was stored.
SessionFails(s) ==
    /\ pc[s] # "idle"
    /\ faults < MaxFaults /\ faults' = faults + 1
    /\ Tell(s, "lost", 0)
    /\ hit' = [hit EXCEPT ![s] = TRUE]
    /\ UNCHANGED <<users, req, hash, acked, known, count>>

Next ==
    \E s \in Sessions :
       \/ Ask(s)
       \/ CreateUser(s) \/ CreateUserCrashes(s) \/ Created(s)
       \/ ValidateUser(s) \/ Compare(s) \/ GetUserInfo(s)
       \/ QueryFails(s) \/ SessionFails(s)

Spec == Init /\ [][Next]_vars

-----------------------------------------------------------------------------
(* Properties. *)

Positions == {"idle", "CREATE_USER", "stored", "VALIDATE_USER", "compare", "GET_USER_INFO"}
ToldType == [kind: {"none", "created", "failed", "token", "denied", "lost"}, id: 0 .. MaxUsers]

TypeOK ==
    /\ users \in Seq(Rows) /\ Len(users) \in 1 .. MaxUsers
    /\ \A i, j \in Ids : i # j => /\ users[i].username # users[j].username
                                  /\ users[i].email # users[j].email
    /\ pc \in [Sessions -> Positions]
    /\ req \in [Sessions -> Requests \cup {NoRequest}]
    /\ hash \in [Sessions -> Passwords \cup {None}]
    /\ told \in [Sessions -> ToldType]
    /\ acked \subseteq Ids
    /\ known \in [Sessions -> SUBSET acked]
    /\ hit \in [Sessions -> BOOLEAN]
    /\ count \in 0 .. MaxRequests
    /\ faults \in 0 .. MaxFaults

\* The user in a token is the one whose password was checked, as far as it is
\* copied, and never the system user: accounts that others create between
\* VALIDATE_USER and GET_USER_INFO, though their username may be somebody's email,
\* do not come in between.
TokenForChecked ==
    \A s \in Sessions : told[s].kind = "token" /\ pc[s] = "idle" =>
        LET i == told[s].id IN
        /\ i \in Ids /\ i # SystemUser
        /\ Named(i, req[s].key)
        /\ Cut[users[i].hash] = req[s].password

\* A login with the username or email and the password of an account that was
\* acknowledged before is denied only if an older account has the key too, if
\* the password is longer than what validate_user copies, or if a query of that
\* very login failed: what fails for another session is no reason.
DeniedForAReason ==
    \A s \in Sessions : told[s].kind = "denied" /\ pc[s] = "idle" /\ ~hit[s] =>
        \A i \in known[s] :
            LET k == req[s].key IN
            /\ users[i].username = k \/ users[i].email = k
            /\ users[i].hash = req[s].password
            /\ Cut[users[i].hash] = users[i].hash
            => \E j \in 1 .. i - 1 : users[j].username = k \/ users[j].email = k

=============================================================================
