--------------------------- MODULE AccountsProofs ---------------------------
(***************************************************************************)
(* What a login proves, for any number of sessions, accounts and requests. *)
(* Everything rests on one fact: a row is only ever appended, so that the  *)
(* row a query selected is the one every later query with that key selects.*)
(***************************************************************************)
EXTENDS Accounts, TLAPS

\* A session is served for the request it sent, with no hash in hand yet.
Serves ==
    \A s \in Sessions :
        /\ pc[s] \in {"CREATE_USER", "stored"} => req[s].op = "CREATE_USER"
        /\ pc[s] \in {"VALIDATE_USER", "compare", "GET_USER_INFO"} =>
              req[s].op = "VALIDATE_USER" /\ req[s] \in Requests
        /\ pc[s] # "idle" => req[s] \in Requests
        /\ pc[s] = "VALIDATE_USER" => hash[s] = None

\* The rows that create_user stored, never the system user's.
StoredRows ==
    /\ SystemUser \notin acked
    /\ \A s \in Sessions : pc[s] = "stored" => told[s].id \in Ids \ {SystemUser}

\* The row a login is about.
Checked(s, i) == i \in Ids \ {SystemUser} /\ Selected(i, req[s].key)

\* A hash in hand is that of the row the key selects, and of an account that
\* was known and has the key before all others the hash is in hand.
InHand(s) ==
    pc[s] = "compare" =>
        /\ hash[s] # None => \E i \in Ids : Checked(s, i) /\ Cut[users[i].hash] = hash[s]
        /\ \A i \in known[s] : Checked(s, i) => hash[s] = Cut[users[i].hash]

\* From the comparison on the password is that of the row the key selects.
Passed(s) ==
    pc[s] = "GET_USER_INFO" =>
        \E i \in Ids : Checked(s, i) /\ Cut[users[i].hash] = req[s].password

\* TokenForChecked and DeniedForAReason, for one session.
TokenRight(s) ==
    told[s].kind = "token" /\ pc[s] = "idle" =>
        /\ told[s].id \in Ids /\ told[s].id # SystemUser
        /\ Named(told[s].id, req[s].key)
        /\ Cut[users[told[s].id].hash] = req[s].password

DenialRight(s) ==
    told[s].kind = "denied" /\ pc[s] = "idle" /\ ~hit[s] =>
        \A i \in known[s] :
            Named(i, req[s].key) /\ users[i].hash = req[s].password /\ Cut[users[i].hash] = users[i].hash
            => \E j \in 1 .. i - 1 : Named(j, req[s].key)

Login(s) == InHand(s) /\ Passed(s) /\ TokenRight(s) /\ DenialRight(s)
Logins   == \A s \in Sessions : Login(s)
IInv     == TypeOK /\ Serves /\ StoredRows /\ Logins

-----------------------------------------------------------------------------
(* The table. *)

\* A step on the users leaves the rows there are as they are.
Keeps ==
    /\ users \in Seq(Rows) /\ users' \in Seq(Rows)
    /\ Len(users) <= Len(users')
    /\ \A i \in 1 .. Len(users) : users'[i] = users[i]

LEMMA AppendKeeps ==
    ASSUME users \in Seq(Rows), NEW r \in Rows, users' = Append(users, r)
    PROVE  Keeps /\ Len(users') = Len(users) + 1 /\ users'[Len(users) + 1] = r
  BY DEF Keeps

LEMMA SelectedStays ==
    ASSUME Keeps, NEW k, NEW i, Selected(i, k)
    PROVE  Selected(i, k)' /\ i \in Ids' /\ users'[i] = users[i]
<1>1. i \in Ids /\ i \in Ids' /\ users'[i] = users[i]
  BY DEF Keeps, Selected, Ids
<1>2. Named(i, k)'
  BY <1>1 DEF Selected, Named
<1>3. ASSUME NEW j \in Ids', Named(j, k)'
      PROVE  i <= j
  <2>1. CASE j \in Ids
    BY <2>1, <1>3 DEF Keeps, Selected, Named, Ids
  <2>2. CASE j \notin Ids
    BY <2>2, <1>1 DEF Keeps, Ids
  <2> QED
    BY <2>1, <2>2
<1> QED
  BY <1>1, <1>2, <1>3 DEF Selected

\* Only one row is the first.
LEMMA OneSelected ==
    ASSUME NEW k, NEW i, NEW j, Selected(i, k), Selected(j, k)
    PROVE  i = j
  BY DEF Selected, Ids

LEMMA SelectedOrOlder ==
    ASSUME NEW k, NEW i \in Ids, Named(i, k), \A j \in 1 .. i - 1 : ~Named(j, k)
    PROVE  Selected(i, k)
  BY DEF Selected, Ids

\* Two rows never share a username or an email.
Distinct ==
    \A i, j \in Ids : i # j => /\ users[i].username # users[j].username
                               /\ users[i].email # users[j].email

LEMMA StaysDistinct ==
    ASSUME users \in Seq(Rows), Distinct, NEW r \in Rows, ~Duplicate(r),
           users' = Append(users, r)
    PROVE  Distinct'
<1>1. Keeps /\ Len(users') = Len(users) + 1 /\ users'[Len(users) + 1] = r
  BY AppendKeeps
<1> SUFFICES ASSUME NEW i \in Ids', NEW j \in Ids', i # j
             PROVE  /\ users'[i].username # users'[j].username
                    /\ users'[i].email # users'[j].email
  BY DEF Distinct
<1>2. CASE i \in Ids /\ j \in Ids
  BY <1>1, <1>2 DEF Distinct, Keeps, Ids
<1>3. CASE i = Len(users) + 1 \/ j = Len(users) + 1
  BY <1>1, <1>3 DEF Duplicate, Keeps, Ids
<1> QED
  BY <1>1, <1>2, <1>3 DEF Ids, Keeps

-----------------------------------------------------------------------------
(* Each action, on the types and on whom it serves. *)

Base == TypeOK /\ Serves /\ StoredRows

LEMMA RequestTyped ==
    ASSUME NEW r \in Requests
    PROVE  /\ r \in RequestType
           /\ r.op \in {"CREATE_USER", "VALIDATE_USER"}
           /\ r.op = "CREATE_USER" => /\ r.username \in Strings /\ r.email \in Strings
                                      /\ r.password \in Passwords
           /\ r.op = "VALIDATE_USER" => r.password \in Passwords
  BY RequestsAssumption DEF RequestType

LEMMA ToldTyped ==
    ASSUME NEW k \in {"none", "created", "failed", "token", "denied", "lost"},
           NEW id \in 0 .. MaxUsers
    PROVE  Told(k, id) \in ToldType /\ Told(k, id).kind = k /\ Told(k, id).id = id
  BY DEF Told, ToldType

\* An answer changes nothing but told and pc of its session.
LEMMA TellKeepsBase ==
    ASSUME Base, NEW s \in Sessions, NEW id \in 0 .. MaxUsers, NEW n \in 0 .. MaxFaults,
           NEW k \in {"none", "created", "failed", "token", "denied", "lost"},
           Tell(s, k, id), faults' = n, UNCHANGED <<users, req, hash, known, count>>,
           acked' \subseteq Ids \ {SystemUser}, acked \subseteq acked',
           hit' \in [Sessions -> BOOLEAN]
    PROVE  Base'
<1>0. Told(k, id) \in ToldType
  BY ToldTyped
<1>1. TypeOK'
  <2>1. told' \in [Sessions -> ToldType] /\ pc' \in [Sessions -> Positions]
    BY <1>0 DEF Base, TypeOK, Tell, Goto, Positions
  <2>2. acked' \subseteq Ids /\ known' \in [Sessions -> SUBSET acked']
    BY DEF Base, TypeOK
  <2> QED
    BY <2>1, <2>2 DEF Base, TypeOK, Ids
<1>2. Serves'
  BY DEF Base, TypeOK, Serves, Tell, Goto
<1>3. StoredRows'
  <2> SUFFICES ASSUME NEW t \in Sessions, pc'[t] = "stored"
               PROVE  told'[t].id \in Ids \ {SystemUser}
    BY DEF StoredRows, Ids
  <2>1. t # s
    BY DEF Base, TypeOK, Tell, Goto
  <2> QED
    BY <2>1 DEF Base, TypeOK, StoredRows, Tell, Goto
<1> QED
  BY <1>1, <1>2, <1>3 DEF Base

LEMMA AskBase ==
    ASSUME Base, NEW s \in Sessions, Ask(s)
    PROVE  Base'
<1>1. PICK r \in Requests : req' = [req EXCEPT ![s] = r] /\ pc' = [pc EXCEPT ![s] = r.op]
  BY DEF Ask, Goto
<1>2. r.op \in {"CREATE_USER", "VALIDATE_USER"}
  BY RequestTyped
<1>3. TypeOK'
  BY <1>1, <1>2, BoundsAssumption DEF Base, TypeOK, Ask, Positions, Ids
<1>4. Serves'
  BY <1>1, <1>2 DEF Base, TypeOK, Serves, Ask
<1>5. StoredRows'
  BY <1>1, <1>2 DEF Base, TypeOK, StoredRows, Ask, Ids
<1> QED
  BY <1>3, <1>4, <1>5 DEF Base

\* What create_user inserts is a row.
LEMMA InsertedRow ==
    ASSUME Base, NEW s \in Sessions, pc[s] = "CREATE_USER",
           NEW row \in IF req[s].form = "ok"
                       THEN {Row(req[s].username, req[s].email, req[s].password)}
                       ELSE {Row(Rubbish, Rubbish, Rubbish)}
    PROVE  row \in Rows
<1>1. req[s] \in Requests /\ req[s].op = "CREATE_USER"
  BY DEF Base, Serves
<1>2. /\ req[s].username \in Strings /\ req[s].email \in Strings
      /\ req[s].password \in Passwords
  BY <1>1, RequestTyped
<1> QED
  BY <1>2, RowsAssumption DEF Row, Rows

LEMMA StoreBase ==
    ASSUME Base, NEW s \in Sessions, pc[s] = "CREATE_USER", NEW r \in Rows,
           ~Duplicate(r), Store(s, r),
           UNCHANGED <<req, hash, acked, known, hit, count, faults>>
    PROVE  Base' /\ Keeps
<1> DEFINE n == Len(users) + 1
<1>1. Keeps /\ Len(users') = n /\ n \in 2 .. MaxUsers /\ users' \in Seq(Rows)
  BY AppendKeeps, BoundsAssumption DEF Base, TypeOK, Store, Keeps, Ids
<1>2. /\ told' = [told EXCEPT ![s] = Told("none", n)]
      /\ pc' = [pc EXCEPT ![s] = "stored"]
  BY DEF Store, Goto
<1>3. Told("none", n) \in ToldType /\ Told("none", n).id = n
  BY <1>1, ToldTyped
<1>4. Ids' = 1 .. n /\ Ids \subseteq Ids' /\ n \notin Ids
  BY <1>1 DEF Ids, Base, TypeOK
<1>5. Distinct'
  BY StaysDistinct DEF Base, TypeOK, Distinct, Store
<1>6. TypeOK'
  BY <1>1, <1>2, <1>3, <1>4, <1>5 DEF Base, TypeOK, Positions, Distinct
<1>7. Serves'
  BY <1>2 DEF Base, TypeOK, Serves
<1>8. StoredRows'
  <2> SUFFICES ASSUME NEW t \in Sessions, pc'[t] = "stored"
               PROVE  told'[t].id \in Ids' \ {SystemUser}
    BY DEF Base, StoredRows
  <2>1. CASE t = s
    BY <2>1, <1>1, <1>2, <1>3, <1>4 DEF Base, TypeOK, SystemUser
  <2>2. CASE t # s
    BY <2>2, <1>2, <1>4 DEF Base, TypeOK, StoredRows
  <2> QED
    BY <2>1, <2>2
<1> QED
  BY <1>1, <1>6, <1>7, <1>8 DEF Base

\* An answer that leaves the rows and the faults alone.
LEMMA PlainTellBase ==
    ASSUME Base, NEW s \in Sessions, NEW k \in {"failed", "token", "denied", "lost"},
           NEW id \in Ids \cup {0}, Tell(s, k, id),
           UNCHANGED <<users, req, hash, acked, known, hit, count, faults>>
    PROVE  Base'
<1>1. /\ id \in 0 .. MaxUsers /\ faults \in 0 .. MaxFaults
      /\ acked \subseteq Ids \ {SystemUser} /\ hit' \in [Sessions -> BOOLEAN]
  BY BoundsAssumption DEF Base, TypeOK, StoredRows, Ids
<1> QED
  BY <1>1, TellKeepsBase

LEMMA CreateUserBase ==
    ASSUME Base, NEW s \in Sessions, CreateUser(s)
    PROVE  Base' /\ Keeps
<1>1. PICK row \in IF req[s].form = "ok"
                   THEN {Row(req[s].username, req[s].email, req[s].password)}
                   ELSE {Row(Rubbish, Rubbish, Rubbish)} :
          \/ Duplicate(row) /\ Tell(s, "failed", 0) /\ UNCHANGED users
          \/ ~Duplicate(row) /\ Store(s, row)
  BY DEF CreateUser
<1>2. row \in Rows
  BY <1>1, InsertedRow DEF CreateUser
<1>3. CASE Tell(s, "failed", 0) /\ UNCHANGED users
  BY <1>3, PlainTellBase DEF CreateUser, Keeps, Base, TypeOK
<1>4. CASE ~Duplicate(row) /\ Store(s, row)
  BY <1>2, <1>4, StoreBase DEF CreateUser
<1> QED
  BY <1>1, <1>3, <1>4

LEMMA CreatedBase ==
    ASSUME Base, NEW s \in Sessions, Created(s)
    PROVE  Base'
<1>1. told[s].id \in Ids \ {SystemUser}
  BY DEF Base, StoredRows, Created
<1>2. told[s].id \in 0 .. MaxUsers
  BY <1>1, BoundsAssumption DEF Base, TypeOK, Ids
<1>3. acked' \subseteq Ids \ {SystemUser} /\ acked \subseteq acked'
  BY <1>1 DEF Base, TypeOK, StoredRows, Created
<1>4. faults \in 0 .. MaxFaults /\ hit' \in [Sessions -> BOOLEAN]
  BY DEF Base, TypeOK, Created
<1> QED
  BY <1>2, <1>3, <1>4, TellKeepsBase DEF Created

LEMMA ValidateUserBase ==
    ASSUME Base, NEW s \in Sessions, ValidateUser(s)
    PROVE  Base'
<1>1. hash' \in [Sessions -> Passwords \cup {None}]
  <2>1. CASE UNCHANGED hash
    BY <2>1 DEF Base, TypeOK
  <2>2. ASSUME NEW i \in Ids,
               hash' = [hash EXCEPT ![s] = Cut[users[i].hash]]
        PROVE  hash' \in [Sessions -> Passwords \cup {None}]
    <3>1. users[i] \in Rows
      BY DEF Base, TypeOK, Ids
    <3>2. users[i].hash \in Passwords
      BY <3>1 DEF Rows
    <3>3. Cut[users[i].hash] \in Passwords
      BY <3>2, RowsAssumption
    <3> QED
      BY <2>2, <3>3 DEF Base, TypeOK
  <2> QED
    BY <2>1, <2>2 DEF ValidateUser
<1>2. pc' = [pc EXCEPT ![s] = "compare"]
  BY DEF ValidateUser, Goto
<1>3. TypeOK'
  BY <1>1, <1>2 DEF Base, TypeOK, ValidateUser, Positions, Ids
<1>4. Serves'
  BY <1>2 DEF Base, TypeOK, Serves, ValidateUser
<1>5. StoredRows'
  BY <1>2 DEF Base, TypeOK, StoredRows, ValidateUser, Ids
<1> QED
  BY <1>3, <1>4, <1>5 DEF Base

LEMMA CompareBase ==
    ASSUME Base, NEW s \in Sessions, Compare(s)
    PROVE  Base'
<1>1. CASE Tell(s, "denied", 0)
  BY <1>1, PlainTellBase DEF Compare
<1>2. CASE Goto(s, "GET_USER_INFO") /\ UNCHANGED told
  <2>1. pc' = [pc EXCEPT ![s] = "GET_USER_INFO"]
    BY <1>2 DEF Goto
  <2>2. TypeOK'
    BY <1>2, <2>1 DEF Base, TypeOK, Compare, Positions, Ids
  <2>3. Serves'
    BY <2>1 DEF Base, TypeOK, Serves, Compare
  <2>4. StoredRows'
    BY <1>2, <2>1 DEF Base, TypeOK, StoredRows, Compare, Ids
  <2> QED
    BY <2>2, <2>3, <2>4 DEF Base
<1> QED
  BY <1>1, <1>2 DEF Compare

LEMMA NextBase ==
    ASSUME Base, [Next]_vars
    PROVE  Base'
<1>1. CASE UNCHANGED vars
  BY <1>1 DEF vars, Base, TypeOK, Serves, StoredRows, Ids
<1>2. ASSUME NEW s \in Sessions, Ask(s) PROVE Base'
  BY <1>2, AskBase
<1>3. ASSUME NEW s \in Sessions, CreateUser(s) PROVE Base'
  BY <1>3, CreateUserBase
<1>4. ASSUME NEW s \in Sessions, CreateUserCrashes(s) PROVE Base'
  BY <1>4, PlainTellBase DEF CreateUserCrashes
<1>5. ASSUME NEW s \in Sessions, Created(s) PROVE Base'
  BY <1>5, CreatedBase
<1>6. ASSUME NEW s \in Sessions, ValidateUser(s) PROVE Base'
  BY <1>6, ValidateUserBase
<1>7. ASSUME NEW s \in Sessions, Compare(s) PROVE Base'
  BY <1>7, CompareBase
<1>8. ASSUME NEW s \in Sessions, GetUserInfo(s) PROVE Base'
  BY <1>8, PlainTellBase DEF GetUserInfo
<1>9. ASSUME NEW s \in Sessions, QueryFails(s) \/ SessionFails(s) PROVE Base'
  <2>1. /\ faults + 1 \in 0 .. MaxFaults /\ 0 \in 0 .. MaxUsers
        /\ acked \subseteq Ids \ {SystemUser}
    <3>1. faults \in Nat /\ faults < MaxFaults /\ MaxFaults \in Nat /\ MaxUsers \in Nat
      BY <1>9, BoundsAssumption DEF QueryFails, SessionFails, Base, TypeOK
    <3> QED
      BY <3>1 DEF Base, TypeOK, StoredRows
  <2>2. hit' \in [Sessions -> BOOLEAN]
    BY <1>9 DEF QueryFails, SessionFails, Base, TypeOK
  <2>3. PICK k \in {"failed", "denied", "lost"} : Tell(s, k, 0)
    BY <1>9 DEF QueryFails, SessionFails
  <2> QED
    BY <1>9, <2>1, <2>2, <2>3, TellKeepsBase DEF QueryFails, SessionFails
<1> QED
  BY <1>1, <1>2, <1>3, <1>4, <1>5, <1>6, <1>7, <1>8, <1>9 DEF Next

-----------------------------------------------------------------------------
(* Each action, on the logins. *)

\* The rows that others append change nothing for a session.
LEMMA LoginStays ==
    ASSUME IInv, Keeps, NEW s \in Sessions,
           UNCHANGED <<pc[s], req[s], hash[s], told[s], known[s], hit[s]>>
    PROVE  Login(s)'
<1>1. ASSUME NEW i \in Ids, Checked(s, i)
      PROVE  i \in Ids' /\ Checked(s, i)' /\ users'[i] = users[i]
  BY <1>1, SelectedStays DEF Checked
<1>2. ASSUME NEW i \in Ids, Checked(s, i)'
      PROVE  Checked(s, i) /\ users'[i] = users[i]
  <2>1. req'[s] = req[s] /\ \A j \in Ids : j \in Ids' /\ users'[j] = users[j]
    BY DEF Keeps, Ids
  <2> QED
    BY <1>2, <2>1 DEF Checked, Selected, Named
<1>3. known[s] \subseteq Ids /\ Login(s)
  BY DEF IInv, TypeOK, Logins
<1>4. InHand(s)'
  <2> SUFFICES ASSUME pc[s] = "compare"
               PROVE  /\ hash[s] # None =>
                            \E i \in Ids' : Checked(s, i)' /\ Cut[users'[i].hash] = hash[s]
                      /\ \A i \in known[s] : Checked(s, i)' => hash[s] = Cut[users'[i].hash]
    BY DEF InHand
  <2>1. ASSUME hash[s] # None
        PROVE  \E i \in Ids' : Checked(s, i)' /\ Cut[users'[i].hash] = hash[s]
    <3>1. PICK i \in Ids : Checked(s, i) /\ Cut[users[i].hash] = hash[s]
      BY <1>3, <2>1 DEF Login, InHand
    <3> QED
      BY <3>1, <1>1
  <2>2. ASSUME NEW i \in known[s], Checked(s, i)'
        PROVE  hash[s] = Cut[users'[i].hash]
    BY <1>2, <1>3, <2>2 DEF Login, InHand
  <2> QED
    BY <2>1, <2>2
<1>5. Passed(s)'
  <2> SUFFICES ASSUME pc[s] = "GET_USER_INFO"
               PROVE  \E i \in Ids' : Checked(s, i)' /\ Cut[users'[i].hash] = req[s].password
    BY DEF Passed
  <2>1. PICK i \in Ids : Checked(s, i) /\ Cut[users[i].hash] = req[s].password
    BY <1>3 DEF Login, Passed
  <2> QED
    BY <2>1, <1>1
<1>6. TokenRight(s)'
  <2> SUFFICES ASSUME told[s].kind = "token", pc[s] = "idle"
               PROVE  /\ told[s].id \in Ids' /\ told[s].id # SystemUser
                      /\ Named(told[s].id, req[s].key)'
                      /\ Cut[users'[told[s].id].hash] = req[s].password
    BY DEF TokenRight, Named
  <2>1. /\ told[s].id \in Ids /\ told[s].id # SystemUser
        /\ Named(told[s].id, req[s].key)
        /\ Cut[users[told[s].id].hash] = req[s].password
    BY <1>3 DEF Login, TokenRight
  <2>2. told[s].id \in Ids' /\ users'[told[s].id] = users[told[s].id]
    BY <2>1 DEF Keeps, Ids
  <2> QED
    BY <2>1, <2>2 DEF Named
<1>7. DenialRight(s)'
  <2> SUFFICES ASSUME told[s].kind = "denied", pc[s] = "idle", ~hit[s], NEW i \in known[s],
                      Named(i, req[s].key)', users'[i].hash = req[s].password,
                      Cut[users'[i].hash] = users'[i].hash
               PROVE  \E j \in 1 .. i - 1 : Named(j, req[s].key)'
    BY DEF DenialRight, Named
  <2>1. i \in Ids /\ users'[i] = users[i]
    BY <1>3 DEF Keeps, Ids
  <2>2. PICK j \in 1 .. i - 1 : Named(j, req[s].key)
    BY <1>3, <2>1 DEF Login, DenialRight, Named
  <2>3. users'[j] = users[j]
    BY <2>1 DEF Keeps, Ids
  <2> QED
    BY <2>2, <2>3 DEF Named
<1> QED
  BY <1>4, <1>5, <1>6, <1>7 DEF Login

\* A session that waits, with a verdict that is none, or with a denial for a
\* fault, owes nothing.
LEMMA NoVerdict ==
    ASSUME NEW s \in Sessions, pc'[s] \notin {"compare", "GET_USER_INFO"},
           pc'[s] = "idle" => /\ told'[s].kind # "token"
                              /\ told'[s].kind = "denied" => hit'[s]
    PROVE  Login(s)'
  BY DEF Login, InHand, Passed, TokenRight, DenialRight

LEMMA TellLogin ==
    ASSUME TypeOK, NEW s \in Sessions, NEW k \in {"created", "failed", "lost"}, NEW id,
           Tell(s, k, id)
    PROVE  Login(s)'
<1>1. pc'[s] = "idle" /\ told'[s].kind = k
  BY DEF TypeOK, Tell, Goto, Told
<1> QED
  BY <1>1, NoVerdict

LEMMA FailsLogin ==
    ASSUME TypeOK, NEW s \in Sessions, QueryFails(s) \/ SessionFails(s)
    PROVE  Login(s)'
<1>1. PICK k \in {"failed", "denied", "lost"} : Tell(s, k, 0)
  BY DEF QueryFails, SessionFails
<1>2. pc'[s] = "idle" /\ told'[s].kind = k /\ hit'[s]
  BY <1>1 DEF TypeOK, QueryFails, SessionFails, Tell, Goto, Told
<1> QED
  BY <1>2, NoVerdict

LEMMA ValidateUserLogin ==
    ASSUME IInv, NEW s \in Sessions, ValidateUser(s)
    PROVE  Login(s)'
<1>1. pc'[s] = "compare"
  BY DEF IInv, TypeOK, ValidateUser, Goto
<1>2. ASSUME NEW i, Checked(s, i) PROVE Checked(s, i)'
  BY <1>2 DEF ValidateUser, Checked, Selected, Named, Ids
<1>3. ASSUME NEW i, Checked(s, i)' PROVE Checked(s, i)
  BY <1>3 DEF ValidateUser, Checked, Selected, Named, Ids
<1>4. CASE UNCHANGED hash /\ (Unknown(req[s].key) \/ Selected(SystemUser, req[s].key))
  <2>1. ASSUME NEW i, Checked(s, i) PROVE FALSE
    BY <1>4, <2>1, OneSelected DEF Checked, Unknown, Selected
  <2>2. hash[s] = None
    BY DEF ValidateUser, IInv, Serves
  <2> QED
    BY <1>1, <1>3, <1>4, <2>1, <2>2
       DEF Login, InHand, Passed, TokenRight, DenialRight
<1>5. ASSUME NEW i \in Ids \ {SystemUser}, Selected(i, req[s].key),
             hash' = [hash EXCEPT ![s] = Cut[users[i].hash]]
      PROVE  Login(s)'
  <2>1. Checked(s, i) /\ Checked(s, i)'
    BY <1>2, <1>5 DEF Checked
  <2>2. hash'[s] = Cut[users[i].hash]
    BY <1>5 DEF IInv, TypeOK
  <2>3. UNCHANGED <<users, known>>
    BY DEF ValidateUser
  <2>4. ASSUME NEW j, Checked(s, j)' PROVE j = i
    BY <1>3, <2>1, <2>4, OneSelected DEF Checked
  <2>5. InHand(s)'
    BY <1>1, <2>1, <2>2, <2>3, <2>4 DEF InHand, Ids
  <2> QED
    BY <1>1, <2>5 DEF Login, Passed, TokenRight, DenialRight
<1> QED
  BY <1>4, <1>5 DEF ValidateUser

LEMMA CompareLogin ==
    ASSUME IInv, NEW s \in Sessions, Compare(s)
    PROVE  Login(s)'
<1>1. /\ pc[s] = "compare" /\ Login(s) /\ req[s].password \in Passwords
      /\ UNCHANGED <<users, req, hash, acked, known, hit, count, faults>>
  <2>1. req[s] \in Requests /\ req[s].op = "VALIDATE_USER" /\ Login(s)
    BY DEF IInv, Serves, Logins, Compare
  <2> QED
    BY <2>1, RequestTyped DEF Compare
<1>2. CASE hash[s] = req[s].password /\ Goto(s, "GET_USER_INFO")
  <2>1. pc'[s] = "GET_USER_INFO"
    BY <1>2 DEF IInv, TypeOK, Goto
  <2>2. hash[s] # None
    BY <1>1, <1>2, RowsAssumption
  <2>3. PICK i \in Ids : Checked(s, i) /\ Cut[users[i].hash] = hash[s]
    BY <1>1, <2>2 DEF Login, InHand
  <2>4. i \in Ids' /\ Checked(s, i)' /\ Cut[users'[i].hash] = req'[s].password
    BY <1>1, <1>2, <2>3 DEF Checked, Selected, Named, Ids
  <2> QED
    BY <2>1, <2>4 DEF Login, InHand, Passed, TokenRight, DenialRight
<1>3. CASE hash[s] # req[s].password /\ Tell(s, "denied", 0)
  <2>1. pc'[s] = "idle" /\ told'[s].kind = "denied"
    BY <1>3 DEF IInv, TypeOK, Tell, Goto, Told
  <2>2. ASSUME NEW i \in known[s], Named(i, req[s].key), users[i].hash = req[s].password,
               Cut[users[i].hash] = users[i].hash,
               \A j \in 1 .. i - 1 : ~Named(j, req[s].key)
        PROVE  FALSE
    <3>1. i \in Ids \ {SystemUser}
      BY DEF IInv, TypeOK, StoredRows
    <3>2. Checked(s, i)
      BY <2>2, <3>1, SelectedOrOlder DEF Checked
    <3> QED
      BY <1>1, <1>3, <2>2, <3>2 DEF Login, InHand
  <2>3. DenialRight(s)'
    BY <1>1, <2>2 DEF DenialRight, Named
  <2> QED
    BY <2>1, <2>3 DEF Login, InHand, Passed, TokenRight
<1> QED
  BY <1>2, <1>3 DEF Compare

LEMMA GetUserInfoLogin ==
    ASSUME IInv, NEW s \in Sessions, GetUserInfo(s)
    PROVE  Login(s)'
<1>1. UNCHANGED <<users, req, hash, acked, known, hit, count, faults>>
  BY DEF GetUserInfo
<1>2. PICK i \in Ids : Checked(s, i) /\ Cut[users[i].hash] = req[s].password
  BY DEF IInv, Logins, Login, Passed, GetUserInfo
<1>3. ~Unknown(req[s].key)
  BY <1>2 DEF Checked, Selected, Unknown
<1>4. PICK j \in Ids : Selected(j, req[s].key) /\ Tell(s, "token", j)
  BY <1>3 DEF GetUserInfo
<1>5. j = i
  BY <1>2, <1>4, OneSelected DEF Checked
<1>6. pc'[s] = "idle" /\ told'[s].kind = "token" /\ told'[s].id = i
  BY <1>4, <1>5 DEF IInv, TypeOK, Tell, Goto, Told
<1>7. TokenRight(s)'
  BY <1>1, <1>2, <1>6 DEF TokenRight, Checked, Selected, Named, Ids
<1> QED
  BY <1>6, <1>7 DEF Login, InHand, Passed, DenialRight

\* One session takes a step; the others are as they were.
Alone(s) ==
    \A t \in Sessions \ {s} : UNCHANGED <<pc[t], req[t], hash[t], told[t], known[t], hit[t]>>

LEMMA StepLogins ==
    ASSUME IInv, Keeps, NEW s \in Sessions, Alone(s), Login(s)'
    PROVE  Logins'
  BY LoginStays DEF Logins, Alone

LEMMA OneStep ==
    ASSUME TypeOK, NEW s \in Sessions,
           \/ Ask(s) \/ CreateUser(s) \/ CreateUserCrashes(s) \/ Created(s)
           \/ ValidateUser(s) \/ Compare(s) \/ GetUserInfo(s)
           \/ QueryFails(s) \/ SessionFails(s)
    PROVE  Alone(s)
<1>1. CASE Ask(s)
  BY <1>1 DEF TypeOK, Alone, Ask, Goto
<1>2. CASE CreateUser(s)
  BY <1>2 DEF TypeOK, Alone, CreateUser, Store, Tell, Goto
<1>3. CASE ValidateUser(s)
  BY <1>3 DEF TypeOK, Alone, ValidateUser, Goto
<1>4. CASE Compare(s)
  BY <1>4 DEF TypeOK, Alone, Compare, Tell, Goto
<1>5. CASE CreateUserCrashes(s) \/ Created(s) \/ GetUserInfo(s)
  BY <1>5 DEF TypeOK, Alone, CreateUserCrashes, Created, GetUserInfo, Tell, Goto
<1>6. CASE QueryFails(s) \/ SessionFails(s)
  BY <1>6 DEF TypeOK, Alone, QueryFails, SessionFails, Tell, Goto
<1> QED
  BY <1>1, <1>2, <1>3, <1>4, <1>5, <1>6

LEMMA NextLogins ==
    ASSUME IInv, [Next]_vars
    PROVE  Logins'
<1>0. ASSUME UNCHANGED users PROVE Keeps
  BY <1>0 DEF IInv, TypeOK, Keeps
<1>1. CASE UNCHANGED vars
  BY <1>0, <1>1, LoginStays DEF vars, Logins
<1>2. ASSUME NEW s \in Sessions, Ask(s) PROVE Logins'
  <2>1. PICK r \in Requests : pc' = [pc EXCEPT ![s] = r.op]
    BY <1>2 DEF Ask, Goto
  <2>2. pc'[s] \in {"CREATE_USER", "VALIDATE_USER"}
    BY <2>1, RequestTyped DEF IInv, TypeOK
  <2>3. Login(s)'
    BY <2>2, NoVerdict
  <2> QED
    BY <1>0, <1>2, <2>3, OneStep, StepLogins DEF Ask, IInv
<1>3. ASSUME NEW s \in Sessions, CreateUser(s) PROVE Logins'
  <2>1. Keeps
    BY <1>3, CreateUserBase DEF IInv, Base
  <2>2. CASE Tell(s, "failed", 0)
    BY <1>3, <2>1, <2>2, TellLogin, OneStep, StepLogins DEF IInv
  <2>3. CASE pc' = [pc EXCEPT ![s] = "stored"]
    <3>1. pc'[s] = "stored"
      BY <2>3 DEF IInv, TypeOK
    <3>2. Login(s)'
      BY <3>1, NoVerdict
    <3> QED
      BY <1>3, <2>1, <3>2, OneStep, StepLogins DEF IInv
  <2> QED
    BY <1>3, <2>2, <2>3 DEF CreateUser, Store, Goto
<1>4. ASSUME NEW s \in Sessions, CreateUserCrashes(s) PROVE Logins'
  BY <1>0, <1>4, TellLogin, OneStep, StepLogins DEF CreateUserCrashes, IInv
<1>5. ASSUME NEW s \in Sessions, Created(s) PROVE Logins'
  BY <1>0, <1>5, TellLogin, OneStep, StepLogins DEF Created, IInv
<1>6. ASSUME NEW s \in Sessions, ValidateUser(s) PROVE Logins'
  BY <1>0, <1>6, ValidateUserLogin, OneStep, StepLogins DEF ValidateUser, IInv
<1>7. ASSUME NEW s \in Sessions, Compare(s) PROVE Logins'
  BY <1>0, <1>7, CompareLogin, OneStep, StepLogins DEF Compare, IInv
<1>8. ASSUME NEW s \in Sessions, GetUserInfo(s) PROVE Logins'
  BY <1>0, <1>8, GetUserInfoLogin, OneStep, StepLogins DEF GetUserInfo, IInv
<1>9. ASSUME NEW s \in Sessions, QueryFails(s) \/ SessionFails(s) PROVE Logins'
  BY <1>0, <1>9, FailsLogin, OneStep, StepLogins DEF QueryFails, SessionFails, IInv
<1> QED
  BY <1>1, <1>2, <1>3, <1>4, <1>5, <1>6, <1>7, <1>8, <1>9 DEF Next

LEMMA InitIInv ==
    ASSUME Init
    PROVE  IInv
<1>1. users \in Seq(Rows) /\ Len(users) = 1 /\ Ids = 1 .. 1
  BY RowsAssumption DEF Init, Ids
<1>2. told \in [Sessions -> ToldType] /\ \A s \in Sessions : told[s].kind = "none"
  BY BoundsAssumption DEF Init, Told, ToldType
<1>3. TypeOK
  BY <1>1, <1>2, BoundsAssumption DEF Init, TypeOK, Positions
<1>4. Serves /\ StoredRows
  BY DEF Init, Serves, StoredRows
<1>5. Logins
  BY <1>2 DEF Init, Logins, Login, InHand, Passed, TokenRight, DenialRight
<1> QED
  BY <1>3, <1>4, <1>5 DEF IInv

LEMMA Inductive == Spec => []IInv
<1>1. Init => IInv
  BY InitIInv
<1>2. IInv /\ [Next]_vars => IInv'
  BY NextBase, NextLogins DEF IInv, Base
<1> QED
  BY <1>1, <1>2, PTL DEF Spec

-----------------------------------------------------------------------------

\* create_user, validate_user and get_user_info keep the table and the sessions
\* well formed: with the unique keys no two rows share a username or an email,
\* however many sessions create accounts at a time.
THEOREM TypeCorrect == Spec => []TypeOK
<1>1. IInv => TypeOK
  BY DEF IInv
<1> QED
  BY <1>1, Inductive, PTL

\* The user in the token of a two step login is the one whose password was
\* compared, and never the system user.
THEOREM TokenIsForChecked == Spec => []TokenForChecked
<1>1. IInv => TokenForChecked
  BY DEF IInv, Logins, Login, TokenRight, TokenForChecked
<1> QED
  BY <1>1, Inductive, PTL

\* A login with the key and the password of an account whose creation was
\* acknowledged is refused only for an older account with that key, for a
\* password_hash that validate_user cuts, or for a query of that login that failed:
\* nothing that other sessions do, or that fails for them, gets it refused.
THEOREM DenialHasAReason == Spec => []DeniedForAReason
<1>1. IInv => DeniedForAReason
  BY DEF IInv, Logins, Login, DenialRight, DeniedForAReason, Named
<1> QED
  BY <1>1, Inductive, PTL

=============================================================================
