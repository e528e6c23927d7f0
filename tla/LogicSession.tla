---------------------------- MODULE LogicSession ----------------------------
(***************************************************************************)
(* One child of the logic server: handle_client of                         *)
(* logic_server/logic_server.c and what it calls, between one client and   *)
(* one connection to the data servers.                                     *)
(*                                                                         *)
(* The loop polls both sockets and handles what it reads; each read with   *)
(* its handling is one action.  The data server serves the first request of*)
(* a connection and closes it (data_server.c, main), so a session lasts for*)
(* one forwarded request; a login takes two of them and a new connection.  *)
(* current_request is the only memory of what was asked.                   *)
(***************************************************************************)
EXTENDS Integers, Sequences

CONSTANTS
    Users,        \* keys (username or email) that have a row in users
    Strangers,    \* keys that have none
    SystemUser,   \* the row with user_id 1
    Passwords,
    Password,     \* users.password_hash
    None,         \* an absent field, a NULL pointer
    Requests,     \* the requests of a client that waits for its answers
    AheadRequests,  \* the requests of one that sends ahead
    MaxRequests,  \* requests the client sends in a session
    FaultKinds,   \* the faults that may happen
    MaxFaults

Keys == Users \cup Strangers

\* A token that validate_token refuses.
BadToken == "bad"

\* How the injection of the token's user id is written in the code.
ReplaceOps == {"CREATE_CHAT", "ADD_TO_GROUP_CHAT", "SEND_MESSAGE", "GET_CHATS"}
AddOps     == {"GET_CHAT_MESSAGES", "REMOVE_FROM_CHAT", "EXIT_CHAT"}
PlainOps   == {"GET_USER_INFO", "GET_CHAT_INFO"}
TokenOps   == ReplaceOps \cup AddOps \cup PlainOps
Ops        == TokenOps \cup {"VALIDATE_USER", "CREATE_USER", "PING"}

\* who is created_by, added_by, sender_id, removed_by or user_id as the client
\* wrote it; form is "bad" for no JSON, no action, an action without rules or a
\* missing field.  User ids are represented by the user's key.
RequestType == [op: Ops, key: Keys \cup {None}, pass: Passwords \cup {None},
                token: Users \cup {None, BadToken}, who: Keys \cup {None},
                form: {"ok", "bad"}]

AllFaults == {"unreachable", "unavailable", "torn", "died"}

\* The answer to PING has no response_code, nor has what is left of a torn answer.
Pong == 0

ASSUME UsersAssumption ==
    /\ SystemUser \in Users
    /\ Password \in [Users -> Passwords]
    /\ None \notin Keys /\ None \notin Passwords /\ None \notin Ops
    /\ BadToken \notin Users /\ None # BadToken
ASSUME RequestsAssumption == Requests \subseteq RequestType /\ AheadRequests \subseteq Requests
ASSUME LimitsAssumption == MaxRequests \in Nat /\ MaxFaults \in Nat
ASSUME FaultsAssumption == FaultKinds \subseteq AllFaults

VARIABLES
    ahead,   \* whether this client sends before it has its answers; never changes
    pc,      \* "connect", "poll" or "exit"
    sent,    \* the requests the client has sent
    read,    \* how many of them the child has read
    cur,     \* current_request.action and request_json: an index of sent, 0 for NULL
    auth,    \* current_request.auth_state
    key,     \* current_request.key
    db,      \* the connection to the data server
    out,     \* what the client was sent
    faults

vars == <<ahead, pc, sent, read, cur, auth, key, db, out, faults>>

\* What is written to the data server: the request it comes from, and its
\* fields.
Ask(n, op, k, who) == [for |-> n, op |-> op, key |-> k, who |-> who]
NoAsk == Ask(0, None, None, None)

\* What comes back.  kind is "ok" for response_code 200, "error" for another
\* one, "torn" for an answer that one recv does not get in full, "rest" for its
\* remainder.
Answer(kind, code, hash, uid) == [kind |-> kind, code |-> code, hash |-> hash, uid |-> uid]
NoAnswer == Answer("none", 0, None, None)

\* A connection is "fresh", "asked" (the first request is written), "answered",
\* "ending" (only the end of the stream is left) or "closed" (the descriptor).
Db(st, ask, ans) == [st |-> st, ask |-> ask, ans |-> ans]

Init ==
    /\ ahead  \in BOOLEAN
    /\ pc     = "connect"
    /\ sent   = <<>>
    /\ read   = 0
    /\ cur    = 0
    /\ auth   = "INITIAL"
    /\ key    = None
    /\ db     = Db("closed", NoAsk, NoAnswer)
    /\ out    = <<>>
    /\ faults = 0

\* A reply to request n with the answer to request m of the data server, or
\* with none (m = 0); uid is the user of the token in it.
ReplyWith(n, code, m, uid) ==
    out' = Append(out, [for |-> n, code |-> code, from |-> m, uid |-> uid])

Fails(kind) == kind \in FaultKinds /\ faults < MaxFaults /\ faults' = faults + 1

-----------------------------------------------------------------------------
(* The client. *)

Send ==
    /\ pc # "exit"
    /\ Len(sent) < MaxRequests
    /\ ahead \/ Len(sent) <= Len(out)
    /\ \E r \in IF ahead THEN AheadRequests ELSE Requests : sent' = Append(sent, r)
    /\ UNCHANGED <<ahead, pc, read, cur, auth, key, db, out, faults>>

\* The client closes the connection; recv returns 0.
Leave ==
    /\ pc = "poll" /\ read = Len(sent)
    /\ pc' = "exit"
    /\ UNCHANGED <<ahead, sent, read, cur, auth, key, db, out, faults>>

-----------------------------------------------------------------------------
(* handle_client, client side. *)

\* connect_to_db_balancers tries each load balancer in turn.
Connect ==
    /\ pc = "connect"
    /\ \/ /\ pc' = "poll"
          /\ db' = Db("fresh", NoAsk, NoAnswer)
          /\ UNCHANGED <<out, faults>>
       \/ /\ Fails("unreachable")
          /\ pc' = "exit"
          /\ ReplyWith(0, 503, 0, None)
          /\ UNCHANGED db
    /\ UNCHANGED <<ahead, sent, read, cur, auth, key>>

\* process_client_request answers these itself.
Local(r) ==
    r.form = "bad" \/ r.op = "PING" \/ (r.op \in TokenOps /\ r.token \notin Users)

LocalCode(r) == IF r.form = "bad" THEN 400 ELSE IF r.op = "PING" THEN Pong ELSE 401

\* cJSON_ReplaceItemInObject changes nothing when the field is absent;
\* cJSON_AddNumberToObject appends a second field when it is present, and the
\* data server reads the first.
Identity(r) ==
    CASE r.op \in ReplaceOps /\ r.who # None -> r.token
      [] r.op \in AddOps /\ r.who = None     -> r.token
      [] OTHER                               -> r.who

\* Store the request as current_request and write it to the data server, which
\* reads only the first one of the connection.
Forward(n) ==
    /\ cur' = n
    /\ db' = IF db.st = "fresh"
             THEN Db("asked", Ask(n, sent[n].op, sent[n].key, Identity(sent[n])), NoAnswer)
             ELSE db

\* recv from the client: one request, or several that arrived together, of
\* which cJSON_Parse sees the first.  A local answer is freed twice, so the
\* child may abort after it.
ReadClient ==
    LET n == read + 1 IN
    /\ pc = "poll" /\ read < Len(sent)
    /\ read' \in n .. Len(sent)
    /\ \/ /\ Local(sent[n])
          /\ ReplyWith(n, LocalCode(sent[n]), 0, None)
          /\ pc' \in {"poll", "exit"}
          /\ UNCHANGED <<cur, db>>
       \/ /\ ~Local(sent[n])
          /\ Forward(n)
          /\ UNCHANGED <<out, pc>>
    /\ UNCHANGED <<ahead, sent, auth, key, faults>>

-----------------------------------------------------------------------------
(* The data server and the load balancer before it. *)

Bad == Answer("error", 400, None, None)

\* handle_action: validate_user refuses the system user; what the others return
\* depends on their tables.
Answers(a) ==
    CASE a.op = "VALIDATE_USER" ->
            IF a.key \in Users \ {SystemUser}
            THEN {Answer("ok", 200, Password[a.key], None)} ELSE {Bad}
      [] a.op = "GET_USER_INFO" ->
            IF a.key \in Users THEN {Answer("ok", 200, None, a.key)} ELSE {Bad}
      [] OTHER -> {Answer("ok", 200, None, None), Bad}

\* What handle_action does to its own memory may end the child before it
\* answers: a failed GET_USER_INFO frees pointers that were never set, EXIT_CHAT
\* frees twice, GET_CHAT_MESSAGES writes past an array.
MayCrash(a) ==
    \/ a.op \in {"EXIT_CHAT", "GET_CHAT_MESSAGES"}
    \/ a.op = "GET_USER_INFO" /\ a.key \notin Users

Deliver(ans) == db' = [db EXCEPT !.st = "answered", !.ans = ans]

DbAnswers ==
    /\ db.st = "asked"
    /\ \/ \E ans \in Answers(db.ask) : Deliver(ans)
       \/ MayCrash(db.ask) /\ db' = [db EXCEPT !.st = "ending"]
    /\ UNCHANGED <<ahead, pc, sent, read, cur, auth, key, out, faults>>

\* The load balancer answers a connection it finds no server for at once, and
\* a child of the data server that gets no MySQL connection exits: both may
\* come before the request does.
DbFails ==
    /\ db.st \in {"fresh", "asked"}
    /\ \/ Fails("unavailable") /\ Deliver(Answer("error", 503, None, None))
       \/ Fails("died") /\ db' = [db EXCEPT !.st = "ending"]
       \/ /\ db.st = "asked"       \* the answer needs more than one segment
          /\ Fails("torn") /\ Deliver(Answer("torn", 0, None, None))
    /\ UNCHANGED <<ahead, pc, sent, read, cur, auth, key, out>>

-----------------------------------------------------------------------------
(* handle_client, data server side. *)

\* recv returns 0: the session is over.
ReadEnd ==
    /\ pc = "poll" /\ db.st = "ending"
    /\ pc' = "exit"
    /\ UNCHANGED <<ahead, sent, read, cur, auth, key, db, out, faults>>

\* handle_db_response: what was read is no JSON.
ReadGarbled ==
    /\ pc = "poll" /\ db.st = "answered" /\ db.ans.kind \in {"torn", "rest"}
    /\ ReplyWith(cur, 500, 0, None)
    /\ db' = IF db.ans.kind = "torn" THEN [db EXCEPT !.ans.kind = "rest"]
             ELSE [db EXCEPT !.st = "ending"]
    /\ UNCHANGED <<ahead, pc, sent, read, cur, auth, key, faults>>

\* ... or what is left of a torn answer begins with a JSON value, which has no
\* response_code: it goes to the client as it is, or as a failed login.
ReadLeftover ==
    /\ pc = "poll" /\ db.st = "answered" /\ db.ans.kind = "rest" /\ cur # 0
    /\ ReplyWith(cur, IF sent[cur].op = "VALIDATE_USER" THEN 401 ELSE Pong, db.ask.for, None)
    /\ db' = [db EXCEPT !.st = "ending"]
    /\ UNCHANGED <<ahead, pc, sent, read, cur, auth, key, faults>>

\* An answer although nothing was forwarded.
ReadUnasked ==
    /\ pc = "poll" /\ db.st = "answered" /\ db.ans.kind = "error" /\ cur = 0
    /\ ReplyWith(0, 500, 0, None)
    /\ db' = [db EXCEPT !.st = "ending"]
    /\ UNCHANGED <<ahead, pc, sent, read, cur, auth, key, faults>>

\* handle_db_response runs for the request with this operation.
Handles(ops) ==
    /\ pc = "poll" /\ db.st = "answered" /\ db.ans.kind \in {"ok", "error"}
    /\ cur # 0 /\ sent[cur].op \in ops

\* Any operation but a login: the answer is forwarded as it is.
ReadAnswer ==
    /\ Handles(Ops \ {"VALIDATE_USER"})
    /\ ReplyWith(cur, db.ans.code, db.ask.for, None)
    /\ db' = [db EXCEPT !.st = "ending"]
    /\ UNCHANGED <<ahead, pc, sent, read, cur, auth, key, faults>>

\* Mutant: the comparison of the passwords is left out.
Matches_Any(r) == db.ans.kind = "ok" /\ db.ans.hash # None /\ r.pass # None

\* AUTH_STATE_INITIAL: the client's password against the answer's.
Matches(r) == db.ans.kind = "ok" /\ db.ans.hash # None /\ r.pass = db.ans.hash

\* Mutant: the second query is not written to the new connection.
Login_Unasked ==
    /\ key' = sent[cur].key
    /\ \/ /\ db' = Db("fresh", NoAsk, NoAnswer)
          /\ auth' = "VALIDATED"
          /\ UNCHANGED <<out, faults>>
       \/ /\ Fails("unreachable")
          /\ db' = Db("closed", NoAsk, NoAnswer)
          /\ ReplyWith(cur, 503, 0, None)
          /\ UNCHANGED auth

\* Mutant: current_request stays in AUTH_STATE_INITIAL.
Login_StateKept ==
    /\ key' = sent[cur].key
    /\ db' = Db("asked", Ask(cur, "GET_USER_INFO", key', None), NoAnswer)
    /\ UNCHANGED <<auth, out, faults>>

\* Mutant: the client is told of its success before its id is known.
Login_Early ==
    /\ key' = sent[cur].key
    /\ db' = Db("asked", Ask(cur, "GET_USER_INFO", key', None), NoAnswer)
    /\ auth' = "VALIDATED"
    /\ ReplyWith(cur, 200, db.ask.for, None)
    /\ UNCHANGED faults

\* The password is right: close this connection and ask for the user's id on a
\* new one.  If there is none the closed descriptor stays in fds[1].
Login ==
    /\ key' = sent[cur].key
    /\ \/ /\ db' = Db("asked", Ask(cur, "GET_USER_INFO", key', None), NoAnswer)
          /\ auth' = "VALIDATED"
          /\ UNCHANGED <<out, faults>>
       \/ /\ Fails("unreachable")
          /\ db' = Db("closed", NoAsk, NoAnswer)
          /\ ReplyWith(cur, 503, 0, None)
          /\ UNCHANGED auth

CheckPassword ==
    /\ Handles({"VALIDATE_USER"}) /\ auth = "INITIAL"
    /\ \/ Matches(sent[cur]) /\ Login
       \/ /\ ~Matches(sent[cur])
          /\ ReplyWith(cur, 401, db.ask.for, None)
          /\ db' = [db EXCEPT !.st = "ending"]
          /\ UNCHANGED <<auth, key, faults>>
    /\ UNCHANGED <<ahead, pc, sent, read, cur>>

\* AUTH_STATE_VALIDATED: the user's id goes into the token.
IssueToken ==
    /\ Handles({"VALIDATE_USER"}) /\ auth = "VALIDATED"
    /\ db' = [db EXCEPT !.st = "ending"]
    /\ \/ /\ db.ans.uid # None
          /\ ReplyWith(cur, 200, db.ask.for, db.ans.uid)
          /\ cur' = 0 /\ auth' = "INITIAL" /\ key' = None
       \/ /\ db.ans.uid = None
          /\ ReplyWith(cur, 401, db.ask.for, None)
          /\ UNCHANGED <<cur, auth, key>>
    /\ UNCHANGED <<ahead, pc, sent, read, faults>>

ReadDb ==
    \/ ReadEnd \/ ReadGarbled \/ ReadLeftover \/ ReadUnasked
    \/ ReadAnswer \/ CheckPassword \/ IssueToken

\* exit(0)
Exited == pc = "exit" /\ UNCHANGED vars

Next ==
    \/ Send \/ Leave
    \/ Connect \/ ReadClient \/ ReadDb \/ Exited
    \/ DbAnswers \/ DbFails

Spec == Init /\ [][Next]_vars

\* The child is scheduled and the data server answers; the client need not go
\* on, and nothing has to fail.
FairSpec ==
    /\ Spec
    /\ WF_vars(Connect) /\ WF_vars(ReadClient) /\ WF_vars(ReadDb) /\ WF_vars(DbAnswers)

-----------------------------------------------------------------------------
(* Properties. *)

AskType == [for: 0 .. MaxRequests, op: Ops \cup {None}, key: Keys \cup {None},
            who: Keys \cup {None}]
AnswerType == [kind: {"none", "ok", "error", "torn", "rest"}, code: {0, 200, 400, 503},
               hash: Passwords \cup {None}, uid: Users \cup {None}]
DbType == [st: {"fresh", "asked", "answered", "ending", "closed"}, ask: AskType,
           ans: AnswerType]
Codes == {Pong, 200, 400, 401, 500, 503}
ReplyType == [for: 0 .. MaxRequests, code: Codes,
              from: 0 .. MaxRequests, uid: Users \cup {None}]

TypeOK ==
    /\ ahead \in BOOLEAN
    /\ pc \in {"connect", "poll", "exit"}
    /\ sent \in Seq(Requests) /\ Len(sent) <= MaxRequests
    /\ read \in 0 .. Len(sent)
    /\ cur \in 0 .. read
    /\ auth \in {"INITIAL", "VALIDATED"}
    /\ key \in Keys \cup {None}
    /\ db \in DbType
    /\ out \in Seq(ReplyType)
    /\ faults \in 0 .. MaxFaults

\* A token is made for the user named in the login it answers, and only when
\* the password of that login is that user's: although the check, the new
\* connection and the query for the id are separate steps and auth_state is not
\* reset by a failed login, a client that waits for its answers never gets a
\* token by the answer to another request.
TokenForChecked ==
    ~ahead => \A i \in 1 .. Len(out) : out[i].uid # None =>
        LET r == sent[out[i].for] IN
        /\ r.op = "VALIDATE_USER" /\ r.key = out[i].uid
        /\ r.pass = Password[out[i].uid]

\* What the data server said about one request is never given to the client as
\* the answer to another one, if the client waits for its answers.  The one
\* exception is no success: what is left of an answer whose first piece got the
\* error 500 goes to the request that is the current one by then.
AnswersBelong ==
    ~ahead => \A i \in 1 .. Len(out) : out[i].from # 0 =>
        \/ out[i].from = out[i].for
        \/ /\ out[i].code # 200
           /\ \E j \in 1 .. i - 1 : out[j].for = out[i].from /\ out[j].code = 500

\* A second reply to a request comes only after the error 500 for the first
\* piece of a torn answer, and is never a success: although the two steps of a
\* login, the local answers and handle_db_response all write to the client, and
\* although a client that sends ahead overwrites current_request.
OneReplyEach ==
    \A j \in 1 .. Len(out) : \A i \in 1 .. j - 1 :
        out[i].for = out[j].for => out[i].code = 500 /\ out[j].code # 200

\* A login that names an account other than the system user's, with its
\* password.
RightLogin(r) ==
    /\ r.op = "VALIDATE_USER" /\ r.form = "ok"
    /\ r.key \in Users \ {SystemUser} /\ r.pass = Password[r.key]

\* Both steps of a login end in 401 for whatever is no success, and one request
\* field says which step an answer belongs to: a client that waits is refused a
\* right login only if something failed in its session.
RefusedForAReason ==
    ~ahead => \A i \in 1 .. Len(out) :
        /\ out[i].for # 0 /\ out[i].code # 200
        /\ RightLogin(sent[out[i].for])
        => faults > 0

\* "the client only needs to provide the token -- the server automatically
\* injects the user ID (extracted from the token) into the request to the
\* database." (src/logic_server/README.md:80): what process_client_request
\* forwards carries the identity of the token.
IdentityFromToken ==
    db.ask.op \in ReplaceOps \cup AddOps => db.ask.who = sent[db.ask.for].token

\* The second connection of a login failed: nothing comes from fds[1] any more.
CutOff == pc = "poll" /\ db.st = "closed"

\* That is the only thing that leaves handle_client in poll with nothing to
\* come: a request that came before it gets a reply or the end of the
\* connection, whatever answer is missing, torn, early or refused.  The client
\* waits for its answers.
AnsweredUnlessCutOff ==
    \A n \in 1 .. MaxRequests :
        ~ahead /\ Len(sent) >= n ~> \/ pc = "exit" \/ CutOff
                                    \/ \E i \in 1 .. Len(out) : out[i].for = n

====
