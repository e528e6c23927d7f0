------------------------- MODULE LogicSessionProofs -------------------------
(***************************************************************************)
(* What a session of the logic server guarantees to its client, whatever   *)
(* the client asks and whatever fails: most of it to a client that waits   *)
(* for its answers, one reply at most to any client.                       *)
(***************************************************************************)
EXTENDS LogicSession, TLAPS

\* The data server has a request of this session, or its answer is on the way
\* and nothing of it has been read.
Pending ==
    /\ db.ask.for # 0
    /\ \/ db.st = "asked"
       \/ db.st = "answered" /\ db.ans.kind # "rest"

\* Before the first request is forwarded every request read has its answer.
AtRest ==
    /\ pc = "connect" => auth = "INITIAL" /\ read = 0 /\ out = <<>> /\ db.st = "closed"
    /\ db.st = "fresh" => auth = "INITIAL" /\ Len(out) = read /\ db.ask.for = 0

\* A client that waits is at most one request ahead of its answers.
Waits == Len(sent) <= Len(out) + 1

\* While the data server works the client waits, so that current_request is the
\* request that was forwarded.
CurrentIsAsked ==
    Pending => cur = db.ask.for /\ read = Len(sent) /\ Len(out) + 1 = read

\* The data server was asked about the user of the request.
AskIsOfRequest ==
    /\ db.st = "asked" => db.ask.for # 0
    /\ db.ask.for # 0 => db.ask.for \in 1 .. Len(sent) /\ db.ask.key = sent[db.ask.for].key

\* It answers what it was asked; an answer to no request carries no data.
AnswerIsOfAsk ==
    db.st = "answered" =>
        /\ db.ans.kind \in {"ok", "torn"} => db.ask.for # 0
        /\ db.ans.hash # None => /\ db.ans.kind = "ok"
                                 /\ db.ask.key \in Users
                                 /\ db.ans.hash = Password[db.ask.key]
        /\ db.ans.uid # None => db.ans.kind = "ok" /\ db.ans.uid = db.ask.key

\* The first piece of a torn answer was told as an error.
TornTold ==
    db.st = "answered" /\ db.ans.kind = "rest" =>
        \E j \in 1 .. Len(out) : out[j].for = db.ask.for /\ out[j].code = 500

\* AUTH_STATE_VALIDATED is the result of a check of the current request.
Validated ==
    Pending /\ auth = "VALIDATED" =>
        /\ sent[cur].op = "VALIDATE_USER" /\ sent[cur].key \in Users
        /\ sent[cur].pass = Password[sent[cur].key]

\* What was sent stays right.
Tokens ==
    \A i \in 1 .. Len(out) : out[i].uid # None =>
        /\ out[i].for \in 1 .. Len(sent)
        /\ sent[out[i].for].op = "VALIDATE_USER"
        /\ sent[out[i].for].key = out[i].uid
        /\ sent[out[i].for].pass = Password[out[i].uid]

\* The reply i has the answer to its request, or what is left of a torn one.
Belongs(i) ==
    \/ out[i].from = out[i].for
    \/ /\ out[i].code # 200
       /\ \E j \in 1 .. i - 1 : out[j].for = out[i].from /\ out[j].code = 500

AllBelong == \A i \in 1 .. Len(out) : out[i].from # 0 => Belongs(i)

Connection == AtRest /\ CurrentIsAsked /\ AskIsOfRequest /\ AnswerIsOfAsk /\ TornTold /\ Validated
Replies    == Waits /\ Tokens /\ AllBelong
IInv       == TypeOK /\ Connection /\ Replies

-----------------------------------------------------------------------------
(* Types. *)

LEMMA SentType ==
    ASSUME TypeOK, NEW n \in 1 .. Len(sent)
    PROVE  sent[n] \in RequestType
<1>1. sent[n] \in Requests
  BY DEF TypeOK
<1> QED
  BY <1>1, RequestsAssumption

LEMMA IdentityType ==
    ASSUME NEW r \in RequestType, ~Local(r)
    PROVE  Identity(r) \in Keys \cup {None}
  BY DEF RequestType, Local, Identity, TokenOps, Keys

LEMMA AskTyped ==
    ASSUME NEW n \in 0 .. MaxRequests, NEW op \in Ops \cup {None},
           NEW k \in Keys \cup {None}, NEW who \in Keys \cup {None}
    PROVE  Ask(n, op, k, who) \in AskType
  BY DEF Ask, AskType

LEMMA NoAskTyped == NoAsk \in AskType
  BY AskTyped, LimitsAssumption DEF NoAsk

LEMMA AnswerTyped ==
    ASSUME NEW kind \in {"none", "ok", "error", "torn", "rest"}, NEW code \in {0, 200, 400, 503},
           NEW hash \in Passwords \cup {None}, NEW uid \in Users \cup {None}
    PROVE  Answer(kind, code, hash, uid) \in AnswerType
  BY DEF Answer, AnswerType

LEMMA NoAnswerTyped == NoAnswer \in AnswerType
<1>1. 0 \in {0, 200, 400, 503} /\ "none" \in {"none", "ok", "error", "torn", "rest"}
  OBVIOUS
<1> QED
  BY <1>1, AnswerTyped DEF NoAnswer

LEMMA DbTyped ==
    ASSUME NEW st \in {"fresh", "asked", "answered", "ending", "closed"},
           NEW ask \in AskType, NEW ans \in AnswerType
    PROVE  Db(st, ask, ans) \in DbType
  BY DEF Db, DbType

\* What handle_action answers has its type and is about what was asked.
LEMMA AnswersSound ==
    ASSUME NEW a \in AskType, NEW ans \in Answers(a)
    PROVE  /\ ans \in AnswerType
           /\ ans.kind \in {"ok", "error"}
           /\ ans.hash # None => /\ ans.kind = "ok" /\ a.key \in Users
                                 /\ ans.hash = Password[a.key]
           /\ ans.uid # None => ans.kind = "ok" /\ ans.uid = a.key
<1>1. 200 \in {0, 200, 400, 503} /\ 400 \in {0, 200, 400, 503}
  OBVIOUS
<1>2. Bad \in AnswerType /\ Answer("ok", 200, None, None) \in AnswerType
  BY <1>1, AnswerTyped DEF Bad
<1>3. CASE ans = Bad
  BY <1>2, <1>3 DEF Bad, Answer
<1>4. CASE ans = Answer("ok", 200, None, None)
  BY <1>2, <1>4 DEF Answer
<1>5. CASE a.key \in Users /\ ans = Answer("ok", 200, Password[a.key], None)
  <2>1. Password[a.key] \in Passwords
    BY <1>5, UsersAssumption
  <2>2. ans \in AnswerType
    BY <1>1, <1>5, <2>1, AnswerTyped
  <2>3. ans.kind = "ok" /\ ans.hash = Password[a.key] /\ ans.uid = None
    BY <1>5 DEF Answer
  <2> QED
    BY <1>5, <2>2, <2>3
<1>6. CASE a.key \in Users /\ ans = Answer("ok", 200, None, a.key)
  <2>1. ans \in AnswerType
    BY <1>1, <1>6, AnswerTyped
  <2>2. ans.kind = "ok" /\ ans.hash = None /\ ans.uid = a.key
    BY <1>6 DEF Answer
  <2> QED
    BY <2>1, <2>2
<1> QED
  BY <1>3, <1>4, <1>5, <1>6 DEF Answers

LEMMA ReplyParts ==
    /\ 0 \in 0 .. MaxRequests /\ None \in Users \cup {None}
    /\ Pong \in Codes /\ 200 \in Codes /\ 400 \in Codes /\ 401 \in Codes
    /\ 500 \in Codes /\ 503 \in Codes
  BY LimitsAssumption DEF Codes, Pong

LEMMA ReplyTyped ==
    ASSUME TypeOK, NEW n \in 0 .. MaxRequests, NEW m \in 0 .. MaxRequests,
           NEW code \in Codes, NEW uid \in Users \cup {None},
           ReplyWith(n, code, m, uid)
    PROVE  /\ out' \in Seq(ReplyType)
           /\ Len(out') = Len(out) + 1
           /\ out'[Len(out')] = [for |-> n, code |-> code, from |-> m, uid |-> uid]
           /\ \A i \in 1 .. Len(out) : out'[i] = out[i]
<1>1. [for |-> n, code |-> code, from |-> m, uid |-> uid] \in ReplyType
  BY DEF ReplyType
<1>2. out \in Seq(ReplyType)
  BY DEF TypeOK
<1> DEFINE e == [for |-> n, code |-> code, from |-> m, uid |-> uid]
<1>3. out' = Append(out, e)
  BY DEF ReplyWith
<1> HIDE DEF e
<1> QED
  BY <1>1, <1>2, <1>3 DEF e

LEMMA FailsTyped ==
    ASSUME TypeOK, NEW kind, Fails(kind)
    PROVE  faults' \in 0 .. MaxFaults
  BY LimitsAssumption DEF TypeOK, Fails

LEMMA InitInv == Init => IInv
<1> SUFFICES ASSUME Init PROVE IInv
  OBVIOUS
<1>1. db \in DbType
  BY DbTyped, NoAskTyped, NoAnswerTyped DEF Init
<1>2. TypeOK
  BY <1>1, LimitsAssumption DEF Init, TypeOK
<1>3. db.st = "closed" /\ db.ask.for = 0
  BY DEF Init, Db, NoAsk, Ask
<1> QED
  BY <1>2, <1>3 DEF IInv, Connection, Replies, Init, AtRest, Waits, CurrentIsAsked, AskIsOfRequest, AnswerIsOfAsk,
                    TornTold, Validated, Tokens, AllBelong, Pending

-----------------------------------------------------------------------------
(* Every step keeps the types, also of a client that does not wait. *)

LEMMA SendType == ASSUME TypeOK, Send PROVE TypeOK'
<1>1. PICK r \in Requests : sent' = Append(sent, r)
  BY RequestsAssumption DEF Send
<1>2. sent' \in Seq(Requests) /\ Len(sent') = Len(sent) + 1
  BY <1>1 DEF TypeOK
<1>3. Len(sent) \in Nat /\ Len(sent) < MaxRequests
  BY DEF TypeOK, Send
<1> QED
  BY <1>2, <1>3, LimitsAssumption DEF TypeOK, Send

LEMMA ConnectType == ASSUME TypeOK, Connect PROVE TypeOK'
<1>1. CASE pc' = "poll" /\ db' = Db("fresh", NoAsk, NoAnswer) /\ UNCHANGED <<out, faults>>
  <2>1. db' \in DbType
    BY <1>1, DbTyped, NoAskTyped, NoAnswerTyped
  <2> QED
    BY <1>1, <2>1 DEF TypeOK, Connect
<1>2. CASE /\ Fails("unreachable") /\ pc' = "exit" /\ ReplyWith(0, 503, 0, None)
           /\ UNCHANGED db
  <2>1. out' \in Seq(ReplyType)
    BY <1>2, ReplyTyped, ReplyParts
  <2> QED
    BY <1>2, <2>1, FailsTyped DEF TypeOK, Connect
<1> QED
  BY <1>1, <1>2 DEF Connect

LEMMA ForwardType ==
    ASSUME TypeOK, NEW n \in 1 .. Len(sent), ~Local(sent[n]), Forward(n)
    PROVE  db' \in DbType
<1>1. sent[n] \in RequestType
  BY SentType
<1>2. n \in 0 .. MaxRequests
  BY LimitsAssumption DEF TypeOK
<1>3. sent[n].op \in Ops \cup {None} /\ sent[n].key \in Keys \cup {None}
  BY <1>1 DEF RequestType
<1>4. Identity(sent[n]) \in Keys \cup {None}
  BY <1>1, IdentityType
<1>5. Ask(n, sent[n].op, sent[n].key, Identity(sent[n])) \in AskType
  BY <1>2, <1>3, <1>4, AskTyped
<1>6. Db("asked", Ask(n, sent[n].op, sent[n].key, Identity(sent[n])), NoAnswer) \in DbType
  BY <1>5, DbTyped, NoAnswerTyped
<1> QED
  BY <1>6 DEF TypeOK, Forward

LEMMA ReadClientType == ASSUME TypeOK, ReadClient PROVE TypeOK'
<1> DEFINE n == read + 1
<1>1. n \in 1 .. Len(sent) /\ n \in 0 .. MaxRequests
  BY LimitsAssumption DEF TypeOK, ReadClient
<1>2. read' \in 1 .. Len(sent) /\ n <= read' /\ sent' = sent
  BY <1>1 DEF TypeOK, ReadClient
<1>3. \/ /\ Local(sent[n]) /\ ReplyWith(n, LocalCode(sent[n]), 0, None)
         /\ pc' \in {"poll", "exit"} /\ UNCHANGED <<cur, db>>
      \/ ~Local(sent[n]) /\ Forward(n) /\ UNCHANGED <<out, pc>>
  BY DEF ReadClient
<1>4. UNCHANGED <<ahead, sent, auth, key, faults>>
  BY DEF ReadClient
<1> HIDE DEF n
<1>5. CASE /\ Local(sent[n]) /\ ReplyWith(n, LocalCode(sent[n]), 0, None)
           /\ pc' \in {"poll", "exit"} /\ UNCHANGED <<cur, db>>
  <2>1. LocalCode(sent[n]) \in Codes
    BY ReplyParts DEF LocalCode
  <2>2. out' \in Seq(ReplyType)
    BY <1>1, <1>5, <2>1, ReplyTyped, ReplyParts
  <2>3. cur' \in 0 .. read'
    BY <1>2, <1>5 DEF TypeOK, n
  <2> QED
    BY <1>2, <1>4, <1>5, <2>2, <2>3 DEF TypeOK
<1>6. CASE ~Local(sent[n]) /\ Forward(n) /\ UNCHANGED <<out, pc>>
  <2>1. db' \in DbType
    BY <1>1, <1>6, ForwardType
  <2>2. cur' \in 0 .. read'
    BY <1>1, <1>2, <1>6 DEF Forward
  <2> QED
    BY <1>2, <1>4, <1>6, <2>1, <2>2 DEF TypeOK
<1> QED
  BY <1>3, <1>5, <1>6

LEMMA DbEndType ==
    ASSUME TypeOK, db' = [db EXCEPT !.st = "ending"]
    PROVE  db' \in DbType
  BY DEF TypeOK, DbType

LEMMA DeliverType ==
    ASSUME TypeOK, NEW ans \in AnswerType, Deliver(ans)
    PROVE  db' \in DbType
  BY DEF TypeOK, DbType, Deliver

LEMMA DbAnswersType == ASSUME TypeOK, DbAnswers PROVE TypeOK'
<1>1. db.ask \in AskType
  BY DEF TypeOK, DbType
<1>2. db' \in DbType
  BY <1>1, AnswersSound, DeliverType, DbEndType DEF DbAnswers
<1> QED
  BY <1>2 DEF TypeOK, DbAnswers

LEMMA DbFailsType == ASSUME TypeOK, DbFails PROVE TypeOK'
<1>1. 503 \in {0, 200, 400, 503} /\ 0 \in {0, 200, 400, 503}
  OBVIOUS
<1>2. /\ Answer("error", 503, None, None) \in AnswerType
      /\ Answer("torn", 0, None, None) \in AnswerType
  BY <1>1, AnswerTyped
<1>3. db' \in DbType
  BY <1>2, DeliverType, DbEndType DEF DbFails
<1>4. faults' \in 0 .. MaxFaults
  BY FailsTyped DEF DbFails
<1> QED
  BY <1>3, <1>4 DEF TypeOK, DbFails

\* The replies of handle_db_response.
LEMMA CurTyped ==
    ASSUME TypeOK
    PROVE  cur \in 0 .. MaxRequests /\ db.ask.for \in 0 .. MaxRequests
  BY LimitsAssumption DEF TypeOK, DbType, AskType

LEMMA ReadEndType == ASSUME TypeOK, ReadEnd PROVE TypeOK'
  BY DEF TypeOK, ReadEnd

LEMMA ReadGarbledType == ASSUME TypeOK, ReadGarbled PROVE TypeOK'
<1>1. out' \in Seq(ReplyType)
  <2>1. ReplyWith(cur, 500, 0, None)
    BY DEF ReadGarbled
  <2>2. cur \in 0 .. MaxRequests
    BY CurTyped
  <2> QED
    BY <2>1, <2>2, ReplyTyped, ReplyParts
<1>2. db' \in DbType
  <2>1. CASE db' = [db EXCEPT !.ans.kind = "rest"]
    <3>1. [db.ans EXCEPT !.kind = "rest"] \in AnswerType
      BY DEF TypeOK, DbType, AnswerType
    <3>2. db' = [db EXCEPT !.ans = [db.ans EXCEPT !.kind = "rest"]]
      BY <2>1 DEF TypeOK, DbType
    <3> QED
      BY <3>1, <3>2 DEF TypeOK, DbType
  <2>2. CASE db' = [db EXCEPT !.st = "ending"]
    BY <2>2, DbEndType
  <2> QED
    BY <2>1, <2>2 DEF ReadGarbled
<1> QED
  BY <1>1, <1>2 DEF TypeOK, ReadGarbled

LEMMA ReadLeftoverType == ASSUME TypeOK, ReadLeftover PROVE TypeOK'
<1>1. PICK code \in {401, Pong} : ReplyWith(cur, code, db.ask.for, None)
  BY DEF ReadLeftover
<1>2. out' \in Seq(ReplyType)
  <2>1. code \in Codes
    BY ReplyParts
  <2> QED
    BY <1>1, <2>1, CurTyped, ReplyTyped, ReplyParts
<1>3. db' \in DbType
  BY DbEndType DEF ReadLeftover
<1> QED
  BY <1>2, <1>3 DEF TypeOK, ReadLeftover

LEMMA ReadUnaskedType == ASSUME TypeOK, ReadUnasked PROVE TypeOK'
<1>1. out' \in Seq(ReplyType)
  <2>1. ReplyWith(0, 500, 0, None)
    BY DEF ReadUnasked
  <2> QED
    BY <2>1, ReplyTyped, ReplyParts
<1>2. db' \in DbType
  BY DbEndType DEF ReadUnasked
<1> QED
  BY <1>1, <1>2 DEF TypeOK, ReadUnasked

LEMMA ReadAnswerType ==
    ASSUME TypeOK, ReadAnswer PROVE TypeOK'
<1>0. db.ans.code \in Codes
  BY DEF TypeOK, DbType, AnswerType, Pong, Codes
<1>1. out' \in Seq(ReplyType)
  <2>1. ReplyWith(cur, db.ans.code, db.ask.for, None)
    BY DEF ReadAnswer
  <2>2. cur \in 0 .. MaxRequests /\ db.ask.for \in 0 .. MaxRequests
    BY CurTyped
  <2> QED
    BY <1>0, <2>1, <2>2, ReplyTyped, ReplyParts
<1>2. db' \in DbType
  BY DbEndType DEF ReadAnswer
<1> QED
  BY <1>1, <1>2 DEF TypeOK, ReadAnswer

LEMMA CurrentType ==
    ASSUME TypeOK, cur # 0
    PROVE  cur \in 1 .. Len(sent) /\ sent[cur] \in RequestType
<1>1. cur \in 1 .. Len(sent)
  BY DEF TypeOK
<1> QED
  BY <1>1, SentType

LEMMA LoginType == ASSUME TypeOK, cur # 0, Login PROVE
    /\ key' \in Keys \cup {None} /\ db' \in DbType /\ auth' \in {"INITIAL", "VALIDATED"}
    /\ out' \in Seq(ReplyType) /\ faults' \in 0 .. MaxFaults
<1>1. key' = sent[cur].key /\ key' \in Keys \cup {None}
  BY CurrentType DEF Login, RequestType
<1>2. CASE /\ db' = Db("asked", Ask(cur, "GET_USER_INFO", key', None), NoAnswer)
           /\ auth' = "VALIDATED" /\ UNCHANGED <<out, faults>>
  <2>1. "GET_USER_INFO" \in Ops \cup {None}
    BY DEF Ops, TokenOps, PlainOps
  <2> DEFINE k == key'
  <2>2. k \in Keys \cup {None}
    BY <1>1
  <2>3. db' = Db("asked", Ask(cur, "GET_USER_INFO", k, None), NoAnswer)
    BY <1>2
  <2> HIDE DEF k
  <2>4. Ask(cur, "GET_USER_INFO", k, None) \in AskType
    BY <2>1, <2>2, CurTyped, AskTyped
  <2>5. db' \in DbType
    BY <2>3, <2>4, DbTyped, NoAnswerTyped
  <2> QED
    BY <1>1, <1>2, <2>5 DEF TypeOK
<1>3. CASE /\ Fails("unreachable") /\ db' = Db("closed", NoAsk, NoAnswer)
           /\ ReplyWith(cur, 503, 0, None) /\ UNCHANGED auth
  <2>1. out' \in Seq(ReplyType)
    BY <1>3, CurTyped, ReplyTyped, ReplyParts
  <2>2. db' \in DbType
    BY <1>3, DbTyped, NoAskTyped, NoAnswerTyped
  <2> QED
    BY <1>1, <1>3, <2>1, <2>2, FailsTyped DEF TypeOK
<1> QED
  BY <1>2, <1>3 DEF Login

LEMMA CheckPasswordType == ASSUME TypeOK, CheckPassword PROVE TypeOK'
<1>1. CASE Login
  BY <1>1, LoginType DEF CheckPassword, Handles, TypeOK
<1>2. CASE /\ ReplyWith(cur, 401, db.ask.for, None) /\ db' = [db EXCEPT !.st = "ending"]
           /\ UNCHANGED <<auth, key, faults>>
  <2>1. out' \in Seq(ReplyType)
    BY <1>2, CurTyped, ReplyTyped, ReplyParts
  <2>2. db' \in DbType
    BY <1>2, DbEndType
  <2> QED
    BY <1>2, <2>1, <2>2 DEF CheckPassword, TypeOK
<1> QED
  BY <1>1, <1>2 DEF CheckPassword

LEMMA IssueTokenType == ASSUME TypeOK, IssueToken PROVE TypeOK'
<1>1. db' \in DbType
  BY DbEndType DEF IssueToken
<1>2. db.ans.uid \in Users \cup {None}
  BY DEF TypeOK, DbType, AnswerType
<1>3. out' \in Seq(ReplyType)
  BY <1>2, CurTyped, ReplyTyped, ReplyParts DEF IssueToken
<1> QED
  BY <1>1, <1>3 DEF IssueToken, TypeOK

LEMMA TypeStep == TypeOK /\ [Next]_vars => TypeOK'
<1>1. ASSUME TypeOK, Leave PROVE TypeOK'
  BY <1>1 DEF TypeOK, Leave
<1>2. ASSUME TypeOK, UNCHANGED vars PROVE TypeOK'
  BY <1>2 DEF TypeOK, vars
<1>3. ASSUME TypeOK, Next PROVE TypeOK'
  BY <1>1, <1>2, <1>3, SendType, ConnectType, ReadClientType, DbAnswersType, DbFailsType,
     ReadEndType, ReadGarbledType, ReadLeftoverType, ReadUnaskedType, ReadAnswerType, CheckPasswordType,
     IssueTokenType DEF Next, ReadDb, Exited
<1> QED
  BY <1>2, <1>3

\* Every variable of a session keeps its type, current_request points at a
\* request that was read, and each reply has a code of the error table,
\* whatever the client sends and whatever fails.
THEOREM TypeCorrect == Spec => []TypeOK
<1>1. Init => TypeOK
  BY InitInv DEF IInv
<1> QED
  BY <1>1, TypeStep, PTL DEF Spec

-----------------------------------------------------------------------------
(* Every step of a session whose client waits keeps the rest. *)

LEMMA ReplyKeeps ==
    ASSUME IInv, sent' = sent, NEW n \in 0 .. MaxRequests, NEW m \in 0 .. MaxRequests,
           NEW code \in Codes, NEW uid \in Users \cup {None}, ReplyWith(n, code, m, uid),
           \/ m = 0 \/ m = n
           \/ code # 200 /\ \E j \in 1 .. Len(out) : out[j].for = m /\ out[j].code = 500,
           uid # None => /\ n \in 1 .. Len(sent) /\ sent[n].op = "VALIDATE_USER"
                         /\ sent[n].key = uid /\ sent[n].pass = Password[uid]
    PROVE  Replies' /\ Len(out') = Len(out) + 1
<1>1. /\ out' \in Seq(ReplyType)
      /\ Len(out') = Len(out) + 1
      /\ out'[Len(out')] = [for |-> n, code |-> code, from |-> m, uid |-> uid]
      /\ \A i \in 1 .. Len(out) : out'[i] = out[i]
  BY ReplyTyped DEF IInv
<1>2. Len(out) \in Nat /\ Len(sent) \in Nat
  BY DEF IInv, TypeOK
<1>3. \A i \in 1 .. Len(out') : i \in 1 .. Len(out) \/ i = Len(out')
  BY <1>1, <1>2
<1>4. Waits'
  BY <1>1, <1>2 DEF IInv, Replies, Waits
<1>5. Tokens'
  <2> SUFFICES ASSUME NEW i \in 1 .. Len(out'), out'[i].uid # None
               PROVE  /\ out'[i].for \in 1 .. Len(sent)
                      /\ sent[out'[i].for].op = "VALIDATE_USER"
                      /\ sent[out'[i].for].key = out'[i].uid
                      /\ sent[out'[i].for].pass = Password[out'[i].uid]
    BY DEF Tokens
  <2>1. CASE i \in 1 .. Len(out)
    BY <1>1, <2>1 DEF IInv, Replies, Tokens
  <2>2. CASE i = Len(out')
    BY <1>1, <2>2
  <2> QED
    BY <1>3, <2>1, <2>2
<1>6. AllBelong'
  <2> SUFFICES ASSUME NEW i \in 1 .. Len(out'), out'[i].from # 0
               PROVE  Belongs(i)'
    BY DEF AllBelong
  <2>1. CASE i \in 1 .. Len(out)
    <3>1. Belongs(i) /\ \A j \in 1 .. i - 1 : j \in 1 .. Len(out)
      BY <1>1, <1>2, <2>1 DEF IInv, Replies, AllBelong
    <3> QED
      BY <1>1, <2>1, <3>1 DEF Belongs
  <2>2. CASE i = Len(out')
    <3>1. 1 .. i - 1 = 1 .. Len(out)
      BY <1>1, <1>2, <2>2
    <3>2. out'[i].from = m /\ out'[i].for = n /\ out'[i].code = code
      BY <1>1, <2>2
    <3> QED
      BY <1>1, <3>1, <3>2 DEF Belongs
  <2> QED
    BY <1>3, <2>1, <2>2
<1> QED
  BY <1>1, <1>4, <1>5, <1>6 DEF Replies

\* More replies change nothing about the first piece of a torn answer.
LEMMA TornStays ==
    ASSUME TypeOK, TornTold, UNCHANGED db, NEW n \in 0 .. MaxRequests,
           NEW m \in 0 .. MaxRequests, NEW code \in Codes, NEW uid \in Users \cup {None},
           ReplyWith(n, code, m, uid)
    PROVE  TornTold'
<1>1. Len(out') = Len(out) + 1 /\ \A i \in 1 .. Len(out) : out'[i] = out[i]
  BY ReplyTyped
<1>2. \A j \in 1 .. Len(out) : j \in 1 .. Len(out')
  BY <1>1 DEF TypeOK
<1> QED
  BY <1>1, <1>2 DEF TornTold

LEMMA QuietKeeps ==
    ASSUME IInv, UNCHANGED <<sent, out>>
    PROVE  Replies'
  BY DEF IInv, Replies, Waits, Tokens, AllBelong, Belongs

\* A connection that has only its end left, or is closed, promises nothing.
LEMMA OverKeeps ==
    ASSUME IInv, pc' # "connect", UNCHANGED sent, db'.st \in {"ending", "closed"},
           db'.ask = db.ask \/ db'.ask = NoAsk
    PROVE  Connection'
<1>1. NoAsk.for = 0
  BY DEF NoAsk, Ask
<1>2. AskIsOfRequest'
  BY <1>1 DEF IInv, Connection, AskIsOfRequest
<1> QED
  BY <1>2 DEF Connection, AtRest, CurrentIsAsked, AnswerIsOfAsk, TornTold, Validated, Pending

LEMMA EndFields ==
    ASSUME TypeOK, db' = [db EXCEPT !.st = "ending"]
    PROVE  db'.st = "ending" /\ db'.ask = db.ask
  BY DEF TypeOK, DbType

LEMMA DeliverFields ==
    ASSUME TypeOK, NEW ans, Deliver(ans)
    PROVE  db'.st = "answered" /\ db'.ask = db.ask /\ db'.ans = ans
  BY DEF TypeOK, DbType, Deliver

LEMMA DbFields ==
    ASSUME NEW st, NEW ask, NEW ans
    PROVE  /\ Db(st, ask, ans).st = st /\ Db(st, ask, ans).ask = ask
           /\ Db(st, ask, ans).ans = ans
  BY DEF Db

LEMMA SendInv == ASSUME ~ahead, IInv, Send PROVE Connection' /\ Replies'
<1>1. PICK r \in Requests : sent' = Append(sent, r)
  BY DEF Send
<1>2. /\ Len(sent') = Len(sent) + 1 /\ Len(sent) \in Nat /\ Len(out) \in Nat
      /\ \A i \in 1 .. Len(sent) : i \in 1 .. Len(sent') /\ sent'[i] = sent[i]
  BY <1>1 DEF IInv, TypeOK
<1>3. Len(sent) <= Len(out)
  BY DEF Send
<1>4. ~Pending
  BY <1>2, <1>3 DEF IInv, Connection, CurrentIsAsked
<1>5. UNCHANGED <<pc, read, cur, auth, key, db, out, faults>>
  BY DEF Send
<1>6. ~Pending'
  BY <1>4, <1>5 DEF Pending
<1>7. AskIsOfRequest'
  BY <1>2, <1>5 DEF IInv, Connection, AskIsOfRequest
<1>8. AtRest' /\ AnswerIsOfAsk' /\ TornTold'
  BY <1>5 DEF IInv, Connection, AtRest, AnswerIsOfAsk, TornTold
<1>9. Waits' /\ AllBelong'
  BY <1>2, <1>3, <1>5 DEF IInv, Replies, Waits, AllBelong, Belongs
<1>10. Tokens'
  BY <1>2, <1>5 DEF IInv, Replies, Tokens
<1> QED
  BY <1>6, <1>7, <1>8, <1>9, <1>10 DEF Connection, Replies, CurrentIsAsked, Validated

LEMMA ConnectInv == ASSUME IInv, Connect PROVE Connection' /\ Replies'
<1>1. UNCHANGED <<sent, read, cur, auth, key>> /\ pc = "connect" /\ pc' # "connect"
  BY DEF Connect
<1>2. auth = "INITIAL" /\ read = 0 /\ out = <<>> /\ db.st = "closed"
  BY <1>1 DEF IInv, Connection, AtRest
<1>3. CASE db' = Db("fresh", NoAsk, NoAnswer) /\ UNCHANGED <<out, faults>>
  <2>1. db'.st = "fresh" /\ db'.ask.for = 0
    BY <1>3, DbFields DEF NoAsk, Ask
  <2>2. Connection'
    BY <1>1, <1>2, <1>3, <2>1
       DEF Connection, AtRest, CurrentIsAsked, AskIsOfRequest, AnswerIsOfAsk, TornTold,
           Validated, Pending
  <2> QED
    BY <1>1, <1>3, <2>2, QuietKeeps
<1>4. CASE ReplyWith(0, 503, 0, None) /\ UNCHANGED db
  <2>1. Replies'
    BY <1>1, <1>4, ReplyKeeps, ReplyParts
  <2> QED
    BY <1>1, <1>2, <1>4, <2>1, OverKeeps
<1> QED
  BY <1>3, <1>4 DEF Connect

LEMMA ReadClientInv == ASSUME IInv, ReadClient PROVE Connection' /\ Replies'
<1> DEFINE n == read + 1
<1>1. /\ n \in 1 .. Len(sent) /\ n \in 0 .. MaxRequests /\ n = read + 1 /\ read \in Nat
      /\ Len(sent) \in Nat /\ Len(out) \in Nat /\ Len(sent) <= Len(out) + 1
  BY LimitsAssumption DEF IInv, TypeOK, ReadClient, Replies, Waits
<1>2. /\ read' \in n .. Len(sent) /\ UNCHANGED <<sent, auth, key, faults>>
      /\ pc = "poll" /\ read < Len(sent)
  BY DEF ReadClient
<1>3. ~Pending
  BY <1>1, <1>2 DEF IInv, Connection, CurrentIsAsked
<1>4. \/ /\ Local(sent[n]) /\ ReplyWith(n, LocalCode(sent[n]), 0, None)
         /\ pc' \in {"poll", "exit"} /\ UNCHANGED <<cur, db>>
      \/ ~Local(sent[n]) /\ Forward(n) /\ UNCHANGED <<out, pc>>
  BY DEF ReadClient
<1> HIDE DEF n
<1>5. CASE /\ Local(sent[n]) /\ ReplyWith(n, LocalCode(sent[n]), 0, None)
           /\ pc' \in {"poll", "exit"} /\ UNCHANGED <<cur, db>>
  <2>1. LocalCode(sent[n]) \in Codes
    BY ReplyParts DEF LocalCode
  <2>2. Replies' /\ Len(out') = Len(out) + 1
    BY <1>1, <1>2, <1>5, <2>1, ReplyKeeps, ReplyParts
  <2>3. ~Pending'
    BY <1>3, <1>5 DEF Pending
  <2>4. AtRest'
    <3>1. db.st = "fresh" => Len(out) = read /\ auth = "INITIAL" /\ db.ask.for = 0
      BY DEF IInv, Connection, AtRest
    <3>2. Len(out) = read => Len(out') = read'
      BY <1>1, <1>2, <2>2
    <3> QED
      BY <1>2, <1>5, <3>1, <3>2 DEF AtRest
  <2>5. AskIsOfRequest' /\ AnswerIsOfAsk'
    BY <1>2, <1>5 DEF IInv, Connection, AskIsOfRequest, AnswerIsOfAsk
  <2>6. TornTold'
    BY <1>1, <1>5, <2>1, ReplyParts, TornStays DEF IInv, Connection
  <2> QED
    BY <2>2, <2>3, <2>4, <2>5, <2>6 DEF Connection, CurrentIsAsked, Validated
<1>6. CASE ~Local(sent[n]) /\ Forward(n) /\ UNCHANGED <<out, pc>>
  <2>1. Replies'
    BY <1>2, <1>6, QuietKeeps
  <2>2. CASE db.st = "fresh"
    <3> DEFINE a == Ask(n, sent[n].op, sent[n].key, Identity(sent[n]))
    <3>1. db' = Db("asked", a, NoAnswer) /\ cur' = n
      BY <1>6, <2>2 DEF Forward
    <3>2. a.for = n /\ a.key = sent[n].key
      BY DEF Ask
    <3> HIDE DEF a
    <3>3. db'.st = "asked" /\ db'.ask = a
      BY <3>1, DbFields
    <3>4. auth = "INITIAL" /\ Len(out) = read
      BY <2>2 DEF IInv, Connection, AtRest
    <3>5. read' = n /\ n = Len(sent) /\ Len(out) + 1 = n
      BY <1>1, <1>2, <3>4
    <3>6. CurrentIsAsked'
      BY <1>2, <1>6, <3>1, <3>2, <3>3, <3>5 DEF CurrentIsAsked
    <3>7. AskIsOfRequest'
      BY <1>1, <1>2, <3>2, <3>3 DEF AskIsOfRequest
    <3>8. AtRest' /\ AnswerIsOfAsk' /\ TornTold' /\ Validated'
      BY <1>2, <1>6, <3>3, <3>4 DEF AtRest, AnswerIsOfAsk, TornTold, Validated
    <3> QED
      BY <2>1, <3>6, <3>7, <3>8 DEF Connection
  <2>3. CASE db.st # "fresh"
    <3>1. db' = db
      BY <1>6, <2>3 DEF Forward
    <3>2. ~Pending'
      BY <1>3, <3>1 DEF Pending
    <3>3. AtRest' /\ AskIsOfRequest' /\ AnswerIsOfAsk' /\ TornTold'
      BY <1>2, <1>6, <2>3, <3>1
         DEF IInv, Connection, AtRest, AskIsOfRequest, AnswerIsOfAsk, TornTold
    <3> QED
      BY <2>1, <3>2, <3>3 DEF Connection, CurrentIsAsked, Validated
  <2> QED
    BY <2>2, <2>3
<1> QED
  BY <1>4, <1>5, <1>6

\* Whatever is delivered on a connection that was asked, or that nobody asked
\* and that answers with an error.
LEMMA DeliverInv ==
    ASSUME IInv, UNCHANGED <<pc, sent, read, cur, auth, key, out>>, pc # "connect",
           NEW ans \in AnswerType, Deliver(ans), db.st \in {"fresh", "asked"},
           ans.kind # "rest", ans.kind \in {"ok", "torn"} => db.st = "asked",
           ans.hash # None => /\ ans.kind = "ok" /\ db.ask.key \in Users
                              /\ ans.hash = Password[db.ask.key],
           ans.uid # None => ans.kind = "ok" /\ ans.uid = db.ask.key
    PROVE  Connection' /\ Replies'
<1>1. db'.st = "answered" /\ db'.ask = db.ask /\ db'.ans = ans
  BY DeliverFields DEF IInv
<1>2. db.st = "asked" => Pending
  BY DEF Pending, IInv, Connection, AskIsOfRequest
<1>3. db.st = "fresh" => ~Pending'
  BY <1>1 DEF Pending, IInv, Connection, AtRest
<1>4. CurrentIsAsked' /\ Validated'
  <2>1. CASE db.st = "asked"
    <3>1. /\ cur = db.ask.for /\ read = Len(sent) /\ Len(out) + 1 = read
          /\ auth = "VALIDATED" => /\ sent[cur].op = "VALIDATE_USER" /\ sent[cur].key \in Users
                                   /\ sent[cur].pass = Password[sent[cur].key]
      BY <1>2, <2>1 DEF IInv, Connection, CurrentIsAsked, Validated
    <3> QED
      BY <1>1, <3>1 DEF CurrentIsAsked, Validated
  <2>2. CASE db.st = "fresh"
    BY <1>3, <2>2 DEF CurrentIsAsked, Validated
  <2> QED
    BY <2>1, <2>2
<1>5. AskIsOfRequest' /\ AnswerIsOfAsk' /\ AtRest' /\ TornTold'
  BY <1>1, <1>2 DEF IInv, Connection, AskIsOfRequest, AnswerIsOfAsk, AtRest, TornTold, Pending
<1>6. Replies'
  BY QuietKeeps
<1> QED
  BY <1>4, <1>5, <1>6 DEF Connection

LEMMA NotConnecting == ASSUME IInv, db.st # "closed" PROVE pc # "connect"
  BY DEF IInv, Connection, AtRest

LEMMA DbAnswersInv == ASSUME IInv, DbAnswers PROVE Connection' /\ Replies'
<1>1. db.st = "asked" /\ UNCHANGED <<pc, sent, read, cur, auth, key, out>>
  BY DEF DbAnswers
<1>2. pc # "connect" /\ pc' # "connect"
  BY <1>1, NotConnecting
<1>3. ASSUME NEW ans \in Answers(db.ask), Deliver(ans) PROVE Connection' /\ Replies'
  <2>1. db.ask \in AskType
    BY DEF IInv, TypeOK, DbType
  <2>2. /\ ans \in AnswerType /\ ans.kind # "rest"
        /\ ans.hash # None => /\ ans.kind = "ok" /\ db.ask.key \in Users
                              /\ ans.hash = Password[db.ask.key]
        /\ ans.uid # None => ans.kind = "ok" /\ ans.uid = db.ask.key
    BY <1>3, <2>1, AnswersSound
  <2> QED
    BY <1>1, <1>2, <1>3, <2>2, DeliverInv
<1>4. CASE db' = [db EXCEPT !.st = "ending"]
  BY <1>1, <1>2, <1>4, EndFields, OverKeeps, QuietKeeps DEF IInv
<1> QED
  BY <1>3, <1>4 DEF DbAnswers

LEMMA DbFailsInv == ASSUME IInv, DbFails PROVE Connection' /\ Replies'
<1>1. db.st \in {"fresh", "asked"} /\ UNCHANGED <<pc, sent, read, cur, auth, key, out>>
  BY DEF DbFails
<1>2. pc # "connect" /\ pc' # "connect"
  BY <1>1, NotConnecting
<1>3. ASSUME NEW kind \in {"error", "torn"}, NEW code \in {0, 503},
             Deliver(Answer(kind, code, None, None)), kind = "torn" => db.st = "asked"
      PROVE  Connection' /\ Replies'
  <2> DEFINE ans == Answer(kind, code, None, None)
  <2>1. ans \in AnswerType
    BY AnswerTyped
  <2>2. ans.kind = kind /\ ans.hash = None /\ ans.uid = None
    BY DEF Answer
  <2>3. Deliver(ans)
    BY <1>3
  <2> HIDE DEF ans
  <2> QED
    BY <1>1, <1>2, <1>3, <2>1, <2>2, <2>3, DeliverInv
<1>4. CASE db' = [db EXCEPT !.st = "ending"]
  BY <1>1, <1>2, <1>4, EndFields, OverKeeps, QuietKeeps DEF IInv
<1> QED
  BY <1>3, <1>4 DEF DbFails

LEMMA ReadEndInv == ASSUME IInv, ReadEnd PROVE Connection' /\ Replies'
  BY OverKeeps, QuietKeeps DEF ReadEnd

LEMMA LeaveInv == ASSUME IInv, Leave PROVE Connection' /\ Replies'
<1>1. Replies'
  BY QuietKeeps DEF Leave
<1>2. /\ UNCHANGED <<sent, read, cur, auth, key, db, out, faults>> /\ pc' = "exit"
  BY DEF Leave
<1>3. Connection'
  BY <1>2 DEF IInv, Connection, AtRest, CurrentIsAsked, AskIsOfRequest, AnswerIsOfAsk,
              TornTold, Validated, Pending
<1> QED
  BY <1>1, <1>3

\* A reply that ends the use of the connection.
LEMMA LastReplyInv ==
    ASSUME IInv, UNCHANGED sent, pc = "poll", UNCHANGED pc,
           NEW n \in 0 .. MaxRequests, NEW m \in 0 .. MaxRequests, NEW code \in Codes,
           ReplyWith(n, code, m, None), db' = [db EXCEPT !.st = "ending"],
           \/ m = 0 \/ m = n
           \/ code # 200 /\ \E j \in 1 .. Len(out) : out[j].for = m /\ out[j].code = 500
    PROVE  Connection' /\ Replies'
<1>1. Replies'
  BY ReplyKeeps, ReplyParts
<1>2. Connection'
  BY EndFields, OverKeeps DEF IInv
<1> QED
  BY <1>1, <1>2

LEMMA ReadGarbledInv == ASSUME IInv, ReadGarbled PROVE Connection' /\ Replies'
<1>1. /\ pc = "poll" /\ UNCHANGED <<pc, sent, read, cur, auth, key, faults>>
      /\ ReplyWith(cur, 500, 0, None) /\ db.st = "answered" /\ db.ans.kind \in {"torn", "rest"}
  BY DEF ReadGarbled
<1>2. Replies'
  BY <1>1, CurTyped, ReplyKeeps, ReplyParts DEF IInv
<1>3. CASE db' = [db EXCEPT !.st = "ending"]
  BY <1>1, <1>2, <1>3, EndFields, OverKeeps DEF IInv
<1>4. CASE db' = [db EXCEPT !.ans.kind = "rest"]
  <2>1. /\ db'.st = "answered" /\ db'.ask = db.ask /\ db'.ans.kind = "rest"
        /\ db'.ans.hash = db.ans.hash /\ db'.ans.uid = db.ans.uid
    BY <1>1, <1>4 DEF IInv, TypeOK, DbType, AnswerType
  <2>5. TornTold'
    <3>1. /\ Len(out') = Len(out) + 1 /\ Len(out) \in Nat
          /\ out'[Len(out')].for = cur /\ out'[Len(out')].code = 500
          /\ \A i \in 1 .. Len(out) : out'[i] = out[i]
      <4>1. TypeOK /\ out \in Seq(ReplyType) /\ cur \in 0 .. MaxRequests
        BY CurTyped DEF IInv, TypeOK
      <4>2. /\ Len(out') = Len(out) + 1
            /\ out'[Len(out')] = [for |-> cur, code |-> 500, from |-> 0, uid |-> None]
            /\ \A i \in 1 .. Len(out) : out'[i] = out[i]
        BY <1>1, <4>1, ReplyTyped, ReplyParts
      <4> QED
        BY <4>1, <4>2
    <3>2. CASE db.ans.kind = "rest"
      <4>1. PICK j \in 1 .. Len(out) : out[j].for = db.ask.for /\ out[j].code = 500
        BY <1>1, <3>2 DEF IInv, Connection, TornTold
      <4>2. j \in 1 .. Len(out') /\ out'[j].for = db'.ask.for /\ out'[j].code = 500
        BY <2>1, <3>1, <4>1
      <4> QED
        BY <4>2 DEF TornTold
    <3>3. CASE db.ans.kind = "torn"
      <4>1. cur = db.ask.for
        BY <1>1, <3>3 DEF IInv, Connection, AnswerIsOfAsk, CurrentIsAsked, Pending
      <4>2. Len(out') \in 1 .. Len(out')
        BY <3>1
      <4> QED
        BY <2>1, <3>1, <4>1, <4>2 DEF TornTold
    <3> QED
      BY <1>1, <3>2, <3>3
  <2>2. db.ans.hash = None /\ db.ans.uid = None
    BY <1>1 DEF IInv, Connection, AnswerIsOfAsk
  <2>3. ~Pending'
    BY <2>1 DEF Pending
  <2>4. AtRest' /\ AskIsOfRequest' /\ AnswerIsOfAsk'
    BY <1>1, <2>1, <2>2 DEF IInv, Connection, AtRest, AskIsOfRequest, AnswerIsOfAsk
  <2> QED
    BY <1>2, <2>3, <2>4, <2>5 DEF Connection, CurrentIsAsked, Validated
<1> QED
  BY <1>3, <1>4 DEF ReadGarbled

LEMMA ReadLeftoverInv == ASSUME IInv, ReadLeftover PROVE Connection' /\ Replies'
<1>1. PICK code \in {401, Pong} : ReplyWith(cur, code, db.ask.for, None)
  BY DEF ReadLeftover
<1>2. \E j \in 1 .. Len(out) : out[j].for = db.ask.for /\ out[j].code = 500
  BY DEF ReadLeftover, IInv, Connection, TornTold
<1>3. /\ cur \in 0 .. MaxRequests /\ db.ask.for \in 0 .. MaxRequests
      /\ code \in Codes /\ code # 200
  BY CurTyped, ReplyParts DEF IInv, Pong
<1>4. UNCHANGED <<sent, pc>> /\ pc = "poll" /\ db' = [db EXCEPT !.st = "ending"]
  BY DEF ReadLeftover
<1> QED
  BY <1>1, <1>2, <1>3, <1>4, LastReplyInv

LEMMA ReadUnaskedInv == ASSUME IInv, ReadUnasked PROVE Connection' /\ Replies'
  BY LastReplyInv, ReplyParts DEF ReadUnasked

\* An answer that is handled is the answer to current_request.
LEMMA AnswerIsCurrent ==
    ASSUME IInv, NEW ops, Handles(ops)
    PROVE  /\ db.ask.for # 0 => Pending /\ cur = db.ask.for
           /\ cur \in 1 .. Len(sent) /\ sent[cur] \in RequestType
           /\ pc = "poll" /\ db.st = "answered"
<1>1. db.st = "answered" /\ db.ans.kind # "rest" /\ cur # 0 /\ pc = "poll"
  BY DEF Handles
<1>2. db.ask.for # 0 => Pending
  BY <1>1 DEF Pending
<1> QED
  BY <1>1, <1>2, CurrentType DEF IInv, Connection, CurrentIsAsked

LEMMA ReadAnswerInv == ASSUME IInv, ReadAnswer PROVE Connection' /\ Replies'
<1>1. db.ans.code \in Codes
  BY DEF IInv, TypeOK, DbType, AnswerType, Codes, Pong
<1>2. db.ask.for # 0 => db.ask.for = cur
  BY AnswerIsCurrent DEF ReadAnswer
<1>3. pc = "poll" /\ UNCHANGED <<pc, sent>> /\ db' = [db EXCEPT !.st = "ending"]
  BY AnswerIsCurrent DEF ReadAnswer
<1>4. ReplyWith(cur, db.ans.code, db.ask.for, None)
  BY DEF ReadAnswer
<1>5. cur \in 0 .. MaxRequests /\ db.ask.for \in 0 .. MaxRequests
  BY CurTyped DEF IInv
<1> QED
  BY <1>1, <1>2, <1>3, <1>4, <1>5, LastReplyInv

LEMMA LoginInv ==
    ASSUME IInv, Handles({"VALIDATE_USER"}), Matches(sent[cur]), Login,
           UNCHANGED <<pc, sent, read, cur>>
    PROVE  Connection' /\ Replies'
<1>1. /\ db.ans.kind = "ok" /\ db.ans.hash # None /\ sent[cur].pass = db.ans.hash
      /\ sent[cur].op = "VALIDATE_USER" /\ cur # 0
  BY DEF Matches, Handles
<1>2. Pending /\ cur = db.ask.for /\ cur \in 1 .. Len(sent) /\ pc = "poll"
  BY <1>1, AnswerIsCurrent DEF IInv, Connection, AnswerIsOfAsk
<1>3. read = Len(sent) /\ Len(out) + 1 = read
  BY <1>2 DEF IInv, Connection, CurrentIsAsked
<1>4. sent[cur].key \in Users /\ sent[cur].pass = Password[sent[cur].key]
  <2>1. db.st = "answered"
    BY AnswerIsCurrent
  <2>2. db.ask.key \in Users /\ db.ans.hash = Password[db.ask.key]
    BY <1>1, <2>1 DEF IInv, Connection, AnswerIsOfAsk
  <2>3. db.ask.key = sent[cur].key
    BY <1>1, <1>2 DEF IInv, Connection, AskIsOfRequest
  <2> QED
    BY <1>1, <2>2, <2>3
<1>5. CASE /\ db' = Db("asked", Ask(cur, "GET_USER_INFO", key', None), NoAnswer)
           /\ auth' = "VALIDATED" /\ UNCHANGED <<out, faults>>
  <2> DEFINE a == Ask(cur, "GET_USER_INFO", key', None)
  <2>1. a.for = cur /\ a.key = sent[cur].key
    BY DEF Ask, Login
  <2>2. db'.st = "asked" /\ db'.ask = a
    BY <1>5, DbFields
  <2> HIDE DEF a
  <2>3. AskIsOfRequest'
    BY <1>1, <1>2, <2>1, <2>2 DEF AskIsOfRequest
  <2>4. CurrentIsAsked'
    BY <1>3, <1>5, <2>1, <2>2 DEF CurrentIsAsked
  <2>5. Validated'
    BY <1>1, <1>4 DEF Validated
  <2>6. AtRest' /\ AnswerIsOfAsk' /\ TornTold'
    BY <1>2, <2>2 DEF AtRest, AnswerIsOfAsk, TornTold
  <2> QED
    BY <1>5, <2>3, <2>4, <2>5, <2>6, QuietKeeps DEF Connection
<1>6. CASE db' = Db("closed", NoAsk, NoAnswer) /\ ReplyWith(cur, 503, 0, None)
  <2>1. Replies'
    BY <1>6, CurTyped, ReplyKeeps, ReplyParts DEF IInv
  <2>2. db'.st = "closed" /\ db'.ask = NoAsk
    BY <1>6, DbFields
  <2> QED
    BY <1>2, <2>1, <2>2, OverKeeps
<1> QED
  BY <1>5, <1>6 DEF Login

LEMMA CheckPasswordInv == ASSUME IInv, CheckPassword PROVE Connection' /\ Replies'
<1>1. CASE Matches(sent[cur]) /\ Login
  BY <1>1, LoginInv DEF CheckPassword
<1>2. CASE ReplyWith(cur, 401, db.ask.for, None) /\ db' = [db EXCEPT !.st = "ending"]
  <2>1. db.ask.for # 0 => db.ask.for = cur
    BY AnswerIsCurrent DEF CheckPassword
  <2>2. pc = "poll" /\ UNCHANGED <<pc, sent>>
    BY AnswerIsCurrent DEF CheckPassword
  <2>3. cur \in 0 .. MaxRequests /\ db.ask.for \in 0 .. MaxRequests
    BY CurTyped DEF IInv
  <2> QED
    BY <1>2, <2>1, <2>2, <2>3, LastReplyInv, ReplyParts
<1> QED
  BY <1>1, <1>2 DEF CheckPassword

LEMMA IssueTokenInv == ASSUME IInv, IssueToken PROVE Connection' /\ Replies'
<1>1. /\ db.ask.for # 0 => Pending /\ cur = db.ask.for
      /\ cur \in 1 .. Len(sent) /\ pc = "poll" /\ db.st = "answered"
  BY AnswerIsCurrent DEF IssueToken
<1>2. UNCHANGED <<pc, sent>> /\ db' = [db EXCEPT !.st = "ending"] /\ auth = "VALIDATED"
  BY DEF IssueToken
<1>3. Connection'
  BY <1>1, <1>2, EndFields, OverKeeps DEF IInv
<1>4. /\ cur \in 0 .. MaxRequests /\ db.ask.for \in 0 .. MaxRequests
      /\ db.ans.uid \in Users \cup {None}
  BY CurTyped DEF IInv, TypeOK, DbType, AnswerType
<1>5. CASE db.ans.uid # None /\ ReplyWith(cur, 200, db.ask.for, db.ans.uid)
  <2>1. db.ask.for # 0 /\ db.ans.uid = db.ask.key
    BY <1>1, <1>5 DEF IInv, Connection, AnswerIsOfAsk
  <2>2. db.ask.key = sent[cur].key
    BY <1>1, <2>1 DEF IInv, Connection, AskIsOfRequest
  <2>3. /\ sent[cur].op = "VALIDATE_USER" /\ sent[cur].key = db.ans.uid
        /\ sent[cur].pass = Password[db.ans.uid]
    BY <1>1, <1>2, <2>1, <2>2 DEF IInv, Connection, Validated
  <2> QED
    BY <1>1, <1>2, <1>3, <1>4, <1>5, <2>3, ReplyKeeps, ReplyParts
<1>6. CASE ReplyWith(cur, 401, db.ask.for, None)
  BY <1>1, <1>2, <1>3, <1>4, <1>6, ReplyKeeps, ReplyParts
<1> QED
  BY <1>5, <1>6 DEF IssueToken

LEMMA NextInv == ASSUME ~ahead, IInv, [Next]_vars PROVE IInv'
<1> SUFFICES Connection' /\ Replies'
  BY TypeStep DEF IInv
<1>1. CASE UNCHANGED vars
  BY <1>1 DEF vars, IInv, Connection, Replies, AtRest, CurrentIsAsked, AskIsOfRequest,
              AnswerIsOfAsk, TornTold, Validated, Pending, Waits, Tokens, AllBelong, Belongs
<1>2. CASE Next
  BY <1>1, <1>2, SendInv, LeaveInv, ConnectInv, ReadClientInv, DbAnswersInv, DbFailsInv,
     ReadEndInv, ReadGarbledInv, ReadLeftoverInv, ReadUnaskedInv, ReadAnswerInv,
     CheckPasswordInv, IssueTokenInv DEF Next, ReadDb, Exited
<1> QED
  BY <1>1, <1>2

\* A client that waits goes on waiting.
LEMMA AheadStays == [Next]_vars => ahead' = ahead
  BY DEF Next, Send, Leave, Connect, ReadClient, ReadDb, Exited, DbAnswers, DbFails, ReadEnd,
         ReadGarbled, ReadLeftover, ReadUnasked, ReadAnswer, CheckPassword, IssueToken, vars

\* The inductive invariant holds in every session whose client waits for its
\* answers.
THEOREM Invariance == Spec => [](ahead \/ IInv)
<1>1. (ahead \/ IInv) /\ [Next]_vars => (ahead \/ IInv)'
  BY NextInv, AheadStays
<1> QED
  BY <1>1, InitInv, PTL DEF Spec

\* handle_db_response makes a token only for the user whose password the
\* login it answers has shown, in any session whose client waits.
THEOREM TokensAreEarned == Spec => []TokenForChecked
<1>1. ahead \/ IInv => TokenForChecked
  BY DEF IInv, Replies, Tokens, TokenForChecked
<1> QED
  BY <1>1, Invariance, PTL

\* handle_db_response gives a client that waits no answer to another request,
\* unless what is left of a torn one, and never a success.
THEOREM NoForeignAnswers == Spec => []AnswersBelong
<1>1. ahead \/ IInv => AnswersBelong
  BY DEF IInv, Replies, AllBelong, Belongs, AnswersBelong
<1> QED
  BY <1>1, Invariance, PTL

-----------------------------------------------------------------------------
(* What a right login gets, while nothing fails.                           *)

\* The connection answers the question it was asked, and auth_state says which
\* of the two steps of a login that is.
OnCourse ==
    /\ db.st = "answered" => db.ask.for # 0 /\ db.ans \in Answers(db.ask)
    /\ Pending => db.ask.op = IF auth = "INITIAL" THEN sent[cur].op ELSE "GET_USER_INFO"

\* The logins that were answered so far were let in, or were not right.
LetIn ==
    \A i \in 1 .. Len(out) :
        out[i].for # 0 /\ out[i].code # 200 =>
            out[i].for \in 1 .. Len(sent) /\ ~RightLogin(sent[out[i].for])

Course == OnCourse /\ LetIn

\* The right login is neither answered here nor turned down by the data server.
LEMMA RightForwarded ==
    ASSUME NEW r, RightLogin(r)
    PROVE  ~Local(r)
  BY DEF RightLogin, Local, TokenOps, ReplaceOps, AddOps, PlainOps

LEMMA FirstStepAnswer ==
    ASSUME NEW a \in AskType, NEW ans \in Answers(a), a.op = "VALIDATE_USER",
           a.key \in Users \ {SystemUser}
    PROVE  ans.kind = "ok" /\ ans.hash = Password[a.key] /\ ans.hash # None
<1>1. ans = Answer("ok", 200, Password[a.key], None)
  BY DEF Answers
<1>2. Password[a.key] \in Passwords
  BY UsersAssumption
<1> QED
  BY <1>1, <1>2, UsersAssumption DEF Answer

LEMMA SecondStepAnswer ==
    ASSUME NEW a \in AskType, NEW ans \in Answers(a), a.op = "GET_USER_INFO", a.key \in Users
    PROVE  ans.uid # None
<1>1. ans = Answer("ok", 200, None, a.key)
  BY DEF Answers
<1> QED
  BY <1>1, UsersAssumption DEF Answer, Keys

\* One more reply, a success or to a login that is not right.
LEMMA ReplyLetsIn ==
    ASSUME TypeOK, LetIn, UNCHANGED sent, NEW n \in 0 .. Len(sent), NEW code \in Codes,
           NEW m \in 0 .. MaxRequests, NEW uid \in Users \cup {None},
           ReplyWith(n, code, m, uid),
           n # 0 /\ code # 200 => ~RightLogin(sent[n])
    PROVE  LetIn'
<1>1. n \in 0 .. MaxRequests /\ Len(sent) \in Nat /\ Len(out) \in Nat
  BY LimitsAssumption DEF TypeOK
<1>2. /\ Len(out') = Len(out) + 1
      /\ out'[Len(out')] = [for |-> n, code |-> code, from |-> m, uid |-> uid]
      /\ \A i \in 1 .. Len(out) : out'[i] = out[i]
  BY <1>1, ReplyTyped
<1>3. \A i \in 1 .. Len(out') : i \in 1 .. Len(out) \/ i = Len(out')
  BY <1>1, <1>2
<1> SUFFICES ASSUME NEW i \in 1 .. Len(out'), out'[i].for # 0, out'[i].code # 200
             PROVE  out'[i].for \in 1 .. Len(sent) /\ ~RightLogin(sent[out'[i].for])
  BY DEF LetIn
<1>4. CASE i \in 1 .. Len(out)
  BY <1>2, <1>4 DEF LetIn
<1>5. CASE i = Len(out')
  <2>1. out'[i].for = n /\ out'[i].code = code
    BY <1>2, <1>5
  <2> QED
    BY <1>1, <2>1
<1> QED
  BY <1>3, <1>4, <1>5

LEMMA QuietLetsIn == ASSUME LetIn, UNCHANGED <<sent, out>> PROVE LetIn'
  BY DEF LetIn

\* A connection that is over has no question open.
LEMMA OverOnCourse ==
    ASSUME db'.st \in {"ending", "closed", "fresh"}
    PROVE  OnCourse'
  BY DEF OnCourse, Pending

LEMMA SendCourse == ASSUME ~ahead, IInv, Course, Send PROVE Course'
<1>1. PICK r \in Requests : sent' = Append(sent, r)
  BY DEF Send
<1>2. /\ Len(sent') = Len(sent) + 1 /\ Len(sent) \in Nat /\ Len(out) \in Nat
      /\ \A i \in 1 .. Len(sent) : i \in 1 .. Len(sent') /\ sent'[i] = sent[i]
  BY <1>1 DEF IInv, TypeOK
<1>3. Len(sent) <= Len(out) /\ UNCHANGED <<read, cur, auth, db, out>>
  BY DEF Send
<1>4. ~Pending /\ ~Pending'
  BY <1>2, <1>3 DEF IInv, Connection, CurrentIsAsked, Pending
<1>5. OnCourse'
  BY <1>3, <1>4 DEF Course, OnCourse
<1>6. LetIn'
  BY <1>2, <1>3 DEF Course, LetIn
<1> QED
  BY <1>5, <1>6 DEF Course

LEMMA ReadClientCourse == ASSUME IInv, Course, ReadClient PROVE Course'
<1> DEFINE n == read + 1
<1>1. n \in 1 .. Len(sent) /\ n \in 0 .. MaxRequests /\ n \in 0 .. Len(sent)
  BY LimitsAssumption DEF IInv, TypeOK, ReadClient
<1>2. ~Pending
  BY DEF IInv, TypeOK, Connection, CurrentIsAsked, ReadClient
<1>3. \/ /\ Local(sent[n]) /\ ReplyWith(n, LocalCode(sent[n]), 0, None)
         /\ UNCHANGED <<cur, db>>
      \/ ~Local(sent[n]) /\ Forward(n) /\ UNCHANGED out
  BY DEF ReadClient
<1>4. UNCHANGED <<sent, auth>>
  BY DEF ReadClient
<1> HIDE DEF n
<1>5. CASE Local(sent[n]) /\ ReplyWith(n, LocalCode(sent[n]), 0, None) /\ UNCHANGED <<cur, db>>
  <2>1. OnCourse'
    BY <1>2, <1>4, <1>5 DEF Course, OnCourse, Pending
  <2>2. LocalCode(sent[n]) \in Codes
    BY ReplyParts DEF LocalCode
  <2>3. LetIn'
    BY <1>1, <1>4, <1>5, <2>2, ReplyLetsIn, ReplyParts, RightForwarded DEF IInv, Course
  <2> QED
    BY <2>1, <2>3 DEF Course
<1>6. CASE Forward(n) /\ UNCHANGED out
  <2>1. LetIn'
    BY <1>4, <1>6, QuietLetsIn DEF Course
  <2>2. CASE db.st = "fresh"
    <3> DEFINE a == Ask(n, sent[n].op, sent[n].key, Identity(sent[n]))
    <3>1. db' = Db("asked", a, NoAnswer) /\ cur' = n
      BY <1>6, <2>2 DEF Forward
    <3>2. a.op = sent[n].op
      BY DEF Ask
    <3> HIDE DEF a
    <3>3. db'.st = "asked" /\ db'.ask = a
      BY <3>1, DbFields
    <3>4. auth' = "INITIAL"
      BY <1>4, <2>2 DEF IInv, Connection, AtRest
    <3> QED
      BY <1>4, <2>1, <3>1, <3>2, <3>3, <3>4 DEF Course, OnCourse
  <2>3. CASE db.st # "fresh"
    <3>1. db' = db
      BY <1>6, <2>3 DEF Forward
    <3> QED
      BY <1>2, <2>1, <3>1 DEF Course, OnCourse, Pending
  <2> QED
    BY <2>2, <2>3
<1> QED
  BY <1>3, <1>5, <1>6

LEMMA DbAnswersCourse == ASSUME IInv, Course, DbAnswers PROVE Course'
<1>1. db.st = "asked" /\ UNCHANGED <<sent, cur, auth, out>>
  BY DEF DbAnswers
<1>2. LetIn'
  BY <1>1, QuietLetsIn DEF Course
<1>3. ASSUME NEW ans \in Answers(db.ask), Deliver(ans) PROVE OnCourse'
  <2>1. db'.st = "answered" /\ db'.ask = db.ask /\ db'.ans = ans
    BY <1>3, DeliverFields DEF IInv
  <2>2. Pending /\ db.ask.for # 0
    BY <1>1 DEF IInv, Connection, AskIsOfRequest, Pending
  <2> QED
    BY <1>1, <1>3, <2>1, <2>2 DEF Course, OnCourse
<1>4. ASSUME db' = [db EXCEPT !.st = "ending"] PROVE OnCourse'
  BY <1>4, EndFields, OverOnCourse DEF IInv
<1> QED
  BY <1>2, <1>3, <1>4 DEF DbAnswers, Course

\* The answer of the data server to the request at hand.
LEMMA CourseAnswer ==
    ASSUME IInv, Course, db.st = "answered"
    PROVE  /\ db.ans.kind \in {"ok", "error"} /\ db.ans \in Answers(db.ask)
           /\ db.ask \in AskType /\ Pending /\ cur = db.ask.for
           /\ cur \in 1 .. Len(sent) /\ db.ask.key = sent[cur].key
<1>1. db.ask \in AskType /\ db.ans \in Answers(db.ask) /\ db.ask.for # 0
  BY DEF IInv, TypeOK, DbType, Course, OnCourse
<1>2. db.ans.kind \in {"ok", "error"}
  BY <1>1, AnswersSound
<1>3. Pending
  BY <1>1, <1>2 DEF Pending
<1> QED
  BY <1>1, <1>2, <1>3 DEF IInv, Connection, CurrentIsAsked, AskIsOfRequest

\* The last reply of a connection.
LEMMA LastReplyCourse ==
    ASSUME IInv, Course, UNCHANGED sent, NEW code \in Codes, NEW m \in 0 .. MaxRequests,
           NEW uid \in Users \cup {None}, ReplyWith(cur, code, m, uid), cur \in 1 .. Len(sent),
           code # 200 => ~RightLogin(sent[cur]), db'.st \in {"ending", "closed"}
    PROVE  Course'
<1>1. cur \in 0 .. Len(sent)
  BY DEF IInv, TypeOK
<1>2. LetIn'
  BY <1>1, ReplyLetsIn DEF IInv, Course
<1> QED
  BY <1>2, OverOnCourse DEF Course

LEMMA ReadAnswerCourse == ASSUME IInv, Course, ReadAnswer PROVE Course'
<1>1. db.ans.code \in Codes /\ db.st = "answered" /\ cur \in 1 .. Len(sent)
  BY CourseAnswer DEF IInv, TypeOK, DbType, AnswerType, Codes, Pong, ReadAnswer, Handles
<1>2. ~RightLogin(sent[cur])
  BY DEF ReadAnswer, Handles, RightLogin
<1>3. db'.st = "ending" /\ UNCHANGED sent /\ ReplyWith(cur, db.ans.code, db.ask.for, None)
  BY EndFields DEF ReadAnswer, IInv
<1>4. db.ask.for \in 0 .. MaxRequests
  BY CurTyped DEF IInv
<1> QED
  BY <1>1, <1>2, <1>3, <1>4, LastReplyCourse, ReplyParts

LEMMA CheckPasswordCourse == ASSUME IInv, Course, CheckPassword PROVE faults' # 0 \/ Course'
<1>1. /\ db.st = "answered" /\ auth = "INITIAL" /\ sent[cur].op = "VALIDATE_USER"
      /\ UNCHANGED <<sent, cur>>
  BY DEF CheckPassword, Handles
<1>2. /\ db.ans \in Answers(db.ask) /\ db.ask \in AskType /\ cur \in 1 .. Len(sent)
      /\ db.ask.key = sent[cur].key /\ db.ask.op = "VALIDATE_USER"
  BY <1>1, CourseAnswer DEF Course, OnCourse
<1>3. CASE Matches(sent[cur]) /\ Login
  <2>1. CASE /\ db' = Db("asked", Ask(cur, "GET_USER_INFO", key', None), NoAnswer)
             /\ auth' = "VALIDATED" /\ UNCHANGED <<out, faults>>
    <3> DEFINE a == Ask(cur, "GET_USER_INFO", key', None)
    <3>1. a.op = "GET_USER_INFO"
      BY DEF Ask
    <3>2. db'.st = "asked" /\ db'.ask = a
      BY <2>1, DbFields
    <3> HIDE DEF a
    <3> QED
      BY <1>1, <2>1, <3>1, <3>2, QuietLetsIn DEF Course, OnCourse
  <2>2. CASE Fails("unreachable")
    BY <2>2 DEF Fails, IInv, TypeOK
  <2> QED
    BY <1>3, <2>1, <2>2 DEF Login
<1>4. CASE /\ ~Matches(sent[cur]) /\ ReplyWith(cur, 401, db.ask.for, None)
           /\ db' = [db EXCEPT !.st = "ending"]
  <2>1. ~RightLogin(sent[cur])
    <3> SUFFICES ASSUME RightLogin(sent[cur]) PROVE FALSE
      OBVIOUS
    <3>1. db.ans.kind = "ok" /\ db.ans.hash = Password[db.ask.key] /\ db.ans.hash # None
      BY <1>2, FirstStepAnswer DEF RightLogin
    <3> QED
      BY <1>2, <1>4, <3>1 DEF RightLogin, Matches
  <2>2. db'.st = "ending" /\ db.ask.for \in 0 .. MaxRequests
    BY <1>4, EndFields, CurTyped DEF IInv
  <2> QED
    BY <1>1, <1>2, <1>4, <2>1, <2>2, LastReplyCourse, ReplyParts
<1> QED
  BY <1>3, <1>4 DEF CheckPassword

LEMMA IssueTokenCourse == ASSUME IInv, Course, IssueToken PROVE Course'
<1>1. /\ db.st = "answered" /\ auth = "VALIDATED" /\ UNCHANGED sent
      /\ db' = [db EXCEPT !.st = "ending"]
  BY DEF IssueToken, Handles
<1>2. /\ db.ans \in Answers(db.ask) /\ db.ask \in AskType /\ cur \in 1 .. Len(sent)
      /\ db.ask.key = sent[cur].key /\ db.ask.op = "GET_USER_INFO" /\ Pending
  BY <1>1, CourseAnswer DEF Course, OnCourse
<1>3. db.ask.key \in Users
  BY <1>1, <1>2 DEF IInv, Connection, Validated
<1>4. db.ans.uid # None /\ db.ans.uid \in Users \cup {None}
  BY <1>2, <1>3, SecondStepAnswer DEF IInv, TypeOK, DbType, AnswerType
<1>5. ReplyWith(cur, 200, db.ask.for, db.ans.uid)
  BY <1>4 DEF IssueToken
<1>6. db'.st = "ending" /\ db.ask.for \in 0 .. MaxRequests
  BY <1>1, EndFields, CurTyped DEF IInv
<1> QED
  BY <1>1, <1>2, <1>4, <1>5, <1>6, LastReplyCourse, ReplyParts

LEMMA NextCourse ==
    ASSUME ~ahead, IInv, Course, faults = 0, [Next]_vars
    PROVE  faults' # 0 \/ Course'
<1>1. CASE Leave \/ ReadEnd \/ UNCHANGED vars
  BY <1>1 DEF Leave, ReadEnd, vars, Course, OnCourse, LetIn, Pending
<1>2. CASE Connect
  <2>1. CASE db' = Db("fresh", NoAsk, NoAnswer) /\ UNCHANGED out
    BY <1>2, <2>1, DbFields, OverOnCourse, QuietLetsIn DEF Connect, Course
  <2>2. CASE Fails("unreachable")
    BY <2>2 DEF Fails
  <2> QED
    BY <1>2, <2>1, <2>2 DEF Connect
<1>3. CASE DbFails
  BY <1>3 DEF DbFails, Fails
<1>4. CASE ReadGarbled \/ ReadLeftover
  BY <1>4, CourseAnswer DEF ReadGarbled, ReadLeftover
<1>5. CASE ReadUnasked
  BY <1>5, CourseAnswer DEF ReadUnasked
<1> QED
  BY <1>1, <1>2, <1>3, <1>4, <1>5, SendCourse, ReadClientCourse, DbAnswersCourse,
     ReadAnswerCourse, CheckPasswordCourse, IssueTokenCourse DEF Next, ReadDb, Exited

LEMMA FaultsStay == TypeOK /\ [Next]_vars /\ faults # 0 => faults' # 0
  BY DEF TypeOK, Next, Send, Leave, Connect, ReadClient, ReadDb, Exited, DbAnswers, DbFails,
         ReadEnd, ReadGarbled, ReadLeftover, ReadUnasked, ReadAnswer, CheckPassword, Login,
         IssueToken, Fails, vars

\* A client that waits is refused a login with the right password only when
\* something failed in its session: a wrong login before it, the answer of the
\* first step and auth_state together never turn it down.
THEOREM RefusalHasAReason == Spec => []RefusedForAReason
<1> DEFINE Inv == ahead \/ (IInv /\ (faults # 0 \/ Course))
<1>1. Init => Inv
  <2> SUFFICES ASSUME Init PROVE Inv
    OBVIOUS
  <2>1. db.st = "closed"
    BY DbFields DEF Init
  <2>2. Course
    BY <2>1 DEF Init, Course, OnCourse, LetIn, Pending
  <2> QED
    BY <2>2, InitInv
<1>2. Inv /\ [Next]_vars => Inv'
  BY NextInv, NextCourse, AheadStays, FaultsStay DEF IInv
<1>3. Inv => RefusedForAReason
  BY DEF IInv, TypeOK, Course, LetIn, RefusedForAReason
<1> QED
  BY <1>1, <1>2, <1>3, PTL DEF Spec

-----------------------------------------------------------------------------
(* One reply to a request, also for a client that sends ahead.              *)

\* The reply i is the error for the first piece of an answer of which the rest
\* is to come.
FirstPiece(i) == db.st = "answered" /\ db.ans.kind = "rest" /\ out[i].code = 500

\* While an answer may come, current_request has no other reply.
OpenRequest ==
    db.st \in {"fresh", "asked", "answered"} =>
        \A i \in 1 .. Len(out) : out[i].for = cur => FirstPiece(i)

OnceInv ==
    /\ OneReplyEach
    /\ OpenRequest
    /\ \A i \in 1 .. Len(out) : out[i].for <= read
    /\ pc = "connect" => out = <<>> /\ db.st = "closed" /\ read = 0

LEMMA ReplyIndex ==
    ASSUME TypeOK
    PROVE  Len(out) \in Nat /\ \A i \in 1 .. Len(out) : out[i].for \in Nat
<1>1. out \in Seq(ReplyType)
  BY DEF TypeOK
<1>2. \A i \in 1 .. Len(out) : out[i] \in ReplyType
  BY <1>1
<1>3. \A r \in ReplyType : r.for \in Nat
  BY DEF ReplyType
<1> QED
  BY <1>1, <1>2, <1>3

\* A reply to a request that had none, or only the error for a first piece; no
\* other answer is to come, or not for this request, or only the rest.
LEMMA OneMoreReply ==
    ASSUME TypeOK, TypeOK', OnceInv, NEW n \in 0 .. MaxRequests, NEW code, NEW m, NEW uid,
           ReplyWith(n, code, m, uid),
           \A i \in 1 .. Len(out) : out[i].for = n => out[i].code = 500 /\ code # 200,
           n <= read', read <= read',
           db'.st \in {"fresh", "asked", "answered"} =>
              /\ n = cur' => db'.st = "answered" /\ db'.ans.kind = "rest" /\ code = 500
              /\ \A i \in 1 .. Len(out) : out[i].for = cur' =>
                    db'.st = "answered" /\ db'.ans.kind = "rest" /\ out[i].code = 500,
           pc' # "connect"
    PROVE  OnceInv'
<1> DEFINE e == [for |-> n, code |-> code, from |-> m, uid |-> uid]
<1>1. out' = Append(out, e) /\ e.for = n /\ e.code = code
  BY DEF ReplyWith
<1> HIDE DEF e
<1>2. out \in Seq(ReplyType) /\ read \in Nat /\ read' \in Nat
  BY DEF TypeOK
<1>3. /\ Len(out') = Len(out) + 1 /\ Len(out) \in Nat
      /\ out'[Len(out')].for = n /\ out'[Len(out')].code = code
      /\ \A i \in 1 .. Len(out) : out'[i] = out[i]
  BY <1>1, <1>2
<1>4. \A i \in 1 .. Len(out') : i \in 1 .. Len(out) \/ i = Len(out')
  BY <1>3
<1>5. OneReplyEach'
  <2> SUFFICES ASSUME NEW j \in 1 .. Len(out'), NEW i \in 1 .. j - 1,
                      out'[i].for = out'[j].for
               PROVE  out'[i].code = 500 /\ out'[j].code # 200
    BY DEF OneReplyEach
  <2>1. i \in 1 .. Len(out)
    BY <1>3
  <2>2. CASE j \in 1 .. Len(out)
    BY <1>3, <2>1, <2>2 DEF OnceInv, OneReplyEach
  <2>3. CASE j = Len(out')
    BY <1>3, <2>1, <2>3
  <2> QED
    BY <1>4, <2>2, <2>3
<1>6. OpenRequest'
  BY <1>3, <1>4 DEF OpenRequest, FirstPiece
<1>7. \A i \in 1 .. Len(out') : out'[i].for <= read'
  <2>1. \A i \in 1 .. Len(out) : out[i].for \in Nat
    BY ReplyIndex
  <2> QED
    BY <1>2, <1>3, <1>4, <2>1 DEF OnceInv
<1> QED
  BY <1>5, <1>6, <1>7 DEF OnceInv

\* A step without a reply.
LEMMA NoReply ==
    ASSUME TypeOK, TypeOK', OnceInv, out' = out, read <= read',
           db'.st \in {"fresh", "asked", "answered"} =>
              \A i \in 1 .. Len(out) : out[i].for = cur' =>
                 db'.st = "answered" /\ db'.ans.kind = "rest" /\ out[i].code = 500,
           pc' = "connect" => pc = "connect" /\ db'.st = "closed" /\ read' = 0
    PROVE  OnceInv'
<1>1. out \in Seq(ReplyType) /\ read \in Nat /\ read' \in Nat
  BY DEF TypeOK
<1>2. \A i \in 1 .. Len(out) : out[i].for \in Nat
  BY ReplyIndex
<1> QED
  BY <1>1, <1>2 DEF OnceInv, OneReplyEach, OpenRequest, FirstPiece

\* What the ends of a connection have in common.
LEMMA EndingAnswer ==
    ASSUME TypeOK, db' = [db EXCEPT !.st = "ending"]
    PROVE  db'.st = "ending" /\ db'.ans = db.ans
  BY DEF TypeOK, DbType

LEMMA ReadClientOnce ==
    ASSUME TypeOK, TypeOK', OnceInv, ReadClient PROVE OnceInv'
<1> DEFINE n == read + 1
<1>1. /\ read \in Nat /\ n \in Nat /\ read < n /\ read' \in Nat /\ n <= read'
      /\ n \in 0 .. MaxRequests /\ cur \in Nat /\ cur <= read
  BY LimitsAssumption DEF TypeOK, ReadClient
<1>2. \A i \in 1 .. Len(out) : out[i].for # n
  <2>1. \A i \in 1 .. Len(out) : out[i].for \in Nat /\ out[i].for <= read
    BY ReplyIndex DEF OnceInv
  <2> QED
    BY <1>1, <2>1
<1>3. pc = "poll" /\ read <= read'
  BY <1>1 DEF ReadClient
<1>4. CASE /\ ReplyWith(n, LocalCode(sent[n]), 0, None)
           /\ pc' \in {"poll", "exit"} /\ UNCHANGED <<cur, db>>
  <2>1. n # cur'
    BY <1>1, <1>4
  <2>2. db'.st \in {"fresh", "asked", "answered"} =>
            \A i \in 1 .. Len(out) : out[i].for = cur' =>
                db'.st = "answered" /\ db'.ans.kind = "rest" /\ out[i].code = 500
    BY <1>4 DEF OnceInv, OpenRequest, FirstPiece
  <2> HIDE DEF n
  <2> QED
    BY <1>1, <1>2, <1>3, <1>4, <2>1, <2>2, OneMoreReply
<1>5. CASE Forward(n) /\ UNCHANGED <<out, pc>>
  <2>1. cur' = n
    BY <1>5 DEF Forward
  <2> HIDE DEF n
  <2> QED
    BY <1>2, <1>3, <1>5, <2>1, NoReply
<1> QED
  BY <1>4, <1>5 DEF ReadClient

\* A reply of handle_db_response that ends the connection: the answer of the
\* data server, or a piece of one, which is no success.
LEMMA LastReplyOnce ==
    ASSUME TypeOK, TypeOK', OnceInv, pc = "poll", db.st = "answered",
           db' = [db EXCEPT !.st = "ending"],
           NEW code, NEW m, NEW uid, ReplyWith(cur, code, m, uid),
           db.ans.kind = "rest" => code # 200,
           UNCHANGED <<pc, read>>
    PROVE  OnceInv'
<1>1. db'.st = "ending"
  BY EndingAnswer
<1>2. /\ cur \in 0 .. MaxRequests /\ cur <= read' /\ read <= read' /\ pc' # "connect"
      /\ \A i \in 1 .. Len(out) : out[i].for = cur => out[i].code = 500 /\ code # 200
  BY CurTyped DEF TypeOK, OnceInv, OpenRequest, FirstPiece
<1> QED
  BY <1>1, <1>2, OneMoreReply

LEMMA ReadGarbledOnce ==
    ASSUME TypeOK, TypeOK', OnceInv, ReadGarbled PROVE OnceInv'
<1>1. /\ pc = "poll" /\ db.st = "answered" /\ UNCHANGED <<pc, read, cur>>
      /\ ReplyWith(cur, 500, 0, None)
  BY DEF ReadGarbled
<1>2. CASE db' = [db EXCEPT !.st = "ending"]
  BY <1>1, <1>2, LastReplyOnce
<1>3. CASE db.ans.kind = "torn" /\ db' = [db EXCEPT !.ans.kind = "rest"]
  <2>1. db'.st = "answered" /\ db'.ans.kind = "rest"
    BY <1>1, <1>3 DEF TypeOK, DbType, AnswerType
  <2>2. /\ cur \in 0 .. MaxRequests /\ cur <= read' /\ read <= read' /\ pc' # "connect"
        /\ \A i \in 1 .. Len(out) : out[i].for # cur
    BY <1>1, <1>3, CurTyped DEF TypeOK, OnceInv, OpenRequest, FirstPiece
  <2> QED
    BY <1>1, <2>1, <2>2, OneMoreReply
<1> QED
  BY <1>2, <1>3 DEF ReadGarbled

LEMMA LoginOnce ==
    ASSUME TypeOK, TypeOK', OnceInv, pc = "poll", db.st = "answered",
           db.ans.kind \in {"ok", "error"}, Login,
           UNCHANGED <<pc, sent, read, cur>>
    PROVE  OnceInv'
<1>1. /\ cur \in 0 .. MaxRequests /\ cur <= read' /\ read <= read'
      /\ \A i \in 1 .. Len(out) : out[i].for # cur
  BY CurTyped DEF TypeOK, OnceInv, OpenRequest, FirstPiece
<1>2. CASE UNCHANGED <<out, faults>>
  BY <1>1, <1>2, NoReply
<1>3. CASE db' = Db("closed", NoAsk, NoAnswer) /\ ReplyWith(cur, 503, 0, None)
  <2>1. db'.st = "closed"
    BY <1>3, DbFields
  <2> QED
    BY <1>1, <1>3, <2>1, OneMoreReply
<1> QED
  BY <1>2, <1>3 DEF Login

LEMMA OnceStep ==
    ASSUME TypeOK, TypeOK', OnceInv, [Next]_vars PROVE OnceInv'
<1>0. read \in Nat /\ read <= read
  BY DEF TypeOK
<1>1. CASE Send \/ Leave \/ ReadEnd \/ UNCHANGED vars
  BY <1>0, <1>1, NoReply DEF Send, Leave, ReadEnd, vars, OnceInv, OpenRequest, FirstPiece
<1>2. CASE Connect
  <2>1. out = <<>> /\ Len(out) = 0 /\ read' = read
    BY <1>2 DEF Connect, OnceInv
  <2>2. CASE pc' = "poll" /\ UNCHANGED <<out, faults>>
    BY <1>0, <2>1, <2>2, NoReply
  <2>3. CASE pc' = "exit" /\ ReplyWith(0, 503, 0, None) /\ UNCHANGED db
    <3>1. db'.st = "closed"
      BY <1>2, <2>3 DEF Connect, OnceInv
    <3>2. 0 \in 0 .. MaxRequests /\ 0 <= read' /\ read <= read'
      BY <1>0, <2>1, LimitsAssumption
    <3> QED
      BY <2>1, <2>3, <3>1, <3>2, OneMoreReply
  <2> QED
    BY <1>2, <2>2, <2>3 DEF Connect
<1>3. CASE ReadClient
  BY <1>3, ReadClientOnce
<1>4. CASE DbAnswers \/ DbFails
  <2>1. UNCHANGED <<pc, read, cur, out>> /\ db.st \in {"fresh", "asked"}
    BY <1>4 DEF DbAnswers, DbFails
  <2>2. pc # "connect" /\ \A i \in 1 .. Len(out) : out[i].for # cur
    BY <2>1 DEF OnceInv, OpenRequest, FirstPiece
  <2> QED
    BY <1>0, <2>1, <2>2, NoReply
<1>5. CASE ReadGarbled
  BY <1>5, ReadGarbledOnce
<1>6. CASE ReadLeftover
  <2>1. PICK code \in {401, Pong} : ReplyWith(cur, code, db.ask.for, None)
    BY <1>6 DEF ReadLeftover
  <2> QED
    BY <1>6, <2>1, LastReplyOnce DEF ReadLeftover, Pong
<1>7. CASE ReadUnasked \/ ReadAnswer
  BY <1>7, LastReplyOnce DEF ReadUnasked, ReadAnswer, Handles
<1>8. CASE CheckPassword
  BY <1>8, LastReplyOnce, LoginOnce DEF CheckPassword, Handles
<1>9. CASE IssueToken
  <2>1. /\ pc = "poll" /\ db.st = "answered" /\ db' = [db EXCEPT !.st = "ending"]
        /\ UNCHANGED <<pc, read>> /\ db.ans.kind # "rest"
        /\ \E code, uid : ReplyWith(cur, code, db.ask.for, uid)
    BY <1>9 DEF IssueToken, Handles
  <2> QED
    BY <2>1, LastReplyOnce
<1> QED
  BY <1>1, <1>2, <1>3, <1>4, <1>5, <1>6, <1>7, <1>8, <1>9 DEF Next, ReadDb, Exited

\* handle_client answers a request a second time only after the error for the
\* first piece of a torn answer, and not with a success, also when the client
\* sends ahead and current_request is overwritten.
THEOREM NoSecondReply == Spec => []OneReplyEach
<1>1. Init => OnceInv
  BY DbFields DEF Init, OnceInv, OneReplyEach, OpenRequest
<1>2. TypeOK /\ TypeOK' /\ OnceInv /\ [Next]_vars => OnceInv'
  BY OnceStep
<1>3. OnceInv => OneReplyEach
  BY DEF OnceInv
<1> QED
  BY <1>1, <1>2, <1>3, TypeCorrect, PTL DEF Spec

====
