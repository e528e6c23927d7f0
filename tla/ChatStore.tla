----------------------------- MODULE ChatStore -----------------------------
(***************************************************************************)
(* The chat operations of the data server: handle_action of                *)
(* data_server/data_server.c and the functions of                          *)
(* data_server/chat_manager.c it calls.                                    *)
(*                                                                         *)
(* main() forks one child per connection; a child opens its own MySQL      *)
(* connection, serves one request and exits.  No statement is in a         *)
(* transaction, so a child is a sequence of autocommitted statements and   *)
(* the children interleave between any two of them: one mysql_query is one *)
(* action here, and pc[w] names the function whose query child w runs next.*)
(* Code that touches only the child's own memory is part of the step       *)
(* before it.                                                              *)
(***************************************************************************)
EXTENDS Integers, Sequences, FiniteSets

CONSTANTS
    Workers,        \* slots for the forked children that run at one time
    Users,          \* ids of the rows of table users
    Ghosts,         \* ids that clients may name and that have no row in users
    Requests,       \* the requests clients may send
    MaxChats,       \* AUTO_INCREMENT values left for chats.chat_id
    MaxMessages,    \* AUTO_INCREMENT values left for messages.message_id
    MaxRequests,    \* connections accepted in a behaviour
    MaxFaults,      \* failed statements and killed children in a behaviour
    MAX_CHATS,      \* chat_manager.h: capacity of the array chats[]
    MAX_MESSAGES,   \* chat_manager.h: capacity of the array messages[]
    Cascade         \* does the schema delete a chat's rows with the chat

SYSTEM_USER_ID == 1
MAX_PARTICIPANTS == 10

Ids        == Users \cup Ghosts
ChatIds    == 1 .. MaxChats
MessageIds == 1 .. MaxMessages

\* An entry of participant_ids that is not a JSON number.
NotNumber == -1

ChatOps == {"CREATE_CHAT", "ADD_TO_GROUP_CHAT", "SEND_MESSAGE", "GET_CHATS",
            "GET_CHAT_MESSAGES", "GET_CHAT_INFO", "REMOVE_FROM_CHAT", "EXIT_CHAT",
            "UNKNOWN"}

\* What the handler reads from the JSON object.  by is created_by, added_by,
\* sender_id, removed_by or user_id; since says that last_update_timestamp is
\* not null; form is "ok" when the fields have the types the handler tests,
\* "bad" when they do not, "junk" when cJSON_Parse fails.
RequestType == [op: ChatOps, by: Ids, chat: ChatIds,
                ids: Seq(Ids \cup {NotNumber}), group: BOOLEAN, since: BOOLEAN,
                form: {"ok", "bad", "junk"}]

NoRequest == [op |-> "NONE", by |-> 0, chat |-> 0, ids |-> <<>>,
              group |-> FALSE, since |-> FALSE, form |-> "ok"]

\* Values of response_code, and two outcomes that are none: the variable was
\* never assigned, and the connection was closed without an answer.
NoCode        == 0
Uninitialised == -1
Closed        == -2
Codes == {NoCode, Uninitialised, Closed, 200, 400, 403, 404, 500}

Labels == {"idle", "create_chat", "add_to_chat", "insert_message", "update_last",
           "is_user_admin", "is_group_chat", "remove_from_chat",
           "get_participant_count", "delete_chat", "get_admin_count",
           "promote_select", "promote_update", "get_chats", "get_chat_messages",
           "get_chat_info", "get_participants", "reply", "delete_json"}

\* The locals of handle_action: the chat acted on, the ids not handled yet, the
\* id of the message inserted last, success_count > 0, is_admin,
\* participant_count = 1, the user to promote, response_code, and the ids of
\* the rows put in the response.
NoLocals == [cid |-> 0, todo |-> <<>>, mid |-> 0, any |-> FALSE, adm |-> FALSE,
             lone |-> FALSE, cand |-> SYSTEM_USER_ID, code |-> NoCode, rows |-> {}]

LocalType == [cid: ChatIds \cup {0}, todo: Seq(Ids \cup {NotNumber}),
              mid: MessageIds \cup {0}, any: BOOLEAN, adm: BOOLEAN, lone: BOOLEAN,
              cand: Int, code: Codes, rows: SUBSET Int]

ASSUME UsersAssumption == Users \subseteq Nat /\ IsFiniteSet(Users)
ASSUME GhostsAssumption == Ghosts \subseteq Nat /\ Ghosts \cap Users = {}
ASSUME RequestsAssumption == Requests \subseteq RequestType
ASSUME BoundsAssumption ==
    /\ MaxChats \in Nat /\ MaxMessages \in Nat
    /\ MaxRequests \in Nat /\ MaxFaults \in Nat
    /\ MAX_CHATS \in Nat /\ MAX_MESSAGES \in Nat
ASSUME CascadeAssumption == Cascade \in BOOLEAN

VARIABLES
    chat,      \* table chats: "none" (no such row), "group" or "direct"
    last,      \* chats.last_message_id, 0 for NULL
    members,   \* table chat_participants
    admins,    \* the rows of chat_participants with is_admin = 1
    owner,     \* table messages: the row's chat_id, 0 for no such row
    nextChat,  \* next AUTO_INCREMENT value of chats
    nextMsg,   \* next AUTO_INCREMENT value of messages
    pc,        \* the next statement of each child
    req,       \* the request each child serves
    loc,       \* the locals of each child's handle_action
    answer,    \* what the last client of each slot got
    served,    \* connections accepted so far
    faults     \* faults so far

tables  == <<chat, last, members, admins, owner, nextChat, nextMsg>>
vars    == <<tables, pc, req, loc, answer, served, faults>>

-----------------------------------------------------------------------------
(* Steps of one child. *)

\* Child w goes on at label with locals l.
Goto(w, label, l) ==
    /\ pc'  = [pc  EXCEPT ![w] = label]
    /\ loc' = [loc EXCEPT ![w] = l]
    /\ UNCHANGED <<req, answer, served>>

\* Child w has its response_code.
Respond(w, code) == Goto(w, "reply", [loc[w] EXCEPT !.code = code])

\* The slot of w is free again; the client got outcome.
Exit(w, outcome) ==
    /\ pc'     = [pc     EXCEPT ![w] = "idle"]
    /\ req'    = [req    EXCEPT ![w] = NoRequest]
    /\ loc'    = [loc    EXCEPT ![w] = NoLocals]
    /\ answer' = [answer EXCEPT ![w] = outcome]
    /\ UNCHANGED <<tables, served>>

\* accept, fork, connect, read and parse: slot w takes request r and runs
\* handle_action up to its first query, at label, or to its response_code.
Accept(w, r, label, code) ==
    /\ pc[w] = "idle"
    /\ served < MaxRequests
    /\ served' = served + 1
    /\ pc'     = [pc     EXCEPT ![w] = label]
    /\ req'    = [req    EXCEPT ![w] = r]
    /\ loc'    = [loc    EXCEPT ![w] = [NoLocals EXCEPT
                    !.cid  = IF r.op = "CREATE_CHAT" THEN 0 ELSE r.chat,
                    !.todo = IF r.op = "CREATE_CHAT" THEN <<r.by>> \o r.ids ELSE r.ids,
                    !.code = code]]
    /\ answer' = [answer EXCEPT ![w] = NoCode]
    /\ UNCHANGED tables

\* The requests of one operation and form.
Asks(op, form) == {r \in Requests : r.op = op /\ r.form = form}

\* A request that cJSON_Parse refuses: the child closes the connection.
AcceptJunk(w) ==
    /\ pc[w] = "idle"
    /\ served < MaxRequests
    /\ served' = served + 1
    /\ \E r \in Requests : r.form = "junk"
    /\ answer' = [answer EXCEPT ![w] = Closed]
    /\ UNCHANGED <<tables, pc, req, loc>>

AcceptUnknown(w) ==
    \E r \in Asks("UNKNOWN", "ok") : Accept(w, r, "reply", 404)

\* CREATE_CHAT.  The test at line 133 admits 1 .. 8 other participants of a
\* group and exactly one of a direct chat.  Ill-formed parameters have no else
\* branch, so response_code is not assigned.
ParticipantCountOk(r) ==
    /\ 0 < Len(r.ids)
    /\ Len(r.ids) < MAX_PARTICIPANTS - (IF r.group THEN 1 ELSE 8)

AcceptCreateChat(w) ==
    \/ \E r \in Asks("CREATE_CHAT", "ok") :
          \/ ParticipantCountOk(r) /\ Accept(w, r, "create_chat", NoCode)
          \/ ~ParticipantCountOk(r) /\ Accept(w, r, "reply", 400)
    \/ \E r \in Asks("CREATE_CHAT", "bad") : Accept(w, r, "reply", Uninitialised)

\* ADD_TO_GROUP_CHAT.  An empty list falls through like ill-formed parameters.
AcceptAddToGroupChat(w) ==
    \/ \E r \in Asks("ADD_TO_GROUP_CHAT", "ok") :
          \/ Len(r.ids) > 0 /\ Accept(w, r, "add_to_chat", NoCode)
          \/ Len(r.ids) = 0 /\ Accept(w, r, "reply", Uninitialised)
    \/ \E r \in Asks("ADD_TO_GROUP_CHAT", "bad") : Accept(w, r, "reply", Uninitialised)

\* A list longer than participants[MAX_PARTICIPANTS] is written past the end
\* of the array: besides going on, the child may die before its first query.
OverrunParticipants(w) ==
    /\ pc[w] = "idle"
    /\ served < MaxRequests
    /\ served' = served + 1
    /\ \E r \in Asks("ADD_TO_GROUP_CHAT", "ok") : Len(r.ids) > MAX_PARTICIPANTS
    /\ answer' = [answer EXCEPT ![w] = Closed]
    /\ UNCHANGED <<tables, pc, req, loc>>

AcceptSendMessage(w) ==
    \/ \E r \in Asks("SEND_MESSAGE", "ok") : Accept(w, r, "insert_message", NoCode)
    \/ \E r \in Asks("SEND_MESSAGE", "bad") : Accept(w, r, "reply", 400)

AcceptGet(w) ==
    \/ \E r \in Asks("GET_CHATS", "ok") : Accept(w, r, "get_chats", NoCode)
    \/ \E r \in Asks("GET_CHAT_MESSAGES", "ok") : Accept(w, r, "get_chat_messages", NoCode)
    \/ \E r \in Asks("GET_CHAT_INFO", "ok") : Accept(w, r, "get_chat_info", NoCode)
    \/ \E op \in {"GET_CHATS", "GET_CHAT_MESSAGES", "GET_CHAT_INFO"} :
          \E r \in Asks(op, "bad") : Accept(w, r, "reply", 400)

AcceptRemoveFromChat(w) ==
    \/ \E r \in Asks("REMOVE_FROM_CHAT", "ok") : Accept(w, r, "is_user_admin", NoCode)
    \/ \E r \in Asks("REMOVE_FROM_CHAT", "bad") : Accept(w, r, "reply", 400)

\* EXIT_CHAT with ill-formed parameters frees the items that are present, so
\* the child may be left with a tree that still holds a freed item.
AcceptExitChat(w) ==
    \/ \E r \in Asks("EXIT_CHAT", "ok") : Accept(w, r, "is_user_admin", NoCode)
    \/ \E r \in Asks("EXIT_CHAT", "bad") :
          \E label \in {"reply", "delete_json"} : Accept(w, r, label, 400)

-----------------------------------------------------------------------------
(* chat_manager.c: the statements that write. *)

\* Mutant: the id is chosen as one more than the greatest id in the table.
CreateChat_MaxPlusOne(w) ==
    /\ pc[w] = "create_chat"
    /\ \E c \in ChatIds :
          /\ \A d \in ChatIds : (d < c <=> chat[d] # "none")
          /\ chat' = [chat EXCEPT ![c] = IF req[w].group THEN "group" ELSE "direct"]
          /\ nextChat' = c + 1
          /\ Goto(w, "insert_message", [loc[w] EXCEPT !.cid = c])
    /\ UNCHANGED <<last, members, admins, owner, nextMsg>>

\* INSERT INTO chats; the id comes back through mysql_insert_id.
CreateChat(w) ==
    /\ pc[w] = "create_chat"
    /\ nextChat \in ChatIds
    /\ chat' = [chat EXCEPT ![nextChat] = IF req[w].group THEN "group" ELSE "direct"]
    /\ nextChat' = nextChat + 1
    /\ Goto(w, "insert_message", [loc[w] EXCEPT !.cid = nextChat])
    /\ UNCHANGED <<last, members, admins, owner, nextMsg>>

\* The key column has no value left: the INSERT fails.
CreateChatFails(w) ==
    /\ pc[w] = "create_chat"
    /\ nextChat \notin ChatIds
    /\ Respond(w, 400)
    /\ UNCHANGED tables

\* The user of the next slot of participants[].  A slot whose id was not a
\* number was never written and holds any value.
Slot(w) == IF Head(loc[w].todo) = NotNumber THEN Ids ELSE {Head(loc[w].todo)}

\* What the foreign keys and the primary key of chat_participants admit.
CanAdd(c, u) == chat[c] # "none" /\ u \in Users /\ u \notin members[c]

\* Mutant: FOREIGN_KEY_CHECKS is left off.
AddToChat_NoKeys(w) ==
    LET c == loc[w].cid IN
    /\ pc[w] = "add_to_chat"
    /\ loc[w].todo # <<>>
    /\ \E u \in Slot(w) : members' = [members EXCEPT ![c] = @ \cup {u}]
    /\ Goto(w, "insert_message", [loc[w] EXCEPT !.todo = Tail(@), !.any = TRUE])
    /\ UNCHANGED <<chat, last, admins, owner, nextChat, nextMsg>>

\* One turn of the loop of CREATE_CHAT or ADD_TO_GROUP_CHAT whose INSERT INTO
\* chat_participants succeeds; the creator of a chat becomes its admin.
AddToChat(w) ==
    LET c == loc[w].cid IN
    /\ pc[w] = "add_to_chat"
    /\ loc[w].todo # <<>>
    /\ \E u \in Slot(w) :
          /\ CanAdd(c, u)
          /\ members' = [members EXCEPT ![c] = @ \cup {u}]
          /\ admins' = IF req[w].op = "CREATE_CHAT" /\ u = req[w].by
                       THEN [admins EXCEPT ![c] = @ \cup {u}]
                       ELSE admins
    /\ Goto(w, "insert_message", [loc[w] EXCEPT !.todo = Tail(@), !.any = TRUE])
    /\ UNCHANGED <<chat, last, owner, nextChat, nextMsg>>

\* One turn whose INSERT is refused: logged, and the loop goes on.
AddToChatFails(w) ==
    /\ pc[w] = "add_to_chat"
    /\ loc[w].todo # <<>>
    /\ \E u \in Slot(w) : ~CanAdd(loc[w].cid, u)
    /\ Goto(w, "add_to_chat", [loc[w] EXCEPT !.todo = Tail(@)])
    /\ UNCHANGED tables

\* Where handle_action goes on after send_message.
AfterMessage(w, l) ==
    CASE req[w].op \in {"CREATE_CHAT", "ADD_TO_GROUP_CHAT"} -> Goto(w, "add_to_chat", l)
      [] req[w].op = "REMOVE_FROM_CHAT" -> Goto(w, "remove_from_chat", l)
      [] req[w].op = "EXIT_CHAT" /\ l.lone -> Goto(w, "delete_chat", l)
      [] req[w].op = "EXIT_CHAT" /\ ~l.lone /\ l.adm -> Goto(w, "get_admin_count", l)
      [] req[w].op = "EXIT_CHAT" /\ ~l.lone /\ ~l.adm ->
            Goto(w, "delete_json", [l EXCEPT !.code = 200])
      [] OTHER -> Goto(w, "reply", l)

\* SEND_MESSAGE writes the client's message, every other operation a message
\* of the system user.
Sender(w) == IF req[w].op = "SEND_MESSAGE" THEN req[w].by ELSE SYSTEM_USER_ID

CanInsert(w) ==
    /\ chat[loc[w].cid] # "none"
    /\ Sender(w) \in Users
    /\ nextMsg \in MessageIds

\* Mutant: send_message returns before the UPDATE of chats.
InsertMessage_NoUpdate(w) ==
    /\ pc[w] = "insert_message"
    /\ CanInsert(w)
    /\ owner' = [owner EXCEPT ![nextMsg] = loc[w].cid]
    /\ nextMsg' = nextMsg + 1
    /\ AfterMessage(w, [loc[w] EXCEPT !.mid = nextMsg,
                                      !.code = IF req[w].op = "SEND_MESSAGE" THEN 200 ELSE @])
    /\ UNCHANGED <<chat, last, members, admins, nextChat>>

\* send_message, first statement: INSERT INTO messages.
InsertMessage(w) ==
    /\ pc[w] = "insert_message"
    /\ CanInsert(w)
    /\ owner' = [owner EXCEPT ![nextMsg] = loc[w].cid]
    /\ nextMsg' = nextMsg + 1
    /\ Goto(w, "update_last", [loc[w] EXCEPT !.mid = nextMsg])
    /\ UNCHANGED <<chat, last, members, admins, nextChat>>

\* Mutant: SEND_MESSAGE does not look at what send_message returned.
MessageLost_Ignored(w) ==
    AfterMessage(w, [loc[w] EXCEPT !.code = IF req[w].op = "SEND_MESSAGE" THEN 200 ELSE @])

\* send_message returned -1: SEND_MESSAGE answers 400, the others ignore it.
MessageLost(w) ==
    AfterMessage(w, [loc[w] EXCEPT !.code = IF req[w].op = "SEND_MESSAGE" THEN 400 ELSE @])

InsertMessageFails(w) ==
    /\ pc[w] = "insert_message"
    /\ ~CanInsert(w)
    /\ MessageLost(w)
    /\ UNCHANGED tables

\* Mutant: the UPDATE brings the row of a deleted chat back.
UpdateLast_Upsert(w) ==
    /\ pc[w] = "update_last"
    /\ last' = [last EXCEPT ![loc[w].cid] = loc[w].mid]
    /\ AfterMessage(w, [loc[w] EXCEPT !.code = IF req[w].op = "SEND_MESSAGE" THEN 200 ELSE @])
    /\ UNCHANGED <<chat, members, admins, owner, nextChat, nextMsg>>

\* send_message, second statement: UPDATE chats SET last_message_id.  It
\* changes no row, and still succeeds, when the chat has gone.
UpdateLast(w) ==
    LET c == loc[w].cid IN
    /\ pc[w] = "update_last"
    /\ last' = IF chat[c] = "none" THEN last ELSE [last EXCEPT ![c] = loc[w].mid]
    /\ AfterMessage(w, [loc[w] EXCEPT !.code = IF req[w].op = "SEND_MESSAGE" THEN 200 ELSE @])
    /\ UNCHANGED <<chat, members, admins, owner, nextChat, nextMsg>>

\* The loop of CREATE_CHAT, ADD_TO_GROUP_CHAT or REMOVE_FROM_CHAT is over.
LoopEnd(w) ==
    /\ \/ pc[w] = "add_to_chat"
       \/ pc[w] = "remove_from_chat" /\ req[w].op = "REMOVE_FROM_CHAT"
    /\ loc[w].todo = <<>>
    /\ Respond(w, IF req[w].op = "ADD_TO_GROUP_CHAT" /\ ~loc[w].any THEN 400 ELSE 200)
    /\ UNCHANGED tables

\* DELETE FROM chat_participants; deleting no row is a success too.  In
\* REMOVE_FROM_CHAT it is one turn of the loop, in EXIT_CHAT the user leaves.
DeleteParticipant(w, u, l) ==
    LET c == loc[w].cid IN
    /\ members' = [members EXCEPT ![c] = @ \ {u}]
    /\ admins'  = [admins  EXCEPT ![c] = @ \ {u}]
    /\ Goto(w, "insert_message", l)
    /\ UNCHANGED <<chat, last, owner, nextChat, nextMsg>>

\* The ids the loop of REMOVE_FROM_CHAT passes over.
Skips(w, u) == u = NotNumber \/ u = req[w].by

\* Mutant: the turn for an id that is passed over does not advance the loop.
RemoveFromChat_Stuck(w) ==
    /\ pc[w] = "remove_from_chat"
    /\ req[w].op = "REMOVE_FROM_CHAT"
    /\ loc[w].todo # <<>>
    /\ LET u == Head(loc[w].todo) IN
          \/ /\ ~Skips(w, u)
             /\ DeleteParticipant(w, u, [loc[w] EXCEPT !.todo = Tail(@)])
          \/ /\ Skips(w, u)
             /\ Goto(w, "remove_from_chat", loc[w])
             /\ UNCHANGED tables

RemoveFromChat(w) ==
    /\ pc[w] = "remove_from_chat"
    /\ req[w].op = "REMOVE_FROM_CHAT"
    /\ loc[w].todo # <<>>
    /\ LET u == Head(loc[w].todo) IN
          \/ /\ ~Skips(w, u)
             /\ DeleteParticipant(w, u, [loc[w] EXCEPT !.todo = Tail(@)])
          \/ /\ Skips(w, u)
             /\ Goto(w, "remove_from_chat", [loc[w] EXCEPT !.todo = Tail(@)])
             /\ UNCHANGED tables

LeaveChat(w) ==
    /\ pc[w] = "remove_from_chat"
    /\ req[w].op = "EXIT_CHAT"
    /\ DeleteParticipant(w, req[w].by, loc[w])

\* DELETE FROM chats.  The rows that refer to the chat go with it, or make the
\* statement fail, as the schema says.
Referred(c) == members[c] # {} \/ \E m \in MessageIds : owner[m] = c

\* Mutant: FOREIGN_KEY_CHECKS is left off, so that the chat's messages stay.
DeleteChat_KeepsRows(w) ==
    LET c == loc[w].cid IN
    /\ pc[w] = "delete_chat"
    /\ chat' = [chat EXCEPT ![c] = "none"]
    /\ last' = [last EXCEPT ![c] = 0]
    /\ Respond(w, 200)
    /\ UNCHANGED <<members, admins, owner, nextChat, nextMsg>>

DeleteChat(w) ==
    LET c == loc[w].cid IN
    /\ pc[w] = "delete_chat"
    /\ Cascade \/ ~Referred(c)
    /\ chat'    = [chat    EXCEPT ![c] = "none"]
    /\ last'    = [last    EXCEPT ![c] = 0]
    /\ members' = [members EXCEPT ![c] = {}]
    /\ admins'  = [admins  EXCEPT ![c] = {}]
    /\ owner'   = [m \in MessageIds |-> IF owner[m] = c THEN 0 ELSE owner[m]]
    /\ Respond(w, 200)
    /\ UNCHANGED <<nextChat, nextMsg>>

DeleteChatFails(w) ==
    /\ pc[w] = "delete_chat"
    /\ ~Cascade /\ Referred(loc[w].cid)
    /\ Respond(w, 500)
    /\ UNCHANGED tables

\* promote_random_participant_to_admin, first statement: SELECT ... LIMIT 1.
PromoteSelect(w) ==
    LET c == loc[w].cid IN
    /\ pc[w] = "promote_select"
    /\ \/ /\ members[c] = {}
          /\ Respond(w, 500)
       \/ \E u \in members[c] : Goto(w, "promote_update", [loc[w] EXCEPT !.cand = u])
    /\ UNCHANGED tables

\* Second statement: UPDATE ... SET is_admin = 1, of no row if the user left.
PromoteUpdate(w) ==
    LET c == loc[w].cid IN
    /\ pc[w] = "promote_update"
    /\ admins' = IF loc[w].cand \in members[c]
                 THEN [admins EXCEPT ![c] = @ \cup {loc[w].cand}]
                 ELSE admins
    /\ Goto(w, "delete_json", [loc[w] EXCEPT !.code = 200])
    /\ UNCHANGED <<chat, last, members, owner, nextChat, nextMsg>>

-----------------------------------------------------------------------------
(* chat_manager.c: the statements that read. *)

\* Mutant: REMOVE_FROM_CHAT does not break after the 403.
AdminKnown_NoBreak(w, adm) ==
    \/ /\ req[w].op = "EXIT_CHAT"
       /\ Goto(w, "get_participant_count", [loc[w] EXCEPT !.adm = adm])
    \/ /\ req[w].op # "EXIT_CHAT"
       /\ Goto(w, "is_group_chat", [loc[w] EXCEPT !.adm = adm])

\* REMOVE_FROM_CHAT refuses anyone but an admin, EXIT_CHAT keeps the result.
AdminKnown(w, adm) ==
    \/ /\ req[w].op = "EXIT_CHAT"
       /\ Goto(w, "get_participant_count", [loc[w] EXCEPT !.adm = adm])
    \/ /\ req[w].op # "EXIT_CHAT"
       /\ \/ adm /\ Goto(w, "is_group_chat", [loc[w] EXCEPT !.adm = adm])
          \/ ~adm /\ Respond(w, 403)

IsUserAdmin(w) ==
    /\ pc[w] = "is_user_admin"
    /\ AdminKnown(w, req[w].by \in admins[loc[w].cid])
    /\ UNCHANGED tables

IsGroupChat(w) ==
    /\ pc[w] = "is_group_chat"
    /\ \/ chat[loc[w].cid] = "group" /\ Goto(w, "remove_from_chat", loc[w])
       \/ chat[loc[w].cid] # "group" /\ Respond(w, 403)
    /\ UNCHANGED tables

\* Mutant: the user who leaves is taken off a count that was made before.
GetParticipantCount_OffByOne(w) ==
    /\ pc[w] = "get_participant_count"
    /\ Goto(w, "remove_from_chat",
            [loc[w] EXCEPT !.lone = (Cardinality(members[loc[w].cid]) - 1 = 1)])
    /\ UNCHANGED tables

GetParticipantCount(w) ==
    /\ pc[w] = "get_participant_count"
    /\ Goto(w, "remove_from_chat",
            [loc[w] EXCEPT !.lone = (Cardinality(members[loc[w].cid]) = 1)])
    /\ UNCHANGED tables

\* Mutant: the remaining admins are counted as if the user had not left yet.
GetAdminCount_OffByOne(w) ==
    /\ pc[w] = "get_admin_count"
    /\ \/ /\ Cardinality(admins[loc[w].cid]) = 1
          /\ Goto(w, "promote_select", loc[w])
       \/ /\ Cardinality(admins[loc[w].cid]) # 1
          /\ Goto(w, "delete_json", [loc[w] EXCEPT !.code = 200])
    /\ UNCHANGED tables

GetAdminCount(w) ==
    /\ pc[w] = "get_admin_count"
    /\ \/ admins[loc[w].cid] = {} /\ Goto(w, "promote_select", loc[w])
       \/ /\ admins[loc[w].cid] # {}
          /\ Goto(w, "delete_json", [loc[w] EXCEPT !.code = 200])
    /\ UNCHANGED tables

\* The response holds rows.
Return(w, rows) == Goto(w, "reply", [loc[w] EXCEPT !.code = 200, !.rows = rows])

\* The first n rows in the order of their ids.
FirstRows(n, S) == {x \in S : Cardinality({y \in S : y < x}) < n}

\* The chats of the user, at most MAX_CHATS of them.  With a timestamp, a chat
\* that has messages is returned only if one of them is recent.
GetChats(w) ==
    LET mine == {c \in ChatIds : req[w].by \in members[c]}
    IN  /\ pc[w] = "get_chats"
        /\ \/ ~req[w].since /\ Return(w, FirstRows(MAX_CHATS, mine))
           \/ /\ req[w].since
              /\ \E old \in SUBSET {c \in mine : last[c] # 0} :
                    Return(w, FirstRows(MAX_CHATS, mine \ old))
        /\ UNCHANGED tables

\* The messages of the chat, with no limit on their number.
GetChatMessages(w) ==
    LET all == {m \in MessageIds : owner[m] = loc[w].cid}
    IN  /\ pc[w] = "get_chat_messages"
        /\ \/ ~req[w].since /\ Return(w, all)
           \/ req[w].since /\ \E n \in 0 .. MaxMessages : Return(w, {m \in all : m > n})
        /\ UNCHANGED tables

\* get_chat_info reads the chat, then its participants.
GetChatInfo(w) ==
    /\ pc[w] = "get_chat_info"
    /\ \/ chat[loc[w].cid] # "none" /\ Goto(w, "get_participants", loc[w])
       \/ chat[loc[w].cid] = "none" /\ Respond(w, 400)
    /\ UNCHANGED tables

GetParticipants(w) ==
    /\ pc[w] = "get_participants"
    /\ Return(w, FirstRows(MAX_PARTICIPANTS, members[loc[w].cid]))
    /\ UNCHANGED tables

-----------------------------------------------------------------------------
(* Answers and faults. *)

\* messages[] was written past its end.
Overrun(w) == req[w].op = "GET_CHAT_MESSAGES" /\ Cardinality(loc[w].rows) > MAX_MESSAGES

\* cJSON_Delete(json), send, close, exit.
Reply(w) ==
    /\ pc[w] \in {"reply", "delete_json"}
    /\ Exit(w, loc[w].code)

\* Undefined behaviour before send: EXIT_CHAT freed items that cJSON_Delete
\* frees again, or messages[] was overrun.  The child may abort.
AbortBeforeSend(w) ==
    /\ \/ pc[w] = "delete_json"
       \/ pc[w] = "reply" /\ Overrun(w)
    /\ Exit(w, Closed)

\* A statement fails (the MySQL server is gone, a lock wait timed out, ...) and
\* its function takes its error return.
QueryFails(w) ==
    LET l == loc[w]
        Exits == req[w].op = "EXIT_CHAT"
        NextTurn == [l EXCEPT !.todo = Tail(@)]
    IN  /\ UNCHANGED tables
        /\ \/ /\ pc[w] \in {"create_chat", "get_chats", "get_chat_messages",
                            "get_chat_info", "get_participants"}
              /\ Respond(w, 400)
           \/ /\ pc[w] = "add_to_chat" /\ l.todo # <<>>
              /\ Goto(w, "add_to_chat", NextTurn)
           \/ /\ pc[w] \in {"insert_message", "update_last"}
              /\ MessageLost(w)
           \/ /\ pc[w] = "is_user_admin"
              /\ AdminKnown(w, FALSE)
           \/ /\ pc[w] = "is_group_chat"
              /\ Respond(w, 403)
           \/ /\ pc[w] = "get_participant_count"
              /\ Goto(w, "remove_from_chat", l)
           \/ /\ pc[w] = "remove_from_chat" /\ Exits
              /\ Respond(w, 400)
           \/ /\ pc[w] = "remove_from_chat" /\ ~Exits
              /\ l.todo # <<>> /\ ~Skips(w, Head(l.todo))
              /\ Goto(w, "remove_from_chat", NextTurn)
           \/ /\ pc[w] \in {"delete_chat", "promote_select", "promote_update"}
              /\ Respond(w, 500)
           \/ /\ pc[w] = "get_admin_count"
              /\ Goto(w, "delete_json", [l EXCEPT !.code = 200])

\* The child is killed between two statements; what it wrote stays.
ChildDies(w) ==
    /\ pc[w] # "idle"
    /\ Exit(w, Closed)

-----------------------------------------------------------------------------
Init ==
    /\ chat     = [c \in ChatIds |-> "none"]
    /\ last     = [c \in ChatIds |-> 0]
    /\ members  = [c \in ChatIds |-> {}]
    /\ admins   = [c \in ChatIds |-> {}]
    /\ owner    = [m \in MessageIds |-> 0]
    /\ nextChat = 1
    /\ nextMsg  = 1
    /\ pc       = [w \in Workers |-> "idle"]
    /\ req      = [w \in Workers |-> NoRequest]
    /\ loc      = [w \in Workers |-> NoLocals]
    /\ answer   = [w \in Workers |-> NoCode]
    /\ served   = 0
    /\ faults   = 0

\* main(): the parent gives slot w a connection.
Connect(w) ==
    \/ AcceptJunk(w)
    \/ AcceptUnknown(w)
    \/ AcceptCreateChat(w)
    \/ AcceptAddToGroupChat(w)
    \/ OverrunParticipants(w)
    \/ AcceptSendMessage(w)
    \/ AcceptGet(w)
    \/ AcceptRemoveFromChat(w)
    \/ AcceptExitChat(w)

\* The child of slot w goes on.
Work(w) ==
    \/ CreateChat(w)
    \/ CreateChatFails(w)
    \/ AddToChat(w)
    \/ AddToChatFails(w)
    \/ InsertMessage(w)
    \/ InsertMessageFails(w)
    \/ UpdateLast(w)
    \/ LoopEnd(w)
    \/ RemoveFromChat(w)
    \/ LeaveChat(w)
    \/ DeleteChat(w)
    \/ DeleteChatFails(w)
    \/ PromoteSelect(w)
    \/ PromoteUpdate(w)
    \/ IsUserAdmin(w)
    \/ IsGroupChat(w)
    \/ GetParticipantCount(w)
    \/ GetAdminCount(w)
    \/ GetChats(w)
    \/ GetChatMessages(w)
    \/ GetChatInfo(w)
    \/ GetParticipants(w)
    \/ Reply(w)
    \/ AbortBeforeSend(w)

\* Something goes wrong in the child of slot w.
Fault(w) ==
    /\ faults < MaxFaults
    /\ faults' = faults + 1
    /\ QueryFails(w) \/ ChildDies(w)

\* Every slot is free.
Quiescent == \A w \in Workers : pc[w] = "idle"

\* The bound on connections is reached and the last one has been served.
Done == Quiescent /\ served = MaxRequests /\ UNCHANGED vars

Next ==
    \/ \E w \in Workers :
          \/ Connect(w) /\ UNCHANGED faults
          \/ Work(w) /\ UNCHANGED faults
          \/ Fault(w)
    \/ Done

Spec == Init /\ [][Next]_vars

\* A forked child is scheduled until it exits; nobody has to connect and
\* nothing has to fail.
FairSpec == Spec /\ \A w \in Workers : WF_vars(Work(w) /\ UNCHANGED faults)

-----------------------------------------------------------------------------
(* Properties. *)

TypeOK ==
    /\ chat \in [ChatIds -> {"none", "group", "direct"}]
    /\ last \in [ChatIds -> MessageIds \cup {0}]
    /\ members \in [ChatIds -> SUBSET Users]
    /\ admins \in [ChatIds -> SUBSET Users]
    /\ owner \in [MessageIds -> ChatIds \cup {0}]
    /\ nextChat \in Nat \ {0} /\ nextMsg \in Nat \ {0}
    /\ pc \in [Workers -> Labels]
    /\ req \in [Workers -> Requests \cup {NoRequest}]
    /\ loc \in [Workers -> LocalType]
    /\ answer \in [Workers -> Codes]
    /\ served \in 0 .. MaxRequests
    /\ faults \in 0 .. MaxFaults

\* chats.last_message_id is NULL or the id of a message that exists and is of
\* that chat: send_message never leaves a chat pointing at a message of another
\* chat or at a deleted one, although it writes the two tables separately.
LastRefersToOwnMessage ==
    \A c \in ChatIds : last[c] # 0 => owner[last[c]] = c

\* A chat that was deleted, or not created yet, has no participant, admin or
\* message: no late INSERT of another child leaves an orphan.
NoOrphans ==
    \A c \in ChatIds : chat[c] = "none" =>
        /\ members[c] = {} /\ admins[c] = {} /\ last[c] = 0
        /\ \A m \in MessageIds : owner[m] # c

\* An id is given to one chat only: a deleted chat does not come back, and
\* nobody joins it, by a statement that some child had still to run.
DeletedForever ==
    [][\A c \in ChatIds : c < nextChat /\ chat[c] = "none" =>
          chat'[c] = "none" /\ members'[c] = {}]_vars

\* A SEND_MESSAGE that is about to be answered with 200 has its message stored
\* in the chat it named, unless the chat itself was deleted meanwhile.
AckedMessageStored ==
    \A w \in Workers :
        pc[w] = "reply" /\ req[w].op = "SEND_MESSAGE" /\ loc[w].code = 200 =>
            /\ loc[w].mid # 0
            /\ \/ owner[loc[w].mid] = req[w].chat
               \/ chat[req[w].chat] = "none"

\* Each child serves its request to the end: the loops over participant_ids
\* and the paths through EXIT_CHAT all come to the child's exit.
EveryChildExits ==
    \A w \in Workers : pc[w] # "idle" ~> pc[w] = "idle"

\* Between requests every chat has exactly one admin: CREATE_CHAT makes one,
\* and EXIT_CHAT promotes a participant when the admin leaves others behind and
\* deletes the chat when it leaves nobody.
OneAdminBetweenRequests ==
    Quiescent => \A c \in ChatIds : chat[c] # "none" => Cardinality(admins[c]) = 1

\* Between requests last_message_id is the newest message of the chat, so that
\* GET_CHATS shows the message that GET_CHAT_MESSAGES ends with.  This needs
\* requests that do not overlap.
LastIsNewestBetweenRequests ==
    Quiescent => \A c \in ChatIds : \A m \in MessageIds :
        owner[m] = c => m <= last[c]

\* "Only admins can remove participants.": when REMOVE_FROM_CHAT takes a row
\* away, the requester is an admin of the chat.  This too needs requests that
\* do not overlap.
RemovalByAdmin ==
    [][\A w \in Workers :
          (/\ pc[w] = "remove_from_chat" /\ pc'[w] = "insert_message"
           /\ req[w].op = "REMOVE_FROM_CHAT" /\ members' # members)
            => req[w].by \in admins[req[w].chat]]_vars

\* EXIT_CHAT counts the participants before the user leaves, in a statement of
\* its own, and deletes the chat if it counted one.  Without overlapping
\* requests at most one participant loses the chat with it, who need not be the
\* user that leaves: the count does not ask who is counted.
DeletedWhenOneLeft ==
    [][\A c \in ChatIds :
          chat[c] # "none" /\ chat'[c] = "none" => Cardinality(members[c]) <= 1]_vars

Tables == INSTANCE ChatTables

\* The statements of the children, however they interleave, fail or stop half
\* way, change the tables as if each were one of the operations of ChatTables:
\* a stale last_message_id, a promotion of someone who has left, a message for
\* a chat that is gone never get through.
ImplementsTables == Tables!Spec

====
