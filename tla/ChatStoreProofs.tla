-------------------------- MODULE ChatStoreProofs --------------------------
(***************************************************************************)
(* Proofs about ChatStore for any number of children, users, chats,        *)
(* messages, requests and faults.  The theorems about requests that do not *)
(* overlap say so: OneChild, and where it matters MaxFaults = 0.           *)
(***************************************************************************)
EXTENDS ChatStore, FiniteSetTheorems, TLAPS

\* Labels of the statements that use the chat id.
ChatLabels == Labels \ {"idle", "create_chat", "reply", "delete_json"}

\* The message child w inserted is in its chat, or went with the chat, whose id
\* is never given out again.
Stored(w) ==
    /\ loc[w].mid \in MessageIds
    /\ loc[w].cid \in ChatIds
    /\ loc[w].cid < nextChat
    /\ owner[loc[w].mid] = loc[w].cid \/ chat[loc[w].cid] = "none"

\* What holds of child w between two of its statements.
ChildInv(w) ==
    /\ pc[w] # "idle" => req[w] \in Requests
    /\ pc[w] \in ChatLabels => loc[w].cid \in ChatIds
    /\ pc[w] = "update_last" => Stored(w)
    /\ pc[w] # "idle" /\ req[w].op = "SEND_MESSAGE" =>
          /\ pc[w] \in {"insert_message", "update_last", "reply"}
          /\ loc[w].cid = req[w].chat
          /\ pc[w] = "reply" /\ loc[w].code = 200 => Stored(w)

\* Rows have ids that AUTO_INCREMENT has given out.
Allocated ==
    /\ \A c \in ChatIds : chat[c] # "none" => c < nextChat
    /\ \A m \in MessageIds : owner[m] # 0 => m < nextMsg

\* is_admin is a column of chat_participants: the rows in admins are rows of
\* members.
AdminsAreMembers == \A c \in ChatIds : admins[c] \subseteq members[c]

\* The inductive invariant.
IInv ==
    /\ TypeOK
    /\ AdminsAreMembers
    /\ LastRefersToOwnMessage
    /\ NoOrphans
    /\ Allocated
    /\ \A w \in Workers : ChildInv(w)

TableInv == AdminsAreMembers /\ LastRefersToOwnMessage /\ NoOrphans /\ Allocated

TableType ==
    /\ chat \in [ChatIds -> {"none", "group", "direct"}]
    /\ last \in [ChatIds -> MessageIds \cup {0}]
    /\ members \in [ChatIds -> SUBSET Users]
    /\ admins \in [ChatIds -> SUBSET Users]
    /\ owner \in [MessageIds -> ChatIds \cup {0}]
    /\ nextChat \in Nat \ {0} /\ nextMsg \in Nat \ {0}

ChildType ==
    /\ pc \in [Workers -> Labels]
    /\ req \in [Workers -> Requests \cup {NoRequest}]
    /\ loc \in [Workers -> LocalType]
    /\ answer \in [Workers -> Codes]
    /\ served \in 0 .. MaxRequests

\* No child but w moves.
Others(w) ==
    \A v \in Workers \ {w} : pc'[v] = pc[v] /\ loc'[v] = loc[v] /\ req'[v] = req[v]

\* What a statement may do to the tables behind the back of a child: a deleted
\* chat stays deleted, and a message stays or goes with its chat.
Monotone ==
    /\ nextChat <= nextChat'
    /\ \A c \in ChatIds : c < nextChat /\ chat[c] = "none" => chat'[c] = "none"
    /\ \A m \in MessageIds : owner[m] # 0 =>
          owner'[m] = owner[m] \/ chat'[owner[m]] = "none"

-----------------------------------------------------------------------------
LEMMA InitInv == Init => IInv
<1> SUFFICES ASSUME Init PROVE IInv
  OBVIOUS
<1>1. NoLocals \in LocalType
  BY DEF NoLocals, LocalType, NoCode, Codes, SYSTEM_USER_ID
<1>2. TypeOK
  BY <1>1, BoundsAssumption DEF Init, TypeOK, Labels, Codes, NoCode
<1>3. AdminsAreMembers /\ LastRefersToOwnMessage /\ NoOrphans /\ Allocated
  BY DEF Init, AdminsAreMembers, LastRefersToOwnMessage, NoOrphans, Allocated, ChatIds
<1>4. \A w \in Workers : ChildInv(w)
  BY DEF Init, ChildInv, ChatLabels
<1> QED
  BY <1>2, <1>3, <1>4 DEF IInv

\* A child whose own state is unchanged keeps its invariant.
LEMMA OthersKeepInv ==
    ASSUME IInv, NEW w \in Workers, Others(w), Monotone, TableType'
    PROVE  \A v \in Workers \ {w} : ChildInv(v)'
<1> SUFFICES ASSUME NEW v \in Workers \ {w} PROVE ChildInv(v)'
  OBVIOUS
<1>1. pc'[v] = pc[v] /\ loc'[v] = loc[v] /\ req'[v] = req[v] /\ ChildInv(v)
  BY DEF Others, IInv
<1>2. Stored(v) => Stored(v)'
  <2> SUFFICES ASSUME Stored(v) PROVE Stored(v)'
    OBVIOUS
  <2> DEFINE c == loc[v].cid
             m == loc[v].mid
  <2>1. c \in ChatIds /\ m \in MessageIds /\ c < nextChat /\ c # 0
    BY DEF Stored, ChatIds
  <2>2. c < nextChat'
    BY <2>1, BoundsAssumption DEF Monotone, IInv, TypeOK, TableType, ChatIds
  <2>3. owner'[m] = c \/ chat'[c] = "none"
    BY <2>1 DEF Stored, Monotone
  <2> QED
    BY <1>1, <2>1, <2>2, <2>3 DEF Stored
<1> QED
  BY <1>1, <1>2 DEF ChildInv

\* The parts of the inductive invariant put together.
LEMMA Combine ==
    ASSUME IInv, NEW w \in Workers, TableType', TableInv', Monotone,
           ChildType', Others(w), ChildInv(w)', faults' \in 0 .. MaxFaults
    PROVE  IInv'
<1>1. \A v \in Workers : ChildInv(v)'
  BY OthersKeepInv
<1>2. TypeOK'
  BY DEF TypeOK, TableType, ChildType
<1> QED
  BY <1>1, <1>2 DEF IInv, TableInv

\* A statement that reads leaves the tables' invariants alone.
LEMMA TablesKept ==
    ASSUME IInv, UNCHANGED tables
    PROVE  TableType' /\ TableInv' /\ Monotone
BY DEF IInv, tables, TypeOK, TableType, TableInv, Monotone, AdminsAreMembers,
       LastRefersToOwnMessage, NoOrphans, Allocated

\* Child w goes on at label.
LEMMA ChildMoves ==
    ASSUME IInv, NEW w \in Workers, NEW label \in Labels, NEW l \in LocalType,
           Goto(w, label, l), pc[w] # "idle",
           label # "idle",
           label \in ChatLabels => l.cid \in ChatIds,
           label = "update_last" => Stored(w)',
           req[w].op = "SEND_MESSAGE" =>
              /\ label \in {"update_last", "reply"}
              /\ l.cid = loc[w].cid
              /\ label = "reply" /\ l.code = 200 => Stored(w)'
    PROVE  ChildType' /\ Others(w) /\ ChildInv(w)'
<1>1. pc'[w] = label /\ loc'[w] = l /\ req'[w] = req[w]
  BY DEF Goto, IInv, TypeOK
<1>2. ChildType' /\ Others(w)
  BY DEF Goto, IInv, TypeOK, ChildType, Others
<1>3. ChildInv(w)'
  BY <1>1 DEF IInv, ChildInv, ChatLabels
<1> QED
  BY <1>2, <1>3

\* Child w gets its response_code.
LEMMA Responds ==
    ASSUME IInv, NEW w \in Workers, NEW code \in Codes, Respond(w, code),
           pc[w] # "idle", req[w].op # "SEND_MESSAGE" \/ code # 200
    PROVE  ChildType' /\ Others(w) /\ ChildInv(w)'
<1>1. [loc[w] EXCEPT !.code = code] \in LocalType
  <2>1. loc[w] \in LocalType
    BY DEF IInv, TypeOK
  <2> QED
    BY <2>1 DEF LocalType
<1> QED
  BY <1>1, ChildMoves DEF Respond, Labels, ChatLabels, IInv, TypeOK, LocalType

\* Child w exits.
LEMMA Exits ==
    ASSUME IInv, NEW w \in Workers, NEW outcome \in Codes, Exit(w, outcome)
    PROVE  ChildType' /\ Others(w) /\ ChildInv(w)' /\ UNCHANGED tables
<1>1. NoLocals \in LocalType
  BY DEF NoLocals, LocalType, NoCode, Codes, SYSTEM_USER_ID
<1>2. ChildType' /\ Others(w) /\ UNCHANGED tables
  BY <1>1 DEF Exit, IInv, TypeOK, ChildType, Others, Labels
<1>3. pc'[w] = "idle"
  BY DEF Exit, IInv, TypeOK
<1> QED
  BY <1>2, <1>3 DEF ChildInv, ChatLabels

\* Slot w takes a request.
LEMMA Accepts ==
    ASSUME IInv, NEW w \in Workers, NEW r \in Requests, NEW label \in Labels,
           NEW code \in Codes, Accept(w, r, label, code),
           label # "idle", label # "update_last",
           r.op = "CREATE_CHAT" => label \in {"create_chat", "reply"},
           r.op = "SEND_MESSAGE" => label = "insert_message" \/ (label = "reply" /\ code # 200)
    PROVE  ChildType' /\ Others(w) /\ ChildInv(w)' /\ UNCHANGED tables
<1> DEFINE l == [NoLocals EXCEPT
                    !.cid  = IF r.op = "CREATE_CHAT" THEN 0 ELSE r.chat,
                    !.todo = IF r.op = "CREATE_CHAT" THEN <<r.by>> \o r.ids ELSE r.ids,
                    !.code = code]
<1>1. r \in RequestType
  BY RequestsAssumption
<1>2. <<r.by>> \o r.ids \in Seq(Ids \cup {NotNumber}) /\ r.ids \in Seq(Ids \cup {NotNumber})
  BY <1>1 DEF RequestType
<1>3. l \in LocalType
  <2>1. NoLocals \in LocalType
    BY DEF NoLocals, LocalType, NoCode, Codes, SYSTEM_USER_ID
  <2>2. r.chat \in ChatIds
    BY <1>1 DEF RequestType
  <2> QED
    BY <1>2, <2>1, <2>2 DEF LocalType
<1>4. /\ pc' = [pc EXCEPT ![w] = label] /\ req' = [req EXCEPT ![w] = r]
      /\ loc' = [loc EXCEPT ![w] = l]
      /\ answer' = [answer EXCEPT ![w] = NoCode]
      /\ served < MaxRequests /\ served' = served + 1
      /\ UNCHANGED tables
  BY DEF Accept
<1>5. ChildType' /\ Others(w)
  BY <1>3, <1>4, BoundsAssumption DEF IInv, TypeOK, ChildType, Others, Codes
<1>6. pc'[w] = label /\ req'[w] = r /\ loc'[w] = l
  BY <1>4 DEF IInv, TypeOK
<1>7. /\ l.cid = (IF r.op = "CREATE_CHAT" THEN 0 ELSE r.chat)
      /\ l.code = code
  BY DEF NoLocals
<1>8. r.chat \in ChatIds
  BY <1>1 DEF RequestType
<1>9. ChildInv(w)'
  BY <1>6, <1>7, <1>8 DEF ChildInv, ChatLabels
<1> QED
  BY <1>4, <1>5, <1>9

-----------------------------------------------------------------------------
(* The statements that write keep the tables' invariants. *)

LEMMA CreateChatTables ==
    ASSUME IInv, NEW w \in Workers, CreateChat(w)
    PROVE  TableType' /\ TableInv' /\ Monotone
<1> USE DEF IInv, TypeOK, CreateChat
<1>1. nextChat \in ChatIds /\ chat[nextChat] = "none"
  BY DEF Allocated, ChatIds
<1>2. TableType'
  BY <1>1 DEF TableType, ChatIds
<1>3. TableInv'
  <2>1. AdminsAreMembers' /\ LastRefersToOwnMessage'
    BY DEF AdminsAreMembers, LastRefersToOwnMessage
  <2>2. NoOrphans'
    BY DEF NoOrphans
  <2>3. Allocated'
    BY BoundsAssumption DEF Allocated, ChatIds, MessageIds
  <2> QED
    BY <2>1, <2>2, <2>3 DEF TableInv
<1>4. Monotone
  BY <1>1, BoundsAssumption DEF Monotone, ChatIds
<1> QED
  BY <1>2, <1>3, <1>4

LEMMA AddToChatTables ==
    ASSUME IInv, NEW w \in Workers, AddToChat(w)
    PROVE  TableType' /\ TableInv' /\ Monotone
<1> DEFINE c == loc[w].cid
<1>1. PICK u \in Slot(w) :
          /\ CanAdd(c, u)
          /\ members' = [members EXCEPT ![c] = @ \cup {u}]
          /\ admins' = IF req[w].op = "CREATE_CHAT" /\ u = req[w].by
                       THEN [admins EXCEPT ![c] = @ \cup {u}]
                       ELSE admins
  BY DEF AddToChat
<1>2. UNCHANGED <<chat, last, owner, nextChat, nextMsg>> /\ pc[w] = "add_to_chat"
  BY DEF AddToChat
<1>3. c \in ChatIds /\ chat[c] # "none" /\ u \in Users
  BY <1>1, <1>2 DEF CanAdd, IInv, ChildInv, ChatLabels, Labels
<1>4. TableType'
  BY <1>1, <1>2, <1>3 DEF IInv, TypeOK, TableType
<1>5. TableInv'
  BY <1>1, <1>2, <1>3
  DEF IInv, TypeOK, TableInv, AdminsAreMembers, LastRefersToOwnMessage, NoOrphans, Allocated
<1>6. Monotone
  BY <1>2 DEF Monotone, IInv, TypeOK
<1> QED
  BY <1>4, <1>5, <1>6

LEMMA InsertMessageTables ==
    ASSUME IInv, NEW w \in Workers, InsertMessage(w)
    PROVE  TableType' /\ TableInv' /\ Monotone
<1> DEFINE c == loc[w].cid
<1>1. /\ c \in ChatIds /\ chat[c] # "none" /\ nextMsg \in MessageIds
      /\ owner' = [owner EXCEPT ![nextMsg] = c] /\ nextMsg' = nextMsg + 1
      /\ UNCHANGED <<chat, last, members, admins, nextChat>>
  BY DEF InsertMessage, CanInsert, IInv, ChildInv, ChatLabels, Labels
<1>2. owner[nextMsg] = 0
  BY <1>1 DEF IInv, TypeOK, Allocated, MessageIds
<1>3. TableType'
  BY <1>1 DEF IInv, TypeOK, TableType
<1>4. TableInv'
  <2>1. AdminsAreMembers'
    BY <1>1 DEF IInv, AdminsAreMembers
  <2>2. LastRefersToOwnMessage'
    BY <1>1, <1>2 DEF IInv, TypeOK, LastRefersToOwnMessage, ChatIds
  <2>3. NoOrphans'
    BY <1>1 DEF IInv, TypeOK, NoOrphans
  <2>4. Allocated'
    BY <1>1, BoundsAssumption DEF IInv, TypeOK, Allocated, MessageIds
  <2> QED
    BY <2>1, <2>2, <2>3, <2>4 DEF TableInv
<1>5. Monotone
  BY <1>1, <1>2 DEF Monotone, IInv, TypeOK
<1> QED
  BY <1>3, <1>4, <1>5

LEMMA UpdateLastTables ==
    ASSUME IInv, NEW w \in Workers, UpdateLast(w)
    PROVE  TableType' /\ TableInv' /\ Monotone
<1> DEFINE c == loc[w].cid
<1>1. /\ last' = (IF chat[c] = "none" THEN last ELSE [last EXCEPT ![c] = loc[w].mid])
      /\ UNCHANGED <<chat, members, admins, owner, nextChat, nextMsg>>
  BY DEF UpdateLast
<1>2. /\ loc[w].mid \in MessageIds /\ c \in ChatIds
      /\ owner[loc[w].mid] = c \/ chat[c] = "none"
  BY DEF UpdateLast, IInv, ChildInv, Stored
<1>3. TableType'
  BY <1>1, <1>2 DEF IInv, TypeOK, TableType
<1>4. TableInv'
  <2>1. AdminsAreMembers' /\ Allocated'
    BY <1>1 DEF IInv, AdminsAreMembers, Allocated
  <2>2. LastRefersToOwnMessage'
    BY <1>1, <1>2 DEF IInv, TypeOK, LastRefersToOwnMessage
  <2>3. NoOrphans'
    BY <1>1, <1>2 DEF IInv, TypeOK, NoOrphans
  <2> QED
    BY <2>1, <2>2, <2>3 DEF TableInv
<1>5. Monotone
  BY <1>1 DEF Monotone, IInv, TypeOK
<1> QED
  BY <1>3, <1>4, <1>5

LEMMA DeleteParticipantTables ==
    ASSUME IInv, NEW w \in Workers, NEW u, NEW l, DeleteParticipant(w, u, l)
    PROVE  TableType' /\ TableInv' /\ Monotone
<1>1. TableType'
  BY DEF IInv, TypeOK, TableType, DeleteParticipant
<1>2. TableInv'
  BY DEF IInv, TypeOK, DeleteParticipant, TableInv, AdminsAreMembers,
         LastRefersToOwnMessage, NoOrphans, Allocated
<1>3. Monotone
  BY DEF Monotone, IInv, TypeOK, DeleteParticipant
<1> QED
  BY <1>1, <1>2, <1>3

LEMMA DeleteChatTables ==
    ASSUME IInv, NEW w \in Workers, DeleteChat(w)
    PROVE  TableType' /\ TableInv' /\ Monotone
<1> DEFINE c == loc[w].cid
<1>1. /\ c \in ChatIds
      /\ chat'    = [chat    EXCEPT ![c] = "none"]
      /\ last'    = [last    EXCEPT ![c] = 0]
      /\ members' = [members EXCEPT ![c] = {}]
      /\ admins'  = [admins  EXCEPT ![c] = {}]
      /\ owner'   = [m \in MessageIds |-> IF owner[m] = c THEN 0 ELSE owner[m]]
      /\ UNCHANGED <<nextChat, nextMsg>>
  BY DEF DeleteChat, IInv, ChildInv, ChatLabels, Labels
<1>2. TableType'
  BY <1>1 DEF IInv, TypeOK, TableType
<1>3. TableInv'
  <2>1. AdminsAreMembers'
    BY <1>1 DEF IInv, TypeOK, AdminsAreMembers
  <2>2. LastRefersToOwnMessage'
    BY <1>1 DEF IInv, TypeOK, LastRefersToOwnMessage
  <2>3. NoOrphans'
    BY <1>1 DEF IInv, TypeOK, NoOrphans, ChatIds
  <2>4. Allocated'
    BY <1>1 DEF IInv, TypeOK, Allocated
  <2> QED
    BY <2>1, <2>2, <2>3, <2>4 DEF TableInv
<1>4. Monotone
  BY <1>1 DEF Monotone, IInv, TypeOK
<1> QED
  BY <1>2, <1>3, <1>4

LEMMA PromoteUpdateTables ==
    ASSUME IInv, NEW w \in Workers, PromoteUpdate(w)
    PROVE  TableType' /\ TableInv' /\ Monotone
<1> DEFINE c == loc[w].cid
<1>1. /\ c \in ChatIds
      /\ admins' = (IF loc[w].cand \in members[c]
                    THEN [admins EXCEPT ![c] = @ \cup {loc[w].cand}] ELSE admins)
      /\ UNCHANGED <<chat, last, members, owner, nextChat, nextMsg>>
  BY DEF PromoteUpdate, IInv, ChildInv, ChatLabels, Labels
<1>2. TableType'
  BY <1>1 DEF IInv, TypeOK, TableType
<1>3. TableInv'
  BY <1>1 DEF IInv, TypeOK, TableInv, AdminsAreMembers, LastRefersToOwnMessage,
              NoOrphans, Allocated
<1>4. Monotone
  BY <1>1 DEF Monotone, IInv, TypeOK
<1> QED
  BY <1>2, <1>3, <1>4

-----------------------------------------------------------------------------
(* The steps of a child keep its invariant. *)

\* Child w has left send_message.
LEMMA AfterMessageMoves ==
    ASSUME IInv, NEW w \in Workers, NEW l \in LocalType, AfterMessage(w, l),
           pc[w] \in {"insert_message", "update_last"}, l.cid = loc[w].cid,
           req[w].op = "SEND_MESSAGE" /\ l.code = 200 => Stored(w)'
    PROVE  ChildType' /\ Others(w) /\ ChildInv(w)'
<1> DEFINE k == [l EXCEPT !.code = 200]
<1>1. l.cid \in ChatIds
  BY DEF IInv, ChildInv, ChatLabels, Labels
<1>2. k \in LocalType /\ k.cid = l.cid
  <2>1. 200 \in Codes
    BY DEF Codes
  <2> QED
    BY <2>1 DEF LocalType
<1>3. CASE req[w].op = "SEND_MESSAGE"
  <2>1. Goto(w, "reply", l)
    BY <1>3 DEF AfterMessage
  <2> QED
    BY <1>1, <1>3, <2>1, ChildMoves DEF Labels, ChatLabels
<1>4. CASE req[w].op # "SEND_MESSAGE"
  <2>1. \/ \E label \in {"add_to_chat", "remove_from_chat", "delete_chat",
                         "get_admin_count", "reply"} : Goto(w, label, l)
        \/ Goto(w, "delete_json", k)
    BY <1>4 DEF AfterMessage
  <2>2. CASE Goto(w, "delete_json", k)
    BY <1>1, <1>2, <1>4, <2>2, ChildMoves DEF Labels, ChatLabels
  <2>3. ASSUME NEW label \in {"add_to_chat", "remove_from_chat", "delete_chat",
                              "get_admin_count", "reply"},
               Goto(w, label, l)
        PROVE  ChildType' /\ Others(w) /\ ChildInv(w)'
    BY <1>1, <1>4, <2>3, ChildMoves DEF Labels, ChatLabels
  <2> QED
    BY <2>1, <2>2, <2>3
<1> QED
  BY <1>3, <1>4

LEMMA MessageLostMoves ==
    ASSUME IInv, NEW w \in Workers, MessageLost(w),
           pc[w] \in {"insert_message", "update_last"}
    PROVE  ChildType' /\ Others(w) /\ ChildInv(w)'
<1> DEFINE l == [loc[w] EXCEPT !.code = IF req[w].op = "SEND_MESSAGE" THEN 400 ELSE @]
<1>1. l \in LocalType /\ l.cid = loc[w].cid /\ (req[w].op = "SEND_MESSAGE" => l.code = 400)
  <2>1. loc[w] \in LocalType /\ 400 \in Codes
    BY DEF IInv, TypeOK, Codes
  <2> QED
    BY <2>1 DEF LocalType
<1>2. AfterMessage(w, l)
  BY DEF MessageLost
<1> HIDE DEF l
<1> QED
  BY <1>1, <1>2, AfterMessageMoves

LEMMA InsertMessageMoves ==
    ASSUME IInv, NEW w \in Workers, InsertMessage(w)
    PROVE  ChildType' /\ Others(w) /\ ChildInv(w)'
<1> DEFINE l == [loc[w] EXCEPT !.mid = nextMsg]
<1>1. /\ Goto(w, "update_last", l) /\ pc[w] = "insert_message"
      /\ nextMsg \in MessageIds /\ chat[loc[w].cid] # "none"
      /\ owner' = [owner EXCEPT ![nextMsg] = loc[w].cid] /\ nextChat' = nextChat
  BY DEF InsertMessage, CanInsert
<1>2. l \in LocalType /\ l.cid = loc[w].cid /\ l.mid = nextMsg
  BY <1>1 DEF IInv, TypeOK, LocalType
<1>3. loc[w].cid \in ChatIds
  BY <1>1 DEF IInv, ChildInv, ChatLabels, Labels
<1>4. loc'[w] = l
  BY <1>1 DEF Goto, IInv, TypeOK
<1>5. Stored(w)'
  BY <1>1, <1>2, <1>3, <1>4 DEF Stored, IInv, TypeOK, Allocated
<1> QED
  BY <1>1, <1>2, <1>3, <1>5, ChildMoves DEF Labels

LEMMA UpdateLastMoves ==
    ASSUME IInv, NEW w \in Workers, UpdateLast(w)
    PROVE  ChildType' /\ Others(w) /\ ChildInv(w)'
<1> DEFINE l == [loc[w] EXCEPT !.code = IF req[w].op = "SEND_MESSAGE" THEN 200 ELSE @]
<1>1. /\ AfterMessage(w, l) /\ pc[w] = "update_last"
      /\ UNCHANGED <<chat, owner, nextChat>>
  BY DEF UpdateLast
<1>2. l \in LocalType /\ l.cid = loc[w].cid /\ l.mid = loc[w].mid
  <2>1. loc[w] \in LocalType /\ 200 \in Codes
    BY DEF IInv, TypeOK, Codes
  <2> QED
    BY <2>1 DEF LocalType
<1>3. Stored(w)
  BY <1>1 DEF IInv, ChildInv
<1>4. req[w].op = "SEND_MESSAGE" => Stored(w)'
  <2> SUFFICES ASSUME req[w].op = "SEND_MESSAGE" PROVE Stored(w)'
    OBVIOUS
  <2>1. Goto(w, "reply", l)
    BY <1>1 DEF AfterMessage
  <2>2. loc'[w] = l
    BY <2>1 DEF Goto, IInv, TypeOK
  <2> QED
    BY <1>1, <1>2, <1>3, <2>2 DEF Stored
<1> QED
  BY <1>1, <1>2, <1>4, AfterMessageMoves

\* A turn of a loop over participant_ids is over.
LEMMA TurnType ==
    ASSUME IInv, NEW w \in Workers, loc[w].todo # <<>>
    PROVE  /\ [loc[w] EXCEPT !.todo = Tail(@)] \in LocalType
           /\ [loc[w] EXCEPT !.todo = Tail(@), !.any = TRUE] \in LocalType
<1> DEFINE l == loc[w]
           t == Tail(l.todo)
<1>1. l \in LocalType
  BY DEF IInv, TypeOK
<1>2. t \in Seq(Ids \cup {NotNumber})
  BY <1>1 DEF LocalType
<1> HIDE DEF l, t
<1>3. [l EXCEPT !.todo = t] \in LocalType
  BY <1>1, <1>2 DEF LocalType
<1>4. [l EXCEPT !.todo = t, !.any = TRUE] \in LocalType
  BY <1>1, <1>2 DEF LocalType
<1> QED
  BY <1>3, <1>4 DEF l, t

\* Slot w takes a connection.
LEMMA ConnectMoves ==
    ASSUME IInv, NEW w \in Workers, Connect(w)
    PROVE  ChildType' /\ Others(w) /\ ChildInv(w)' /\ UNCHANGED tables
<1> DEFINE Goal == ChildType' /\ Others(w) /\ ChildInv(w)' /\ UNCHANGED tables
<1>1. \A op, form : \A r \in Asks(op, form) : r \in Requests /\ r.op = op
  BY DEF Asks
<1>2. {NoCode, Uninitialised, Closed, 400, 404} \subseteq Codes
  BY DEF Codes
<1>3. ASSUME NEW r \in Requests, NEW label \in Labels \ {"idle", "update_last"},
             NEW code \in {NoCode, Uninitialised, 400, 404}, Accept(w, r, label, code),
             r.op = "CREATE_CHAT" => label \in {"create_chat", "reply"},
             r.op = "SEND_MESSAGE" => label \in {"insert_message", "reply"}
      PROVE  Goal
  <2>1. code \in Codes /\ code # 200
    BY <1>2 DEF NoCode, Uninitialised
  <2> QED
    BY <1>3, <2>1, Accepts
<1>4. ASSUME UNCHANGED <<tables, pc, req, loc>>, served < MaxRequests, served' = served + 1,
             answer' = [answer EXCEPT ![w] = Closed]
      PROVE  Goal
  <2>1. ChildType'
    BY <1>2, <1>4, BoundsAssumption DEF IInv, TypeOK, ChildType
  <2>2. Stored(w) => Stored(w)'
    BY <1>4 DEF Stored, tables
  <2>3. Others(w) /\ ChildInv(w)'
    BY <1>4, <2>2 DEF Others, IInv, ChildInv
  <2> QED
    BY <1>4, <2>1, <2>3
<1> SUFFICES Goal
  OBVIOUS
<1> HIDE DEF Goal
<1>5. CASE AcceptJunk(w)
  BY <1>4, <1>5 DEF AcceptJunk
<1>6. CASE AcceptUnknown(w)
  BY <1>1, <1>3, <1>6 DEF AcceptUnknown, Labels
<1>7. CASE AcceptCreateChat(w)
  BY <1>1, <1>3, <1>7 DEF AcceptCreateChat, Labels
<1>8. CASE AcceptAddToGroupChat(w)
  BY <1>1, <1>3, <1>8 DEF AcceptAddToGroupChat, Labels
<1>9. CASE OverrunParticipants(w)
  BY <1>4, <1>9 DEF OverrunParticipants
<1>10. CASE AcceptSendMessage(w)
  BY <1>1, <1>3, <1>10 DEF AcceptSendMessage, Labels
<1>11. CASE AcceptGet(w)
  BY <1>1, <1>3, <1>11 DEF AcceptGet, Labels
<1>12. CASE AcceptRemoveFromChat(w)
  BY <1>1, <1>3, <1>12 DEF AcceptRemoveFromChat, Labels
<1>13. CASE AcceptExitChat(w)
  BY <1>1, <1>3, <1>13 DEF AcceptExitChat, Labels
<1> QED
  BY <1>5, <1>6, <1>7, <1>8, <1>9, <1>10, <1>11, <1>12, <1>13 DEF Connect
\* The steps of child w other than those of send_message, one per statement.
LEMMA WorkMoves ==
    ASSUME IInv, NEW w \in Workers, Work(w)
    PROVE  ChildType' /\ Others(w) /\ ChildInv(w)'
<1> DEFINE Goal == ChildType' /\ Others(w) /\ ChildInv(w)'
<1>1. /\ loc[w] \in LocalType /\ pc[w] \in Labels
      /\ pc[w] \in ChatLabels => loc[w].cid \in ChatIds
      /\ pc[w] # "idle" /\ req[w].op = "SEND_MESSAGE" =>
            pc[w] \in {"insert_message", "update_last", "reply"}
  BY DEF IInv, TypeOK, ChildInv
<1>2. {NoCode, Uninitialised, Closed, 200, 400, 403, 404, 500} \subseteq Codes
  BY DEF Codes
<1>3. ASSUME NEW label \in Labels \ {"idle", "update_last"}, NEW l \in LocalType,
             Goto(w, label, l), l.cid = loc[w].cid,
             pc[w] \in Labels \ {"idle", "insert_message", "update_last", "reply"},
             label \in ChatLabels => pc[w] \in ChatLabels
      PROVE  Goal
  <2>1. req[w].op # "SEND_MESSAGE" /\ (label \in ChatLabels => l.cid \in ChatIds)
    BY <1>1, <1>3
  <2> QED
    BY <1>3, <2>1, ChildMoves
<1>4. ASSUME NEW code \in {200, 400, 403, 500}, Respond(w, code),
             pc[w] \in Labels \ {"idle", "insert_message", "update_last", "reply"}
      PROVE  Goal
  <2>1. req[w].op # "SEND_MESSAGE" /\ code \in Codes
    BY <1>1, <1>2, <1>4
  <2> QED
    BY <1>4, <2>1, Responds
<1>5. [loc[w] EXCEPT !.code = 200] \in LocalType
  BY <1>1, <1>2 DEF LocalType
<1>6. ASSUME NEW rows \in SUBSET Int, Return(w, rows),
             pc[w] \in Labels \ {"idle", "insert_message", "update_last", "reply"}
      PROVE  Goal
  <2> DEFINE l == [loc[w] EXCEPT !.code = 200, !.rows = rows]
  <2>1. l \in LocalType /\ l.cid = loc[w].cid
    <3> DEFINE k == [loc[w] EXCEPT !.code = 200]
    <3>1. k \in LocalType /\ k.cid = loc[w].cid
      BY <1>1, <1>5 DEF LocalType
    <3>2. l = [k EXCEPT !.rows = rows]
      BY <1>1 DEF LocalType
    <3> HIDE DEF k, l
    <3>3. [k EXCEPT !.rows = rows] \in LocalType /\ [k EXCEPT !.rows = rows].cid = k.cid
      BY <3>1 DEF LocalType
    <3> QED
      BY <3>1, <3>2, <3>3
  <2>2. Goto(w, "reply", l)
    BY <1>6 DEF Return
  <2> HIDE DEF l
  <2> QED
    BY <1>3, <1>6, <2>1, <2>2 DEF Labels, ChatLabels
<1> SUFFICES Goal
  OBVIOUS
<1> HIDE DEF Goal
<1>7. CASE CreateChat(w)
  <2> DEFINE l == [loc[w] EXCEPT !.cid = nextChat]
  <2>1. Goto(w, "insert_message", l) /\ pc[w] = "create_chat" /\ nextChat \in ChatIds
    BY <1>7 DEF CreateChat
  <2>2. l \in LocalType /\ l.cid = nextChat
    BY <1>1, <2>1 DEF LocalType
  <2> HIDE DEF l
  <2> QED
    BY <1>1, <2>1, <2>2, ChildMoves DEF Labels, Goal
<1>8. CASE CreateChatFails(w)
  BY <1>4, <1>8 DEF CreateChatFails, Labels
<1>9. CASE AddToChat(w)
  <2>1. /\ pc[w] = "add_to_chat" /\ loc[w].todo # <<>>
        /\ Goto(w, "insert_message", [loc[w] EXCEPT !.todo = Tail(@), !.any = TRUE])
    BY <1>9 DEF AddToChat
  <2>2. [loc[w] EXCEPT !.todo = Tail(@), !.any = TRUE].cid = loc[w].cid
    BY <1>1 DEF LocalType
  <2> QED
    BY <1>3, <2>1, <2>2, TurnType DEF Labels, ChatLabels
<1>10. CASE AddToChatFails(w)
  <2>1. /\ pc[w] = "add_to_chat" /\ loc[w].todo # <<>>
        /\ Goto(w, "add_to_chat", [loc[w] EXCEPT !.todo = Tail(@)])
    BY <1>10 DEF AddToChatFails
  <2>2. [loc[w] EXCEPT !.todo = Tail(@)].cid = loc[w].cid
    BY <1>1 DEF LocalType
  <2> QED
    BY <1>3, <2>1, <2>2, TurnType DEF Labels, ChatLabels
<1>11. CASE InsertMessage(w)
  BY <1>11, InsertMessageMoves DEF Goal
<1>12. CASE InsertMessageFails(w)
  BY <1>12, MessageLostMoves DEF InsertMessageFails, Goal
<1>13. CASE UpdateLast(w)
  BY <1>13, UpdateLastMoves DEF Goal
<1>14. CASE LoopEnd(w)
  BY <1>4, <1>14 DEF LoopEnd, Labels
<1>15. CASE RemoveFromChat(w)
  <2>1. /\ pc[w] = "remove_from_chat" /\ loc[w].todo # <<>>
        /\ \E label \in {"insert_message", "remove_from_chat"} :
              Goto(w, label, [loc[w] EXCEPT !.todo = Tail(@)])
    BY <1>15 DEF RemoveFromChat, DeleteParticipant
  <2>2. [loc[w] EXCEPT !.todo = Tail(@)].cid = loc[w].cid
    BY <1>1 DEF LocalType
  <2> QED
    BY <1>3, <2>1, <2>2, TurnType DEF Labels, ChatLabels
<1>16. CASE LeaveChat(w)
  BY <1>1, <1>3, <1>16 DEF LeaveChat, DeleteParticipant, Labels, ChatLabels
<1>17. CASE DeleteChat(w)
  BY <1>4, <1>17 DEF DeleteChat, Labels
<1>18. CASE DeleteChatFails(w)
  BY <1>4, <1>18 DEF DeleteChatFails, Labels
<1>19. CASE PromoteSelect(w)
  <2>1. pc[w] = "promote_select" /\ loc[w].cid \in ChatIds
    BY <1>1, <1>19 DEF PromoteSelect, Labels, ChatLabels
  <2>2. CASE Respond(w, 500)
    BY <1>4, <2>1, <2>2 DEF Labels
  <2>3. ASSUME NEW u \in members[loc[w].cid],
               Goto(w, "promote_update", [loc[w] EXCEPT !.cand = u])
        PROVE  Goal
    <3>1. u \in Int
      BY <2>1, UsersAssumption DEF IInv, TypeOK
    <3>2. [loc[w] EXCEPT !.cand = u] \in LocalType
      BY <1>1, <3>1 DEF LocalType
    <3>3. [loc[w] EXCEPT !.cand = u].cid = loc[w].cid
      BY <1>1 DEF LocalType
    <3> QED
      BY <1>3, <2>1, <2>3, <3>2, <3>3 DEF Labels, ChatLabels
  <2> QED
    BY <1>19, <2>2, <2>3 DEF PromoteSelect
<1>20. CASE PromoteUpdate(w)
  <2>1. [loc[w] EXCEPT !.code = 200].cid = loc[w].cid
    BY <1>1 DEF LocalType
  <2> QED
    BY <1>3, <1>5, <1>20, <2>1 DEF PromoteUpdate, Labels, ChatLabels
<1>21. CASE IsUserAdmin(w)
  <2> DEFINE adm == req[w].by \in admins[loc[w].cid]
             l == [loc[w] EXCEPT !.adm = adm]
  <2>1. l \in LocalType /\ l.cid = loc[w].cid
    <3>1. adm \in BOOLEAN
      OBVIOUS
    <3> HIDE DEF adm
    <3> QED
      BY <1>1, <3>1 DEF LocalType
  <2>2. /\ pc[w] = "is_user_admin"
        /\ \/ Goto(w, "get_participant_count", l)
           \/ Goto(w, "is_group_chat", l)
           \/ Respond(w, 403)
    BY <1>21 DEF IsUserAdmin, AdminKnown
  <2> HIDE DEF l
  <2> QED
    BY <1>3, <1>4, <2>1, <2>2 DEF Labels, ChatLabels
<1>22. CASE IsGroupChat(w)
  BY <1>1, <1>3, <1>4, <1>22 DEF IsGroupChat, Labels, ChatLabels
<1>23. CASE GetParticipantCount(w)
  <2> DEFINE l == [loc[w] EXCEPT !.lone = (Cardinality(members[loc[w].cid]) = 1)]
  <2>1. l \in LocalType /\ l.cid = loc[w].cid
    BY <1>1 DEF LocalType
  <2>2. pc[w] = "get_participant_count" /\ Goto(w, "remove_from_chat", l)
    BY <1>23 DEF GetParticipantCount
  <2> HIDE DEF l
  <2> QED
    BY <1>3, <2>1, <2>2 DEF Labels, ChatLabels
<1>24. CASE GetAdminCount(w)
  <2>1. [loc[w] EXCEPT !.code = 200].cid = loc[w].cid
    BY <1>1 DEF LocalType
  <2>2. /\ pc[w] = "get_admin_count"
        /\ \/ Goto(w, "promote_select", loc[w])
           \/ Goto(w, "delete_json", [loc[w] EXCEPT !.code = 200])
    BY <1>24 DEF GetAdminCount
  <2> QED
    BY <1>1, <1>3, <1>5, <2>1, <2>2 DEF Labels, ChatLabels
<1>25. CASE GetChats(w)
  <2>1. pc[w] = "get_chats" /\ \E rows \in SUBSET ChatIds : Return(w, rows)
    BY <1>25 DEF GetChats, FirstRows
  <2> QED
    BY <1>6, <2>1, BoundsAssumption DEF Labels, ChatIds
<1>26. CASE GetChatMessages(w)
  <2>1. pc[w] = "get_chat_messages" /\ \E rows \in SUBSET MessageIds : Return(w, rows)
    BY <1>26 DEF GetChatMessages
  <2> QED
    BY <1>6, <2>1, BoundsAssumption DEF Labels, MessageIds
<1>27. CASE GetChatInfo(w)
  BY <1>1, <1>3, <1>4, <1>27 DEF GetChatInfo, Labels, ChatLabels
<1>28. CASE GetParticipants(w)
  <2>1. /\ pc[w] = "get_participants"
        /\ \E rows \in SUBSET members[loc[w].cid] : Return(w, rows)
    BY <1>28 DEF GetParticipants, FirstRows
  <2>2. members[loc[w].cid] \subseteq Int
    <3>1. loc[w].cid \in ChatIds
      BY <1>1, <2>1 DEF ChatLabels, Labels
    <3>2. members[loc[w].cid] \in SUBSET Users
      BY <3>1 DEF IInv, TypeOK
    <3>3. \A u \in Users : u \in Int
      BY UsersAssumption
    <3> QED
      BY <3>2, <3>3, Zenon
  <2> QED
    BY <1>6, <2>1, <2>2 DEF Labels
<1>29. CASE Reply(w)
  <2>1. loc[w].code \in Codes
    BY <1>1 DEF LocalType
  <2> QED
    BY <1>29, <2>1, Exits DEF Reply, Goal
<1>30. CASE AbortBeforeSend(w)
  BY <1>2, <1>30, Exits DEF AbortBeforeSend, Goal
<1> QED
  BY <1>7, <1>8, <1>9, <1>10, <1>11, <1>12, <1>13, <1>14, <1>15, <1>16, <1>17, <1>18,
     <1>19, <1>20, <1>21, <1>22, <1>23, <1>24, <1>25, <1>26, <1>27, <1>28, <1>29, <1>30
  DEF Work

\* A failed statement, by the error return of its function.
LEMMA QueryFailsMoves ==
    ASSUME IInv, NEW w \in Workers, QueryFails(w)
    PROVE  ChildType' /\ Others(w) /\ ChildInv(w)'
<1> DEFINE Goal == ChildType' /\ Others(w) /\ ChildInv(w)'
           next == [loc[w] EXCEPT !.todo = Tail(@)]
<1>1. /\ loc[w] \in LocalType
      /\ pc[w] \in ChatLabels => loc[w].cid \in ChatIds
      /\ pc[w] # "idle" /\ req[w].op = "SEND_MESSAGE" =>
            pc[w] \in {"insert_message", "update_last", "reply"}
  BY DEF IInv, TypeOK, ChildInv
<1>2. ASSUME NEW label \in Labels \ {"idle", "update_last"}, NEW l \in LocalType,
             Goto(w, label, l), l.cid = loc[w].cid,
             pc[w] \in Labels \ {"idle", "insert_message", "update_last", "reply"},
             label \in ChatLabels => pc[w] \in ChatLabels
      PROVE  Goal
  <2>1. req[w].op # "SEND_MESSAGE" /\ (label \in ChatLabels => l.cid \in ChatIds)
    BY <1>1, <1>2
  <2> QED
    BY <1>2, <2>1, ChildMoves
<1>3. ASSUME NEW code \in {400, 403, 500}, Respond(w, code),
             pc[w] \in Labels \ {"idle", "insert_message", "update_last", "reply"}
      PROVE  Goal
  <2>1. req[w].op # "SEND_MESSAGE" /\ code \in Codes
    BY <1>1, <1>3 DEF Codes
  <2> QED
    BY <1>3, <2>1, Responds
<1>4. [loc[w] EXCEPT !.code = 200] \in LocalType /\ [loc[w] EXCEPT !.adm = FALSE] \in LocalType
  <2>1. 200 \in Codes
    BY DEF Codes
  <2> QED
    BY <1>1, <2>1 DEF LocalType
<1>5. /\ [loc[w] EXCEPT !.code = 200].cid = loc[w].cid
      /\ [loc[w] EXCEPT !.adm = FALSE].cid = loc[w].cid
      /\ next.cid = loc[w].cid
  BY <1>1 DEF LocalType
<1>6. loc[w].todo # <<>> => next \in LocalType
  BY TurnType
<1> HIDE DEF next
<1> SUFFICES Goal
  OBVIOUS
<1> HIDE DEF Goal
<1>7. CASE /\ pc[w] \in {"create_chat", "get_chats", "get_chat_messages",
                         "get_chat_info", "get_participants"}
           /\ Respond(w, 400)
  BY <1>3, <1>7 DEF Labels
<1>8. CASE pc[w] = "add_to_chat" /\ loc[w].todo # <<>> /\ Goto(w, "add_to_chat", next)
  BY <1>2, <1>5, <1>6, <1>8 DEF Labels, ChatLabels
<1>9. CASE pc[w] \in {"insert_message", "update_last"} /\ MessageLost(w)
  BY <1>9, MessageLostMoves DEF Goal
<1>10. CASE pc[w] = "is_user_admin" /\ AdminKnown(w, FALSE)
  <2>1. \/ Goto(w, "get_participant_count", [loc[w] EXCEPT !.adm = FALSE])
        \/ Respond(w, 403)
    BY <1>10 DEF AdminKnown
  <2> QED
    BY <1>2, <1>3, <1>4, <1>5, <1>10, <2>1 DEF Labels, ChatLabels
<1>11. CASE pc[w] = "is_group_chat" /\ Respond(w, 403)
  BY <1>3, <1>11 DEF Labels
<1>12. CASE pc[w] = "get_participant_count" /\ Goto(w, "remove_from_chat", loc[w])
  BY <1>1, <1>2, <1>12 DEF Labels, ChatLabels
<1>13. CASE pc[w] = "remove_from_chat" /\ Respond(w, 400)
  BY <1>3, <1>13 DEF Labels
<1>14. CASE pc[w] = "remove_from_chat" /\ loc[w].todo # <<>> /\ Goto(w, "remove_from_chat", next)
  BY <1>2, <1>5, <1>6, <1>14 DEF Labels, ChatLabels
<1>15. CASE pc[w] \in {"delete_chat", "promote_select", "promote_update"} /\ Respond(w, 500)
  BY <1>3, <1>15 DEF Labels
<1>16. CASE pc[w] = "get_admin_count" /\ Goto(w, "delete_json", [loc[w] EXCEPT !.code = 200])
  BY <1>2, <1>4, <1>5, <1>16 DEF Labels, ChatLabels
<1> QED
  BY <1>7, <1>8, <1>9, <1>10, <1>11, <1>12, <1>13, <1>14, <1>15, <1>16 DEF QueryFails, next

\* The tables' invariants, for every statement of child w.
LEMMA WorkTables ==
    ASSUME IInv, NEW w \in Workers, Work(w)
    PROVE  TableType' /\ TableInv' /\ Monotone
<1>1. CASE UNCHANGED tables
  BY <1>1, TablesKept
<1>2. CASE CreateChat(w)
  BY <1>2, CreateChatTables
<1>3. CASE AddToChat(w)
  BY <1>3, AddToChatTables
<1>4. CASE InsertMessage(w)
  BY <1>4, InsertMessageTables
<1>5. CASE UpdateLast(w)
  BY <1>5, UpdateLastTables
<1>6. CASE RemoveFromChat(w)
  BY <1>1, <1>6, DeleteParticipantTables DEF RemoveFromChat
<1>7. CASE LeaveChat(w)
  BY <1>7, DeleteParticipantTables DEF LeaveChat
<1>8. CASE DeleteChat(w)
  BY <1>8, DeleteChatTables
<1>9. CASE PromoteUpdate(w)
  BY <1>9, PromoteUpdateTables
<1>10. CASE Reply(w) \/ AbortBeforeSend(w)
  BY <1>1, <1>10 DEF Reply, AbortBeforeSend, Exit
<1>11. CASE \/ CreateChatFails(w) \/ AddToChatFails(w) \/ InsertMessageFails(w) \/ LoopEnd(w)
            \/ DeleteChatFails(w) \/ PromoteSelect(w) \/ IsUserAdmin(w) \/ IsGroupChat(w)
            \/ GetParticipantCount(w) \/ GetAdminCount(w) \/ GetChats(w)
            \/ GetChatMessages(w) \/ GetChatInfo(w) \/ GetParticipants(w)
  <2>1. UNCHANGED tables
    BY <1>11
    DEF CreateChatFails, AddToChatFails, InsertMessageFails, LoopEnd, DeleteChatFails,
        PromoteSelect, IsUserAdmin, IsGroupChat, GetParticipantCount, GetAdminCount,
        GetChats, GetChatMessages, GetChatInfo, GetParticipants
  <2> QED
    BY <1>1, <2>1
<1> QED
  BY <1>2, <1>3, <1>4, <1>5, <1>6, <1>7, <1>8, <1>9, <1>10, <1>11 DEF Work

\* The invariant is inductive.
LEMMA StepInv == IInv /\ [Next]_vars => IInv'
<1> SUFFICES ASSUME IInv, [Next]_vars PROVE IInv'
  OBVIOUS
<1>1. ASSUME NEW w \in Workers, Connect(w), UNCHANGED faults PROVE IInv'
  <2>1. faults' \in 0 .. MaxFaults
    BY <1>1 DEF IInv, TypeOK
  <2> QED
    BY <1>1, <2>1, ConnectMoves, TablesKept, Combine
<1>2. ASSUME NEW w \in Workers, Work(w), UNCHANGED faults PROVE IInv'
  <2>1. faults' \in 0 .. MaxFaults
    BY <1>2 DEF IInv, TypeOK
  <2> QED
    BY <1>2, <2>1, WorkMoves, WorkTables, Combine
<1>3. ASSUME NEW w \in Workers, Fault(w) PROVE IInv'
  <2>1. faults' \in 0 .. MaxFaults
    BY <1>3, BoundsAssumption DEF Fault, IInv, TypeOK
  <2>2. CASE QueryFails(w)
    <3>1. UNCHANGED tables
      BY <2>2 DEF QueryFails
    <3> QED
      BY <2>1, <2>2, <3>1, QueryFailsMoves, TablesKept, Combine
  <2>3. CASE ChildDies(w)
    <3>1. Closed \in Codes /\ Exit(w, Closed)
      BY <2>3 DEF ChildDies, Codes
    <3> QED
      BY <2>1, <3>1, Exits, TablesKept, Combine
  <2> QED
    BY <1>3, <2>2, <2>3 DEF Fault
<1>4. CASE UNCHANGED vars
  <2>1. UNCHANGED tables /\ UNCHANGED <<pc, req, loc, answer, served, faults>>
    BY <1>4 DEF vars
  <2>2. TableType' /\ TableInv'
    BY <2>1, TablesKept
  <2>3. TypeOK'
    BY <2>1, <2>2 DEF IInv, TypeOK, TableType
  <2>4. \A w \in Workers : ChildInv(w)'
    BY <2>1 DEF IInv, ChildInv, Stored, tables
  <2> QED
    BY <2>2, <2>3, <2>4 DEF IInv, TableInv
<1> QED
  BY <1>1, <1>2, <1>3, <1>4 DEF Next, Done

THEOREM Invariance == Spec => []IInv
BY InitInv, StepInv, PTL DEF Spec

-----------------------------------------------------------------------------
(* The properties the runs check, for every value of the constants. *)

\* Every variable keeps its type, with any number of children and faults.
THEOREM TypeCorrect == Spec => []TypeOK
<1>1. IInv => TypeOK
  BY DEF IInv
<1> QED
  BY <1>1, Invariance, PTL

\* last_message_id never refers to a deleted message or to one of another
\* chat, although send_message writes messages and chats in two statements.
THEOREM LastIsSound == Spec => []LastRefersToOwnMessage
<1>1. IInv => LastRefersToOwnMessage
  BY DEF IInv
<1> QED
  BY <1>1, Invariance, PTL

\* No participant or message is left in, or joins, a chat that has no row.
THEOREM OrphanFree == Spec => []NoOrphans
<1>1. IInv => NoOrphans
  BY DEF IInv
<1> QED
  BY <1>1, Invariance, PTL

\* A SEND_MESSAGE answered with 200 is stored, unless the chat was deleted.
THEOREM AckedIsStored == Spec => []AckedMessageStored
<1>1. IInv => AckedMessageStored
  <2> SUFFICES ASSUME IInv, NEW w \in Workers,
                      pc[w] = "reply", req[w].op = "SEND_MESSAGE", loc[w].code = 200
               PROVE  /\ loc[w].mid # 0
                      /\ owner[loc[w].mid] = req[w].chat \/ chat[req[w].chat] = "none"
    BY DEF AckedMessageStored
  <2>1. Stored(w) /\ loc[w].cid = req[w].chat
    BY DEF IInv, ChildInv
  <2> QED
    BY <2>1 DEF Stored, MessageIds
<1> QED
  BY <1>1, Invariance, PTL

\* A deleted chat stays deleted and empty, whatever the other children still
\* have to run.
THEOREM DeletionIsFinal == Spec => DeletedForever
<1>1. ASSUME IInv, IInv', [Next]_vars
      PROVE  [\A c \in ChatIds : c < nextChat /\ chat[c] = "none" =>
                 chat'[c] = "none" /\ members'[c] = {}]_vars
  <2> SUFFICES ASSUME Next, NEW c \in ChatIds, c < nextChat, chat[c] = "none"
               PROVE  chat'[c] = "none" /\ members'[c] = {}
    BY <1>1
  <2>1. Monotone
    <3>1. ASSUME NEW w \in Workers, Connect(w) PROVE Monotone
      BY <1>1, <3>1, ConnectMoves, TablesKept
    <3>2. ASSUME NEW w \in Workers, Work(w) PROVE Monotone
      BY <1>1, <3>2, WorkTables
    <3>3. ASSUME NEW w \in Workers, Fault(w) PROVE Monotone
      <4>1. UNCHANGED tables
        BY <3>3 DEF Fault, QueryFails, ChildDies, Exit
      <4> QED
        BY <1>1, <4>1, TablesKept
    <3>4. CASE Done
      BY <1>1, <3>4, TablesKept DEF Done, vars
    <3> QED
      BY <3>1, <3>2, <3>3, <3>4 DEF Next
  <2>2. chat'[c] = "none"
    BY <2>1 DEF Monotone
  <2> QED
    BY <1>1, <2>2 DEF IInv, NoOrphans
<1> QED
  BY <1>1, Invariance, PTL DEF Spec, DeletedForever

-----------------------------------------------------------------------------
(* The refinement: each statement is an operation of ChatTables or none. *)

LEMMA CreateChatRefines ==
    ASSUME IInv, NEW w \in Workers, CreateChat(w) PROVE Tables!Next
<1>1. Tables!Open
  BY DEF CreateChat, Tables!Open
<1> QED
  BY <1>1 DEF Tables!Next

LEMMA AddToChatRefines ==
    ASSUME IInv, NEW w \in Workers, AddToChat(w) PROVE Tables!Next
<1>1. loc[w].cid \in ChatIds
  BY DEF AddToChat, IInv, ChildInv, ChatLabels, Labels
<1>2. PICK u \in Slot(w) :
         /\ CanAdd(loc[w].cid, u)
         /\ members' = [members EXCEPT ![loc[w].cid] = @ \cup {u}]
         /\ admins' = IF req[w].op = "CREATE_CHAT" /\ u = req[w].by
                      THEN [admins EXCEPT ![loc[w].cid] = @ \cup {u}]
                      ELSE admins
  BY DEF AddToChat
<1>3. Tables!Join(loc[w].cid, u)
  BY <1>2 DEF AddToChat, CanAdd, Tables!Join, Tables!Exists
<1>4. u \in Users
  BY <1>2 DEF CanAdd
<1> QED
  BY <1>1, <1>3, <1>4 DEF Tables!Next

LEMMA InsertMessageRefines ==
    ASSUME IInv, NEW w \in Workers, InsertMessage(w) PROVE Tables!Next
<1>1. loc[w].cid \in ChatIds
  BY DEF InsertMessage, IInv, ChildInv, ChatLabels, Labels
<1>2. Tables!Post(loc[w].cid)
  BY DEF InsertMessage, CanInsert, Tables!Post, Tables!Exists
<1> QED
  BY <1>1, <1>2 DEF Tables!Next

\* A chat that is still there holds the message that its child has inserted.
LEMMA UpdateLastRefines ==
    ASSUME IInv, NEW w \in Workers, UpdateLast(w) PROVE [Tables!Next]_tables
<1>1. Stored(w)
  BY DEF UpdateLast, IInv, ChildInv
<1>2. CASE chat[loc[w].cid] = "none"
  BY <1>2 DEF UpdateLast, tables
<1>3. CASE chat[loc[w].cid] # "none"
  <2>1. Tables!Show(loc[w].cid, loc[w].mid)
    BY <1>1, <1>3 DEF Stored, UpdateLast, Tables!Show, Tables!Exists
  <2> QED
    BY <1>1, <2>1 DEF Stored, Tables!Next
<1> QED
  BY <1>2, <1>3

\* Deleting the row of somebody who is not in the chat changes nothing.
LEMMA DeleteParticipantRefines ==
    ASSUME IInv, NEW w \in Workers, NEW u, NEW l, pc[w] = "remove_from_chat",
           DeleteParticipant(w, u, l)
    PROVE  [Tables!Next]_tables
<1> DEFINE c == loc[w].cid
<1>1. c \in ChatIds
  BY DEF IInv, ChildInv, ChatLabels, Labels
<1>2. CASE u \notin members[c]
  <2>1. members[c] \ {u} = members[c] /\ admins[c] \ {u} = admins[c]
    BY <1>1, <1>2 DEF IInv, AdminsAreMembers
  <2>2. members' = members /\ admins' = admins
    BY <2>1 DEF DeleteParticipant, IInv, TypeOK
  <2> QED
    BY <2>2 DEF DeleteParticipant, tables
<1>3. CASE u \in members[c]
  <2>1. u \in Users /\ chat[c] # "none"
    BY <1>1, <1>3 DEF IInv, TypeOK, NoOrphans
  <2>2. Tables!Leave(c, u)
    BY <1>3, <2>1 DEF DeleteParticipant, Tables!Leave, Tables!Exists
  <2> HIDE DEF c
  <2> QED
    BY <1>1, <2>1, <2>2 DEF Tables!Next
<1> QED
  BY <1>2, <1>3

\* Deleting a chat that has gone changes nothing either.
LEMMA DeleteChatRefines ==
    ASSUME IInv, NEW w \in Workers, DeleteChat(w) PROVE [Tables!Next]_tables
<1> DEFINE c == loc[w].cid
<1>1. c \in ChatIds
  BY DEF DeleteChat, IInv, ChildInv, ChatLabels, Labels
<1>2. CASE chat[c] = "none"
  <2>1. members[c] = {} /\ admins[c] = {} /\ last[c] = 0
        /\ \A m \in MessageIds : owner[m] # c
    BY <1>1, <1>2 DEF IInv, NoOrphans
  <2>2. chat' = chat /\ last' = last /\ members' = members /\ admins' = admins
    BY <1>1, <1>2, <2>1 DEF DeleteChat, IInv, TypeOK
  <2>3. owner' = owner
    BY <2>1 DEF DeleteChat, IInv, TypeOK
  <2> QED
    BY <2>2, <2>3 DEF DeleteChat, tables
<1>3. CASE chat[c] # "none"
  <2>1. Tables!Close(c)
    BY <1>3 DEF DeleteChat, Tables!Close, Tables!Exists
  <2> HIDE DEF c
  <2> QED
    BY <1>1, <2>1 DEF Tables!Next
<1> QED
  BY <1>2, <1>3

LEMMA PromoteUpdateRefines ==
    ASSUME IInv, NEW w \in Workers, PromoteUpdate(w) PROVE [Tables!Next]_tables
<1> DEFINE c == loc[w].cid
           u == loc[w].cand
<1>1. c \in ChatIds
  BY DEF PromoteUpdate, IInv, ChildInv, ChatLabels, Labels
<1>2. CASE u \notin members[c]
  BY <1>2 DEF PromoteUpdate, tables
<1>3. CASE u \in members[c]
  <2>1. u \in Users /\ chat[c] # "none"
    BY <1>1, <1>3 DEF IInv, TypeOK, NoOrphans
  <2>2. Tables!Promote(c, u)
    BY <1>3, <2>1 DEF PromoteUpdate, Tables!Promote, Tables!Exists
  <2> HIDE DEF c, u
  <2> QED
    BY <1>1, <2>1, <2>2 DEF Tables!Next
<1> QED
  BY <1>2, <1>3

LEMMA WorkRefines ==
    ASSUME IInv, NEW w \in Workers, Work(w) PROVE [Tables!Next]_tables
<1>1. CASE CreateChat(w) \/ AddToChat(w) \/ InsertMessage(w) \/ UpdateLast(w)
  BY <1>1, CreateChatRefines, AddToChatRefines, InsertMessageRefines, UpdateLastRefines
<1>2. CASE RemoveFromChat(w)
  <2>1. CASE UNCHANGED tables
    BY <2>1
  <2>2. CASE DeleteParticipant(w, Head(loc[w].todo), [loc[w] EXCEPT !.todo = Tail(@)])
    BY <1>2, <2>2, DeleteParticipantRefines DEF RemoveFromChat
  <2> QED
    BY <1>2, <2>1, <2>2 DEF RemoveFromChat
<1>3. CASE LeaveChat(w)
  BY <1>3, DeleteParticipantRefines DEF LeaveChat
<1>4. CASE DeleteChat(w) \/ PromoteUpdate(w)
  BY <1>4, DeleteChatRefines, PromoteUpdateRefines
<1>5. CASE Reply(w) \/ AbortBeforeSend(w)
  BY <1>5 DEF Reply, AbortBeforeSend, Exit
<1>6. CASE \/ CreateChatFails(w) \/ AddToChatFails(w) \/ InsertMessageFails(w) \/ LoopEnd(w)
           \/ DeleteChatFails(w) \/ PromoteSelect(w) \/ IsUserAdmin(w) \/ IsGroupChat(w)
           \/ GetParticipantCount(w) \/ GetAdminCount(w) \/ GetChats(w)
           \/ GetChatMessages(w) \/ GetChatInfo(w) \/ GetParticipants(w)
  BY <1>6
  DEF CreateChatFails, AddToChatFails, InsertMessageFails, LoopEnd, DeleteChatFails,
      PromoteSelect, IsUserAdmin, IsGroupChat, GetParticipantCount, GetAdminCount,
      GetChats, GetChatMessages, GetChatInfo, GetParticipants
<1> QED
  BY <1>1, <1>2, <1>3, <1>4, <1>5, <1>6 DEF Work

\* Whatever the children do, the tables go through a history of ChatTables:
\* any number of interleaved, failing or dying children looks like operations
\* that each happen at once.
THEOREM Refinement == Spec => ImplementsTables
<1>1. Init => Tables!Init
  BY DEF Init, Tables!Init
<1>2. IInv /\ [Next]_vars => [Tables!Next]_(Tables!tables)
  <2> SUFFICES ASSUME IInv, [Next]_vars PROVE [Tables!Next]_tables
    BY DEF tables, Tables!tables
  <2>1. ASSUME NEW w \in Workers, Connect(w) PROVE [Tables!Next]_tables
    BY <2>1, ConnectMoves
  <2>2. ASSUME NEW w \in Workers, Work(w) PROVE [Tables!Next]_tables
    BY <2>2, WorkRefines
  <2>3. ASSUME NEW w \in Workers, Fault(w) PROVE [Tables!Next]_tables
    BY <2>3 DEF Fault, QueryFails, ChildDies, Exit
  <2>4. CASE UNCHANGED vars
    BY <2>4 DEF vars
  <2> QED
    BY <2>1, <2>2, <2>3, <2>4 DEF Next, Done
<1> QED
  BY <1>1, <1>2, Invariance, PTL DEF Spec, ImplementsTables, Tables!Spec

-----------------------------------------------------------------------------
(* The children keep to the statements of their operations, whatever else   *)
(* runs.                                                                    *)

\* The operations whose handlers run the statement at label.
Runs(op, label) ==
    /\ label = "idle" <=> op = "NONE"
    /\ label = "create_chat" => op = "CREATE_CHAT"
    /\ label = "add_to_chat" => op \in {"CREATE_CHAT", "ADD_TO_GROUP_CHAT"}
    /\ label \in {"insert_message", "update_last"} =>
          op \in {"CREATE_CHAT", "ADD_TO_GROUP_CHAT", "SEND_MESSAGE", "REMOVE_FROM_CHAT",
                  "EXIT_CHAT"}
    /\ label \in {"is_user_admin", "remove_from_chat"} =>
          op \in {"REMOVE_FROM_CHAT", "EXIT_CHAT"}
    /\ label = "is_group_chat" => op = "REMOVE_FROM_CHAT"
    /\ label \in {"get_participant_count", "delete_chat", "get_admin_count",
                  "promote_select", "promote_update", "delete_json"} => op = "EXIT_CHAT"
    /\ label = "get_chats" => op = "GET_CHATS"
    /\ label = "get_chat_messages" => op = "GET_CHAT_MESSAGES"
    /\ label \in {"get_chat_info", "get_participants"} => op = "GET_CHAT_INFO"

\* Child w is where the handler of its request may be, and acts on the chat
\* that the request names.
InHandler(w) ==
    /\ Runs(req[w].op, pc[w])
    /\ pc[w] # "idle" /\ req[w].op # "CREATE_CHAT" => loc[w].cid = req[w].chat

\* What Goto does to the children.
LEMMA GotoEffect ==
    ASSUME IInv, NEW w \in Workers, NEW label, NEW l, Goto(w, label, l)
    PROVE  /\ pc'[w] = label /\ loc'[w] = l /\ req'[w] = req[w]
           /\ Others(w)
BY DEF IInv, TypeOK, Goto, Others

\* What Exit does to the children.
LEMMA ExitEffect ==
    ASSUME IInv, NEW w \in Workers, NEW outcome, Exit(w, outcome)
    PROVE  /\ pc'[w] = "idle" /\ loc'[w] = NoLocals /\ req'[w] = NoRequest
           /\ Others(w) /\ UNCHANGED tables
BY DEF IInv, TypeOK, Exit, Others

\* The locals that the invariants below speak of.
Fields == {"cid", "todo", "mid", "adm", "lone", "cand", "rows"}

\* Child w goes on at label and writes none of its locals but those in W.
Move(w, label, W) ==
    /\ pc'[w] = label
    /\ req'[w] = req[w]
    /\ \A f \in Fields \ W : loc'[w][f] = loc[w][f]
    /\ Others(w)

\* A Goto whose new locals differ from the old ones in W only.
LEMMA GotoMove ==
    ASSUME IInv, NEW w \in Workers, NEW label, NEW l, Goto(w, label, l), NEW W,
           \A f \in Fields \ W : l[f] = loc[w][f]
    PROVE  Move(w, label, W) /\ loc'[w] = l
BY GotoEffect DEF Move

LEMMA RespondMove ==
    ASSUME IInv, NEW w \in Workers, NEW code, Respond(w, code)
    PROVE  Move(w, "reply", {})
<1> DEFINE l == [loc[w] EXCEPT !.code = code]
<1>1. \A f \in Fields \ {} : l[f] = loc[w][f]
  BY DEF IInv, TypeOK, Fields, LocalType
<1>2. Goto(w, "reply", l)
  BY DEF Respond
<1> HIDE DEF l
<1> QED
  BY <1>1, <1>2, GotoMove

\* The turn of a loop is over.
LEMMA TurnMove ==
    ASSUME IInv, NEW w \in Workers, NEW label,
           \/ Goto(w, label, [loc[w] EXCEPT !.todo = Tail(@)])
           \/ Goto(w, label, [loc[w] EXCEPT !.todo = Tail(@), !.any = TRUE])
    PROVE  Move(w, label, {"todo"}) /\ loc'[w].todo = Tail(loc[w].todo)
<1> DEFINE k == [loc[w] EXCEPT !.todo = Tail(@)]
           l == [loc[w] EXCEPT !.todo = Tail(@), !.any = TRUE]
<1>1. loc[w] \in LocalType
  BY DEF IInv, TypeOK
<1>2. k.todo = Tail(loc[w].todo) /\ \A f \in Fields \ {"todo"} : k[f] = loc[w][f]
  BY <1>1 DEF Fields, LocalType
<1>3. l.todo = Tail(loc[w].todo) /\ \A f \in Fields \ {"todo"} : l[f] = loc[w][f]
  BY <1>1 DEF Fields, LocalType
<1>4. Goto(w, label, k) \/ Goto(w, label, l)
  OBVIOUS
<1> HIDE DEF k, l
<1> QED
  BY <1>2, <1>3, <1>4, GotoMove

\* Where child w goes on after send_message.
AfterLabel(w) ==
    CASE req[w].op \in {"CREATE_CHAT", "ADD_TO_GROUP_CHAT"} -> "add_to_chat"
      [] req[w].op = "REMOVE_FROM_CHAT" -> "remove_from_chat"
      [] req[w].op = "EXIT_CHAT" /\ loc[w].lone -> "delete_chat"
      [] req[w].op = "EXIT_CHAT" /\ ~loc[w].lone /\ loc[w].adm -> "get_admin_count"
      [] req[w].op = "EXIT_CHAT" /\ ~loc[w].lone /\ ~loc[w].adm -> "delete_json"
      [] OTHER -> "reply"

LEMMA AfterMessageMove ==
    ASSUME IInv, NEW w \in Workers, NEW x, AfterMessage(w, [loc[w] EXCEPT !.code = x])
    PROVE  Move(w, AfterLabel(w), {})
<1> DEFINE l == [loc[w] EXCEPT !.code = x]
           k == [l EXCEPT !.code = 200]
<1>1. loc[w] \in LocalType
  BY DEF IInv, TypeOK
<1>2. /\ l.lone = loc[w].lone /\ l.adm = loc[w].adm
      /\ \A f \in Fields \ {} : l[f] = loc[w][f]
      /\ \A f \in Fields \ {} : k[f] = loc[w][f]
  BY <1>1 DEF LocalType, Fields
<1>3. AfterMessage(w, l)
  OBVIOUS
<1>4. \/ Goto(w, AfterLabel(w), l)
      \/ Goto(w, AfterLabel(w), k)
  <2> HIDE DEF l
  <2>1. CASE req[w].op = "EXIT_CHAT" /\ loc[w].lone
    BY <1>2, <1>3, <2>1 DEF AfterMessage, AfterLabel
  <2>2. CASE req[w].op = "EXIT_CHAT" /\ ~loc[w].lone /\ loc[w].adm
    BY <1>2, <1>3, <2>2 DEF AfterMessage, AfterLabel
  <2>3. CASE req[w].op = "EXIT_CHAT" /\ ~loc[w].lone /\ ~loc[w].adm
    BY <1>2, <1>3, <2>3 DEF AfterMessage, AfterLabel
  <2>4. CASE req[w].op # "EXIT_CHAT"
    BY <1>3, <2>4 DEF AfterMessage, AfterLabel
  <2> QED
    BY <2>1, <2>2, <2>3, <2>4
<1> HIDE DEF l, k
<1> QED
  BY <1>2, <1>4, GotoMove

\* What the statements of a child do to the child itself, one line for each
\* action that goes on with the same request.
Steps(w) ==
    /\ CreateChat(w) => Move(w, "insert_message", {"cid"}) /\ loc'[w].cid = nextChat
    /\ AddToChat(w) => Move(w, "insert_message", {"todo"}) /\ loc'[w].todo = Tail(loc[w].todo)
    /\ AddToChatFails(w) => Move(w, "add_to_chat", {"todo"}) /\ loc'[w].todo = Tail(loc[w].todo)
    /\ InsertMessage(w) => Move(w, "update_last", {"mid"}) /\ loc'[w].mid = nextMsg
    /\ InsertMessageFails(w) \/ UpdateLast(w) => Move(w, AfterLabel(w), {})
    /\ RemoveFromChat(w) =>
          /\ Move(w, IF Skips(w, Head(loc[w].todo)) THEN "remove_from_chat" ELSE "insert_message",
                  {"todo"})
          /\ loc'[w].todo = Tail(loc[w].todo)
    /\ LeaveChat(w) => Move(w, "insert_message", {})
    /\ PromoteSelect(w) =>
          \/ members[loc[w].cid] = {} /\ Move(w, "reply", {})
          \/ Move(w, "promote_update", {"cand"}) /\ loc'[w].cand \in members[loc[w].cid]
    /\ IsUserAdmin(w) =>
          \/ req[w].op = "EXIT_CHAT" /\ Move(w, "get_participant_count", {"adm"})
             /\ loc'[w].adm = (req[w].by \in admins[loc[w].cid])
          \/ req[w].op # "EXIT_CHAT" /\ Move(w, "is_group_chat", {"adm"})
             /\ req[w].by \in admins[loc[w].cid]
          \/ req[w].op # "EXIT_CHAT" /\ Move(w, "reply", {})
    /\ IsGroupChat(w) => Move(w, "remove_from_chat", {}) \/ Move(w, "reply", {})
    /\ GetParticipantCount(w) =>
          /\ Move(w, "remove_from_chat", {"lone"})
          /\ loc'[w].lone = (Cardinality(members[loc[w].cid]) = 1)
    /\ GetAdminCount(w) =>
          \/ admins[loc[w].cid] = {} /\ Move(w, "promote_select", {})
          \/ admins[loc[w].cid] # {} /\ Move(w, "delete_json", {})
    /\ GetChatInfo(w) => Move(w, "get_participants", {}) \/ Move(w, "reply", {})
    /\ PromoteUpdate(w) => Move(w, "delete_json", {})
    /\ \/ CreateChatFails(w) \/ LoopEnd(w) \/ DeleteChat(w) \/ DeleteChatFails(w)
       => Move(w, "reply", {})

LEMMA StepsHold ==
    ASSUME IInv, NEW w \in Workers
    PROVE  Steps(w)
<1>1. loc[w] \in LocalType
  BY DEF IInv, TypeOK
<1>2. \A f \in Fields \ {} : loc[w][f] = loc[w][f]
  OBVIOUS
<1>3. CreateChat(w) => Move(w, "insert_message", {"cid"}) /\ loc'[w].cid = nextChat
  <2> DEFINE l == [loc[w] EXCEPT !.cid = nextChat]
  <2>1. l.cid = nextChat /\ \A f \in Fields \ {"cid"} : l[f] = loc[w][f]
    BY <1>1 DEF Fields, LocalType
  <2>2. CreateChat(w) => Goto(w, "insert_message", l)
    BY DEF CreateChat
  <2> HIDE DEF l
  <2> QED
    BY <2>1, <2>2, GotoMove
<1>4. AddToChat(w) => Move(w, "insert_message", {"todo"}) /\ loc'[w].todo = Tail(loc[w].todo)
  BY TurnMove DEF AddToChat
<1>5. AddToChatFails(w) => Move(w, "add_to_chat", {"todo"}) /\ loc'[w].todo = Tail(loc[w].todo)
  BY TurnMove DEF AddToChatFails
<1>6. InsertMessage(w) => Move(w, "update_last", {"mid"}) /\ loc'[w].mid = nextMsg
  <2> DEFINE l == [loc[w] EXCEPT !.mid = nextMsg]
  <2>1. l.mid = nextMsg /\ \A f \in Fields \ {"mid"} : l[f] = loc[w][f]
    BY <1>1 DEF Fields, LocalType
  <2>2. InsertMessage(w) => Goto(w, "update_last", l)
    BY DEF InsertMessage
  <2> HIDE DEF l
  <2> QED
    BY <2>1, <2>2, GotoMove
<1>7. InsertMessageFails(w) \/ UpdateLast(w) => Move(w, AfterLabel(w), {})
  <2>1. ASSUME NEW x,
               AfterMessage(w, [loc[w] EXCEPT !.code =
                                  IF req[w].op = "SEND_MESSAGE" THEN x ELSE @])
        PROVE  Move(w, AfterLabel(w), {})
    <3> DEFINE y == IF req[w].op = "SEND_MESSAGE" THEN x ELSE loc[w].code
    <3>1. AfterMessage(w, [loc[w] EXCEPT !.code = y])
      BY <2>1
    <3> HIDE DEF y
    <3> QED
      BY <3>1, AfterMessageMove
  <2> QED
    BY <2>1 DEF InsertMessageFails, UpdateLast, MessageLost
<1>8. RemoveFromChat(w) =>
          /\ Move(w, IF Skips(w, Head(loc[w].todo)) THEN "remove_from_chat" ELSE "insert_message",
                  {"todo"})
          /\ loc'[w].todo = Tail(loc[w].todo)
  BY TurnMove DEF RemoveFromChat, DeleteParticipant
<1>9. LeaveChat(w) => Move(w, "insert_message", {})
  BY <1>2, GotoMove DEF LeaveChat, DeleteParticipant
<1>10. PromoteSelect(w) =>
          \/ members[loc[w].cid] = {} /\ Move(w, "reply", {})
          \/ Move(w, "promote_update", {"cand"}) /\ loc'[w].cand \in members[loc[w].cid]
  <2>1. ASSUME NEW u, Goto(w, "promote_update", [loc[w] EXCEPT !.cand = u])
        PROVE  Move(w, "promote_update", {"cand"}) /\ loc'[w].cand = u
    <3> DEFINE l == [loc[w] EXCEPT !.cand = u]
    <3>1. l.cand = u /\ \A f \in Fields \ {"cand"} : l[f] = loc[w][f]
      BY <1>1 DEF Fields, LocalType
    <3>2. Goto(w, "promote_update", l)
      BY <2>1
    <3> HIDE DEF l
    <3> QED
      BY <3>1, <3>2, GotoMove
  <2>2. ASSUME NEW u \in members[loc[w].cid],
               Goto(w, "promote_update", [loc[w] EXCEPT !.cand = u])
        PROVE  Move(w, "promote_update", {"cand"}) /\ loc'[w].cand \in members[loc[w].cid]
    BY <2>1, <2>2
  <2> QED
    BY <2>2, RespondMove DEF PromoteSelect
<1>11. IsUserAdmin(w) =>
          \/ req[w].op = "EXIT_CHAT" /\ Move(w, "get_participant_count", {"adm"})
             /\ loc'[w].adm = (req[w].by \in admins[loc[w].cid])
          \/ req[w].op # "EXIT_CHAT" /\ Move(w, "is_group_chat", {"adm"})
             /\ req[w].by \in admins[loc[w].cid]
          \/ req[w].op # "EXIT_CHAT" /\ Move(w, "reply", {})
  <2> DEFINE adm == req[w].by \in admins[loc[w].cid]
             l == [loc[w] EXCEPT !.adm = adm]
  <2>1. l.adm = adm /\ \A f \in Fields \ {"adm"} : l[f] = loc[w][f]
    <3> HIDE DEF adm
    <3> QED
      BY <1>1 DEF Fields, LocalType
  <2>2. IsUserAdmin(w) =>
           \/ req[w].op = "EXIT_CHAT" /\ Goto(w, "get_participant_count", l)
           \/ req[w].op # "EXIT_CHAT" /\ adm /\ Goto(w, "is_group_chat", l)
           \/ req[w].op # "EXIT_CHAT" /\ Respond(w, 403)
    BY DEF IsUserAdmin, AdminKnown
  <2> HIDE DEF l
  <2>3. \A label : Goto(w, label, l) => Move(w, label, {"adm"}) /\ loc'[w] = l
    BY <2>1, GotoMove
  <2> QED
    BY <2>1, <2>2, <2>3, RespondMove
<1>12. IsGroupChat(w) => Move(w, "remove_from_chat", {}) \/ Move(w, "reply", {})
  BY <1>2, GotoMove, RespondMove DEF IsGroupChat
<1>13. GetParticipantCount(w) =>
          /\ Move(w, "remove_from_chat", {"lone"})
          /\ loc'[w].lone = (Cardinality(members[loc[w].cid]) = 1)
  <2> DEFINE lone == Cardinality(members[loc[w].cid]) = 1
             l == [loc[w] EXCEPT !.lone = lone]
  <2>1. l.lone = lone /\ \A f \in Fields \ {"lone"} : l[f] = loc[w][f]
    <3> HIDE DEF lone
    <3> QED
      BY <1>1 DEF Fields, LocalType
  <2>2. GetParticipantCount(w) => Goto(w, "remove_from_chat", l)
    BY DEF GetParticipantCount
  <2> HIDE DEF l
  <2> QED
    BY <2>1, <2>2, GotoMove
<1>14. GetAdminCount(w) =>
          \/ admins[loc[w].cid] = {} /\ Move(w, "promote_select", {})
          \/ admins[loc[w].cid] # {} /\ Move(w, "delete_json", {})
  <2> DEFINE l == [loc[w] EXCEPT !.code = 200]
  <2>1. \A f \in Fields \ {} : l[f] = loc[w][f]
    BY <1>1 DEF Fields, LocalType
  <2>2. GetAdminCount(w) =>
           \/ admins[loc[w].cid] = {} /\ Goto(w, "promote_select", loc[w])
           \/ admins[loc[w].cid] # {} /\ Goto(w, "delete_json", l)
    BY DEF GetAdminCount
  <2> HIDE DEF l
  <2> QED
    BY <1>2, <2>1, <2>2, GotoMove
<1>15. GetChatInfo(w) => Move(w, "get_participants", {}) \/ Move(w, "reply", {})
  BY <1>2, GotoMove, RespondMove DEF GetChatInfo
<1>16. PromoteUpdate(w) => Move(w, "delete_json", {})
  <2> DEFINE l == [loc[w] EXCEPT !.code = 200]
  <2>1. \A f \in Fields \ {} : l[f] = loc[w][f]
    BY <1>1 DEF Fields, LocalType
  <2>2. PromoteUpdate(w) => Goto(w, "delete_json", l)
    BY DEF PromoteUpdate
  <2> HIDE DEF l
  <2> QED
    BY <2>1, <2>2, GotoMove
<1>17. \/ CreateChatFails(w) \/ LoopEnd(w) \/ DeleteChat(w) \/ DeleteChatFails(w)
       => Move(w, "reply", {})
  <2>1. \/ CreateChatFails(w) \/ LoopEnd(w) \/ DeleteChat(w) \/ DeleteChatFails(w)
        => \E code : Respond(w, code)
    BY DEF CreateChatFails, LoopEnd, DeleteChat, DeleteChatFails
  <2> QED
    BY <2>1, RespondMove
<1> QED
  BY <1>3, <1>4, <1>5, <1>6, <1>7, <1>8, <1>9, <1>10, <1>11, <1>12, <1>13, <1>14, <1>15,
     <1>16, <1>17 DEF Steps

\* The error returns, in the same form.
FailedSteps(w) ==
    \/ /\ pc[w] \in {"create_chat", "get_chats", "get_chat_messages", "get_chat_info",
                     "get_participants", "is_group_chat", "remove_from_chat", "delete_chat",
                     "promote_select", "promote_update"}
       /\ Move(w, "reply", {})
    \/ pc[w] \in {"add_to_chat", "remove_from_chat"} /\ Move(w, pc[w], {"todo"})
    \/ pc[w] \in {"insert_message", "update_last"} /\ Move(w, AfterLabel(w), {})
    \/ /\ pc[w] = "is_user_admin"
       /\ \/ req[w].op = "EXIT_CHAT" /\ Move(w, "get_participant_count", {"adm"})
          \/ req[w].op # "EXIT_CHAT" /\ Move(w, "reply", {})
    \/ pc[w] = "get_participant_count" /\ Move(w, "remove_from_chat", {})
    \/ pc[w] = "get_admin_count" /\ Move(w, "delete_json", {})

LEMMA FailedStepsHold ==
    ASSUME IInv, NEW w \in Workers, QueryFails(w)
    PROVE  FailedSteps(w) /\ UNCHANGED tables
<1> DEFINE next == [loc[w] EXCEPT !.todo = Tail(@)]
           fine == [loc[w] EXCEPT !.code = 200]
           none == [loc[w] EXCEPT !.adm = FALSE]
<1>1. loc[w] \in LocalType
  BY DEF IInv, TypeOK
<1>2. /\ \A f \in Fields \ {} : fine[f] = loc[w][f] /\ loc[w][f] = loc[w][f]
      /\ \A f \in Fields \ {"adm"} : none[f] = loc[w][f]
  BY <1>1 DEF LocalType, Fields
<1>3. \A label : Goto(w, label, next) => Move(w, label, {"todo"})
  BY TurnMove
<1>4. \A label : Goto(w, label, fine) => Move(w, label, {})
  <2> HIDE DEF fine
  <2> QED
    BY <1>2, GotoMove
<1>5. \A label : Goto(w, label, none) => Move(w, label, {"adm"})
  <2> HIDE DEF none
  <2> QED
    BY <1>2, GotoMove
<1>6. \A label : Goto(w, label, loc[w]) => Move(w, label, {})
  BY <1>2, GotoMove
<1>7. UNCHANGED tables
  BY DEF QueryFails
<1>8. MessageLost(w) => Move(w, AfterLabel(w), {})
  <2> DEFINE y == IF req[w].op = "SEND_MESSAGE" THEN 400 ELSE loc[w].code
  <2>1. MessageLost(w) => AfterMessage(w, [loc[w] EXCEPT !.code = y])
    BY DEF MessageLost
  <2> HIDE DEF y
  <2> QED
    BY <2>1, AfterMessageMove
<1>9. AdminKnown(w, FALSE) =>
         \/ req[w].op = "EXIT_CHAT" /\ Move(w, "get_participant_count", {"adm"})
         \/ req[w].op # "EXIT_CHAT" /\ Move(w, "reply", {})
  <2>1. AdminKnown(w, FALSE) =>
           \/ req[w].op = "EXIT_CHAT" /\ Goto(w, "get_participant_count", none)
           \/ req[w].op # "EXIT_CHAT" /\ Respond(w, 403)
    BY DEF AdminKnown
  <2> HIDE DEF none
  <2> QED
    BY <1>5, <2>1, RespondMove
<1>10. \A code : Respond(w, code) => Move(w, "reply", {})
  BY RespondMove
<1> SUFFICES FailedSteps(w)
  BY <1>7
<1>11. CASE pc[w] \in {"create_chat", "get_chats", "get_chat_messages", "get_chat_info",
                       "get_participants", "is_group_chat", "delete_chat",
                       "promote_select", "promote_update"}
  <2>1. \E code : Respond(w, code)
    BY <1>11 DEF QueryFails
  <2> QED
    BY <1>10, <1>11, <2>1 DEF FailedSteps
<1>12. CASE pc[w] \in {"add_to_chat", "remove_from_chat"}
  <2>1. \/ Goto(w, pc[w], next)
        \/ pc[w] = "remove_from_chat" /\ \E code : Respond(w, code)
    BY <1>12 DEF QueryFails
  <2> HIDE DEF next
  <2> QED
    BY <1>3, <1>10, <1>12, <2>1 DEF FailedSteps
<1>13. CASE pc[w] \in {"insert_message", "update_last"}
  <2>1. MessageLost(w)
    BY <1>13 DEF QueryFails
  <2> QED
    BY <1>8, <1>13, <2>1 DEF FailedSteps
<1>14. CASE pc[w] = "is_user_admin"
  <2>1. AdminKnown(w, FALSE)
    BY <1>14 DEF QueryFails
  <2> QED
    BY <1>9, <1>14, <2>1 DEF FailedSteps
<1>15. CASE pc[w] \in {"get_participant_count", "get_admin_count"}
  <2>1. \/ pc[w] = "get_participant_count" /\ Goto(w, "remove_from_chat", loc[w])
        \/ pc[w] = "get_admin_count" /\ Goto(w, "delete_json", fine)
    BY <1>15 DEF QueryFails
  <2> HIDE DEF fine
  <2> QED
    BY <1>4, <1>6, <2>1 DEF FailedSteps
<1> QED
  BY <1>11, <1>12, <1>13, <1>14, <1>15 DEF QueryFails

-----------------------------------------------------------------------------
(* Every step of a child keeps it in the handler of its request. *)

\* Child w goes on in its handler, with the chat it has.
LEMMA StaysInHandler ==
    ASSUME NEW w \in Workers, InHandler(w), NEW label, NEW W, Move(w, label, W),
           pc[w] # "idle", Runs(req[w].op, label),
           "cid" \notin W \/ req[w].op = "CREATE_CHAT"
    PROVE  InHandler(w)'
<1>1. "cid" \notin W => loc'[w].cid = loc[w].cid
  BY DEF Move, Fields
<1> QED
  BY <1>1 DEF InHandler, Move

\* Child w exits.
LEMMA ExitsHandler ==
    ASSUME IInv, NEW w \in Workers, NEW outcome, Exit(w, outcome)
    PROVE  InHandler(w)'
BY ExitEffect DEF InHandler, Runs, NoRequest

\* Child w has read its rows.
LEMMA ReturnsInHandler ==
    ASSUME IInv, NEW w \in Workers, InHandler(w), NEW rows, Return(w, rows), pc[w] # "idle"
    PROVE  InHandler(w)' /\ Move(w, "reply", {"rows"})
<1> DEFINE l == [loc[w] EXCEPT !.code = 200, !.rows = rows]
<1>1. l.rows = rows /\ \A f \in Fields \ {"rows"} : l[f] = loc[w][f]
  <2>1. loc[w] \in LocalType
    BY DEF IInv, TypeOK
  <2> QED
    BY <2>1 DEF LocalType, Fields
<1>2. Goto(w, "reply", l)
  BY DEF Return
<1> HIDE DEF l
<1>3. Move(w, "reply", {"rows"}) /\ loc'[w].rows = rows
  BY <1>1, <1>2, GotoMove
<1>4. loc'[w].cid = loc[w].cid /\ Runs(req[w].op, "reply")
  BY <1>3 DEF Move, Fields, InHandler, Runs
<1> QED
  BY <1>3, <1>4 DEF InHandler, Move

\* After send_message child w is where its handler may be.
LEMMA AfterLabelRuns ==
    ASSUME NEW w \in Workers, InHandler(w), pc[w] \in {"insert_message", "update_last"}
    PROVE  Runs(req[w].op, AfterLabel(w))
<1>1. Runs(req[w].op, pc[w])
  BY DEF InHandler
<1> QED
  BY <1>1 DEF AfterLabel, Runs

\* Slot w takes a connection.
LEMMA ConnectInHandler ==
    ASSUME IInv, NEW w \in Workers, InHandler(w), Connect(w)
    PROVE  InHandler(w)' /\ Others(w)
<1> DEFINE Goal == InHandler(w)' /\ Others(w)
<1>1. ASSUME NEW op \in ChatOps, NEW form, NEW r \in Asks(op, form), NEW label, NEW code,
             Accept(w, r, label, code), Runs(op, label)
      PROVE  Goal
  <2>1. r \in Requests /\ r.op = op /\ op # "NONE"
    BY <1>1 DEF Asks, ChatOps
  <2>2. pc'[w] = label /\ req'[w] = r /\ Others(w)
    BY <1>1 DEF Accept, IInv, TypeOK, Others
  <2>3. loc'[w].cid = (IF r.op = "CREATE_CHAT" THEN 0 ELSE r.chat)
    BY <1>1 DEF Accept, IInv, TypeOK, NoLocals
  <2> QED
    BY <1>1, <2>1, <2>2, <2>3 DEF InHandler
<1>2. ASSUME UNCHANGED <<tables, pc, req, loc>> PROVE Goal
  BY <1>2 DEF InHandler, Others
<1> SUFFICES Goal
  OBVIOUS
<1> HIDE DEF Goal
<1>3. CASE AcceptJunk(w) \/ OverrunParticipants(w)
  BY <1>2, <1>3 DEF AcceptJunk, OverrunParticipants
<1>4. CASE AcceptUnknown(w)
  BY <1>1, <1>4 DEF AcceptUnknown, ChatOps, Runs
<1>5. CASE AcceptCreateChat(w)
  BY <1>1, <1>5 DEF AcceptCreateChat, ChatOps, Runs
<1>6. CASE AcceptAddToGroupChat(w)
  BY <1>1, <1>6 DEF AcceptAddToGroupChat, ChatOps, Runs
<1>7. CASE AcceptSendMessage(w)
  BY <1>1, <1>7 DEF AcceptSendMessage, ChatOps, Runs
<1>8. CASE AcceptGet(w)
  BY <1>1, <1>8 DEF AcceptGet, ChatOps, Runs
<1>9. CASE AcceptRemoveFromChat(w)
  BY <1>1, <1>9 DEF AcceptRemoveFromChat, ChatOps, Runs
<1>10. CASE AcceptExitChat(w)
  BY <1>1, <1>10 DEF AcceptExitChat, ChatOps, Runs
<1> QED
  BY <1>3, <1>4, <1>5, <1>6, <1>7, <1>8, <1>9, <1>10 DEF Connect

\* The three readers that fill an array.
LEMMA ReadersInHandler ==
    ASSUME IInv, NEW w \in Workers, InHandler(w),
           GetChats(w) \/ GetChatMessages(w) \/ GetParticipants(w)
    PROVE  InHandler(w)' /\ Move(w, "reply", {"rows"})
<1>1. pc[w] # "idle" /\ \E rows : Return(w, rows)
  BY DEF GetChats, GetChatMessages, GetParticipants
<1> QED
  BY <1>1, ReturnsInHandler

\* Every statement keeps child w in its handler.
LEMMA WorkInHandler ==
    ASSUME IInv, NEW w \in Workers, InHandler(w), Work(w)
    PROVE  InHandler(w)' /\ Others(w)
<1> DEFINE Goal == InHandler(w)' /\ Others(w)
<1>1. Runs(req[w].op, pc[w]) /\ Steps(w)
  BY StepsHold DEF InHandler
<1>2. ASSUME NEW label, NEW W \in SUBSET {"todo", "mid", "adm", "lone", "cand"},
             Move(w, label, W), pc[w] # "idle", Runs(req[w].op, label)
      PROVE  Goal
  BY <1>2, StaysInHandler DEF Move
<1> SUFFICES Goal
  OBVIOUS
<1> HIDE DEF Goal
<1>3. CASE CreateChat(w)
  <2>1. pc[w] = "create_chat" /\ Move(w, "insert_message", {"cid"})
    BY <1>1, <1>3 DEF Steps, CreateChat
  <2>2. req[w].op = "CREATE_CHAT" /\ Runs(req[w].op, "insert_message")
    BY <1>1, <2>1 DEF Runs
  <2> QED
    BY <2>1, <2>2, StaysInHandler DEF Goal, Move
<1>4. CASE CreateChatFails(w) \/ LoopEnd(w) \/ DeleteChat(w) \/ DeleteChatFails(w)
  <2>1. pc[w] # "idle" /\ Move(w, "reply", {})
    BY <1>1, <1>4 DEF Steps, CreateChatFails, LoopEnd, DeleteChat, DeleteChatFails
  <2> QED
    BY <1>1, <1>2, <2>1 DEF Runs
<1>5. CASE AddToChat(w) \/ AddToChatFails(w)
  <2>1. /\ pc[w] = "add_to_chat"
        /\ Move(w, "insert_message", {"todo"}) \/ Move(w, "add_to_chat", {"todo"})
    BY <1>1, <1>5 DEF Steps, AddToChat, AddToChatFails
  <2> QED
    BY <1>1, <1>2, <2>1 DEF Runs
<1>6. CASE InsertMessage(w)
  <2>1. pc[w] = "insert_message" /\ Move(w, "update_last", {"mid"})
    BY <1>1, <1>6 DEF Steps, InsertMessage
  <2> QED
    BY <1>1, <1>2, <2>1 DEF Runs
<1>7. CASE InsertMessageFails(w) \/ UpdateLast(w)
  <2>1. pc[w] \in {"insert_message", "update_last"} /\ Move(w, AfterLabel(w), {})
    BY <1>1, <1>7 DEF Steps, InsertMessageFails, UpdateLast
  <2> QED
    BY <1>2, <2>1, AfterLabelRuns
<1>8. CASE RemoveFromChat(w) \/ LeaveChat(w)
  <2>1. /\ pc[w] = "remove_from_chat"
        /\ \/ Move(w, "insert_message", {"todo"}) \/ Move(w, "remove_from_chat", {"todo"})
           \/ Move(w, "insert_message", {})
    BY <1>1, <1>8 DEF Steps, RemoveFromChat, LeaveChat
  <2> QED
    BY <1>1, <1>2, <2>1 DEF Runs
<1>9. CASE PromoteSelect(w) \/ PromoteUpdate(w) \/ GetAdminCount(w)
  <2>1. /\ pc[w] \in {"promote_select", "promote_update", "get_admin_count"}
        /\ \/ Move(w, "promote_update", {"cand"})
           \/ \E label \in {"reply", "delete_json", "promote_select"} : Move(w, label, {})
    BY <1>1, <1>9 DEF Steps, PromoteSelect, PromoteUpdate, GetAdminCount
  <2> QED
    BY <1>1, <1>2, <2>1 DEF Runs
<1>10. CASE IsUserAdmin(w)
  <2>1. /\ pc[w] = "is_user_admin"
        /\ \/ req[w].op = "EXIT_CHAT" /\ Move(w, "get_participant_count", {"adm"})
           \/ req[w].op # "EXIT_CHAT" /\ Move(w, "is_group_chat", {"adm"})
           \/ Move(w, "reply", {})
    BY <1>1, <1>10 DEF Steps, IsUserAdmin
  <2> QED
    BY <1>1, <1>2, <2>1 DEF Runs
<1>11. CASE IsGroupChat(w) \/ GetParticipantCount(w)
  <2>1. /\ pc[w] \in {"is_group_chat", "get_participant_count"}
        /\ \/ Move(w, "remove_from_chat", {}) \/ Move(w, "reply", {})
           \/ Move(w, "remove_from_chat", {"lone"})
    BY <1>1, <1>11 DEF Steps, IsGroupChat, GetParticipantCount
  <2> QED
    BY <1>1, <1>2, <2>1 DEF Runs
<1>12. CASE GetChatInfo(w)
  <2>1. /\ pc[w] = "get_chat_info"
        /\ Move(w, "get_participants", {}) \/ Move(w, "reply", {})
    BY <1>1, <1>12 DEF Steps, GetChatInfo
  <2> QED
    BY <1>1, <1>2, <2>1 DEF Runs
<1>13. CASE GetChats(w) \/ GetChatMessages(w) \/ GetParticipants(w)
  BY <1>13, ReadersInHandler DEF Goal, Move
<1>14. CASE Reply(w) \/ AbortBeforeSend(w)
  <2>1. \E outcome : Exit(w, outcome)
    BY <1>14 DEF Reply, AbortBeforeSend
  <2> QED
    BY <2>1, ExitsHandler, ExitEffect DEF Goal
<1> QED
  BY <1>3, <1>4, <1>5, <1>6, <1>7, <1>8, <1>9, <1>10, <1>11, <1>12, <1>13, <1>14 DEF Work

LEMMA FaultInHandler ==
    ASSUME IInv, NEW w \in Workers, InHandler(w), Fault(w)
    PROVE  InHandler(w)' /\ Others(w)
<1>1. CASE QueryFails(w)
  <2>1. Runs(req[w].op, pc[w]) /\ FailedSteps(w)
    BY <1>1, FailedStepsHold DEF InHandler
  <2>2. ASSUME NEW label, NEW W \in SUBSET {"todo", "mid", "adm", "lone", "cand"},
               Move(w, label, W), pc[w] # "idle", Runs(req[w].op, label)
        PROVE  InHandler(w)' /\ Others(w)
    BY <2>2, StaysInHandler DEF Move
  <2>3. CASE pc[w] \in {"insert_message", "update_last"} /\ Move(w, AfterLabel(w), {})
    BY <2>2, <2>3, AfterLabelRuns
  <2>4. CASE pc[w] \notin {"insert_message", "update_last"}
    <3>1. \E label, W : /\ W \in SUBSET {"todo", "mid", "adm", "lone", "cand"}
                        /\ Move(w, label, W) /\ pc[w] # "idle" /\ Runs(req[w].op, label)
      BY <2>1, <2>4 DEF FailedSteps, Runs
    <3> QED
      BY <2>2, <3>1
  <2> QED
    BY <2>1, <2>3, <2>4 DEF FailedSteps
<1>2. CASE ChildDies(w)
  BY <1>2, ExitsHandler, ExitEffect DEF ChildDies
<1> QED
  BY <1>1, <1>2 DEF Fault

\* Every child is in the handler of its request.
HandlerInv == \A w \in Workers : InHandler(w)

LEMMA StepInHandler == IInv /\ HandlerInv /\ [Next]_vars => HandlerInv'
<1> USE DEF HandlerInv
<1> SUFFICES ASSUME IInv, HandlerInv, [Next]_vars PROVE \A w \in Workers : InHandler(w)'
  OBVIOUS
<1>1. ASSUME NEW w \in Workers, InHandler(w)', Others(w) PROVE \A v \in Workers : InHandler(v)'
  BY <1>1 DEF InHandler, Others
<1>2. ASSUME NEW w \in Workers, Connect(w) \/ Work(w) \/ Fault(w)
      PROVE  \A v \in Workers : InHandler(v)'
  BY <1>1, <1>2, ConnectInHandler, WorkInHandler, FaultInHandler
<1>3. CASE UNCHANGED vars
  BY <1>3 DEF vars, InHandler
<1> QED
  BY <1>2, <1>3 DEF Next, Done

\* A child only runs statements of the handler of its request, in the chat the
\* request names, whatever the other children do and whatever fails.
THEOREM HandlersKept == Spec => []HandlerInv
<1>1. Init => HandlerInv
  BY DEF Init, HandlerInv, InHandler, Runs, NoRequest
<1> QED
  BY <1>1, StepInHandler, Invariance, PTL DEF Spec

-----------------------------------------------------------------------------
(* Requests that do not overlap, with any statement failing and the child   *)
(* dying anywhere: what a handler has read of the tables still holds.       *)

\* Requests do not overlap: there is at most one child.
OneChild == \A v, w \in Workers : v = w

\* What child w has read of the tables still holds, when no other child runs:
\* a REMOVE_FROM_CHAT that goes on is of an admin, and an EXIT_CHAT that counted
\* one participant leaves at most one behind.
ReadsHold(w) ==
    /\ /\ req[w].op = "REMOVE_FROM_CHAT"
       /\ pc[w] \in {"is_group_chat", "remove_from_chat", "insert_message", "update_last"}
       => req[w].by \in admins[loc[w].cid]
    /\ req[w].op = "EXIT_CHAT" /\ loc[w].lone => Cardinality(members[loc[w].cid]) <= 1
    /\ pc[w] = "delete_chat" => loc[w].lone

\* Inductive, with HandlerInv, when requests do not overlap.
ReadsInv == \A w \in Workers : ReadsHold(w)

\* A step of child w that leaves participants and admins alone keeps what the
\* child knows.
LEMMA ReadsKept ==
    ASSUME NEW w \in Workers, InHandler(w), ReadsHold(w), NEW label, NEW W, Move(w, label, W),
           pc[w] # "idle", "cid" \notin W \/ req[w].op = "CREATE_CHAT",
           "lone" \notin W, UNCHANGED <<members, admins>>,
           label = "delete_chat" => loc[w].lone,
           /\ req[w].op = "REMOVE_FROM_CHAT"
           /\ label \in {"is_group_chat", "remove_from_chat", "insert_message", "update_last"}
           => \/ pc[w] \in {"is_group_chat", "remove_from_chat", "insert_message", "update_last"}
              \/ req[w].by \in admins[loc[w].cid]
    PROVE  ReadsHold(w)'
<1>1. /\ pc'[w] = label /\ req'[w] = req[w] /\ loc'[w].lone = loc[w].lone
      /\ req[w].op # "CREATE_CHAT" => loc'[w].cid = loc[w].cid
  BY DEF Move, Fields
<1>2. /\ req[w].op = "REMOVE_FROM_CHAT"
      /\ label \in {"is_group_chat", "remove_from_chat", "insert_message", "update_last"}
      => req[w].by \in admins[loc[w].cid]
  BY DEF ReadsHold
<1> QED
  BY <1>1, <1>2 DEF ReadsHold

LEMMA ReadsAfterMessage ==
    ASSUME NEW w \in Workers, InHandler(w), ReadsHold(w), Move(w, AfterLabel(w), {}),
           pc[w] \in {"insert_message", "update_last"}, UNCHANGED <<members, admins>>
    PROVE  ReadsHold(w)'
<1>1. AfterLabel(w) = "delete_chat" => loc[w].lone
  BY DEF AfterLabel
<1> HIDE DEF AfterLabel
<1> QED
  BY <1>1, ReadsKept

\* Deleting the row of somebody: nobody else stops being an admin, and the
\* number of participants does not grow.
LEMMA ReadsAfterDelete ==
    ASSUME IInv, NEW w \in Workers, InHandler(w), ReadsHold(w), NEW W, NEW u,
           Move(w, "insert_message", W), "cid" \notin W, "lone" \notin W,
           pc[w] = "remove_from_chat",
           members' = [members EXCEPT ![loc[w].cid] = @ \ {u}],
           admins' = [admins EXCEPT ![loc[w].cid] = @ \ {u}],
           req[w].op = "REMOVE_FROM_CHAT" => u # req[w].by
    PROVE  ReadsHold(w)'
<1> DEFINE c == loc[w].cid
<1>1. /\ pc'[w] = "insert_message" /\ req'[w] = req[w] /\ loc'[w].lone = loc[w].lone
      /\ loc'[w].cid = c
  BY DEF Move, Fields
<1>2. c \in ChatIds
  BY DEF IInv, ChildInv, ChatLabels, Labels
<1>3. admins'[c] = admins[c] \ {u} /\ members'[c] = members[c] \ {u}
  BY <1>2 DEF IInv, TypeOK
<1>4. req[w].op = "REMOVE_FROM_CHAT" => req[w].by \in admins'[c]
  BY <1>3 DEF ReadsHold
<1>5. Cardinality(members[c]) <= 1 => Cardinality(members'[c]) <= 1
  <2>1. IsFiniteSet(members[c])
    BY <1>2, UsersAssumption, FS_Subset DEF IInv, TypeOK
  <2>2. /\ Cardinality(members[c]) \in Nat
        /\ Cardinality(members[c] \ {u}) \in {Cardinality(members[c]), Cardinality(members[c]) - 1}
    BY <2>1, FS_CardinalityType, FS_RemoveElement
  <2> HIDE DEF c
  <2>3. Cardinality(members'[c]) = Cardinality(members[c] \ {u})
    BY <1>3
  <2> QED
    BY <2>2, <2>3
<1>6. req[w].op = "EXIT_CHAT" /\ loc[w].lone => Cardinality(members'[c]) <= 1
  BY <1>5 DEF ReadsHold
<1> HIDE DEF c
<1> QED
  BY <1>1, <1>4, <1>6 DEF ReadsHold

LEMMA WorkReads ==
    ASSUME IInv, NEW w \in Workers, InHandler(w), ReadsHold(w), Work(w)
    PROVE  ReadsHold(w)'
<1> DEFINE Goal == ReadsHold(w)'
<1>1. Runs(req[w].op, pc[w]) /\ Steps(w)
  BY StepsHold DEF InHandler
<1>2. ASSUME NEW label, NEW W \in SUBSET {"todo", "mid", "adm", "cand", "rows"},
             Move(w, label, W), UNCHANGED <<members, admins>>, pc[w] # "idle",
             label # "delete_chat",
             label \notin {"is_group_chat", "remove_from_chat", "insert_message", "update_last"}
             \/ pc[w] \in {"is_group_chat", "remove_from_chat", "insert_message", "update_last"}
             \/ req[w].op # "REMOVE_FROM_CHAT"
             \/ req[w].by \in admins[loc[w].cid]
      PROVE  Goal
  BY <1>2, ReadsKept
<1> SUFFICES Goal
  OBVIOUS
<1>3. CASE CreateChat(w)
  <2>1. /\ pc[w] = "create_chat" /\ Move(w, "insert_message", {"cid"})
        /\ UNCHANGED <<members, admins>>
    BY <1>1, <1>3 DEF Steps, CreateChat
  <2>2. req[w].op = "CREATE_CHAT"
    BY <1>1, <2>1 DEF Runs
  <2> QED
    BY <2>1, <2>2, ReadsKept
<1>4. CASE CreateChatFails(w) \/ LoopEnd(w) \/ DeleteChatFails(w)
  <2>1. pc[w] # "idle" /\ Move(w, "reply", {}) /\ UNCHANGED <<members, admins>>
    BY <1>1, <1>4 DEF Steps, CreateChatFails, LoopEnd, DeleteChatFails, tables
  <2> HIDE DEF Goal
  <2> QED
    BY <1>2, <2>1
<1>5. CASE AddToChat(w) \/ AddToChatFails(w)
  <2>1. /\ pc[w] = "add_to_chat"
        /\ Move(w, "insert_message", {"todo"}) \/ Move(w, "add_to_chat", {"todo"})
    BY <1>1, <1>5 DEF Steps, AddToChat, AddToChatFails
  <2>2. req[w].op \in {"CREATE_CHAT", "ADD_TO_GROUP_CHAT"}
    BY <1>1, <2>1 DEF Runs
  <2> QED
    BY <2>1, <2>2 DEF ReadsHold, Move
<1>6. CASE InsertMessage(w)
  <2>1. /\ pc[w] = "insert_message" /\ Move(w, "update_last", {"mid"})
        /\ UNCHANGED <<members, admins>>
    BY <1>1, <1>6 DEF Steps, InsertMessage
  <2> HIDE DEF Goal
  <2> QED
    BY <1>2, <2>1
<1>7. CASE InsertMessageFails(w) \/ UpdateLast(w)
  <2>1. /\ pc[w] \in {"insert_message", "update_last"} /\ Move(w, AfterLabel(w), {})
        /\ UNCHANGED <<members, admins>>
    BY <1>1, <1>7 DEF Steps, InsertMessageFails, UpdateLast, tables
  <2> QED
    BY <2>1, ReadsAfterMessage
<1>8. CASE RemoveFromChat(w)
  <2> DEFINE u == Head(loc[w].todo)
  <2>1. pc[w] = "remove_from_chat" /\ req[w].op = "REMOVE_FROM_CHAT"
    BY <1>8 DEF RemoveFromChat
  <2>2. CASE Skips(w, u)
    <3>1. Move(w, "remove_from_chat", {"todo"}) /\ UNCHANGED <<members, admins>>
      BY <1>1, <1>8, <2>2 DEF Steps, RemoveFromChat, tables
    <3> HIDE DEF Goal
    <3> QED
      BY <1>2, <2>1, <3>1
  <2>3. CASE ~Skips(w, u)
    <3>1. /\ Move(w, "insert_message", {"todo"})
          /\ members' = [members EXCEPT ![loc[w].cid] = @ \ {u}]
          /\ admins' = [admins EXCEPT ![loc[w].cid] = @ \ {u}]
      BY <1>1, <1>8, <2>3 DEF Steps, RemoveFromChat, DeleteParticipant
    <3>2. u # req[w].by
      BY <2>3 DEF Skips
    <3> QED
      BY <2>1, <3>1, <3>2, ReadsAfterDelete
  <2> QED
    BY <2>2, <2>3
<1>9. CASE LeaveChat(w)
  <2>1. /\ pc[w] = "remove_from_chat" /\ req[w].op = "EXIT_CHAT"
        /\ Move(w, "insert_message", {})
        /\ members' = [members EXCEPT ![loc[w].cid] = @ \ {req[w].by}]
        /\ admins' = [admins EXCEPT ![loc[w].cid] = @ \ {req[w].by}]
    BY <1>1, <1>9 DEF Steps, LeaveChat, DeleteParticipant
  <2> QED
    BY <2>1, ReadsAfterDelete
<1>10. CASE DeleteChat(w)
  <2>1. /\ pc[w] = "delete_chat" /\ Move(w, "reply", {})
        /\ members' = [members EXCEPT ![loc[w].cid] = {}]
    BY <1>1, <1>10 DEF Steps, DeleteChat
  <2>2. loc[w].cid \in ChatIds
    BY <2>1 DEF IInv, ChildInv, ChatLabels, Labels
  <2>3. loc'[w].cid = loc[w].cid /\ members'[loc[w].cid] = {}
    BY <2>1, <2>2 DEF Move, Fields, IInv, TypeOK
  <2>4. Cardinality(members'[loc'[w].cid]) <= 1
    BY <2>3, FS_EmptySet
  <2> QED
    BY <2>1, <2>4 DEF ReadsHold, Move
<1>11. CASE PromoteSelect(w) \/ GetAdminCount(w)
  <2>1. /\ pc[w] \in {"promote_select", "get_admin_count"}
        /\ UNCHANGED <<members, admins>>
        /\ \/ Move(w, "promote_update", {"cand"})
           \/ \E label \in {"reply", "delete_json", "promote_select"} : Move(w, label, {})
    BY <1>1, <1>11 DEF Steps, PromoteSelect, GetAdminCount, tables
  <2> HIDE DEF Goal
  <2> QED
    BY <1>2, <2>1
<1>12. CASE PromoteUpdate(w)
  <2>1. /\ pc[w] = "promote_update" /\ Move(w, "delete_json", {})
        /\ UNCHANGED members
    BY <1>1, <1>12 DEF Steps, PromoteUpdate
  <2>2. loc'[w].cid = loc[w].cid /\ loc'[w].lone = loc[w].lone
    BY <2>1 DEF Move, Fields
  <2> QED
    BY <2>1, <2>2 DEF ReadsHold, Move
<1>13. CASE IsUserAdmin(w)
  <2>1. /\ pc[w] = "is_user_admin" /\ UNCHANGED <<members, admins>>
        /\ \/ req[w].op = "EXIT_CHAT" /\ Move(w, "get_participant_count", {"adm"})
           \/ Move(w, "is_group_chat", {"adm"}) /\ req[w].by \in admins[loc[w].cid]
           \/ Move(w, "reply", {})
    BY <1>1, <1>13 DEF Steps, IsUserAdmin, tables
  <2> HIDE DEF Goal
  <2> QED
    BY <1>2, <2>1
<1>14. CASE IsGroupChat(w) \/ GetChatInfo(w)
  <2>1. /\ pc[w] = "is_group_chat" \/ pc[w] = "get_chat_info"
        /\ UNCHANGED <<members, admins>>
        /\ \/ pc[w] = "is_group_chat" /\ Move(w, "remove_from_chat", {})
           \/ Move(w, "get_participants", {}) \/ Move(w, "reply", {})
    BY <1>1, <1>14 DEF Steps, IsGroupChat, GetChatInfo, tables
  <2> HIDE DEF Goal
  <2> QED
    BY <1>2, <2>1
<1>15. CASE GetParticipantCount(w)
  <2>1. /\ pc[w] = "get_participant_count" /\ UNCHANGED <<members, admins>>
        /\ Move(w, "remove_from_chat", {"lone"})
        /\ loc'[w].lone = (Cardinality(members[loc[w].cid]) = 1)
    BY <1>1, <1>15 DEF Steps, GetParticipantCount, tables
  <2>2. req[w].op = "EXIT_CHAT" /\ loc'[w].cid = loc[w].cid
    BY <1>1, <2>1 DEF Runs, Move, Fields
  <2>3. loc'[w].lone => Cardinality(members[loc[w].cid]) = 1
    BY <2>1, Zenon
  <2>4. loc'[w].lone => Cardinality(members'[loc'[w].cid]) <= 1
    BY <2>1, <2>2, <2>3
  <2> QED
    BY <2>1, <2>2, <2>4 DEF ReadsHold, Move
<1>16. CASE GetChats(w) \/ GetChatMessages(w) \/ GetParticipants(w)
  <2>1. Move(w, "reply", {"rows"}) /\ UNCHANGED <<members, admins>> /\ pc[w] # "idle"
    BY <1>16, ReadersInHandler DEF GetChats, GetChatMessages, GetParticipants, tables
  <2> HIDE DEF Goal
  <2> QED
    BY <1>2, <2>1
<1>17. CASE Reply(w) \/ AbortBeforeSend(w)
  <2>1. \E outcome : Exit(w, outcome)
    BY <1>17 DEF Reply, AbortBeforeSend
  <2> QED
    BY <2>1, ExitEffect DEF ReadsHold, NoRequest
<1> HIDE DEF Goal
<1> QED
  BY <1>3, <1>4, <1>5, <1>6, <1>7, <1>8, <1>9, <1>10, <1>11, <1>12, <1>13, <1>14, <1>15,
     <1>16, <1>17 DEF Work

\* Slot w, which was idle, is idle still or has a child that has touched no
\* table and is at the first statement of its handler or has its answer.
Started(w) ==
    /\ pc[w] = "idle" /\ UNCHANGED tables
    /\ \/ UNCHANGED <<pc, req, loc>>
       \/ /\ ~loc'[w].lone
          /\ \/ pc'[w] \in {"reply", "delete_json"}
             \/ /\ pc'[w] = "create_chat" /\ req'[w] \in Asks("CREATE_CHAT", "ok")
                /\ loc'[w].todo = <<req'[w].by>> \o req'[w].ids
             \/ /\ pc'[w] = "is_user_admin"
                /\ req'[w].op \in {"REMOVE_FROM_CHAT", "EXIT_CHAT"}
             \/ /\ pc'[w] \in {"add_to_chat", "insert_message", "get_chats",
                               "get_chat_messages", "get_chat_info"}
                /\ req'[w].op \notin {"CREATE_CHAT", "REMOVE_FROM_CHAT", "EXIT_CHAT"}

LEMMA ConnectStarts ==
    ASSUME IInv, NEW w \in Workers, Connect(w)
    PROVE  Started(w)
<1>1. ASSUME NEW op, NEW form, NEW r \in Asks(op, form), NEW label, NEW code,
             Accept(w, r, label, code)
      PROVE  /\ pc[w] = "idle" /\ UNCHANGED tables
             /\ pc'[w] = label /\ req'[w] = r /\ r.op = op /\ ~loc'[w].lone
             /\ op = "CREATE_CHAT" => loc'[w].todo = <<r.by>> \o r.ids
  BY <1>1 DEF Accept, Asks, IInv, TypeOK, NoLocals
<1>2. ASSUME NEW op, NEW form, NEW r \in Asks(op, form), NEW label, NEW code,
             Accept(w, r, label, code),
             \/ label \in {"reply", "delete_json"}
             \/ label = "is_user_admin" /\ op \in {"REMOVE_FROM_CHAT", "EXIT_CHAT"}
             \/ /\ label \in {"add_to_chat", "insert_message", "get_chats",
                              "get_chat_messages", "get_chat_info"}
                /\ op \notin {"CREATE_CHAT", "REMOVE_FROM_CHAT", "EXIT_CHAT"}
      PROVE  Started(w)
  <2>1. /\ pc[w] = "idle" /\ UNCHANGED tables
        /\ pc'[w] = label /\ req'[w].op = op /\ ~loc'[w].lone
    BY <1>1, <1>2
  <2> QED
    BY <1>2, <2>1 DEF Started
<1>3. ASSUME NEW r \in Asks("CREATE_CHAT", "ok"), NEW code, Accept(w, r, "create_chat", code)
      PROVE  Started(w)
  <2>1. /\ pc[w] = "idle" /\ UNCHANGED tables
        /\ pc'[w] = "create_chat" /\ req'[w] = r /\ ~loc'[w].lone
        /\ loc'[w].todo = <<r.by>> \o r.ids
    BY <1>1, <1>3
  <2> QED
    BY <1>3, <2>1 DEF Started
<1>4. CASE AcceptJunk(w) \/ OverrunParticipants(w)
  BY <1>4 DEF AcceptJunk, OverrunParticipants, Started
<1>5. CASE AcceptUnknown(w) \/ AcceptSendMessage(w) \/ AcceptAddToGroupChat(w)
  BY <1>2, <1>5 DEF AcceptUnknown, AcceptSendMessage, AcceptAddToGroupChat
<1>6. CASE AcceptCreateChat(w)
  BY <1>2, <1>3, <1>6 DEF AcceptCreateChat
<1>7. CASE AcceptGet(w)
  BY <1>2, <1>7 DEF AcceptGet
<1>8. CASE AcceptRemoveFromChat(w) \/ AcceptExitChat(w)
  BY <1>2, <1>8 DEF AcceptRemoveFromChat, AcceptExitChat
<1> QED
  BY <1>4, <1>5, <1>6, <1>7, <1>8 DEF Connect

LEMMA ConnectReads ==
    ASSUME IInv, NEW w \in Workers, ReadsHold(w), Connect(w)
    PROVE  ReadsHold(w)'
<1>1. Started(w)
  BY ConnectStarts
<1> QED
  BY <1>1 DEF Started, ReadsHold, tables

LEMMA FaultReads ==
    ASSUME IInv, NEW w \in Workers, InHandler(w), ReadsHold(w), Fault(w)
    PROVE  ReadsHold(w)'
<1>1. CASE QueryFails(w)
  <2>1. /\ Runs(req[w].op, pc[w]) /\ FailedSteps(w)
        /\ UNCHANGED <<members, admins>>
    BY <1>1, FailedStepsHold DEF InHandler, tables
  <2>2. ASSUME NEW label, NEW W \in SUBSET {"todo", "adm"}, Move(w, label, W),
               pc[w] # "idle", label # "delete_chat",
               label \notin {"is_group_chat", "remove_from_chat", "insert_message", "update_last"}
               \/ pc[w] \in {"is_group_chat", "remove_from_chat", "insert_message", "update_last"}
               \/ req[w].op # "REMOVE_FROM_CHAT"
        PROVE  ReadsHold(w)'
    BY <2>1, <2>2, ReadsKept
  <2>3. CASE pc[w] \in {"insert_message", "update_last"} /\ Move(w, AfterLabel(w), {})
    BY <2>1, <2>3, ReadsAfterMessage
  <2>4. CASE pc[w] \notin {"insert_message", "update_last"}
    <3>1. \E label, W :
             /\ W \in SUBSET {"todo", "adm"} /\ Move(w, label, W)
             /\ pc[w] # "idle" /\ label # "delete_chat"
             /\ label \notin {"is_group_chat", "remove_from_chat", "insert_message", "update_last"}
                \/ pc[w] \in {"is_group_chat", "remove_from_chat", "insert_message", "update_last"}
                \/ req[w].op # "REMOVE_FROM_CHAT"
      BY <2>1, <2>4 DEF FailedSteps, Runs
    <3> QED
      BY <2>2, <3>1
  <2> QED
    BY <2>1, <2>3, <2>4 DEF FailedSteps
<1>2. CASE ChildDies(w)
  BY <1>2, ExitEffect DEF ChildDies, ReadsHold, NoRequest
<1> QED
  BY <1>1, <1>2 DEF Fault

LEMMA StepReads ==
    ASSUME OneChild
    PROVE  IInv /\ HandlerInv /\ ReadsInv /\ [Next]_vars => ReadsInv'
<1> SUFFICES ASSUME IInv, HandlerInv, ReadsInv, [Next]_vars PROVE ReadsInv'
  OBVIOUS
<1>1. ASSUME NEW w \in Workers, Connect(w) \/ Work(w) \/ Fault(w) PROVE ReadsInv'
  <2>1. InHandler(w) /\ ReadsHold(w)
    BY DEF HandlerInv, ReadsInv
  <2>2. ReadsHold(w)'
    BY <1>1, <2>1, ConnectReads, WorkReads, FaultReads
  <2>3. \A v \in Workers : v = w
    BY DEF OneChild
  <2> QED
    BY <2>2, <2>3 DEF ReadsInv
<1>2. CASE UNCHANGED vars
  BY <1>2 DEF vars, tables, ReadsInv, ReadsHold
<1> QED
  BY <1>1, <1>2 DEF Next, Done

\* With requests that do not overlap, what is_user_admin and
\* get_participant_count told a handler is still so when the handler acts on it,
\* whatever statements fail and whenever the child dies.
THEOREM ReadsKeptSequentially ==
    ASSUME OneChild
    PROVE  Spec => []ReadsInv
<1>1. Init => ReadsInv
  BY DEF Init, ReadsInv, ReadsHold, NoRequest
<1>2. IInv /\ HandlerInv /\ ReadsInv /\ [Next]_vars => ReadsInv'
  BY StepReads
<1> QED
  BY <1>1, <1>2, Invariance, HandlersKept, PTL DEF Spec

\* With requests that do not overlap, whatever statements fail and whenever the
\* child dies, a participant is only removed on behalf of an admin.
THEOREM OnlyAdminsRemove ==
    ASSUME OneChild
    PROVE  Spec => RemovalByAdmin
<1>1. ASSUME HandlerInv, ReadsInv
      PROVE  [\A w \in Workers :
                (/\ pc[w] = "remove_from_chat" /\ pc'[w] = "insert_message"
                 /\ req[w].op = "REMOVE_FROM_CHAT" /\ members' # members)
                  => req[w].by \in admins[req[w].chat]]_vars
  BY <1>1 DEF HandlerInv, InHandler, ReadsInv, ReadsHold
<1> QED
  BY <1>1, HandlersKept, ReadsKeptSequentially, PTL DEF Spec, RemovalByAdmin

\* A chat loses its row only by the DELETE of a child that acts on it.
LEMMA OnlyDeleteChatDeletes ==
    ASSUME IInv, [Next]_vars, NEW c \in ChatIds, chat[c] # "none", chat'[c] = "none"
    PROVE  \E w \in Workers : DeleteChat(w) /\ loc[w].cid = c
<1>1. chat' # chat
  OBVIOUS
<1>2. ASSUME NEW w \in Workers, Connect(w) \/ Fault(w) PROVE FALSE
  <2>1. UNCHANGED tables
    BY <1>2, ConnectMoves DEF Fault, QueryFails, ChildDies, Exit
  <2> QED
    BY <1>1, <2>1 DEF tables
<1>3. ASSUME NEW w \in Workers, Work(w) PROVE DeleteChat(w) /\ loc[w].cid = c
  <2>1. CASE CreateChat(w)
    BY <2>1 DEF CreateChat, IInv, TypeOK
  <2>2. CASE DeleteChat(w)
    BY <2>2 DEF DeleteChat, IInv, TypeOK
  <2>3. CASE \/ AddToChat(w) \/ InsertMessage(w) \/ UpdateLast(w) \/ RemoveFromChat(w)
             \/ LeaveChat(w) \/ PromoteUpdate(w) \/ Reply(w) \/ AbortBeforeSend(w)
    <3>1. chat' = chat
      BY <2>3 DEF AddToChat, InsertMessage, UpdateLast, RemoveFromChat, LeaveChat,
                  DeleteParticipant, PromoteUpdate, Reply, AbortBeforeSend, Exit, tables
    <3> QED
      BY <1>1, <3>1
  <2>4. CASE \/ CreateChatFails(w) \/ AddToChatFails(w) \/ InsertMessageFails(w) \/ LoopEnd(w)
             \/ DeleteChatFails(w) \/ PromoteSelect(w) \/ IsUserAdmin(w) \/ IsGroupChat(w)
             \/ GetParticipantCount(w) \/ GetAdminCount(w) \/ GetChats(w)
             \/ GetChatMessages(w) \/ GetChatInfo(w) \/ GetParticipants(w)
    <3>1. UNCHANGED tables
      BY <2>4
      DEF CreateChatFails, AddToChatFails, InsertMessageFails, LoopEnd, DeleteChatFails,
          PromoteSelect, IsUserAdmin, IsGroupChat, GetParticipantCount, GetAdminCount,
          GetChats, GetChatMessages, GetChatInfo, GetParticipants
    <3> QED
      BY <1>1, <3>1 DEF tables
  <2> QED
    BY <1>3, <2>1, <2>2, <2>3, <2>4 DEF Work
<1>4. CASE UNCHANGED vars
  BY <1>1, <1>4 DEF vars, tables
<1> QED
  BY <1>2, <1>3, <1>4 DEF Next, Done

\* With requests that do not overlap, EXIT_CHAT deletes no chat with more than
\* one participant left in it.
THEOREM DeletesAtMostOneParticipant ==
    ASSUME OneChild
    PROVE  Spec => DeletedWhenOneLeft
<1>1. ASSUME IInv, HandlerInv, ReadsInv, [Next]_vars
      PROVE  [\A c \in ChatIds :
                chat[c] # "none" /\ chat'[c] = "none" => Cardinality(members[c]) <= 1]_vars
  <2> SUFFICES ASSUME NEW c \in ChatIds, chat[c] # "none", chat'[c] = "none"
               PROVE  Cardinality(members[c]) <= 1
    OBVIOUS
  <2>1. PICK w \in Workers : DeleteChat(w) /\ loc[w].cid = c
    BY <1>1, OnlyDeleteChatDeletes
  <2>2. pc[w] = "delete_chat" /\ ReadsHold(w) /\ Runs(req[w].op, pc[w])
    BY <1>1, <2>1 DEF DeleteChat, ReadsInv, HandlerInv, InHandler
  <2>3. req[w].op = "EXIT_CHAT"
    BY <2>2 DEF Runs
  <2> QED
    BY <2>1, <2>2, <2>3 DEF ReadsHold
<1> QED
  BY <1>1, Invariance, HandlersKept, ReadsKeptSequentially, PTL DEF Spec, DeletedWhenOneLeft

-----------------------------------------------------------------------------
(* The newest message, without faults. *)

\* The newest message of a chat is its last_message_id, or the message that a
\* child has inserted and not shown yet.
ShownOrPending ==
    /\ \A w \in Workers : pc[w] = "update_last" =>
          /\ nextMsg = loc[w].mid + 1
          /\ owner[loc[w].mid] = loc[w].cid
    /\ \A m \in MessageIds : owner[m] # 0 =>
          \/ m <= last[owner[m]]
          \/ \E w \in Workers : pc[w] = "update_last" /\ loc[w].mid = m

\* A step that touches neither messages nor last_message_id.
LEMMA ShownKept ==
    ASSUME OneChild, NEW w \in Workers, ShownOrPending, UNCHANGED <<last, owner, nextMsg>>,
           pc[w] # "update_last", pc'[w] # "update_last"
    PROVE  ShownOrPending'
<1>1. \A v \in Workers : v = w
  BY DEF OneChild
<1>2. \A v \in Workers : pc[v] # "update_last" /\ pc'[v] # "update_last"
  BY <1>1
<1> QED
  BY <1>2 DEF ShownOrPending

LEMMA InsertMessageShown ==
    ASSUME OneChild, IInv, NEW w \in Workers, ShownOrPending, InsertMessage(w)
    PROVE  ShownOrPending'
<1>1. \A v \in Workers : v = w
  BY DEF OneChild
<1>2. /\ pc[w] = "insert_message" /\ nextMsg \in MessageIds
      /\ owner' = [owner EXCEPT ![nextMsg] = loc[w].cid] /\ nextMsg' = nextMsg + 1
      /\ last' = last
  BY DEF InsertMessage, CanInsert
<1>3. pc'[w] = "update_last" /\ loc'[w].mid = nextMsg /\ loc'[w].cid = loc[w].cid
  BY StepsHold DEF Steps, Move, Fields
<1>4. owner'[nextMsg] = loc[w].cid /\ \A m \in MessageIds \ {nextMsg} : owner'[m] = owner[m]
  BY <1>2 DEF IInv, TypeOK
<1>5. \A m \in MessageIds : owner[m] # 0 => m <= last[owner[m]]
  BY <1>1, <1>2 DEF ShownOrPending
<1> QED
  BY <1>1, <1>2, <1>3, <1>4, <1>5 DEF ShownOrPending

LEMMA UpdateLastShown ==
    ASSUME OneChild, IInv, NEW w \in Workers, ShownOrPending, UpdateLast(w)
    PROVE  ShownOrPending'
<1> DEFINE c == loc[w].cid
           mid == loc[w].mid
<1>1. \A v \in Workers : v = w
  BY DEF OneChild
<1>2. /\ pc[w] = "update_last" /\ UNCHANGED <<owner, nextMsg>>
      /\ last' = (IF chat[c] = "none" THEN last ELSE [last EXCEPT ![c] = mid])
  BY DEF UpdateLast
<1>3. pc'[w] # "update_last"
  BY StepsHold DEF Steps, Move, AfterLabel
<1>4. mid \in MessageIds /\ c \in ChatIds /\ nextMsg = mid + 1 /\ owner[mid] = c
  BY <1>2 DEF IInv, ChildInv, Stored, ShownOrPending
<1>5. chat[c] # "none"
  BY <1>4 DEF IInv, NoOrphans
<1>6. last'[c] = mid /\ \A d \in ChatIds \ {c} : last'[d] = last[d]
  BY <1>2, <1>4, <1>5 DEF IInv, TypeOK
<1>7. \A m \in MessageIds : owner[m] # 0 => m <= last'[owner[m]]
  <2> SUFFICES ASSUME NEW m \in MessageIds, owner[m] # 0 PROVE m <= last'[owner[m]]
    OBVIOUS
  <2>1. owner[m] \in ChatIds /\ m < nextMsg
    BY DEF IInv, TypeOK, Allocated
  <2>2. CASE owner[m] = c
    BY <1>4, <1>6, <2>1, <2>2 DEF MessageIds
  <2>3. CASE owner[m] # c
    <3>1. m # mid
      BY <1>4, <2>3
    <3>2. m <= last[owner[m]]
      BY <1>1, <3>1 DEF ShownOrPending
    <3> QED
      BY <1>6, <2>1, <2>3, <3>2
  <2> QED
    BY <2>2, <2>3
<1> QED
  BY <1>1, <1>2, <1>3, <1>7 DEF ShownOrPending

LEMMA DeleteChatShown ==
    ASSUME OneChild, IInv, NEW w \in Workers, ShownOrPending, DeleteChat(w)
    PROVE  ShownOrPending'
<1> DEFINE c == loc[w].cid
<1>1. \A v \in Workers : v = w
  BY DEF OneChild
<1>2. /\ pc[w] = "delete_chat"
      /\ last' = [last EXCEPT ![c] = 0]
      /\ owner' = [m \in MessageIds |-> IF owner[m] = c THEN 0 ELSE owner[m]]
  BY DEF DeleteChat
<1>3. pc'[w] # "update_last"
  BY StepsHold DEF Steps, Move
<1>4. \A m \in MessageIds : owner'[m] # 0 => owner'[m] = owner[m] /\ owner[m] # c
  BY <1>2
<1>5. \A d \in ChatIds \ {c} : last'[d] = last[d]
  BY <1>2 DEF IInv, TypeOK
<1>6. \A m \in MessageIds : owner[m] # 0 => m <= last[owner[m]] /\ owner[m] \in ChatIds
  BY <1>1, <1>2 DEF ShownOrPending, IInv, TypeOK
<1>7. \A m \in MessageIds : owner'[m] # 0 => m <= last'[owner'[m]]
  BY <1>4, <1>5, <1>6
<1> QED
  BY <1>1, <1>3, <1>7 DEF ShownOrPending

LEMMA WorkShown ==
    ASSUME OneChild, IInv, HandlerInv, NEW w \in Workers, ShownOrPending, Work(w)
    PROVE  ShownOrPending'
<1>1. Steps(w) /\ InHandler(w)
  BY StepsHold DEF HandlerInv
<1>2. CASE InsertMessage(w) \/ UpdateLast(w) \/ DeleteChat(w)
  BY <1>2, InsertMessageShown, UpdateLastShown, DeleteChatShown
<1>3. CASE CreateChat(w) \/ AddToChat(w) \/ LeaveChat(w) \/ PromoteUpdate(w)
  <2>1. UNCHANGED <<last, owner, nextMsg>> /\ pc[w] # "update_last"
    BY <1>3 DEF CreateChat, AddToChat, LeaveChat, DeleteParticipant, PromoteUpdate
  <2>2. pc'[w] # "update_last"
    BY <1>1, <1>3 DEF Steps, Move
  <2> QED
    BY <2>1, <2>2, ShownKept
<1>4. CASE RemoveFromChat(w)
  <2>1. UNCHANGED <<last, owner, nextMsg>> /\ pc[w] # "update_last"
    BY <1>4 DEF RemoveFromChat, DeleteParticipant, tables
  <2>2. pc'[w] # "update_last"
    BY <1>1, <1>4 DEF Steps, Move
  <2> QED
    BY <2>1, <2>2, ShownKept
<1>5. CASE \/ CreateChatFails(w) \/ AddToChatFails(w) \/ LoopEnd(w) \/ DeleteChatFails(w)
           \/ InsertMessageFails(w)
  <2>1. UNCHANGED <<last, owner, nextMsg>> /\ pc[w] # "update_last"
    BY <1>5 DEF CreateChatFails, AddToChatFails, LoopEnd, DeleteChatFails, InsertMessageFails,
                tables
  <2>2. pc'[w] # "update_last"
    BY <1>1, <1>5 DEF Steps, Move, AfterLabel
  <2> QED
    BY <2>1, <2>2, ShownKept
<1>6. CASE \/ PromoteSelect(w) \/ IsUserAdmin(w) \/ IsGroupChat(w) \/ GetParticipantCount(w)
           \/ GetAdminCount(w) \/ GetChatInfo(w)
  <2>1. UNCHANGED <<last, owner, nextMsg>> /\ pc[w] # "update_last"
    BY <1>6 DEF PromoteSelect, IsUserAdmin, IsGroupChat, GetParticipantCount, GetAdminCount,
                GetChatInfo, tables
  <2>2. pc'[w] # "update_last"
    BY <1>1, <1>6 DEF Steps, Move
  <2> QED
    BY <2>1, <2>2, ShownKept
<1>7. CASE GetChats(w) \/ GetChatMessages(w) \/ GetParticipants(w)
  <2>1. UNCHANGED <<last, owner, nextMsg>> /\ pc[w] # "update_last"
    BY <1>7 DEF GetChats, GetChatMessages, GetParticipants, tables
  <2>2. pc'[w] # "update_last"
    BY <1>1, <1>7, ReadersInHandler DEF Move
  <2> QED
    BY <2>1, <2>2, ShownKept
<1>8. CASE Reply(w) \/ AbortBeforeSend(w)
  <2>1. pc[w] # "update_last" /\ \E outcome : Exit(w, outcome)
    BY <1>8 DEF Reply, AbortBeforeSend
  <2>2. UNCHANGED <<last, owner, nextMsg>> /\ pc'[w] # "update_last"
    BY <2>1, ExitEffect DEF tables
  <2> QED
    BY <2>1, <2>2, ShownKept
<1> QED
  BY <1>2, <1>3, <1>4, <1>5, <1>6, <1>7, <1>8 DEF Work

LEMMA ConnectShown ==
    ASSUME OneChild, IInv, NEW w \in Workers, ShownOrPending, Connect(w)
    PROVE  ShownOrPending'
<1>1. Started(w)
  BY ConnectStarts
<1>2. UNCHANGED <<last, owner, nextMsg>> /\ pc[w] # "update_last" /\ pc'[w] # "update_last"
  BY <1>1 DEF Started, tables
<1> QED
  BY <1>2, ShownKept

\* No statement fails and no child dies.
LEMMA NoFault ==
    ASSUME MaxFaults = 0, IInv, NEW w \in Workers
    PROVE  ~Fault(w)
BY DEF Fault, IInv, TypeOK

\* With requests that do not overlap and no fault, last_message_id of every
\* chat is its newest message whenever no request is being served.
THEOREM LastIsNewest ==
    ASSUME OneChild, MaxFaults = 0
    PROVE  Spec => []LastIsNewestBetweenRequests
<1>1. Init => ShownOrPending
  BY DEF Init, ShownOrPending
<1>2. IInv /\ HandlerInv /\ ShownOrPending /\ [Next]_vars => ShownOrPending'
  <2> SUFFICES ASSUME IInv, HandlerInv, ShownOrPending, [Next]_vars PROVE ShownOrPending'
    OBVIOUS
  <2>1. ASSUME NEW w \in Workers, Connect(w) \/ Work(w) \/ Fault(w) PROVE ShownOrPending'
    BY <2>1, ConnectShown, WorkShown, NoFault
  <2>2. CASE UNCHANGED vars
    BY <2>2 DEF vars, tables, ShownOrPending
  <2> QED
    BY <2>1, <2>2 DEF Next, Done
<1>3. IInv /\ ShownOrPending => LastIsNewestBetweenRequests
  BY DEF ShownOrPending, LastIsNewestBetweenRequests, Quiescent, ChatIds
<1> QED
  BY <1>1, <1>2, <1>3, Invariance, HandlersKept, PTL DEF Spec

-----------------------------------------------------------------------------
(* The one admin of a chat, without faults. *)

\* The statements that write the message about a change of the participants.
Writing == {"insert_message", "update_last"}

\* Child w still has to give its chat an admin, or to delete it.
Due(w) ==
    \/ /\ req[w].op = "CREATE_CHAT" /\ pc[w] \in Writing \cup {"add_to_chat"}
       /\ members[loc[w].cid] = {}
    \/ /\ req[w].op = "EXIT_CHAT" /\ loc[w].lone
       /\ pc[w] \in Writing \cup {"delete_chat"}
    \/ /\ req[w].op = "EXIT_CHAT" /\ loc[w].adm /\ ~loc[w].lone
       /\ pc[w] \in Writing \cup {"get_admin_count", "promote_select", "promote_update"}

\* A chat has its one admin, or the child that will see to it is at work.
Administered(c) ==
    \/ chat[c] = "none"
    \/ \E u : admins[c] = {u}
    \/ \E w \in Workers : Due(w) /\ loc[w].cid = c

\* CREATE_CHAT has the creator first in the list of participants to add, and has
\* added nobody or made the creator the admin.
Creates(w) ==
    /\ pc[w] \in Writing \cup {"add_to_chat", "create_chat"} => req[w].by \in Users
    /\ pc[w] = "create_chat" => loc[w].todo # <<>> /\ Head(loc[w].todo) = req[w].by
    /\ pc[w] \in Writing \cup {"add_to_chat"} =>
          /\ chat[loc[w].cid] # "none"
          /\ \/ /\ members[loc[w].cid] = {}
                /\ loc[w].todo # <<>> /\ Head(loc[w].todo) = req[w].by
             \/ admins[loc[w].cid] = {req[w].by}

\* EXIT_CHAT knows whether an admin leaves and whether anyone stays, and finds
\* the heir it promotes among the participants.
Leaves(w) ==
    /\ pc[w] \in {"get_participant_count", "remove_from_chat"} =>
          (loc[w].adm <=> req[w].by \in admins[loc[w].cid])
    /\ pc[w] = "remove_from_chat" =>
          (loc[w].lone <=> Cardinality(members[loc[w].cid]) = 1)
    /\ pc[w] \in {"get_admin_count", "promote_select", "promote_update"} =>
          loc[w].adm /\ ~loc[w].lone
    /\ Due(w) /\ ~loc[w].lone => members[loc[w].cid] # {} /\ admins[loc[w].cid] = {}
    /\ pc[w] = "promote_update" => loc[w].cand \in members[loc[w].cid]

\* Inductive, with HandlerInv and ReadsInv, without faults or overlaps.
AdminInv ==
    /\ \A c \in ChatIds : Administered(c)
    /\ \A w \in Workers :
          /\ req[w].op = "CREATE_CHAT" => Creates(w)
          /\ req[w].op = "EXIT_CHAT" => Leaves(w)

\* The invariant from its parts, for the one child w.
LEMMA AdminParts ==
    ASSUME OneChild, NEW w \in Workers,
           \A c \in ChatIds : \/ chat'[c] = "none"
                              \/ \E u : admins'[c] = {u}
                              \/ Due(w)' /\ loc'[w].cid = c,
           req'[w].op = "CREATE_CHAT" => Creates(w)',
           req'[w].op = "EXIT_CHAT" => Leaves(w)'
    PROVE  AdminInv'
<1>1. \A v \in Workers : v = w
  BY DEF OneChild
<1>2. \A c \in ChatIds : Administered(c)'
  BY DEF Administered
<1> QED
  BY <1>1, <1>2 DEF AdminInv

\* What the invariant says of a chat, for the one child w.
LEMMA AdminOf ==
    ASSUME OneChild, NEW w \in Workers, AdminInv, NEW c \in ChatIds
    PROVE  chat[c] = "none" \/ (\E u : admins[c] = {u}) \/ (Due(w) /\ loc[w].cid = c)
BY DEF OneChild, AdminInv, Administered

\* A step that changes no chat, participant or admin.
LEMMA AdminKept ==
    ASSUME OneChild, NEW w \in Workers, AdminInv, UNCHANGED <<chat, members, admins>>,
           Due(w) => Due(w)' /\ loc'[w].cid = loc[w].cid,
           req'[w].op = "CREATE_CHAT" => Creates(w)',
           req'[w].op = "EXIT_CHAT" => Leaves(w)'
    PROVE  AdminInv'
<1>1. \A c \in ChatIds : \/ chat'[c] = "none"
                         \/ \E u : admins'[c] = {u}
                         \/ Due(w)' /\ loc'[w].cid = c
  BY AdminOf
<1> QED
  BY <1>1, AdminParts

\* Steps of the operations that neither create nor leave a chat.
LEMMA OtherOpAdmin ==
    ASSUME OneChild, NEW w \in Workers, AdminInv, NEW label, NEW W, Move(w, label, W),
           req[w].op \notin {"CREATE_CHAT", "EXIT_CHAT"}, UNCHANGED <<chat, admins>>
    PROVE  AdminInv'
<1>1. req'[w] = req[w] /\ ~Due(w)
  BY DEF Move, Due
<1>2. \A c \in ChatIds : chat'[c] = "none" \/ \E u : admins'[c] = {u}
  BY <1>1, AdminOf
<1> QED
  BY <1>1, <1>2, AdminParts

LEMMA AdminStutters ==
    ASSUME AdminInv, UNCHANGED <<chat, members, admins, pc, req, loc>>
    PROVE  AdminInv'
<1>1. \A w \in Workers : Due(w)' <=> Due(w)
  BY DEF Due
<1>2. \A c \in ChatIds : Administered(c)'
  BY <1>1 DEF AdminInv, Administered
<1>3. \A w \in Workers : req'[w].op = "CREATE_CHAT" => Creates(w)'
  BY DEF AdminInv, Creates
<1>4. \A w \in Workers : req'[w].op = "EXIT_CHAT" => Leaves(w)'
  BY <1>1 DEF AdminInv, Leaves
<1> QED
  BY <1>2, <1>3, <1>4 DEF AdminInv

LEMMA InsertMessageAdmin ==
    ASSUME OneChild, IInv, NEW w \in Workers, InHandler(w), AdminInv, InsertMessage(w)
    PROVE  AdminInv'
<1>1. pc[w] = "insert_message" /\ UNCHANGED <<chat, members, admins>>
  BY DEF InsertMessage
<1>2. /\ pc'[w] = "update_last" /\ req'[w] = req[w] /\ loc'[w].cid = loc[w].cid
      /\ loc'[w].adm = loc[w].adm /\ loc'[w].lone = loc[w].lone /\ loc'[w].todo = loc[w].todo
  BY StepsHold DEF Steps, Move, Fields
<1>3. Due(w)' <=> Due(w)
  BY <1>1, <1>2 DEF Due, Writing
<1>4. req[w].op = "CREATE_CHAT" => Creates(w)'
  BY <1>1, <1>2 DEF AdminInv, Creates, Writing
<1>5. req[w].op = "EXIT_CHAT" => Leaves(w)'
  BY <1>1, <1>2, <1>3 DEF AdminInv, Leaves
<1> QED
  BY <1>1, <1>2, <1>3, <1>4, <1>5, AdminKept

LEMMA AfterMessageAdmin ==
    ASSUME OneChild, IInv, NEW w \in Workers, InHandler(w), AdminInv,
           InsertMessageFails(w) \/ UpdateLast(w)
    PROVE  AdminInv'
<1>1. pc[w] \in Writing /\ UNCHANGED <<chat, members, admins>>
  BY DEF InsertMessageFails, UpdateLast, tables, Writing
<1>2. /\ pc'[w] = AfterLabel(w) /\ req'[w] = req[w] /\ loc'[w].cid = loc[w].cid
      /\ loc'[w].adm = loc[w].adm /\ loc'[w].lone = loc[w].lone /\ loc'[w].todo = loc[w].todo
  BY StepsHold DEF Steps, Move, Fields
<1>3. CASE req[w].op = "CREATE_CHAT"
  <2>1. pc'[w] = "add_to_chat"
    BY <1>2, <1>3 DEF AfterLabel
  <2>2. Due(w)' <=> Due(w)
    BY <1>1, <1>2, <1>3, <2>1 DEF Due, Writing
  <2>3. Creates(w)'
    BY <1>1, <1>2, <1>3, <2>1 DEF AdminInv, Creates, Writing
  <2> QED
    BY <1>1, <1>2, <1>3, <2>2, <2>3, AdminKept
<1>4. CASE req[w].op = "EXIT_CHAT"
  <2>1. \/ loc[w].lone /\ pc'[w] = "delete_chat"
        \/ ~loc[w].lone /\ loc[w].adm /\ pc'[w] = "get_admin_count"
        \/ ~loc[w].lone /\ ~loc[w].adm /\ pc'[w] = "delete_json"
    BY <1>2, <1>4 DEF AfterLabel
  <2>2. Due(w)' <=> Due(w)
    BY <1>1, <1>2, <1>4, <2>1 DEF Due, Writing
  <2>3. Leaves(w)'
    BY <1>1, <1>2, <1>4, <2>1, <2>2 DEF AdminInv, Leaves
  <2> QED
    BY <1>1, <1>2, <1>4, <2>2, <2>3, AdminKept
<1>5. CASE req[w].op \notin {"CREATE_CHAT", "EXIT_CHAT"}
  BY <1>1, <1>5, StepsHold, OtherOpAdmin DEF Steps
<1> QED
  BY <1>3, <1>4, <1>5

LEMMA CreateChatAdmin ==
    ASSUME OneChild, IInv, NEW w \in Workers, InHandler(w), AdminInv, CreateChat(w)
    PROVE  AdminInv'
<1> DEFINE c == nextChat
<1>1. /\ pc[w] = "create_chat" /\ c \in ChatIds /\ UNCHANGED <<members, admins>>
      /\ chat' = [chat EXCEPT ![c] = IF req[w].group THEN "group" ELSE "direct"]
  BY DEF CreateChat
<1>2. /\ pc'[w] = "insert_message" /\ req'[w] = req[w] /\ loc'[w].cid = c
      /\ loc'[w].todo = loc[w].todo
  BY StepsHold DEF Steps, Move, Fields
<1>3. req[w].op = "CREATE_CHAT"
  BY <1>1 DEF InHandler, Runs
<1>4. chat[c] = "none" /\ members[c] = {}
  BY <1>1 DEF IInv, TypeOK, Allocated, NoOrphans, ChatIds
<1>5. chat'[c] # "none" /\ \A d \in ChatIds \ {c} : chat'[d] = chat[d]
  BY <1>1 DEF IInv, TypeOK
<1>6. Due(w)' /\ ~Due(w)
  BY <1>1, <1>2, <1>3, <1>4 DEF Due, Writing
<1>7. Creates(w)'
  BY <1>1, <1>2, <1>3, <1>4, <1>5 DEF AdminInv, Creates, Writing
<1>8. \A d \in ChatIds : \/ chat'[d] = "none"
                         \/ \E u : admins'[d] = {u}
                         \/ Due(w)' /\ loc'[w].cid = d
  BY <1>1, <1>2, <1>5, <1>6, AdminOf
<1> HIDE DEF c
<1> QED
  BY <1>2, <1>3, <1>7, <1>8, AdminParts

\* The creator's own turn makes the creator the admin; the other turns of
\* CREATE_CHAT and those of ADD_TO_GROUP_CHAT change no admin.
LEMMA AddToChatAdmin ==
    ASSUME OneChild, IInv, NEW w \in Workers, InHandler(w), AdminInv, AddToChat(w)
    PROVE  AdminInv'
<1> DEFINE c == loc[w].cid
           by == req[w].by
<1>1. PICK u \in Slot(w) :
          /\ CanAdd(c, u)
          /\ members' = [members EXCEPT ![c] = @ \cup {u}]
          /\ admins' = IF req[w].op = "CREATE_CHAT" /\ u = req[w].by
                       THEN [admins EXCEPT ![c] = @ \cup {u}]
                       ELSE admins
  BY DEF AddToChat
<1>2. pc[w] = "add_to_chat" /\ loc[w].todo # <<>> /\ chat' = chat /\ c \in ChatIds
  BY DEF AddToChat, IInv, ChildInv, ChatLabels, Labels
<1>3. /\ pc'[w] = "insert_message" /\ req'[w] = req[w] /\ loc'[w].cid = c
      /\ Move(w, "insert_message", {"todo"})
  BY StepsHold DEF Steps, Move, Fields
<1>4. CASE req[w].op # "CREATE_CHAT"
  <2>1. req[w].op = "ADD_TO_GROUP_CHAT" /\ admins' = admins
    BY <1>1, <1>2, <1>4 DEF InHandler, Runs
  <2> QED
    BY <1>2, <1>3, <2>1, OtherOpAdmin
<1>5. CASE req[w].op = "CREATE_CHAT"
  <2>1. Creates(w) /\ by \in Users /\ chat[c] # "none"
    BY <1>2, <1>5 DEF AdminInv, Creates
  <2>2. admins'[c] = {by}
    <3>1. CASE members[c] = {}
      <4>1. Head(loc[w].todo) = by
        BY <1>2, <2>1, <3>1 DEF Creates, IInv, AdminsAreMembers
      <4>2. u = by
        BY <1>1, <2>1, <4>1, UsersAssumption DEF Slot, NotNumber
      <4>3. admins[c] = {}
        BY <1>2, <3>1 DEF IInv, AdminsAreMembers
      <4> QED
        BY <1>1, <1>2, <1>5, <4>2, <4>3 DEF IInv, TypeOK
    <3>2. CASE members[c] # {}
      <4>1. admins[c] = {by}
        BY <1>2, <2>1, <3>2 DEF Creates
      <4>2. by \in members[c]
        BY <1>2, <4>1 DEF IInv, AdminsAreMembers
      <4>3. admins' = admins
        BY <1>1, <4>2 DEF CanAdd
      <4> QED
        BY <4>1, <4>3
    <3> QED
      BY <3>1, <3>2
  <2>3. \A d \in ChatIds \ {c} : admins'[d] = admins[d]
    BY <1>1 DEF IInv, TypeOK
  <2>4. \A d \in ChatIds : chat'[d] = "none" \/ \E v : admins'[d] = {v}
    <3> SUFFICES ASSUME NEW d \in ChatIds
                 PROVE  chat'[d] = "none" \/ \E v : admins'[d] = {v}
      OBVIOUS
    <3>1. CASE d = c
      BY <2>2, <3>1
    <3>2. CASE d # c
      <4>1. chat[d] = "none" \/ (\E v : admins[d] = {v})
        BY <3>2, AdminOf
      <4> QED
        BY <1>2, <2>3, <3>2, <4>1
    <3> QED
      BY <3>1, <3>2
  <2>5. Creates(w)'
    BY <1>2, <1>3, <2>1, <2>2 DEF Creates
  <2> HIDE DEF c, by
  <2> QED
    BY <1>3, <1>5, <2>4, <2>5, AdminParts
<1> QED
  BY <1>4, <1>5

\* The INSERT of the creator's row cannot fail.
LEMMA AddToChatFailsAdmin ==
    ASSUME OneChild, IInv, NEW w \in Workers, InHandler(w), AdminInv, AddToChatFails(w)
    PROVE  AdminInv'
<1> DEFINE c == loc[w].cid
           by == req[w].by
<1>1. /\ pc[w] = "add_to_chat" /\ loc[w].todo # <<>> /\ UNCHANGED <<chat, members, admins>>
      /\ \E u \in Slot(w) : ~CanAdd(c, u)
  BY DEF AddToChatFails, tables
<1>2. /\ pc'[w] = "add_to_chat" /\ req'[w] = req[w] /\ loc'[w].cid = c
      /\ Move(w, "add_to_chat", {"todo"})
  BY StepsHold DEF Steps, Move, Fields
<1>3. CASE req[w].op # "CREATE_CHAT"
  <2>1. req[w].op = "ADD_TO_GROUP_CHAT"
    BY <1>1, <1>3 DEF InHandler, Runs
  <2> QED
    BY <1>1, <1>2, <2>1, OtherOpAdmin
<1>4. CASE req[w].op = "CREATE_CHAT"
  <2>1. Creates(w) /\ by \in Users /\ chat[c] # "none"
    BY <1>1, <1>4 DEF AdminInv, Creates
  <2>2. admins[c] = {by}
    <3> SUFFICES ASSUME members[c] = {}, Head(loc[w].todo) = by PROVE FALSE
      BY <1>1, <2>1 DEF Creates
    <3>1. Slot(w) = {by}
      BY <2>1, UsersAssumption DEF Slot, NotNumber
    <3> QED
      BY <1>1, <2>1, <3>1 DEF CanAdd
  <2>3. c \in ChatIds
    BY <1>1 DEF IInv, ChildInv, ChatLabels, Labels
  <2>4. ~Due(w)
    BY <1>4, <2>2, <2>3 DEF Due, IInv, AdminsAreMembers
  <2>5. Creates(w)'
    BY <1>1, <1>2, <2>1, <2>2 DEF Creates
  <2> HIDE DEF c, by
  <2> QED
    BY <1>1, <1>2, <1>4, <2>4, <2>5, AdminKept
<1> QED
  BY <1>3, <1>4

LEMMA LoopEndAdmin ==
    ASSUME OneChild, IInv, NEW w \in Workers, InHandler(w), AdminInv,
           LoopEnd(w) \/ CreateChatFails(w)
    PROVE  AdminInv'
<1>1. /\ pc[w] \in {"add_to_chat", "remove_from_chat", "create_chat"}
      /\ UNCHANGED <<chat, members, admins>>
      /\ pc[w] = "add_to_chat" => loc[w].todo = <<>>
      /\ pc[w] = "remove_from_chat" => req[w].op = "REMOVE_FROM_CHAT"
  BY DEF LoopEnd, CreateChatFails, tables
<1>2. pc'[w] = "reply" /\ req'[w] = req[w] /\ Move(w, "reply", {})
  BY StepsHold DEF Steps, Move
<1>3. CASE req[w].op # "CREATE_CHAT"
  <2>1. req[w].op # "EXIT_CHAT"
    BY <1>1 DEF InHandler, Runs
  <2> QED
    BY <1>1, <1>2, <1>3, <2>1, OtherOpAdmin
<1>4. CASE req[w].op = "CREATE_CHAT"
  <2>1. ~Due(w)
    <3>1. CASE pc[w] = "add_to_chat"
      <4>1. admins[loc[w].cid] = {req[w].by} /\ loc[w].cid \in ChatIds
        BY <1>1, <1>4, <3>1 DEF AdminInv, Creates, IInv, ChildInv, ChatLabels, Labels
      <4> QED
        BY <1>4, <4>1 DEF Due, IInv, AdminsAreMembers
    <3>2. CASE pc[w] # "add_to_chat"
      BY <1>1, <1>4, <3>2 DEF Due, Writing
    <3> QED
      BY <3>1, <3>2
  <2>2. Creates(w)'
    BY <1>2 DEF Creates, Writing
  <2> QED
    BY <1>1, <1>2, <1>4, <2>1, <2>2, AdminKept
<1> QED
  BY <1>3, <1>4

\* The loop of REMOVE_FROM_CHAT passes over the admin who runs it.
LEMMA RemoveFromChatAdmin ==
    ASSUME OneChild, IInv, NEW w \in Workers, InHandler(w), ReadsHold(w), AdminInv,
           RemoveFromChat(w)
    PROVE  AdminInv'
<1> DEFINE c == loc[w].cid
           u == Head(loc[w].todo)
<1>1. pc[w] = "remove_from_chat" /\ req[w].op = "REMOVE_FROM_CHAT" /\ c \in ChatIds
  BY DEF RemoveFromChat, IInv, ChildInv, ChatLabels, Labels
<1>2. req'[w] = req[w] /\ \E label : Move(w, label, {"todo"})
  BY StepsHold DEF Steps, Move
<1>3. CASE Skips(w, u)
  <2>1. UNCHANGED <<chat, admins>>
    BY <1>3 DEF RemoveFromChat, tables
  <2> QED
    BY <1>1, <1>2, <2>1, OtherOpAdmin
<1>4. CASE ~Skips(w, u)
  <2>1. chat' = chat /\ admins' = [admins EXCEPT ![c] = @ \ {u}] /\ u # req[w].by
    BY <1>4 DEF RemoveFromChat, DeleteParticipant, Skips
  <2>2. ~Due(w)
    BY <1>1 DEF Due
  <2>3. admins'[c] = admins[c] \ {u} /\ \A d \in ChatIds \ {c} : admins'[d] = admins[d]
    BY <1>1, <2>1 DEF IInv, TypeOK
  <2>4. req[w].by \in admins[c]
    BY <1>1 DEF ReadsHold
  <2>5. chat[c] # "none" => admins'[c] = {req[w].by}
    <3>1. chat[c] # "none" => \E v : admins[c] = {v}
      BY <1>1, <2>2, AdminOf
    <3> QED
      BY <2>1, <2>3, <2>4, <3>1
  <2> HIDE DEF c, u
  <2>6. \A d \in ChatIds : chat'[d] = "none" \/ \E v : admins'[d] = {v}
    <3> SUFFICES ASSUME NEW d \in ChatIds
                 PROVE  chat'[d] = "none" \/ \E v : admins'[d] = {v}
      OBVIOUS
    <3>1. chat[d] = "none" \/ \E v : admins[d] = {v}
      BY <2>2, AdminOf
    <3> QED
      BY <2>1, <2>3, <2>5, <3>1
  <2> QED
    BY <1>1, <1>2, <2>6, AdminParts
<1> QED
  BY <1>3, <1>4

\* EXIT_CHAT: after the user has left, the chat has its admin, or the child has
\* one to promote or the chat to delete.
LEMMA LeaveChatAdmin ==
    ASSUME OneChild, IInv, NEW w \in Workers, InHandler(w), AdminInv, LeaveChat(w)
    PROVE  AdminInv'
<1> DEFINE c == loc[w].cid
           by == req[w].by
<1>1. /\ pc[w] = "remove_from_chat" /\ req[w].op = "EXIT_CHAT" /\ c \in ChatIds
      /\ chat' = chat /\ members' = [members EXCEPT ![c] = @ \ {by}]
      /\ admins' = [admins EXCEPT ![c] = @ \ {by}]
  BY DEF LeaveChat, DeleteParticipant, IInv, ChildInv, ChatLabels, Labels
<1>2. /\ pc'[w] = "insert_message" /\ req'[w] = req[w] /\ loc'[w].cid = c
      /\ loc'[w].adm = loc[w].adm /\ loc'[w].lone = loc[w].lone
  BY StepsHold DEF Steps, Move, Fields
<1>3. /\ admins'[c] = admins[c] \ {by} /\ members'[c] = members[c] \ {by}
      /\ \A d \in ChatIds \ {c} : admins'[d] = admins[d]
  BY <1>1 DEF IInv, TypeOK
<1>4. /\ loc[w].adm <=> by \in admins[c]
      /\ loc[w].lone <=> Cardinality(members[c]) = 1
  BY <1>1 DEF AdminInv, Leaves
<1>5. ~Due(w) /\ (Due(w)' <=> loc[w].lone \/ loc[w].adm)
  BY <1>1, <1>2 DEF Due, Writing
<1>6. \A d \in ChatIds : chat[d] = "none" \/ \E v : admins[d] = {v}
  BY <1>5, AdminOf
<1>7. ~loc[w].lone /\ loc[w].adm => members'[c] # {} /\ admins'[c] = {}
  <2> SUFFICES ASSUME ~loc[w].lone, loc[w].adm PROVE members'[c] # {} /\ admins'[c] = {}
    OBVIOUS
  <2>1. by \in admins[c] /\ by \in members[c] /\ chat[c] # "none"
    BY <1>1, <1>4 DEF IInv, AdminsAreMembers, NoOrphans
  <2>2. admins[c] = {by}
    BY <1>1, <1>6, <2>1
  <2>3. members[c] # {by}
    BY <1>4, FS_Singleton
  <2> QED
    BY <1>3, <2>1, <2>2, <2>3
<1> HIDE DEF c, by
<1>8. Leaves(w)'
  BY <1>1, <1>2, <1>5, <1>7 DEF Leaves
<1>9. \A d \in ChatIds : \/ chat'[d] = "none"
                         \/ \E v : admins'[d] = {v}
                         \/ Due(w)' /\ loc'[w].cid = d
  <2> SUFFICES ASSUME NEW d \in ChatIds
               PROVE  \/ chat'[d] = "none"
                      \/ \E v : admins'[d] = {v}
                      \/ Due(w)' /\ loc'[w].cid = d
    OBVIOUS
  <2>1. CASE d # c
    BY <1>1, <1>3, <1>6, <2>1
  <2>2. CASE d = c /\ loc[w].adm
    BY <1>2, <1>5, <2>2
  <2>3. CASE d = c /\ ~loc[w].adm
    <3>1. admins'[c] = admins[c]
      BY <1>3, <1>4, <2>3
    <3> QED
      BY <1>1, <1>6, <2>3, <3>1
  <2> QED
    BY <2>1, <2>2, <2>3
<1> QED
  BY <1>1, <1>2, <1>8, <1>9, AdminParts

LEMMA DeleteChatAdmin ==
    ASSUME OneChild, IInv, NEW w \in Workers, InHandler(w), AdminInv, DeleteChat(w)
    PROVE  AdminInv'
<1> DEFINE c == loc[w].cid
<1>1. /\ pc[w] = "delete_chat" /\ c \in ChatIds
      /\ chat' = [chat EXCEPT ![c] = "none"] /\ admins' = [admins EXCEPT ![c] = {}]
  BY DEF DeleteChat, IInv, ChildInv, ChatLabels, Labels
<1>2. pc'[w] = "reply" /\ req'[w] = req[w]
  BY StepsHold DEF Steps, Move
<1>3. chat'[c] = "none" /\ \A d \in ChatIds \ {c} : chat'[d] = chat[d] /\ admins'[d] = admins[d]
  BY <1>1 DEF IInv, TypeOK
<1>4. \A d \in ChatIds : chat'[d] = "none" \/ \E v : admins'[d] = {v}
  BY <1>3, AdminOf
<1>5. Creates(w)' /\ Leaves(w)'
  BY <1>2 DEF Creates, Leaves, Due, Writing
<1> QED
  BY <1>2, <1>4, <1>5, AdminParts

\* The count of the admins, and the two statements of the promotion.
LEMMA PromotionAdmin ==
    ASSUME OneChild, IInv, NEW w \in Workers, InHandler(w), AdminInv,
           GetAdminCount(w) \/ PromoteSelect(w) \/ PromoteUpdate(w)
    PROVE  AdminInv'
<1> DEFINE c == loc[w].cid
<1>1. /\ pc[w] \in {"get_admin_count", "promote_select", "promote_update"}
      /\ c \in ChatIds /\ UNCHANGED <<chat, members>>
  BY DEF GetAdminCount, PromoteSelect, PromoteUpdate, tables, IInv, ChildInv, ChatLabels, Labels
<1>2. req[w].op = "EXIT_CHAT"
  BY <1>1 DEF InHandler, Runs
<1>3. Leaves(w) /\ loc[w].adm /\ ~loc[w].lone
  BY <1>1, <1>2 DEF AdminInv, Leaves
<1>4. Due(w) /\ members[c] # {} /\ admins[c] = {}
  BY <1>1, <1>2, <1>3 DEF Due, Leaves
<1>5. CASE GetAdminCount(w) \/ PromoteSelect(w)
  <2>1. UNCHANGED <<chat, members, admins>>
    BY <1>5 DEF GetAdminCount, PromoteSelect, tables
  <2>2. /\ \/ pc'[w] = "promote_select"
           \/ pc'[w] = "promote_update" /\ loc'[w].cand \in members[c]
        /\ req'[w] = req[w] /\ loc'[w].cid = c
        /\ loc'[w].adm = loc[w].adm /\ loc'[w].lone = loc[w].lone
    BY <1>4, <1>5, StepsHold DEF Steps, Move, Fields
  <2>3. Due(w)'
    BY <1>2, <1>3, <2>2 DEF Due
  <2> HIDE DEF c
  <2>4. Leaves(w)'
    BY <1>3, <1>4, <2>1, <2>2 DEF Leaves
  <2> QED
    BY <1>2, <2>1, <2>2, <2>3, <2>4, AdminKept DEF c
<1>6. CASE PromoteUpdate(w)
  <2>1. /\ pc[w] = "promote_update"
        /\ admins' = IF loc[w].cand \in members[c]
                     THEN [admins EXCEPT ![c] = @ \cup {loc[w].cand}]
                     ELSE admins
    BY <1>6 DEF PromoteUpdate
  <2>2. pc'[w] = "delete_json" /\ req'[w] = req[w]
    BY <1>6, StepsHold DEF Steps, Move
  <2>3. loc[w].cand \in members[c]
    BY <1>3, <2>1 DEF Leaves
  <2>4. /\ admins'[c] = {loc[w].cand}
        /\ \A d \in ChatIds \ {c} : admins'[d] = admins[d]
    BY <1>1, <1>4, <2>1, <2>3 DEF IInv, TypeOK
  <2>5. \A d \in ChatIds : chat'[d] = "none" \/ \E v : admins'[d] = {v}
    <3> SUFFICES ASSUME NEW d \in ChatIds
                 PROVE  chat'[d] = "none" \/ \E v : admins'[d] = {v}
      OBVIOUS
    <3>1. CASE d = c
      BY <2>4, <3>1
    <3>2. CASE d # c
      <4>1. chat[d] = "none" \/ \E v : admins[d] = {v}
        BY <3>2, AdminOf
      <4> QED
        BY <1>1, <2>4, <3>2, <4>1
    <3> QED
      BY <3>1, <3>2
  <2>6. Creates(w)' /\ Leaves(w)'
    BY <2>2 DEF Creates, Leaves, Due, Writing
  <2> QED
    BY <2>2, <2>5, <2>6, AdminParts
<1> QED
  BY <1>5, <1>6

\* What EXIT_CHAT reads before the user leaves.
LEMMA LeaverReadsAdmin ==
    ASSUME OneChild, IInv, NEW w \in Workers, InHandler(w), AdminInv,
           IsUserAdmin(w) \/ GetParticipantCount(w)
    PROVE  AdminInv'
<1> DEFINE c == loc[w].cid
<1>1. /\ pc[w] \in {"is_user_admin", "get_participant_count"}
      /\ UNCHANGED <<chat, members, admins>>
  BY DEF IsUserAdmin, GetParticipantCount, tables
<1>2. Steps(w)
  BY StepsHold
<1>3. CASE req[w].op # "EXIT_CHAT"
  <2>1. req[w].op # "CREATE_CHAT" /\ pc[w] = "is_user_admin" /\ IsUserAdmin(w)
    BY <1>1, <1>3 DEF InHandler, Runs, GetParticipantCount
  <2>2. Move(w, "is_group_chat", {"adm"}) \/ Move(w, "reply", {})
    BY <1>2, <1>3, <2>1 DEF Steps
  <2> QED
    BY <1>1, <1>3, <2>1, <2>2, OtherOpAdmin
<1>4. CASE req[w].op = "EXIT_CHAT" /\ IsUserAdmin(w)
  <2>1. /\ pc'[w] = "get_participant_count" /\ req'[w] = req[w] /\ loc'[w].cid = c
        /\ loc'[w].adm = (req[w].by \in admins[c])
    BY <1>2, <1>4 DEF Steps, Move, Fields
  <2>2. ~Due(w) /\ ~Due(w)'
    BY <1>1, <1>4, <2>1 DEF Due, Writing
  <2>3. loc'[w].adm <=> req[w].by \in admins[c]
    BY <2>1, Zenon
  <2> HIDE DEF c
  <2>4. Leaves(w)'
    BY <1>1, <2>1, <2>2, <2>3 DEF Leaves
  <2> QED
    BY <1>1, <1>4, <2>1, <2>2, <2>4, AdminKept
<1>5. CASE req[w].op = "EXIT_CHAT" /\ GetParticipantCount(w)
  <2>1. /\ pc'[w] = "remove_from_chat" /\ req'[w] = req[w] /\ loc'[w].cid = c
        /\ loc'[w].adm = loc[w].adm
        /\ loc'[w].lone = (Cardinality(members[c]) = 1)
    BY <1>2, <1>5 DEF Steps, Move, Fields
  <2>2. ~Due(w) /\ ~Due(w)'
    BY <1>1, <1>5, <2>1 DEF Due, Writing
  <2>3. loc'[w].lone <=> Cardinality(members[c]) = 1
    BY <2>1, Zenon
  <2>4. loc[w].adm <=> req[w].by \in admins[c]
    BY <1>5 DEF AdminInv, Leaves, GetParticipantCount
  <2> HIDE DEF c
  <2>5. Leaves(w)'
    BY <1>1, <2>1, <2>2, <2>3, <2>4 DEF Leaves
  <2> QED
    BY <1>1, <1>5, <2>1, <2>2, <2>5, AdminKept
<1> QED
  BY <1>1, <1>3, <1>4, <1>5

LEMMA WorkAdmin ==
    ASSUME OneChild, Cascade, IInv, NEW w \in Workers, InHandler(w), ReadsHold(w), AdminInv,
           Work(w)
    PROVE  AdminInv'
<1>1. CASE CreateChat(w) \/ AddToChat(w) \/ AddToChatFails(w) \/ LoopEnd(w) \/ CreateChatFails(w)
  BY <1>1, CreateChatAdmin, AddToChatAdmin, AddToChatFailsAdmin, LoopEndAdmin
<1>2. CASE InsertMessage(w) \/ InsertMessageFails(w) \/ UpdateLast(w)
  BY <1>2, InsertMessageAdmin, AfterMessageAdmin
<1>3. CASE RemoveFromChat(w) \/ LeaveChat(w) \/ DeleteChat(w)
  BY <1>3, RemoveFromChatAdmin, LeaveChatAdmin, DeleteChatAdmin
<1>4. CASE DeleteChatFails(w)
  BY <1>4 DEF DeleteChatFails
<1>5. CASE GetAdminCount(w) \/ PromoteSelect(w) \/ PromoteUpdate(w)
  BY <1>5, PromotionAdmin
<1>6. CASE IsUserAdmin(w) \/ GetParticipantCount(w)
  BY <1>6, LeaverReadsAdmin
<1>7. CASE \/ IsGroupChat(w) \/ GetChatInfo(w)
           \/ GetChats(w) \/ GetChatMessages(w) \/ GetParticipants(w)
  <2>1. /\ pc[w] \in {"is_group_chat", "get_chat_info", "get_chats", "get_chat_messages",
                      "get_participants"}
        /\ UNCHANGED <<chat, admins>>
    BY <1>7 DEF IsGroupChat, GetChatInfo, GetChats, GetChatMessages, GetParticipants, tables
  <2>2. req[w].op \notin {"CREATE_CHAT", "EXIT_CHAT"}
    BY <2>1 DEF InHandler, Runs
  <2>3. \E label, W : Move(w, label, W)
    BY <1>7, StepsHold, ReadersInHandler DEF Steps
  <2> QED
    BY <2>1, <2>2, <2>3, OtherOpAdmin
<1>8. CASE Reply(w) \/ AbortBeforeSend(w)
  <2>1. pc[w] \in {"reply", "delete_json"} /\ \E outcome : Exit(w, outcome)
    BY <1>8 DEF Reply, AbortBeforeSend
  <2>2. req'[w].op = "NONE" /\ UNCHANGED <<chat, members, admins>>
    BY <2>1, ExitEffect DEF NoRequest, tables
  <2>3. ~Due(w)
    BY <2>1 DEF Due, Writing
  <2> QED
    BY <2>2, <2>3, AdminKept
<1> QED
  BY <1>1, <1>2, <1>3, <1>4, <1>5, <1>6, <1>7, <1>8 DEF Work

\* The creators of chats are users that exist.
CreatorsExist == \A r \in Asks("CREATE_CHAT", "ok") : r.by \in Users

LEMMA ConnectAdmin ==
    ASSUME OneChild, CreatorsExist, IInv, NEW w \in Workers, AdminInv, Connect(w)
    PROVE  AdminInv'
<1>1. Started(w)
  BY ConnectStarts
<1>2. UNCHANGED <<chat, members, admins>> /\ ~Due(w)
  BY <1>1 DEF Started, tables, Due, Writing
<1>3. CASE UNCHANGED <<pc, req, loc>>
  BY <1>2, <1>3, AdminStutters
<1>4. CASE pc'[w] = "create_chat" /\ req'[w] \in Asks("CREATE_CHAT", "ok")
           /\ loc'[w].todo = <<req'[w].by>> \o req'[w].ids
  <2>1. req'[w].by \in Users /\ req'[w].op = "CREATE_CHAT" /\ req'[w] \in RequestType
    BY <1>4, RequestsAssumption DEF CreatorsExist, Asks
  <2>2. loc'[w].todo # <<>> /\ Head(loc'[w].todo) = req'[w].by
    <3>1. req'[w].ids \in Seq(Ids \cup {NotNumber})
      BY <2>1 DEF RequestType
    <3> QED
      BY <1>4, <3>1
  <2>3. Creates(w)'
    BY <1>4, <2>1, <2>2 DEF Creates, Writing
  <2> QED
    BY <1>2, <2>1, <2>3, AdminKept
<1>5. CASE pc'[w] # "create_chat" /\ ~UNCHANGED <<pc, req, loc>>
  <2>1. req'[w].op = "CREATE_CHAT" => Creates(w)'
    BY <1>1, <1>5 DEF Started, Creates, Writing
  <2>2. req'[w].op = "EXIT_CHAT" => Leaves(w)'
    BY <1>1, <1>5 DEF Started, Leaves, Due, Writing
  <2> QED
    BY <1>2, <2>1, <2>2, AdminKept
<1> QED
  BY <1>1, <1>3, <1>4, <1>5 DEF Started

\* With requests that do not overlap, no fault, creators that exist and a schema
\* that deletes a chat's rows with the chat, every chat has exactly one admin
\* whenever no request is being served.
THEOREM OneAdmin ==
    ASSUME OneChild, MaxFaults = 0, Cascade, CreatorsExist
    PROVE  Spec => []OneAdminBetweenRequests
<1>1. Init => AdminInv
  BY DEF Init, AdminInv, Administered, NoRequest
<1>2. IInv /\ HandlerInv /\ ReadsInv /\ AdminInv /\ [Next]_vars => AdminInv'
  <2> SUFFICES ASSUME IInv, HandlerInv, ReadsInv, AdminInv, [Next]_vars PROVE AdminInv'
    OBVIOUS
  <2>1. ASSUME NEW w \in Workers, Connect(w) \/ Work(w) \/ Fault(w) PROVE AdminInv'
    BY <2>1, ConnectAdmin, WorkAdmin, NoFault DEF HandlerInv, ReadsInv
  <2>2. CASE UNCHANGED vars
    BY <2>2, AdminStutters DEF vars, tables
  <2> QED
    BY <2>1, <2>2 DEF Next, Done
<1>3. IInv /\ AdminInv => OneAdminBetweenRequests
  <2> SUFFICES ASSUME IInv, AdminInv, Quiescent, NEW c \in ChatIds, chat[c] # "none"
               PROVE  Cardinality(admins[c]) = 1
    BY DEF OneAdminBetweenRequests
  <2>1. \A w \in Workers : ~Due(w)
    BY DEF Quiescent, Due, Writing
  <2>2. \E u : admins[c] = {u}
    BY <2>1 DEF AdminInv, Administered
  <2> QED
    BY <2>2, FS_Singleton
<1>4. Spec => []ReadsInv
  BY ReadsKeptSequentially
<1> QED
  BY <1>1, <1>2, <1>3, <1>4, Invariance, HandlersKept, PTL DEF Spec

====
