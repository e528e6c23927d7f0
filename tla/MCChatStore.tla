---------------------------- MODULE MCChatStore ----------------------------
(* Instances of ChatStore for TLC.  User 1 is the system user. *)
EXTENDS ChatStore, TLC

Symmetry == Permutations(Workers)

Base == [op |-> "UNKNOWN", by |-> 2, chat |-> 1, ids |-> <<>>,
         group |-> TRUE, since |-> FALSE, form |-> "ok"]

Create(by, ids, group) ==
    [Base EXCEPT !.op = "CREATE_CHAT", !.by = by, !.ids = ids, !.group = group]
Add(by, c, ids) ==
    [Base EXCEPT !.op = "ADD_TO_GROUP_CHAT", !.by = by, !.chat = c, !.ids = ids]
Send(by, c) == [Base EXCEPT !.op = "SEND_MESSAGE", !.by = by, !.chat = c]
Remove(by, c, ids) ==
    [Base EXCEPT !.op = "REMOVE_FROM_CHAT", !.by = by, !.chat = c, !.ids = ids]
Leave(by, c) == [Base EXCEPT !.op = "EXIT_CHAT", !.by = by, !.chat = c]
Chats(by, since) == [Base EXCEPT !.op = "GET_CHATS", !.by = by, !.since = since]
Messages(c, since) == [Base EXCEPT !.op = "GET_CHAT_MESSAGES", !.chat = c, !.since = since]
Info(c) == [Base EXCEPT !.op = "GET_CHAT_INFO", !.chat = c]
Bad(op) == [Base EXCEPT !.op = op, !.form = "bad"]
Junk == [Base EXCEPT !.form = "junk"]

\* n times the id u, for lists at and over the limits.
Many(n, u) == [i \in 1 .. n |-> u]

\* Two children at work on one group of users 2 and 3.
ConcurrentRequests ==
    {Create(2, <<3>>, TRUE), Send(3, 1), Leave(2, 1), Leave(3, 1), Remove(2, 1, <<3>>),
     Add(2, 1, <<9, 3>>)}

\* Everything a client may send, one request at a time.
SequentialRequests ==
    {Create(2, <<3>>, TRUE), Create(3, <<2, 3, 9>>, TRUE), Create(2, <<3>>, FALSE),
     Create(2, Many(9, 3), TRUE), Create(2, <<3, 4>>, FALSE), Create(2, <<>>, TRUE),
     Add(3, 1, <<4, NotNumber>>), Add(2, 1, <<>>), Add(2, 2, <<3>>), Add(2, 1, Many(11, 4)),
     Send(3, 1), Send(9, 1),
     Leave(2, 1), Leave(3, 1), Leave(4, 1),
     Remove(2, 1, <<2, 3, NotNumber>>), Remove(3, 1, <<4>>),
     Chats(2, FALSE), Chats(3, TRUE), Messages(1, TRUE), Messages(2, FALSE), Info(1), Info(2),
     Base, Junk}
    \cup {Bad(op) : op \in ChatOps \ {"UNKNOWN"}}

\* What a child may get stuck in: its loops, its paths through EXIT_CHAT, and a
\* list that does not fit in participants[].
LivenessRequests ==
    {Create(2, <<3>>, TRUE), Add(2, 1, Many(11, 3)), Leave(2, 1), Leave(3, 1),
     Remove(2, 1, <<2, 3>>), Info(1)}

=============================================================================
