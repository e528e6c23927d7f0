----------------------------- MODULE ChatTables -----------------------------
(***************************************************************************)
(* What the chat operations of the data server promise about its tables,   *)
(* whoever runs them: a chat is opened once, is joined and left, gets its  *)
(* messages in one global order, shows one of its own messages, and is     *)
(* closed for good with all that belonged to it.  Nothing here knows of    *)
(* children, requests or statements; ChatStore implements it.              *)
(***************************************************************************)
EXTENDS Naturals

CONSTANTS
    Users,      \* who may be in a chat
    ChatIds,    \* ids of chats
    MessageIds  \* ids of messages

VARIABLES
    chat,      \* "none", "group" or "direct"
    last,      \* the message a chat shows, 0 for none
    members,   \* who is in a chat
    admins,    \* who of them is an admin
    owner,     \* the chat of a message, 0 for none
    nextChat,  \* the next chat's id
    nextMsg    \* the next message's id

tables == <<chat, last, members, admins, owner, nextChat, nextMsg>>

Init ==
    /\ chat     = [c \in ChatIds |-> "none"]
    /\ last     = [c \in ChatIds |-> 0]
    /\ members  = [c \in ChatIds |-> {}]
    /\ admins   = [c \in ChatIds |-> {}]
    /\ owner    = [m \in MessageIds |-> 0]
    /\ nextChat = 1
    /\ nextMsg  = 1

Exists(c) == chat[c] # "none"

\* A chat gets an id that no chat had before it; nobody is in it yet.
Open ==
    /\ nextChat \in ChatIds
    /\ \E kind \in {"group", "direct"} : chat' = [chat EXCEPT ![nextChat] = kind]
    /\ nextChat' = nextChat + 1
    /\ UNCHANGED <<last, members, admins, owner, nextMsg>>

Join(c, u) ==
    /\ Exists(c) /\ u \notin members[c]
    /\ members' = [members EXCEPT ![c] = @ \cup {u}]
    /\ \/ admins' = [admins EXCEPT ![c] = @ \cup {u}]
       \/ UNCHANGED admins
    /\ UNCHANGED <<chat, last, owner, nextChat, nextMsg>>

\* A participant leaves or is removed; an admin is no admin without the rest.
Leave(c, u) ==
    /\ Exists(c) /\ u \in members[c]
    /\ members' = [members EXCEPT ![c] = @ \ {u}]
    /\ admins'  = [admins  EXCEPT ![c] = @ \ {u}]
    /\ UNCHANGED <<chat, last, owner, nextChat, nextMsg>>

Promote(c, u) ==
    /\ Exists(c) /\ u \in members[c]
    /\ admins' = [admins EXCEPT ![c] = @ \cup {u}]
    /\ UNCHANGED <<chat, last, members, owner, nextChat, nextMsg>>

\* A message is written to a chat that exists, and never moves.
Post(c) ==
    /\ Exists(c) /\ nextMsg \in MessageIds
    /\ owner' = [owner EXCEPT ![nextMsg] = c]
    /\ nextMsg' = nextMsg + 1
    /\ UNCHANGED <<chat, last, members, admins, nextChat>>

\* A chat shows one of its own messages.
Show(c, m) ==
    /\ Exists(c) /\ owner[m] = c
    /\ last' = [last EXCEPT ![c] = m]
    /\ UNCHANGED <<chat, members, admins, owner, nextChat, nextMsg>>

\* The chat goes, with its participants and its messages.
Close(c) ==
    /\ Exists(c)
    /\ chat'    = [chat    EXCEPT ![c] = "none"]
    /\ last'    = [last    EXCEPT ![c] = 0]
    /\ members' = [members EXCEPT ![c] = {}]
    /\ admins'  = [admins  EXCEPT ![c] = {}]
    /\ owner'   = [m \in MessageIds |-> IF owner[m] = c THEN 0 ELSE owner[m]]
    /\ UNCHANGED <<nextChat, nextMsg>>

Next ==
    \/ Open
    \/ \E c \in ChatIds :
          \/ \E u \in Users : Join(c, u) \/ Leave(c, u) \/ Promote(c, u)
          \/ Post(c)
          \/ \E m \in MessageIds : Show(c, m)
          \/ Close(c)

Spec == Init /\ [][Next]_tables

=============================================================================
