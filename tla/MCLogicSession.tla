-------------------------- MODULE MCLogicSession --------------------------
(* Instances of LogicSession for TLC. *)
EXTENDS LogicSession, TLC

CONSTANTS ana, bea, sys, nobody, p1, p2

UserPasswords == ana :> p1 @@ bea :> p2 @@ sys :> p1

Plain(op) == [op |-> op, key |-> None, pass |-> None, token |-> None, who |-> None,
              form |-> "ok"]
Validate(k, p) == [Plain("VALIDATE_USER") EXCEPT !.key = k, !.pass = p]
Info(k, t) == [Plain("GET_USER_INFO") EXCEPT !.key = k, !.token = t]
\* As in the API reference: with the field that is replaced ...
Named(op, t, w) == [Plain(op) EXCEPT !.token = t, !.who = w]
\* ... or with the token only.
TokenOnly(op, t) == Named(op, t, None)

Logins == {Validate(ana, p1), Validate(ana, p2), Validate(bea, p2), Validate(sys, p1),
           Validate(nobody, p1), Validate(ana, None)}

Documented ==
    Logins \cup {Info(bea, ana), Info(nobody, ana), Info(ana, BadToken)}
    \cup {Named(op, ana, w) : op \in {"CREATE_CHAT", "GET_CHATS"}, w \in {ana, bea}}
    \cup {TokenOnly(op, bea) : op \in {"GET_CHAT_MESSAGES", "EXIT_CHAT", "GET_CHAT_INFO"}}
    \cup {TokenOnly("SEND_MESSAGE", None), Named("GET_CHATS", BadToken, ana),
          Plain("CREATE_USER"), Plain("PING"), [Plain("PING") EXCEPT !.form = "bad"]}

\* What a client that sends ahead sends.
Mixed == {Validate(ana, p1), Validate(bea, p2), Info(bea, ana), Plain("PING"),
          Plain("CREATE_USER")}

\* Requests with the token and nothing else that says who asks.
ByTokenAlone ==
    {TokenOnly(op, t) : op \in {"CREATE_CHAT", "SEND_MESSAGE", "GET_CHATS", "EXIT_CHAT"},
                        t \in {ana, bea, None}}

=============================================================================
