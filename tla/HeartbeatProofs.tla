-------------------------- MODULE HeartbeatProofs --------------------------
(***************************************************************************)
(* What the list of servers guarantees for any number of servers, any      *)
(* receive buffer and any number of faults.                                *)
(***************************************************************************)
EXTENDS Heartbeat, TLAPS

\* In mode "ld" whatever is up had a heartbeat handled: the expiry check leaves
\* only young ones up, and the sleep that follows adds one cycle to their age.
\* In mode "fl" that is not so, as an address pair alone brings a server up.
Oldest == IF turn = "sleep" THEN TIMEOUT - 1 ELSE TIMEOUT
Fresh == Mode = "ld" => \A s \in Servers : up[s] => age[s] \in 0 .. Oldest

IInv == TypeOK /\ UpIsIdentified /\ Fresh

-----------------------------------------------------------------------------

LEMMA InitInv == Init => IInv
<1> SUFFICES ASSUME Init PROVE IInv
  OBVIOUS
<1> USE InboxAssumption DEF Init, NoBeat, TIMEOUT, MaxAge, MaxGap
<1>1. TypeOK
  BY DEF TypeOK, FirstStates
<1>2. UpIsIdentified /\ Fresh
  BY DEF UpIsIdentified, Fresh, Oldest
<1> QED
  BY <1>1, <1>2 DEF IInv

LEMMA DatagramType == ASSUME NEW s \in Servers PROVE Datagram(s) \in Datagrams
  BY DEF Datagram, Datagrams

\* A step that leaves the list and the turn alone keeps what they satisfy.
LEMMA ListUnchanged ==
    ASSUME IInv, UNCHANGED <<registry, turn>>
    PROVE  UpIsIdentified' /\ Fresh'
<1>1. up' = up /\ ident' = ident /\ age' = age /\ turn' = turn
  BY DEF registry
<1> QED
  BY <1>1 DEF IInv, UpIsIdentified, Fresh, Oldest

LEMMA SendInv == ASSUME IInv, NEW s \in Servers, Send(s) PROVE IInv'
<1> USE InboxAssumption
<1>1. /\ inbox' \in Seq(Datagrams) /\ Len(inbox') <= MaxInbox
      /\ (turn' = "listen" => inbox' # <<>>)
  <2>1. turn' = turn /\ (turn = "listen" => inbox # <<>>)
    BY DEF IInv, TypeOK, Send
  <2>2. inbox \in Seq(Datagrams) /\ Len(inbox) <= MaxInbox
    BY DEF IInv, TypeOK
  <2>3. CASE Len(inbox) < MaxInbox /\ inbox' = Append(inbox, Datagram(s))
    BY <2>2, <2>3, DatagramType
  <2>4. CASE inbox' = inbox
    BY <2>1, <2>2, <2>4
  <2> QED
    BY <2>3, <2>4 DEF Send
<1>2. TypeOK'
  BY <1>1 DEF IInv, TypeOK, Send, registry, MaxGap
<1> QED
  BY <1>2, ListUnchanged DEF Send, IInv

LEMMA ReceiveInv == ASSUME IInv, NEW s \in Servers, Receive(s) PROVE IInv'
<1>1. TypeOK'
  BY DEF IInv, TypeOK, Receive, registry
<1> QED
  BY <1>1, ListUnchanged DEF Receive, IInv

LEMMA CheckExpiryInv == ASSUME IInv, CheckExpiry PROVE IInv'
<1>1. TypeOK'
  BY DEF IInv, TypeOK, CheckExpiry, daemons
<1>2. \A s \in Servers : up'[s] => up[s] /\ ~Expired(s)
  BY DEF CheckExpiry
<1>3. ident' = ident /\ age' = age /\ turn' = "sleep" /\ turn = "check"
  BY DEF CheckExpiry
<1>4. UpIsIdentified'
  BY <1>2, <1>3 DEF IInv, UpIsIdentified
<1>5. Fresh'
  <2> SUFFICES ASSUME Mode = "ld", NEW s \in Servers, up'[s]
               PROVE  age[s] \in 0 .. TIMEOUT - 1
    BY <1>3 DEF Fresh, Oldest
  <2>1. age[s] \in 0 .. TIMEOUT
    BY <1>2, <1>3 DEF IInv, Fresh, Oldest
  <2> QED
    BY <1>2, <2>1 DEF Expired, NoBeat, TIMEOUT
<1> QED
  BY <1>1, <1>4, <1>5 DEF IInv

LEMMA WakeInv == ASSUME IInv, Wake PROVE IInv'
<1>1. \A s \in Servers : Older(s) \in {NoBeat} \cup 0 .. MaxAge
  BY DEF IInv, TypeOK, Older, NoBeat, TIMEOUT, MaxAge
<1>2. gap' \in [Servers -> 0 .. MaxGap]
  BY DEF IInv, TypeOK, Wake, MaxGap
<1>3. TypeOK'
  BY <1>1, <1>2 DEF IInv, TypeOK, Wake
<1>4. UpIsIdentified'
  BY DEF Wake, IInv, UpIsIdentified
<1>5. Fresh'
  <2> SUFFICES ASSUME Mode = "ld", NEW s \in Servers, up[s]
               PROVE  Older(s) \in 0 .. TIMEOUT
    BY DEF Wake, Fresh, Oldest
  <2>1. age[s] \in 0 .. TIMEOUT - 1
    BY DEF Wake, IInv, Fresh, Oldest
  <2> QED
    BY <2>1 DEF Older, NoBeat, MaxAge, TIMEOUT
<1> QED
  BY <1>3, <1>4, <1>5 DEF IInv

LEMMA HandleOkInv ==
    ASSUME IInv, turn # "sleep", turn' # "sleep", NEW s \in Servers, HandleOk(s)
    PROVE  /\ up' \in [Servers -> BOOLEAN] /\ ident' \in [Servers -> BOOLEAN]
           /\ age' \in [Servers -> {NoBeat} \cup 0 .. MaxAge]
           /\ replies' \in [Servers -> SUBSET {"OK", "AUTH"}]
           /\ UpIsIdentified' /\ Fresh'
<1>1. CASE ident[s] /\ age' = [age EXCEPT ![s] = 0] /\ up' = [up EXCEPT ![s] = TRUE]
           /\ UNCHANGED <<ident, replies>>
  BY <1>1 DEF IInv, TypeOK, UpIsIdentified, Fresh, Oldest, TIMEOUT, MaxAge
<1>2. CASE /\ replies' = [replies EXCEPT ![s] = IF alive[s] THEN @ \cup {"AUTH"} ELSE @]
           /\ UNCHANGED registry
  BY <1>2 DEF IInv, TypeOK, UpIsIdentified, Fresh, Oldest, registry
<1> QED
  BY <1>1, <1>2 DEF HandleOk

LEMMA HandleAddressInv ==
    ASSUME IInv, turn # "sleep", turn' # "sleep", NEW s \in Servers, HandleAddress(s)
    PROVE  /\ up' \in [Servers -> BOOLEAN] /\ ident' \in [Servers -> BOOLEAN]
           /\ age' \in [Servers -> {NoBeat} \cup 0 .. MaxAge]
           /\ replies' \in [Servers -> SUBSET {"OK", "AUTH"}]
           /\ UpIsIdentified' /\ Fresh'
  BY DEF HandleAddress, IInv, TypeOK, UpIsIdentified, Fresh, Oldest

LEMMA ListenInv == ASSUME IInv, Listen PROVE IInv'
<1> DEFINE d == Head(inbox)
<1>1. d \in Datagrams /\ Tail(inbox) \in Seq(Datagrams) /\ Len(Tail(inbox)) <= MaxInbox
  BY InboxAssumption DEF IInv, TypeOK, Listen
<1>2. d.from \in Servers
  BY <1>1 DEF Datagrams
<1>3. HandleOk(d.from) \/ HandleAddress(d.from)
  BY DEF Listen
<1>4. turn # "sleep" /\ turn' # "sleep"
  BY DEF Listen
<1> HIDE DEF d
<1>5. /\ up' \in [Servers -> BOOLEAN] /\ ident' \in [Servers -> BOOLEAN]
      /\ age' \in [Servers -> {NoBeat} \cup 0 .. MaxAge]
      /\ replies' \in [Servers -> SUBSET {"OK", "AUTH"}]
      /\ UpIsIdentified' /\ Fresh'
  BY <1>2, <1>3, <1>4, HandleOkInv, HandleAddressInv
<1>6. TypeOK'
  BY <1>1, <1>5 DEF IInv, TypeOK, Listen, daemons
<1> QED
  BY <1>5, <1>6 DEF IInv

LEMMA FaultInv == ASSUME IInv, Fault PROVE IInv'
<1>0. faults' \in 0 .. MaxFaults
  BY InboxAssumption DEF Fault, IInv, TypeOK
<1>1. ASSUME NEW s \in Servers, LoseHeartbeat(s) PROVE IInv'
  <2>1. TypeOK'
    BY <1>0, <1>1 DEF IInv, TypeOK, LoseHeartbeat, registry, MaxGap
  <2> QED
    BY <1>1, <2>1, ListUnchanged DEF LoseHeartbeat, IInv
<1>2. ASSUME NEW s \in Servers, RepeatHeartbeat(s) PROVE IInv'
  <2>1. <<Datagram(s), Datagram(s)>> \in Seq(Datagrams)
    BY DatagramType
  <2>2. /\ inbox' \in Seq(Datagrams) /\ Len(inbox') <= MaxInbox
        /\ (turn' = "listen" => inbox' # <<>>)
    BY <1>2, <2>1, InboxAssumption DEF IInv, TypeOK, RepeatHeartbeat
  <2>3. TypeOK'
    BY <1>0, <1>2, <2>2 DEF IInv, TypeOK, RepeatHeartbeat, registry, MaxGap
  <2> QED
    BY <1>2, <2>3, ListUnchanged DEF RepeatHeartbeat, IInv
<1>3. ASSUME NEW s \in Servers, LoseReply(s) PROVE IInv'
  <2>1. TypeOK'
    BY <1>0, <1>3 DEF IInv, TypeOK, LoseReply, registry, daemons
  <2> QED
    BY <1>3, <2>1, ListUnchanged DEF LoseReply, IInv
<1>4. ASSUME NEW s \in Servers, Crash(s) PROVE IInv'
  <2>1. TypeOK'
    BY <1>0, <1>4 DEF IInv, TypeOK, Crash, registry
  <2> QED
    BY <1>4, <2>1, ListUnchanged DEF Crash, IInv
<1>5. ASSUME NEW s \in Servers, Restart(s) PROVE IInv'
  <2>1. TypeOK'
    BY <1>0, <1>5 DEF IInv, TypeOK, Restart, registry, FirstStates, MaxGap
  <2> QED
    BY <1>5, <2>1, ListUnchanged DEF Restart, IInv
<1>6. CASE RestartBalancer
  <2>1. TypeOK'
    BY <1>0, <1>6, InboxAssumption DEF IInv, TypeOK, RestartBalancer, daemons
  <2>2. UpIsIdentified' /\ Fresh'
    BY <1>6 DEF RestartBalancer, UpIsIdentified, Fresh, Oldest
  <2> QED
    BY <2>1, <2>2 DEF IInv
<1> QED
  BY <1>1, <1>2, <1>3, <1>4, <1>5, <1>6 DEF Fault

\* The inductive invariant holds in every behaviour of the list, its listener,
\* its expiry task and the daemons, faults included.
THEOREM Invariance == Spec => []IInv
<1>1. IInv /\ [Next]_vars => IInv'
  <2>1. ASSUME IInv, Next PROVE IInv'
    BY <2>1, SendInv, ReceiveInv, CheckExpiryInv, WakeInv, ListenInv, FaultInv DEF Next
  <2>2. ASSUME IInv, UNCHANGED vars PROVE IInv'
    BY <2>2 DEF IInv, TypeOK, UpIsIdentified, Fresh, Oldest, vars, registry, daemons
  <2> QED
    BY <2>1, <2>2
<1> QED
  BY <1>1, InitInv, PTL DEF Spec

\* The list, the receive buffer and the daemons keep their types: the listener
\* never gets the guard without a datagram in hand (Wake), the buffer never
\* holds more than it can.
THEOREM TypeCorrect == Spec => []TypeOK
<1>1. IInv => TypeOK
  BY DEF IInv
<1> QED
  BY <1>1, Invariance, PTL

\* No server gets traffic from a load balancer that has not seen its address
\* pair (listen_for_heartbeats).
THEOREM OnlyIdentifiedUp == Spec => []UpIsIdentified
<1>1. IInv => UpIsIdentified
  BY DEF IInv
<1> QED
  BY <1>1, Invariance, PTL

\* In either list of ReverseProxyLd a server that a connection finds up had a
\* heartbeat handled within the timeout (check_heartbeat_expiry).
THEOREM OnlyFreshUp == ASSUME Mode = "ld" PROVE Spec => []UpIsFresh
<1>1. IInv => UpIsFresh
  BY DEF IInv, Fresh, Oldest, UpIsFresh
<1> QED
  BY <1>1, Invariance, PTL

-----------------------------------------------------------------------------
(* A server that is alone on its list stays up. *)

\* The daemon and the listener of a server that is alone on its list, as long as
\* nothing goes wrong: a datagram is in the buffer for the send of this cycle,
\* and one more while the listener has the guard.
Waiting(s) == (IF gap[s] = 0 THEN 1 ELSE 0) + (IF turn = "listen" THEN 1 ELSE 0)

\* The address was understood before anything else is sent, so AUTH is never
\* needed.
Agreed(s) ==
    /\ replies[s] \subseteq {"OK"}
    /\ replies[s] # {} \/ state[s] = "SENDING_OK" => ident[s]
    /\ \A i \in 1 .. Len(inbox) : inbox[i].text = "OK" =>
          state[s] = "SENDING_OK" /\ \A j \in i .. Len(inbox) : inbox[j].text = "OK"

\* A server that was heard is heard again in time: one cycle without an OK comes
\* before a cycle in which the daemon has to send.
InTime(s) ==
    age[s] # NoBeat =>
        /\ state[s] = "SENDING_OK" /\ \A i \in 1 .. Len(inbox) : inbox[i].text = "OK"
        /\ turn = "listen" => age[s] \in 1 .. TIMEOUT
        /\ turn # "listen" => age[s] = 0 \/ (age[s] = 1 /\ gap[s] # 1)

KeepsPace(s) == alive[s] /\ Len(inbox) = Waiting(s) /\ Agreed(s) /\ InTime(s)
PaceInv == faults = 0 => \A s \in Servers : KeepsPace(s)

\* One server is on the list, its daemon starts as udp_lb_daemon does, and the
\* receive buffer has room for what comes while one datagram is handled.
Alone == (\A s, t \in Servers : s = t) /\ Daemon = "logic" /\ MaxInbox >= 2

LEMMA PaceStart == ASSUME Alone, Init PROVE PaceInv
<1> SUFFICES ASSUME NEW s \in Servers PROVE KeepsPace(s)
  BY DEF PaceInv
<1>1. /\ alive[s] /\ gap[s] = 1 /\ turn = "check" /\ inbox = <<>> /\ replies[s] = {}
      /\ state[s] = "SENDING_ADDRESS" /\ age[s] = NoBeat
  BY DEF Alone, Init, FirstStates
<1>2. Len(inbox) = 0
  BY <1>1
<1>3. Len(inbox) = Waiting(s)
  BY <1>1, <1>2 DEF Waiting
<1>4. Agreed(s) /\ InTime(s)
  BY <1>1, <1>2 DEF Agreed, InTime
<1> QED
  BY <1>1, <1>3, <1>4 DEF KeepsPace

\* What the inductive invariant says of the server that is alone.
LEMMA PaceTypes ==
    ASSUME TypeOK, NEW s \in Servers
    PROVE  /\ inbox \in Seq(Datagrams) /\ Len(inbox) \in Nat
           /\ gap[s] \in 0 .. 2 /\ age[s] \in -1 .. 3
           /\ turn \in {"check", "sleep", "listen"}
           /\ state[s] \in {"SENDING_ADDRESS", "SENDING_OK"}
  BY DEF TypeOK, MaxGap, NoBeat, MaxAge, TIMEOUT

LEMMA SendPace ==
    ASSUME Alone, TypeOK, NEW s \in Servers, KeepsPace(s), Send(s)
    PROVE  KeepsPace(s)'
<1>1. Len(inbox) < MaxInbox
  <2>1. gap[s] > 0 /\ Len(inbox) = Waiting(s) /\ MaxInbox >= 2 /\ MaxInbox \in Nat
    BY InboxAssumption DEF KeepsPace, Send, Alone
  <2> QED
    BY <2>1 DEF Waiting
<1>2. /\ inbox' = Append(inbox, Datagram(s)) /\ gap' = [gap EXCEPT ![s] = 0] /\ gap[s] > 0
      /\ UNCHANGED <<up, ident, age, turn, alive, state, replies>>
  BY <1>1 DEF Send, registry
<1>3. gap'[s] = 0
  BY <1>2 DEF TypeOK
<1>4. /\ Len(inbox') = Len(inbox) + 1
      /\ \A i \in 1 .. Len(inbox) : inbox'[i] = inbox[i]
      /\ inbox'[Len(inbox) + 1].text = "OK" <=> state[s] = "SENDING_OK"
  <2>1. Datagram(s) \in Datagrams
    BY DatagramType
  <2>2. Datagram(s).text = "OK" <=> state[s] = "SENDING_OK"
    BY DEF Datagram
  <2> QED
    BY <1>2, <2>1, <2>2, PaceTypes
<1>5. Len(inbox') = Waiting(s)'
  BY <1>2, <1>3, <1>4, PaceTypes DEF KeepsPace, Waiting
<1>6. Agreed(s)'
  BY <1>2, <1>4, PaceTypes DEF KeepsPace, Agreed
<1>7. InTime(s)'
  BY <1>2, <1>3, <1>4, PaceTypes DEF KeepsPace, InTime
<1> QED
  BY <1>2, <1>5, <1>6, <1>7 DEF KeepsPace

LEMMA ReceivePace ==
    ASSUME TypeOK, NEW s \in Servers, KeepsPace(s), Receive(s)
    PROVE  KeepsPace(s)'
<1>1. PICK m \in replies[s] :
         /\ replies' = [replies EXCEPT ![s] = @ \ {m}]
         /\ state' = [state EXCEPT ![s] = IF m = "OK" THEN "SENDING_OK" ELSE "SENDING_ADDRESS"]
  BY DEF Receive
<1>2. m = "OK" /\ ident[s]
  BY DEF KeepsPace, Agreed
<1>3. /\ state'[s] = "SENDING_OK" /\ replies'[s] \subseteq replies[s]
      /\ UNCHANGED <<up, ident, age, turn, inbox, alive, gap>>
  BY <1>1, <1>2 DEF TypeOK, Receive, registry
<1> QED
  BY <1>2, <1>3 DEF KeepsPace, Waiting, Agreed, InTime

LEMMA CheckPace ==
    ASSUME TypeOK, NEW s \in Servers, KeepsPace(s), CheckExpiry
    PROVE  KeepsPace(s)' /\ up'[s] = up[s]
<1>1. ~Expired(s)
  BY PaceTypes DEF KeepsPace, InTime, CheckExpiry, Expired, NoBeat, TIMEOUT
<1>2. up'[s] = up[s]
  BY <1>1 DEF CheckExpiry, TypeOK
<1>3. /\ turn = "check" /\ turn' = "sleep"
      /\ UNCHANGED <<ident, age, inbox, alive, state, gap, replies>>
  BY DEF CheckExpiry, daemons
<1> QED
  BY <1>2, <1>3 DEF KeepsPace, Waiting, Agreed, InTime

LEMMA WakePace ==
    ASSUME Alone, TypeOK, NEW s \in Servers, KeepsPace(s), Wake
    PROVE  KeepsPace(s)'
<1>1. /\ alive[s] /\ gap[s] < 2 /\ gap'[s] = gap[s] + 1 /\ age'[s] = Older(s)
      /\ turn = "sleep" /\ turn' = IF inbox = <<>> THEN "check" ELSE "listen"
      /\ UNCHANGED <<up, ident, inbox, alive, state, replies>>
  BY DEF Wake, KeepsPace, MaxGap
<1>2. Len(inbox) = IF gap[s] = 0 THEN 1 ELSE 0
  BY <1>1, PaceTypes DEF KeepsPace, Waiting
<1>3. turn' = IF gap[s] = 0 THEN "listen" ELSE "check"
  <2>1. inbox = <<>> <=> Len(inbox) = 0
    BY PaceTypes
  <2> QED
    BY <1>1, <1>2, <2>1
<1>4. Len(inbox') = Waiting(s)'
  BY <1>1, <1>2, <1>3, PaceTypes DEF Waiting
<1>5. Agreed(s)'
  BY <1>1 DEF KeepsPace, Agreed
<1>6. InTime(s)'
  BY <1>1, <1>3, PaceTypes DEF KeepsPace, InTime, Older, NoBeat, MaxAge, TIMEOUT
<1> QED
  BY <1>1, <1>4, <1>5, <1>6 DEF KeepsPace

LEMMA ListenPace ==
    ASSUME Alone, TypeOK, NEW s \in Servers, KeepsPace(s), Listen
    PROVE  KeepsPace(s)' /\ (up[s] => up'[s])
<1> DEFINE d == Head(inbox)
<1>1. /\ turn = "listen" /\ turn' = "check" /\ inbox' = Tail(inbox)
      /\ UNCHANGED <<alive, state, gap>>
      /\ (d.text = "OK" /\ HandleOk(d.from)) \/ (d.text = "ADDR" /\ HandleAddress(d.from))
  BY DEF Listen, daemons
<1>2. inbox # <<>> /\ d = inbox[1] /\ d \in Datagrams /\ d.from = s /\ 1 \in 1 .. Len(inbox)
  <2>1. inbox # <<>> /\ inbox \in Seq(Datagrams)
    BY <1>1 DEF TypeOK
  <2>2. d = inbox[1] /\ d \in Datagrams /\ 1 \in 1 .. Len(inbox)
    BY <2>1
  <2>3. d.from \in Servers
    BY <2>2 DEF Datagrams
  <2> QED
    BY <2>1, <2>2, <2>3 DEF Alone
<1> HIDE DEF d
<1>3. /\ Len(inbox') = Len(inbox) - 1 /\ Len(inbox) \in Nat
      /\ \A i \in 1 .. Len(inbox') : i + 1 \in 1 .. Len(inbox) /\ inbox'[i] = inbox[i + 1]
  BY <1>1, <1>2, PaceTypes
<1>4. Len(inbox') = Waiting(s)'
  BY <1>1, <1>3, PaceTypes DEF KeepsPace, Waiting
<1>5. \A i \in 1 .. Len(inbox') : inbox'[i].text = "OK" =>
         state[s] = "SENDING_OK" /\ \A j \in i .. Len(inbox') : inbox'[j].text = "OK"
  BY <1>3 DEF KeepsPace, Agreed
<1>6. CASE d.text = "OK"
  <2>1. ident[s] /\ state[s] = "SENDING_OK" /\ \A i \in 1 .. Len(inbox) : inbox[i].text = "OK"
    BY <1>2, <1>6 DEF KeepsPace, Agreed
  <2>2. /\ age'[s] = 0 /\ up'[s] = TRUE /\ ident'[s] = ident[s] /\ replies' = replies
    BY <1>1, <1>2, <1>6, <2>1 DEF HandleOk, TypeOK
  <2>3. Agreed(s)' /\ InTime(s)'
    BY <1>1, <1>3, <1>5, <2>1, <2>2 DEF KeepsPace, Agreed, InTime
  <2> QED
    BY <1>1, <1>4, <2>2, <2>3 DEF KeepsPace
<1>7. CASE d.text = "ADDR"
  <2>1. /\ ident'[s] = TRUE /\ (up[s] => up'[s]) /\ age' = age
        /\ replies'[s] \subseteq replies[s] \cup {"OK"}
    BY <1>1, <1>2, <1>7 DEF HandleAddress, TypeOK
  <2>2. age[s] = NoBeat
    BY <1>2, <1>7 DEF KeepsPace, InTime
  <2>3. Agreed(s)' /\ InTime(s)'
    BY <1>1, <1>5, <2>1, <2>2 DEF KeepsPace, Agreed, InTime
  <2> QED
    BY <1>1, <1>4, <2>1, <2>3 DEF KeepsPace
<1> QED
  BY <1>1, <1>6, <1>7

\* A step without a fault.
LEMMA StepPace ==
    ASSUME Alone, TypeOK, NEW s \in Servers, KeepsPace(s),
           \/ \E t \in Servers : Send(t) \/ Receive(t)
           \/ CheckExpiry \/ Wake \/ Listen
    PROVE  KeepsPace(s)' /\ (up[s] => up'[s])
<1>1. CASE \E t \in Servers : Send(t) \/ Receive(t)
  <2>1. Send(s) \/ Receive(s)
    BY <1>1 DEF Alone
  <2>2. up' = up
    BY <1>1 DEF Send, Receive, registry
  <2> QED
    BY <2>1, <2>2, SendPace, ReceivePace
<1>2. CASE Wake
  BY <1>2, WakePace DEF Wake
<1> QED
  BY <1>1, <1>2, CheckPace, ListenPace

LEMMA RestPace ==
    ASSUME PaceInv, UNCHANGED <<registry, turn, inbox, daemons, replies>>, faults' = faults
    PROVE  PaceInv' /\ UNCHANGED up
<1>1. UNCHANGED <<up, ident, age, turn, inbox, alive, state, gap, replies>>
  BY DEF registry, daemons
<1> QED
  BY <1>1 DEF PaceInv, KeepsPace, Waiting, Agreed, InTime

\* Alone on its list and without faults, a server that is up is never taken down,
\* whatever the phase between its daemon and the listener, in either load
\* balancer: a datagram that misses one cycle is there in the next.
THEOREM AloneStaysUp == ASSUME Alone PROVE Spec => LiveStaysUp
<1>1. Init => PaceInv
  BY PaceStart
<1>2. ASSUME TypeOK, TypeOK', PaceInv, [Next]_vars
      PROVE  PaceInv' /\ [\A s \in Servers : faults' = 0 /\ up[s] => up'[s]]_vars
  <2>1. CASE UNCHANGED vars
    BY <1>2, <2>1, RestPace DEF vars
  <2>2. CASE Fault
    <3>1. faults' # 0
      BY <1>2, <2>2 DEF Fault, TypeOK
    <3> QED
      BY <3>1 DEF PaceInv
  <2>3. CASE \/ \E t \in Servers : Send(t) \/ Receive(t)
             \/ CheckExpiry \/ Wake \/ Listen
    <3>1. faults' = faults
      BY <2>3 DEF Send, Receive, CheckExpiry, Wake, Listen
    <3> QED
      BY <1>2, <2>3, <3>1, StepPace DEF PaceInv
  <2> QED
    BY <1>2, <2>1, <2>2, <2>3 DEF Next
<1> QED
  BY <1>1, <1>2, TypeCorrect, PTL DEF Spec, LiveStaysUp

=============================================================================
