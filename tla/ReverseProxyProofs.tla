------------------------ MODULE ReverseProxyProofs ------------------------
(***************************************************************************)
(* What a load balancer's list guarantees to the connections that use it,  *)
(* for any number of servers, connections and faults: the invariants of    *)
(* Heartbeat survive the composition, a server that died is chosen for a   *)
(* bounded time only, and the servers that are up take turns.              *)
(***************************************************************************)
EXTENDS ReverseProxy, HeartbeatProofs, FiniteSetTheorems

-----------------------------------------------------------------------------
(* Each step of the composition is one of the list or leaves it alone. *)

\* The list, the buffer and the daemons are as they were.
ListRests == UNCHANGED <<registry, turn, inbox, daemons, replies>>

LEMMA ConnectionsRest ==
    ASSUME NEW c \in Conns,
           Accept(c) \/ GetAvailableBackend(c) \/ ConnectBackend(c) \/ CopyEnds(c)
    PROVE  UNCHANGED vars /\ UNCHANGED dead
  BY DEF Accept, GetAvailableBackend, ConnectBackend, CopyEnds

LEMMA FrontendRests == GetAvailableFrontend => UNCHANGED vars /\ UNCHANGED dead
  BY DEF GetAvailableFrontend

LEMMA RestKeeps ==
    ASSUME IInv, ListRests, faults' \in 0 .. MaxFaults
    PROVE  IInv'
<1>1. UNCHANGED <<up, ident, age, turn, inbox, alive, state, gap, replies>>
  BY DEF ListRests, registry, daemons
<1>2. TypeOK'
  BY <1>1 DEF IInv, TypeOK
<1> QED
  BY <1>1, <1>2, ListUnchanged DEF IInv, registry

LEMMA ListStepIsStep == ASSUME ListStep PROVE Next
  BY DEF ListStep, Next

LEMMA ProxyFaultIsFault ==
    ASSUME ProxyFault PROVE Fault \/ (ListRests /\ faults < MaxFaults /\ faults' = faults + 1)
<1>1. CASE ProxyRestart
  BY <1>1 DEF ProxyFault, ProxyRestart, Fault
<1>2. CASE ServerFault
  BY <1>2 DEF ProxyFault, ServerFault, Fault, StopServing, ListRests
<1> QED
  BY <1>1, <1>2 DEF ProxyFault

LEMMA ListInv == IInv /\ [ProxyNext]_proxyVars => IInv'
<1> SUFFICES ASSUME IInv, [ProxyNext]_proxyVars PROVE IInv'
  OBVIOUS
<1>1. CASE UNCHANGED vars
  <2>1. ListRests /\ faults' \in 0 .. MaxFaults
    BY <1>1 DEF vars, ListRests, IInv, TypeOK
  <2> QED
    BY <2>1, RestKeeps
<1>2. CASE ListStep
  BY <1>2, ListStepIsStep, SendInv, ReceiveInv, CheckExpiryInv, WakeInv, ListenInv DEF ListStep
<1>3. CASE ProxyFault
  <2>1. CASE Fault
    BY <2>1, FaultInv
  <2>2. CASE ListRests /\ faults < MaxFaults /\ faults' = faults + 1
    <3>1. faults' \in 0 .. MaxFaults
      BY <2>2, InboxAssumption DEF IInv, TypeOK
    <3> QED
      BY <2>2, <3>1, RestKeeps
  <2> QED
    BY <1>3, <2>1, <2>2, ProxyFaultIsFault
<1> QED
  BY <1>1, <1>2, <1>3, ConnectionsRest, FrontendRests DEF ProxyNext, proxyVars

LEMMA ListInvariance == ProxySpec => []IInv
<1>1. ProxyInit => IInv
  BY InitInv DEF ProxyInit
<1> QED
  BY <1>1, ListInv, PTL DEF ProxySpec

\* get_available_backend never finds a server that has not sent its address
\* pair to this run of the load balancer, whatever the connections do.
THEOREM ChosenIsIdentified == ProxySpec => []UpIsIdentified
<1>1. IInv => UpIsIdentified
  BY DEF IInv
<1> QED
  BY <1>1, ListInvariance, PTL

\* In either list of ReverseProxyLd it finds only servers with a heartbeat
\* within the timeout.
THEOREM ChosenIsFresh == ASSUME Mode = "ld" PROVE ProxySpec => []UpIsFresh
<1>1. IInv => UpIsFresh
  BY DEF IInv, Fresh, Oldest, UpIsFresh
<1> QED
  BY <1>1, ListInvariance, PTL

-----------------------------------------------------------------------------
(* How long a dead server is chosen. *)

\* A datagram of a dead server is handled after as many cycles as its place in
\* the receive buffer says, and no datagram is behind the buffer's end.
LastWords(s) ==
    \A k \in 1 .. Len(inbox) :
        inbox[k].from = s => dead[s] + k <= MaxInbox + (IF turn = "listen" THEN 1 ELSE 0)

\* So a heartbeat of a dead server that is still young was handled early.
LastBeat(s) == age[s] \in 0 .. TIMEOUT => dead[s] <= MaxInbox + age[s]

Counted(s) == IF alive[s] THEN dead[s] = 0 ELSE LastWords(s) /\ LastBeat(s)

DeadInv == dead \in [Servers -> Nat] /\ \A s \in Servers : Counted(s)

\* dead' counts a cycle when the expiry task's sleep is over.
LEMMA DeadCounts ==
    ASSUME DeadInv, NEW s \in Servers
    PROVE  /\ DeadFor(s) \in Nat
           /\ DeadFor(s) <= dead[s] + 1
           /\ alive'[s] => DeadFor(s) = 0
           /\ ~alive'[s] /\ (turn # "sleep" \/ turn' = "sleep") => DeadFor(s) = dead[s]
  BY DEF DeadInv, DeadFor

\* A server that is or was alive has no cycle counted, unless a sleep is over.
LEMMA CountStarts ==
    ASSUME TypeOK', DeadInv, NEW s \in Servers, alive[s] \/ alive'[s],
           turn' = turn, dead' = [t \in Servers |-> DeadFor(t)]
    PROVE  Counted(s)'
<1>1. DeadFor(s) = 0
  BY DEF DeadInv, Counted, DeadFor
<1>2. dead'[s] = 0
  BY <1>1
<1>3. Len(inbox') \in Nat /\ Len(inbox') <= MaxInbox /\ MaxInbox \in Nat
  BY InboxAssumption DEF TypeOK
<1> QED
  BY <1>2, <1>3 DEF Counted, LastWords, LastBeat, TIMEOUT

\* A dead server of which nothing has changed, or only an other's datagram has
\* come in behind its own.
LEMMA CountGoesOn ==
    ASSUME TypeOK, DeadInv, NEW s \in Servers, ~alive[s], ~alive'[s],
           turn' = turn \/ (turn = "check" /\ turn' = "sleep"),
           age' = age, dead' = [t \in Servers |-> DeadFor(t)],
           \A k \in 1 .. Len(inbox') :
              inbox'[k].from = s => k \in 1 .. Len(inbox) /\ inbox[k].from = s
    PROVE  Counted(s)'
<1>1. DeadFor(s) = dead[s]
  BY DeadCounts
<1>2. dead'[s] = dead[s] /\ dead[s] \in Nat
  BY <1>1 DEF DeadInv
<1>3. LastWords(s) /\ LastBeat(s)
  BY DEF DeadInv, Counted
<1>4. LastBeat(s)'
  BY <1>2, <1>3 DEF LastBeat
<1>5. LastWords(s)'
  BY <1>2, <1>3, InboxAssumption DEF LastWords
<1> QED
  BY <1>4, <1>5 DEF Counted

LEMMA SendCounted ==
    ASSUME TypeOK, TypeOK', DeadInv, NEW s \in Servers, NEW t \in Servers, Send(t),
           dead' = [u \in Servers |-> DeadFor(u)]
    PROVE  Counted(s)'
<1>1. alive' = alive /\ turn' = turn /\ age' = age
  BY DEF Send, registry
<1>2. CASE alive[s]
  BY <1>1, <1>2, CountStarts
<1>3. CASE ~alive[s]
  <2>1. t # s /\ Datagram(t).from = t
    BY <1>3 DEF Send, Datagram
  <2>2. inbox \in Seq(Datagrams) /\ (inbox' = inbox \/ inbox' = Append(inbox, Datagram(t)))
    BY DEF Send, TypeOK
  <2>3. \A k \in 1 .. Len(inbox') :
            inbox'[k].from = s => k \in 1 .. Len(inbox) /\ inbox[k].from = s
    BY <2>1, <2>2, DatagramType
  <2> QED
    BY <1>1, <1>3, <2>3, CountGoesOn
<1> QED
  BY <1>2, <1>3

LEMMA QuietCounted ==
    ASSUME TypeOK, TypeOK', DeadInv, NEW s \in Servers,
           UNCHANGED <<alive, age, inbox>>,
           turn' = turn \/ (turn = "check" /\ turn' = "sleep"),
           dead' = [u \in Servers |-> DeadFor(u)]
    PROVE  Counted(s)'
<1>1. CASE ~alive[s]
  BY <1>1, CountGoesOn
<1>2. CASE alive[s]
  BY <1>2 DEF DeadFor, Counted
<1> QED
  BY <1>1, <1>2

\* A sleep is over: a cycle more, and the listener's turn if there is a
\* datagram.
LEMMA WakeCounted ==
    ASSUME TypeOK, DeadInv, NEW s \in Servers, Wake,
           dead' = [u \in Servers |-> DeadFor(u)]
    PROVE  Counted(s)'
<1>1. CASE alive[s]
  BY <1>1 DEF Wake, DeadFor, Counted
<1>2. CASE ~alive[s]
  <2>1. /\ dead'[s] \in Nat /\ dead'[s] <= dead[s] + 1 /\ dead[s] \in Nat /\ MaxInbox \in Nat
    BY DeadCounts, InboxAssumption DEF DeadInv
  <2>2. LastWords(s) /\ LastBeat(s)
    BY <1>2 DEF DeadInv, Counted
  <2>3. inbox \in Seq(Datagrams) /\ inbox' = inbox /\ alive' = alive
        /\ turn = "sleep" /\ turn' = IF inbox = <<>> THEN "check" ELSE "listen"
    BY DEF TypeOK, Wake
  <2>4. LastWords(s)'
    BY <2>1, <2>2, <2>3 DEF LastWords
  <2>5. LastBeat(s)'
    <3>1. age'[s] = Older(s) /\ age[s] \in {NoBeat} \cup 0 .. MaxAge
      BY DEF Wake, TypeOK
    <3> QED
      BY <2>1, <2>2, <3>1 DEF LastBeat, Older, NoBeat, MaxAge, TIMEOUT
  <2> QED
    BY <1>2, <2>3, <2>4, <2>5 DEF Counted
<1> QED
  BY <1>1, <1>2

\* The first datagram is handled: it was sent long enough ago.
LEMMA ListenCounted ==
    ASSUME TypeOK, DeadInv, NEW s \in Servers, Listen,
           dead' = [u \in Servers |-> DeadFor(u)]
    PROVE  Counted(s)'
<1>1. /\ turn = "listen" /\ turn' = "check" /\ alive' = alive /\ inbox # <<>>
      /\ inbox \in Seq(Datagrams) /\ inbox' = Tail(inbox)
  BY DEF Listen, TypeOK, daemons
<1>2. CASE alive[s]
  BY <1>1, <1>2 DEF DeadFor, Counted
<1>3. CASE ~alive[s]
  <2>1. dead'[s] = dead[s] /\ dead[s] \in Nat /\ MaxInbox \in Nat
    BY <1>1, <1>3, DeadCounts, InboxAssumption DEF DeadInv
  <2>2. LastWords(s) /\ LastBeat(s)
    BY <1>3 DEF DeadInv, Counted
  <2>3. LastWords(s)'
    <3>1. \A k \in 1 .. Len(inbox') : k + 1 \in 1 .. Len(inbox) /\ inbox'[k] = inbox[k + 1]
      BY <1>1
    <3>2. \A k \in 1 .. Len(inbox') : inbox'[k].from = s => dead[s] + (k + 1) <= MaxInbox + 1
      BY <1>1, <2>2, <3>1 DEF LastWords
    <3> QED
      BY <1>1, <2>1, <3>2 DEF LastWords
  <2>4. LastBeat(s)'
    <3> DEFINE d == Head(inbox)
    <3>1. d = inbox[1] /\ 1 \in 1 .. Len(inbox) /\ d \in Datagrams
      BY <1>1
    <3>2. age'[s] = age[s] \/ (d.from = s /\ age'[s] = 0)
      <4>1. HandleOk(d.from) \/ HandleAddress(d.from)
        BY DEF Listen
      <4> HIDE DEF d
      <4>2. d.from \in Servers
        BY <3>1 DEF Datagrams
      <4> QED
        BY <4>1, <4>2 DEF HandleOk, HandleAddress, registry, TypeOK
    <3>3. d.from = s => dead[s] + 1 <= MaxInbox + 1
      BY <1>1, <2>2, <3>1 DEF LastWords
    <3> HIDE DEF d
    <3> QED
      BY <2>1, <2>2, <3>2, <3>3 DEF LastBeat, TIMEOUT
  <2> QED
    BY <1>1, <1>3, <2>3, <2>4 DEF Counted
<1> QED
  BY <1>2, <1>3

LEMMA FaultCounted ==
    ASSUME TypeOK, TypeOK', DeadInv, NEW s \in Servers, ProxyFault
    PROVE  Counted(s)'
<1>0. dead' = [u \in Servers |-> DeadFor(u)]
  BY DEF ProxyFault
<1>1. CASE ProxyRestart
  <2>1. inbox' = <<>> /\ age'[s] = NoBeat /\ alive' = alive
    BY <1>1 DEF ProxyRestart, RestartBalancer, daemons
  <2>2. alive[s] => dead'[s] = 0
    BY <1>0, <2>1 DEF DeadFor
  <2> QED
    BY <2>1, <2>2 DEF Counted, LastWords, LastBeat, NoBeat, TIMEOUT
<1>2. ASSUME NEW t \in Servers, LoseHeartbeat(t) \/ LoseReply(t) \/ StopServing(t)
      PROVE  Counted(s)'
  <2>1. UNCHANGED <<alive, age, inbox, turn>>
    BY <1>2 DEF LoseHeartbeat, LoseReply, StopServing, registry, daemons
  <2> QED
    BY <1>0, <2>1, QuietCounted
<1>3. ASSUME NEW t \in Servers, RepeatHeartbeat(t) PROVE Counted(s)'
  <2>1. alive' = alive /\ turn' = turn /\ age' = age
    BY <1>3 DEF RepeatHeartbeat, registry
  <2>2. CASE alive[s]
    BY <1>0, <2>1, <2>2, CountStarts
  <2>3. CASE ~alive[s]
    <3>1. t # s /\ Datagram(t).from = t
      BY <1>3, <2>3 DEF RepeatHeartbeat, Datagram
    <3>2. inbox \in Seq(Datagrams) /\ inbox' = inbox \o <<Datagram(t), Datagram(t)>>
      BY <1>3 DEF RepeatHeartbeat, TypeOK
    <3>3. \A k \in 1 .. Len(inbox') :
              inbox'[k].from = s => k \in 1 .. Len(inbox) /\ inbox[k].from = s
      BY <3>1, <3>2
    <3> QED
      BY <1>0, <2>1, <2>3, <3>3, CountGoesOn
  <2> QED
    BY <2>2, <2>3
<1>4. ASSUME NEW t \in Servers, Crash(t) \/ Restart(t) PROVE Counted(s)'
  <2>1. UNCHANGED <<age, inbox, turn>>
    BY <1>4 DEF Crash, Restart, registry
  <2>2. CASE alive[s] \/ alive'[s]
    BY <1>0, <2>1, <2>2, CountStarts
  <2>3. CASE ~alive[s] /\ ~alive'[s]
    BY <1>0, <2>1, <2>3, CountGoesOn
  <2> QED
    BY <2>2, <2>3
<1> QED
  BY <1>1, <1>2, <1>3, <1>4 DEF ProxyFault, ServerFault

LEMMA DeadStep ==
    ASSUME TypeOK, TypeOK', DeadInv, [ProxyNext]_proxyVars PROVE DeadInv'
<1>1. CASE UNCHANGED vars /\ UNCHANGED dead
  BY <1>1 DEF DeadInv, Counted, LastWords, LastBeat, vars, registry, daemons
<1>2. CASE ListStep
  <2>1. dead' = [u \in Servers |-> DeadFor(u)]
    BY <1>2 DEF ListStep
  <2>2. dead' \in [Servers -> Nat]
    BY <2>1, DeadCounts
  <2>3. ASSUME NEW s \in Servers PROVE Counted(s)'
    <3>1. ASSUME NEW t \in Servers, Send(t) PROVE Counted(s)'
      BY <2>1, <3>1, SendCounted
    <3>2. ASSUME NEW t \in Servers, Receive(t) PROVE Counted(s)'
      BY <2>1, <3>2, QuietCounted DEF Receive, registry
    <3>3. CASE CheckExpiry
      BY <2>1, <3>3, QuietCounted DEF CheckExpiry, daemons
    <3> QED
      BY <1>2, <2>1, <3>1, <3>2, <3>3, WakeCounted, ListenCounted DEF ListStep
  <2> QED
    BY <2>2, <2>3 DEF DeadInv
<1>3. CASE ProxyFault
  <2>1. dead' \in [Servers -> Nat]
    BY <1>3, DeadCounts DEF ProxyFault
  <2> QED
    BY <1>3, <2>1, FaultCounted DEF DeadInv
<1> QED
  BY <1>1, <1>2, <1>3, ConnectionsRest, FrontendRests DEF ProxyNext, proxyVars

\* In either list of ReverseProxyLd get_available_backend stops choosing a
\* server that died when its last datagrams and the timeout are over, however
\* many servers send into the receive buffer and whatever is lost, repeated or
\* restarted meanwhile.
THEOREM DeadIsLeftOut == ASSUME Mode = "ld" PROVE ProxySpec => []DeadNotChosen
<1>1. ProxyInit => DeadInv
  BY DEF ProxyInit, Init, DeadInv, Counted
<1>2. IInv => TypeOK
  BY DEF IInv
<1>3. TypeOK /\ TypeOK' /\ DeadInv /\ [ProxyNext]_proxyVars => DeadInv'
  BY DeadStep
<1>4. IInv /\ DeadInv => DeadNotChosen
  <2> SUFFICES ASSUME IInv, DeadInv, Unlocked, NEW s \in Servers, up[s]
               PROVE  dead[s] <= DeadLimit
    BY DEF DeadNotChosen
  <2>1. age[s] \in 0 .. TIMEOUT /\ dead[s] \in Nat
    BY DEF Unlocked, IInv, Fresh, Oldest, DeadInv
  <2>2. dead[s] = 0 \/ dead[s] <= MaxInbox + age[s]
    BY <2>1 DEF DeadInv, Counted, LastBeat
  <2> QED
    BY <2>1, <2>2, InboxAssumption DEF DeadLimit, TIMEOUT
<1> QED
  BY <1>1, <1>2, <1>3, <1>4, ListInvariance, PTL DEF ProxySpec

-----------------------------------------------------------------------------
(* The type invariant of the composition. *)

LEMMA ConnectionTypes ==
    ASSUME ProxyTypeOK, NEW c \in Conns,
           Accept(c) \/ GetAvailableBackend(c) \/ ConnectBackend(c) \/ CopyEnds(c)
    PROVE  ProxyTypeOK'
<1>1. TypeOK'
  BY ConnectionsRest DEF ProxyTypeOK, TypeOK, vars, registry, daemons
<1>2. UNCHANGED <<reversed, serving, dead>>
  BY DEF Accept, GetAvailableBackend, ConnectBackend, CopyEnds
<1>3. CASE Accept(c)
  BY <1>1, <1>2, <1>3 DEF ProxyTypeOK, Accept, Goto, Stages
<1>4. CASE GetAvailableBackend(c) /\ Choose(c)
  <2>1. PICK s \in Servers :
           /\ Goto(c, "waiting", "connecting")
           /\ dest' = [dest EXCEPT ![c] = s]
           /\ log' = Append(log, [srv |-> s, ups |-> available])
    BY <1>4 DEF Choose, Take, available
  <2>2. log' \in Seq([srv: Servers, ups: SUBSET Servers])
    BY <2>1 DEF ProxyTypeOK, available
  <2>3. task' \in [Conns -> Stages] /\ dest' \in [Conns -> Servers \cup {None}]
    BY <2>1 DEF ProxyTypeOK, Goto, Stages
  <2>4. \A d \in Conns : task'[d] = "connecting" => dest'[d] \in Servers
    BY <2>1 DEF ProxyTypeOK, Goto
  <2> QED
    BY <1>1, <1>2, <1>4, <2>2, <2>3, <2>4 DEF ProxyTypeOK, Choose
<1>5. CASE GetAvailableBackend(c) /\ ~Choose(c)
  BY <1>1, <1>2, <1>5 DEF ProxyTypeOK, GetAvailableBackend, Goto, Stages
<1>6. CASE ConnectBackend(c)
  <2>1. /\ task' \in [Conns -> Stages] /\ task'[c] # "connecting"
        /\ \A d \in Conns \ {c} : task'[d] = task[d]
        /\ dest' = [dest EXCEPT ![c] = None]
    BY <1>6 DEF ProxyTypeOK, ConnectBackend, Goto, Stages
  <2> QED
    BY <1>1, <1>2, <1>6, <2>1 DEF ProxyTypeOK, ConnectBackend
<1>7. CASE CopyEnds(c)
  BY <1>1, <1>2, <1>7 DEF ProxyTypeOK, CopyEnds, Goto, Stages
<1> QED
  BY <1>3, <1>4, <1>5, <1>6, <1>7

LEMMA DeadForType ==
    ASSUME ProxyTypeOK, NEW s \in Servers
    PROVE  DeadFor(s) \in 0 .. MaxDead
BY InboxAssumption DEF ProxyTypeOK, DeadFor, MaxDead, DeadLimit, TIMEOUT

LEMMA TypesStep == ProxyTypeOK /\ TypeOK' /\ [ProxyNext]_proxyVars => ProxyTypeOK'
<1> SUFFICES ASSUME ProxyTypeOK, TypeOK', [ProxyNext]_proxyVars PROVE ProxyTypeOK'
  OBVIOUS
<1>1. ASSUME dead' = [s \in Servers |-> DeadFor(s)] PROVE dead' \in [Servers -> 0 .. MaxDead]
  BY <1>1, DeadForType
<1>2. CASE GetAvailableFrontend
  BY <1>2, ProxyAssumption DEF GetAvailableFrontend, ProxyTypeOK
<1>3. CASE ListStep
  BY <1>1, <1>3 DEF ListStep, tasks, ProxyTypeOK
<1>4. CASE ProxyFault
  <2>1. dead' \in [Servers -> 0 .. MaxDead]
    BY <1>1, <1>4 DEF ProxyFault
  <2>2. CASE ServerFault
    <3>1. UNCHANGED tasks /\ serving' \in [Servers -> BOOLEAN]
      BY <2>2 DEF ServerFault, StopServing, ProxyTypeOK
    <3> QED
      BY <2>1, <3>1 DEF tasks, ProxyTypeOK
  <2>3. CASE ProxyRestart
    <3>1. /\ task' \in [Conns -> Stages] /\ \A c \in Conns : task'[c] # "connecting"
          /\ dest' \in [Conns -> Servers \cup {None}]
      BY <2>3 DEF ProxyRestart, Stages
    <3> QED
      BY <2>1, <2>3, <3>1 DEF ProxyRestart, ProxyTypeOK
  <2> QED
    BY <1>4, <2>2, <2>3 DEF ProxyFault
<1>5. CASE UNCHANGED proxyVars
  BY <1>5 DEF proxyVars, tasks, ProxyTypeOK
<1> QED
  BY <1>2, <1>3, <1>4, <1>5, ConnectionTypes DEF ProxyNext

\* A task that connects has a server to connect to, next_index counts up from 0,
\* and the history counters keep their bounds.
THEOREM ProxyTypeCorrect == ProxySpec => []ProxyTypeOK
<1>1. ProxyInit => ProxyTypeOK
  <2> SUFFICES ASSUME ProxyInit PROVE ProxyTypeOK
    OBVIOUS
  <2>1. TypeOK
    BY InitInv DEF ProxyInit, IInv
  <2>2. MaxDead \in Nat
    BY InboxAssumption DEF MaxDead, DeadLimit, TIMEOUT
  <2> QED
    BY <2>1, <2>2, ProxyAssumption DEF ProxyInit, ProxyTypeOK, Stages
<1>2. IInv => TypeOK
  BY DEF IInv
<1> QED
  BY <1>1, <1>2, TypesStep, ListInvariance, PTL DEF ProxySpec

-----------------------------------------------------------------------------
(* The turns of get_available_backend. *)

\* Two numbers with the same remainder are equal or at least n apart.
LEMMA SameRemainder ==
    ASSUME NEW n \in Nat \ {0}, NEW a \in Nat, NEW b \in Nat, a < b, b - a < n
    PROVE  a % n # b % n
<1> DEFINE p == a \div n
           q == b \div n
<1>1. /\ p \in Int /\ q \in Int
      /\ a = n * p + (a % n) /\ b = n * q + (b % n)
      /\ a % n \in 0 .. n - 1 /\ b % n \in 0 .. n - 1
  OBVIOUS
<1>2. SUFFICES ASSUME a % n = b % n PROVE FALSE
  OBVIOUS
<1>3. b - a = n * q - n * p
  BY <1>1, <1>2
<1> HIDE DEF p, q
<1>4. n * q - n * p = n * (q - p)
  BY <1>1
<1>5. CASE q <= p
  BY <1>1, <1>3, <1>4, <1>5
<1>6. CASE q > p
  <2>1. q - p \in Nat /\ q - p >= 1
    BY <1>1, <1>6
  <2>2. n * (q - p) >= n
    BY <2>1
  <2> QED
    BY <1>3, <1>4, <2>2
<1> QED
  BY <1>1, <1>5, <1>6

LEMMA ServersFinite == IsFiniteSet(Servers)
<1> DEFINE f == [k \in 1 .. Len(Order) |-> Order[k]]
<1>1. Len(Order) \in Nat
  BY OrderAssumption
<1>2. f \in Surjection(1 .. Len(Order), Servers)
  BY <1>1, OrderAssumption DEF Surjection
<1>3. IsFiniteSet(1 .. Len(Order))
  BY <1>1, FS_Interval
<1> QED
  BY <1>2, <1>3, FS_Surjection

\* A server's place in the list is its own.
LEMMA Places ==
    ASSUME NEW s \in Servers
    PROVE  Position(s) \in Nat /\ Order[Position(s)] = s
<1>1. \E k \in DOMAIN Order : Order[k] = s
  BY OrderAssumption
<1>2. Position(s) \in DOMAIN Order /\ Order[Position(s)] = s
  BY <1>1 DEF Position
<1> QED
  BY <1>2, OrderAssumption

\* The vector of the servers that are up has exactly one element at every index
\* below its length: available[index] is always there, and Take says which.
LEMMA OneAtEachIndex ==
    ASSUME NEW S \in SUBSET Servers, NEW index \in 0 .. Cardinality(S) - 1
    PROVE  /\ \E s \in S : Cardinality(Ahead(s, S)) = index
           /\ \A s, t \in S : Cardinality(Ahead(s, S)) = Cardinality(Ahead(t, S)) => s = t
<1> DEFINE n == Cardinality(S)
           f == [s \in S |-> Cardinality(Ahead(s, S))]
<1>1. IsFiniteSet(S) /\ n \in Nat
  BY ServersFinite, FS_Subset, FS_CardinalityType
<1>2. ASSUME NEW s \in S
      PROVE  /\ IsFiniteSet(Ahead(s, S)) /\ Cardinality(Ahead(s, S)) \in Nat
             /\ Cardinality(Ahead(s, S)) < n
  <2>1. Position(s) \in Nat
    BY Places
  <2>2. Ahead(s, S) \in SUBSET S /\ s \notin Ahead(s, S)
    BY <2>1 DEF Ahead
  <2>3. /\ IsFiniteSet(Ahead(s, S)) /\ Cardinality(Ahead(s, S)) \in Nat
        /\ Cardinality(Ahead(s, S)) <= n
        /\ Cardinality(Ahead(s, S)) # n
    BY <1>1, <2>2, FS_Subset, FS_CardinalityType
  <2> QED
    BY <1>1, <2>3
<1>3. ASSUME NEW s \in S, NEW t \in S, Position(s) < Position(t)
      PROVE  Cardinality(Ahead(s, S)) # Cardinality(Ahead(t, S))
  <2>1. Position(s) \in Nat /\ Position(t) \in Nat /\ \A u \in S : Position(u) \in Nat
    BY Places
  <2>2. Ahead(s, S) \in SUBSET Ahead(t, S) /\ s \in Ahead(t, S) /\ s \notin Ahead(s, S)
    BY <1>3, <2>1 DEF Ahead
  <2> QED
    BY <1>2, <2>2, FS_Subset
<1>4. \A s, t \in S : Cardinality(Ahead(s, S)) = Cardinality(Ahead(t, S)) => s = t
  <2> SUFFICES ASSUME NEW s \in S, NEW t \in S, s # t
               PROVE  Cardinality(Ahead(s, S)) # Cardinality(Ahead(t, S))
    OBVIOUS
  <2>1. Position(s) \in Nat /\ Position(t) \in Nat /\ Position(s) # Position(t)
    BY Places
  <2> QED
    BY <1>3, <2>1
<1>5. f \in Injection(S, 0 .. n - 1)
  <2>1. \A s \in S : f[s] \in 0 .. n - 1
    BY <1>1, <1>2
  <2> QED
    BY <1>4, <2>1 DEF Injection, IsInjective
<1>6. IsFiniteSet(0 .. n - 1) /\ Cardinality(0 .. n - 1) = n
  BY <1>1, FS_Interval
<1>7. f \in Surjection(S, 0 .. n - 1)
  BY <1>5, <1>6, FS_Injection
<1> QED
  BY <1>4, <1>7 DEF Surjection

\* A choice was the turn of the server chosen, and the choices were counted.
TurnInv ==
    reversed = 0 =>
        /\ next_index = Len(log)
        /\ \A i \in 1 .. Len(log) :
              Cardinality(Ahead(log[i].srv, log[i].ups)) = (i - 1) % Cardinality(log[i].ups)

LEMMA TurnStep == ProxyTypeOK /\ TurnInv /\ [ProxyNext]_proxyVars => TurnInv'
<1> SUFFICES ASSUME ProxyTypeOK, TurnInv, [ProxyNext]_proxyVars PROVE TurnInv'
  OBVIOUS
<1>1. CASE UNCHANGED <<reversed, next_index, log>>
  BY <1>1 DEF TurnInv
<1>2. ASSUME NEW c \in Conns, GetAvailableBackend(c), Choose(c) PROVE TurnInv'
  <2>1. PICK s \in available :
           /\ Cardinality(Ahead(s, available)) = next_index % Cardinality(available)
           /\ log' = Append(log, [srv |-> s, ups |-> available])
    BY <1>2 DEF Choose, Take
  <2>2. SUFFICES ASSUME reversed = 0
                 PROVE  /\ next_index' = Len(log')
                        /\ \A i \in 1 .. Len(log') :
                             Cardinality(Ahead(log'[i].srv, log'[i].ups))
                               = (i - 1) % Cardinality(log'[i].ups)
    BY <1>2 DEF TurnInv, GetAvailableBackend
  <2>3. /\ Len(log) \in Nat /\ Len(log') = Len(log) + 1
        /\ \A i \in 1 .. Len(log) : log'[i] = log[i]
        /\ log'[Len(log')] = [srv |-> s, ups |-> available]
    BY <2>1 DEF ProxyTypeOK
  <2>4. next_index' = Len(log')
    BY <1>2, <2>2, <2>3 DEF Choose, TurnInv
  <2>5. ASSUME NEW i \in 1 .. Len(log')
        PROVE  Cardinality(Ahead(log'[i].srv, log'[i].ups))
                 = (i - 1) % Cardinality(log'[i].ups)
    <3>1. CASE i \in 1 .. Len(log)
      BY <2>2, <2>3, <3>1 DEF TurnInv
    <3>2. CASE i = Len(log')
      <4>1. i - 1 = next_index /\ log'[i].srv = s /\ log'[i].ups = available
        BY <2>2, <2>3, <3>2 DEF TurnInv
      <4> QED
        BY <2>1, <4>1
    <3> QED
      BY <2>3, <3>1, <3>2
  <2> QED
    BY <2>4, <2>5
<1>3. ASSUME NEW c \in Conns,
             \/ Accept(c) \/ ConnectBackend(c) \/ CopyEnds(c)
             \/ GetAvailableBackend(c) /\ ~Choose(c)
      PROVE  UNCHANGED <<reversed, next_index, log>>
  BY <1>3 DEF Accept, GetAvailableBackend, ConnectBackend, CopyEnds
<1>4. CASE GetAvailableFrontend
  BY <1>4 DEF GetAvailableFrontend, TurnInv, ProxyTypeOK
<1>5. CASE ListStep
  BY <1>1, <1>5 DEF ListStep, tasks
<1>6. CASE ProxyFault
  <2>1. CASE ServerFault
    BY <1>1, <2>1 DEF ServerFault, StopServing, tasks
  <2>2. CASE ProxyRestart
    BY <2>2 DEF ProxyRestart, TurnInv
  <2> QED
    BY <1>6, <2>1, <2>2 DEF ProxyFault
<1>7. CASE UNCHANGED proxyVars
  BY <1>1, <1>7 DEF proxyVars, tasks
<1> QED
  BY <1>1, <1>2, <1>3, <1>4, <1>5, <1>6, <1>7 DEF ProxyNext

\* Connections that find the same servers up go to different ones until each has
\* had its turn, for any number of servers and of tasks that race for
\* next_index.
THEOREM TurnsAreFair == ProxySpec => []RoundRobin
<1>1. ProxyInit => TurnInv
  BY DEF ProxyInit, TurnInv
<1>2. ProxyTypeOK /\ TurnInv => RoundRobin
  <2> SUFFICES ASSUME ProxyTypeOK, TurnInv, reversed = 0,
                      NEW i \in 1 .. Len(log), NEW j \in 1 .. Len(log),
                      i < j, j - i < Cardinality(log[i].ups),
                      log[i].ups = log[j].ups, log[i].srv = log[j].srv
               PROVE  FALSE
    BY DEF RoundRobin
  <2> DEFINE n == Cardinality(log[i].ups)
  <2>1. log[i].ups \in SUBSET Servers
    <3> DEFINE R == [srv: Servers, ups: SUBSET Servers]
    <3>1. log \in Seq(R)
      BY DEF ProxyTypeOK
    <3> HIDE DEF R
    <3>2. log[i] \in R
      BY <3>1
    <3> QED
      BY <3>2 DEF R
  <2>2. n \in Nat
    BY <2>1, ServersFinite, FS_Subset, FS_CardinalityType
  <2>3. i - 1 \in Nat /\ j - 1 \in Nat
    BY DEF ProxyTypeOK
  <2>4. (i - 1) % n = (j - 1) % n
    BY DEF TurnInv
  <2> HIDE DEF n
  <2>5. n # 0 /\ i - 1 < j - 1 /\ (j - 1) - (i - 1) < n
    BY <2>2, <2>3 DEF n
  <2> QED
    BY <2>2, <2>3, <2>4, <2>5, SameRemainder
<1> QED
  BY <1>1, <1>2, TurnStep, ProxyTypeCorrect, PTL DEF ProxySpec

\* The connections do not get in the way: with them at work, a server that is
\* alone on its list and up stays up as long as nothing goes wrong.
THEOREM AloneStaysUpForConnections == ASSUME Alone PROVE ProxySpec => LiveStaysUp
<1>1. ProxyInit => PaceInv
  BY PaceStart DEF ProxyInit
<1>2. IInv => TypeOK
  BY DEF IInv
<1>3. ASSUME TypeOK, TypeOK', PaceInv, [ProxyNext]_proxyVars
      PROVE  PaceInv' /\ [\A s \in Servers : faults' = 0 /\ up[s] => up'[s]]_vars
  <2>1. CASE UNCHANGED vars
    BY <1>3, <2>1, RestPace DEF vars
  <2>2. CASE ProxyFault
    <3>1. faults' # 0
      BY <1>3, <2>2 DEF ProxyFault, TypeOK
    <3> QED
      BY <3>1 DEF PaceInv
  <2>3. CASE ListStep
    <3>1. \/ \E t \in Servers : Send(t) \/ Receive(t)
          \/ CheckExpiry \/ Wake \/ Listen
      BY <2>3 DEF ListStep
    <3>2. faults' = faults
      BY <3>1 DEF Send, Receive, CheckExpiry, Wake, Listen
    <3> QED
      BY <1>3, <3>1, <3>2, StepPace DEF PaceInv
  <2> QED
    BY <1>3, <2>1, <2>2, <2>3, ConnectionsRest, FrontendRests DEF ProxyNext, proxyVars
<1> QED
  BY <1>1, <1>2, <1>3, ListInvariance, PTL DEF ProxySpec, LiveStaysUp

=============================================================================
