---------------------------- MODULE ReverseProxy ----------------------------
(***************************************************************************)
(* The forwarding side of a load balancer (load_balancer/src/proxy.rs) on  *)
(* top of Heartbeat, which is its list of servers: run of ReverseProxyFl,  *)
(* and the task of ReverseProxyLd that accepts logic servers.              *)
(*                                                                         *)
(* Each accepted connection is a task.  It waits for the Mutex of the list,*)
(* takes the next server that is up, drops the guard, connects and copies  *)
(* bytes until one side closes.  The server was up when it was taken; by   *)
(* the time of the connect it may be gone.                                 *)
(***************************************************************************)
EXTENDS Heartbeat, FiniteSets

CONSTANTS
    Order,       \* the servers in the order of the configuration file
    Conns,       \* connections that may be accepted, each once
    MaxReverse,  \* connections of data servers that get_available_frontend serves
    None

ASSUME OrderAssumption ==
    /\ Order \in Seq(Servers)
    /\ Servers = {Order[k] : k \in 1 .. Len(Order)}
    /\ \A j, k \in 1 .. Len(Order) : Order[j] = Order[k] => j = k
ASSUME ProxyAssumption == MaxReverse \in Nat /\ None \notin Servers

VARIABLES
    task,        \* where the task of a connection is
    dest,        \* the server it has taken, until it has connected
    next_index,
    reversed,    \* connections of data servers so far
    serving,     \* the server's TCP process runs
    dead,        \* history: cycles since the daemon died, at most MaxDead
    log          \* history: each choice, with the servers that were up

tasks     == <<task, dest, next_index, reversed, log>>
proxyVars == <<vars, tasks, serving, dead>>

\* A server that died has not been heard for TIMEOUT cycles once the datagrams
\* it had sent, a receive buffer full at most, are handled, one per cycle.
DeadLimit == MaxInbox + TIMEOUT
MaxDead   == DeadLimit + 1

ProxyInit ==
    /\ Init
    /\ task       = [c \in Conns |-> "none"]
    /\ dest       = [c \in Conns |-> None]
    /\ next_index = 0
    /\ reversed   = 0
    /\ serving    = [s \in Servers |-> TRUE]
    /\ dead       = [s \in Servers |-> 0]
    /\ log        = <<>>

-----------------------------------------------------------------------------
(* The tasks of the connections. *)

Goto(c, from, to) == task[c] = from /\ task' = [task EXCEPT ![c] = to]

\* accept, and the task asks for the guard of the list.
Accept(c) ==
    /\ Goto(c, "none", "waiting")
    /\ UNCHANGED <<vars, dest, next_index, reversed, serving, dead, log>>

\* The guard can be had: check_heartbeat_expiry does not sleep with it.
Unlocked == turn # "sleep"

\* The servers to choose from, as a vector in the order of the list: element i
\* is the server that has i others of them ahead of it.
available == {s \in Servers : up[s]}
Position(s) == CHOOSE k \in DOMAIN Order : Order[k] = s
Ahead(s, S) == {t \in S : Position(t) < Position(s)}

\* Connection c goes to element number index.
Take(c, index) ==
    \E s \in available :
        /\ Cardinality(Ahead(s, available)) = index
        /\ Goto(c, "waiting", "connecting")
        /\ dest' = [dest EXCEPT ![c] = s]
        /\ log' = Append(log, [srv |-> s, ups |-> available])

\* Mutant: the index is read and not advanced.
Choose_Stuck(c) ==
    /\ Take(c, next_index % Cardinality(available))
    /\ UNCHANGED next_index

\* get_available_backend finds a server; fetch_add is atomic.
Choose(c) ==
    /\ Take(c, next_index % Cardinality(available))
    /\ next_index' = next_index + 1

\* get_available_backend; without a server the client gets a 503.
GetAvailableBackend(c) ==
    /\ Unlocked
    /\ \/ available # {} /\ Choose(c)
       \/ /\ available = {}
          /\ Goto(c, "waiting", "closed")
          /\ UNCHANGED <<dest, next_index, log>>
    /\ UNCHANGED <<vars, reversed, serving, dead>>

\* TcpStream::connect; a server that does not listen gives a 503, although
\* another one may be up.
ConnectBackend(c) ==
    /\ \/ Goto(c, "connecting", "copying") /\ serving[dest[c]]
       \/ Goto(c, "connecting", "closed") /\ ~serving[dest[c]]
    /\ dest' = [dest EXCEPT ![c] = None]
    /\ UNCHANGED <<vars, next_index, reversed, serving, dead, log>>

\* copy_bidirectional ends: one side has closed, or has failed.
CopyEnds(c) ==
    /\ Goto(c, "copying", "closed")
    /\ UNCHANGED <<vars, dest, next_index, reversed, serving, dead, log>>

\* ReverseProxyLd: a connection of a data server takes a logic server from the
\* other list, with the same next_index; both lists are locked during the sleep.
GetAvailableFrontend ==
    /\ Unlocked
    /\ reversed < MaxReverse
    /\ reversed' = reversed + 1
    /\ next_index' = next_index + 1
    /\ UNCHANGED <<vars, task, dest, serving, dead, log>>

-----------------------------------------------------------------------------
(* The list of servers goes on. *)

\* Mutant: the Mutex is not fair, the expiry task takes it again at once.
Queued_Unfair == FALSE

\* The Mutex is fair: who waits when the expiry task drops its guard is served
\* before it gets it again.
Queued == \E c \in Conns : task[c] = "waiting"

DeadFor(s) ==
    IF alive'[s] THEN 0
    ELSE IF turn = "sleep" /\ turn' # "sleep" /\ dead[s] < MaxDead THEN dead[s] + 1
    ELSE dead[s]

\* A step of Heartbeat that leaves the connections alone.
ListStep ==
    /\ \/ \E s \in Servers : Send(s) \/ Receive(s)
       \/ CheckExpiry /\ ~Queued
       \/ Wake
       \/ Listen
    /\ dead' = [s \in Servers |-> DeadFor(s)]
    /\ UNCHANGED <<tasks, serving>>

\* The daemon is a process of its own: a server may lose its TCP side and go on
\* sending heartbeats.
StopServing(s) ==
    /\ serving[s]
    /\ serving' = [serving EXCEPT ![s] = FALSE]
    /\ UNCHANGED <<registry, turn, inbox, daemons, replies, tasks>>

ServerFault ==
    \E s \in Servers :
       \/ /\ LoseHeartbeat(s) \/ RepeatHeartbeat(s) \/ LoseReply(s)
          /\ UNCHANGED <<tasks, serving>>
       \/ /\ Crash(s)
          /\ serving' = [serving EXCEPT ![s] = FALSE]
          /\ UNCHANGED tasks
       \/ /\ Restart(s)
          /\ serving' = [serving EXCEPT ![s] = TRUE]
          /\ UNCHANGED tasks
       \/ StopServing(s)

\* The tasks and next_index go with the load balancer.
ProxyRestart ==
    /\ RestartBalancer
    /\ task' = [c \in Conns |-> IF task[c] = "none" THEN "none" ELSE "closed"]
    /\ next_index' = 0
    /\ dest' = [c \in Conns |-> None]
    /\ log' = <<>>
    /\ UNCHANGED <<reversed, serving>>

ProxyFault ==
    /\ faults < MaxFaults
    /\ faults' = faults + 1
    /\ ServerFault \/ ProxyRestart
    /\ dead' = [s \in Servers |-> DeadFor(s)]

ProxyNext ==
    \/ \E c \in Conns : \/ Accept(c) \/ GetAvailableBackend(c)
                        \/ ConnectBackend(c) \/ CopyEnds(c)
    \/ GetAvailableFrontend
    \/ ListStep
    \/ ProxyFault

ProxySpec == ProxyInit /\ [][ProxyNext]_proxyVars

\* Tasks and daemons are scheduled, and a connect comes to an end.
ProxyFairSpec ==
    /\ ProxySpec
    /\ \A s \in Servers :
          /\ WF_proxyVars(ListStep /\ Send(s))
          /\ WF_proxyVars(ListStep /\ Receive(s))
    /\ WF_proxyVars(ListStep /\ CheckExpiry)
    /\ WF_proxyVars(ListStep /\ Wake)
    /\ WF_proxyVars(ListStep /\ Listen)
    /\ \A c \in Conns :
          /\ WF_proxyVars(GetAvailableBackend(c))
          /\ WF_proxyVars(ConnectBackend(c))

-----------------------------------------------------------------------------
(* Properties. *)

Stages == {"none", "waiting", "connecting", "copying", "closed"}

ProxyTypeOK ==
    /\ TypeOK
    /\ task \in [Conns -> Stages]
    /\ dest \in [Conns -> Servers \cup {None}]
    /\ \A c \in Conns : task[c] = "connecting" => dest[c] \in Servers
    /\ next_index \in Nat
    /\ reversed \in 0 .. MaxReverse
    /\ serving \in [Servers -> BOOLEAN]
    /\ dead \in [Servers -> 0 .. MaxDead]
    /\ log \in Seq([srv: Servers, ups: SUBSET Servers])

\* A server whose daemon died can be taken by get_available_backend for
\* DeadLimit cycles and never after: its datagrams that still wait in the
\* receive buffer count as heartbeats when they are handled at last, one per
\* second, and keep it up.
DeadNotChosen ==
    Unlocked => \A s \in Servers : up[s] => dead[s] <= DeadLimit

\* Connections that find the same n servers up go to n different ones in turn,
\* however many tasks race for next_index and whatever went up and down in
\* between, as long as no data server's connection advances next_index.
RoundRobin ==
    reversed = 0 =>
        \A i, j \in 1 .. Len(log) :
            /\ i < j /\ j - i < Cardinality(log[i].ups)
            /\ log[i].ups = log[j].ups
            => log[i].srv # log[j].srv

\* A connection that was accepted is forwarded or answered with a 503, or the
\* load balancer has restarted: the sleep of check_heartbeat_expiry delays it
\* and cannot starve it.
EveryConnectionServed ==
    \A c \in Conns : task[c] = "waiting" ~> task[c] \in {"copying", "closed"}

=============================================================================
