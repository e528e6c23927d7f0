----------------------------- MODULE Heartbeat -----------------------------
(***************************************************************************)
(* One list of servers of a load balancer (load_balancer/src/proxy.rs) and *)
(* the heartbeat daemons of the servers on it: udp_lb_daemon of            *)
(* logic_server/udp_lb_daemon.c, udp_daemon of                             *)
(* data_server/heartbeat_manager.c.                                        *)
(*                                                                         *)
(* Each daemon sends a datagram about once a second: its address pair until*)
(* the load balancer says OK, then OK until it says AUTH.  Two tasks of the*)
(* load balancer share the list under a tokio Mutex, which is given out    *)
(* first come, first served.  check_heartbeat_expiry keeps its guard while *)
(* it sleeps for a second; so the two tasks alternate, and the listener    *)
(* handles at most one datagram per second.  turn is the place in that     *)
(* cycle.  The cycle is also the model's clock.                            *)
(***************************************************************************)
EXTENDS Integers, Sequences

CONSTANTS
    Servers,    \* the servers of the load balancer's configuration file
    Mode,       \* "fl": ReverseProxyFl, "ld": one list of ReverseProxyLd
    Daemon,     \* "logic": udp_lb_daemon, "data": udp_daemon
    MaxInbox,   \* datagrams the socket's receive buffer holds; more are dropped
    MaxFaults   \* losses, crashes and restarts in a behaviour

TIMEOUT == 2

\* The longest a running daemon stays silent, in cycles: it sleeps (or polls)
\* for a second and then works, so that it may miss one cycle and never two.
MaxGap == 2

\* last_heartbeat is None.
NoBeat == -1

\* Ages are told apart up to here, which is past the timeout.
MaxAge == TIMEOUT + 1

ASSUME ModeAssumption == Mode \in {"fl", "ld"} /\ Daemon \in {"logic", "data"}
ASSUME InboxAssumption == MaxInbox \in Nat \ {0} /\ MaxFaults \in Nat

VARIABLES
    up,       \* Server.is_up
    ident,    \* Server.addr_identifier is the address this server sends from
    age,      \* cycles since Server.last_heartbeat, at most MaxAge, or NoBeat
    turn,     \* "check": the expiry task runs; "sleep": it sleeps with the
              \* guard; "listen": the guard goes to the listener, if it waits
    inbox,    \* datagrams in the receive buffer of the load balancer
    alive,    \* the server's daemon runs
    state,    \* lb->state, or auth_done
    gap,      \* cycles since the daemon sent
    replies,  \* datagrams under way to the daemon
    faults    \* faults so far

registry == <<up, ident, age>>
daemons  == <<alive, state, gap>>
vars     == <<registry, turn, inbox, daemons, replies, faults>>

\* auth_done is not initialised by load_lb_config.
FirstStates == IF Daemon = "logic" THEN {"SENDING_ADDRESS"}
               ELSE {"SENDING_ADDRESS", "SENDING_OK"}

Init ==
    /\ up      = [s \in Servers |-> FALSE]
    /\ ident   = [s \in Servers |-> FALSE]
    /\ age     = [s \in Servers |-> NoBeat]
    /\ turn    = "check"
    /\ inbox   = <<>>
    /\ alive   = [s \in Servers |-> TRUE]
    /\ state   \in [Servers -> FirstStates]
    /\ gap     = [s \in Servers |-> 1]
    /\ replies = [s \in Servers |-> {}]
    /\ faults  = 0

-----------------------------------------------------------------------------
(* The daemons. *)

Datagram(s) == [from |-> s, text |-> IF state[s] = "SENDING_OK" THEN "OK" ELSE "ADDR"]

\* sendto; a datagram that finds the receive buffer full is dropped.
Send(s) ==
    /\ alive[s] /\ gap[s] > 0
    /\ gap' = [gap EXCEPT ![s] = 0]
    /\ inbox' = IF Len(inbox) < MaxInbox THEN Append(inbox, Datagram(s)) ELSE inbox
    /\ UNCHANGED <<registry, turn, alive, state, replies, faults>>

\* recvfrom: OK stops the sending of addresses, AUTH starts it again.
Receive(s) ==
    /\ alive[s]
    /\ \E m \in replies[s] :
          /\ replies' = [replies EXCEPT ![s] = @ \ {m}]
          /\ state' = [state EXCEPT ![s] =
                          IF m = "OK" THEN "SENDING_OK" ELSE "SENDING_ADDRESS"]
    /\ UNCHANGED <<registry, turn, inbox, alive, gap, faults>>

-----------------------------------------------------------------------------
(* The load balancer. *)

\* Mutant: the expiry test is off by one.
Expired_OffByOne(s) == age[s] # NoBeat /\ age[s] >= TIMEOUT - 1

\* Mutant: whole seconds are compared, so that the third cycle is still in time.
Expired_WholeSeconds(s) == age[s] # NoBeat /\ age[s] > TIMEOUT

\* last.elapsed() > TIMEOUT.  Two sleeps last more than two seconds, as a sleep
\* never ends early.
Expired(s) == age[s] # NoBeat /\ age[s] >= TIMEOUT

\* check_heartbeat_expiry, up to its sleep.
CheckExpiry ==
    /\ turn = "check"
    /\ up' = [s \in Servers |-> up[s] /\ ~Expired(s)]
    /\ turn' = "sleep"
    /\ UNCHANGED <<ident, age, inbox, daemons, replies, faults>>

\* Mutant: an instant that is read back loses its age.
Older_Stuck(s) == IF age[s] = NoBeat THEN NoBeat ELSE 0

Older(s) == IF age[s] \in {NoBeat, MaxAge} THEN age[s] ELSE age[s] + 1

\* Mutant: the guard goes to the listener although it does not wait.
Wake_Blind ==
    /\ turn = "sleep"
    /\ \A s \in Servers : alive[s] => gap[s] < MaxGap
    /\ age' = [s \in Servers |-> Older(s)]
    /\ gap' = [s \in Servers |-> IF alive[s] THEN gap[s] + 1 ELSE gap[s]]
    /\ turn' = "listen"
    /\ UNCHANGED <<up, ident, inbox, alive, state, replies, faults>>

\* A second is over: the guard is dropped and goes to the listener if that has
\* received a datagram, else back to the expiry task.
Wake ==
    /\ turn = "sleep"
    /\ \A s \in Servers : alive[s] => gap[s] < MaxGap
    /\ age' = [s \in Servers |-> Older(s)]
    /\ gap' = [s \in Servers |-> IF alive[s] THEN gap[s] + 1 ELSE gap[s]]
    /\ turn' = IF inbox = <<>> THEN "check" ELSE "listen"
    /\ UNCHANGED <<up, ident, inbox, alive, state, replies, faults>>

\* Mutant: OK counts whoever sends it.
HandleOk_Anyone(s) ==
    /\ age' = [age EXCEPT ![s] = 0]
    /\ up' = [up EXCEPT ![s] = TRUE]
    /\ UNCHANGED <<ident, replies>>

\* Mutant: an unknown sender is not told to send its addresses.
HandleOk_NoAuth(s) ==
    \/ /\ ident[s]
       /\ age' = [age EXCEPT ![s] = 0]
       /\ up' = [up EXCEPT ![s] = TRUE]
       /\ UNCHANGED <<ident, replies>>
    \/ /\ ~ident[s]
       /\ UNCHANGED <<registry, replies>>

\* "OK" from a known address is a heartbeat, from another one asks for AUTH.
HandleOk(s) ==
    \/ /\ ident[s]
       /\ age' = [age EXCEPT ![s] = 0]
       /\ up' = [up EXCEPT ![s] = TRUE]
       /\ UNCHANGED <<ident, replies>>
    \/ /\ ~ident[s]
       /\ replies' = [replies EXCEPT ![s] = IF alive[s] THEN @ \cup {"AUTH"} ELSE @]
       /\ UNCHANGED registry

\* Mutant: ReverseProxyLd marks the server up as ReverseProxyFl does.
HandleAddress_Up(s) ==
    /\ ident' = [ident EXCEPT ![s] = TRUE]
    /\ up' = [up EXCEPT ![s] = TRUE]
    /\ replies' = [replies EXCEPT ![s] = IF alive[s] THEN @ \cup {"OK"} ELSE @]
    /\ UNCHANGED age

\* The address pair identifies the sender.  ReverseProxyFl also marks it up,
\* without a last_heartbeat; ReverseProxyLd does not.
HandleAddress(s) ==
    /\ ident' = [ident EXCEPT ![s] = TRUE]
    /\ up' = IF Mode = "fl" THEN [up EXCEPT ![s] = TRUE] ELSE up
    /\ replies' = [replies EXCEPT ![s] = IF alive[s] THEN @ \cup {"OK"} ELSE @]
    /\ UNCHANGED age

\* listen_for_heartbeats handles the datagram it has waited with; then it is
\* the expiry task's turn again.
Listen ==
    /\ turn = "listen"
    /\ LET d == Head(inbox) IN
          \/ d.text = "OK" /\ HandleOk(d.from)
          \/ d.text = "ADDR" /\ HandleAddress(d.from)
    /\ inbox' = Tail(inbox)
    /\ turn' = "check"
    /\ UNCHANGED <<daemons, faults>>

-----------------------------------------------------------------------------
(* Faults. *)

\* A datagram of the daemon is lost on the way.
LoseHeartbeat(s) ==
    /\ alive[s] /\ gap[s] > 0
    /\ gap' = [gap EXCEPT ![s] = 0]
    /\ UNCHANGED <<registry, turn, inbox, alive, state, replies>>

\* A datagram arrives twice.
RepeatHeartbeat(s) ==
    /\ alive[s] /\ gap[s] > 0
    /\ Len(inbox) + 2 <= MaxInbox
    /\ gap' = [gap EXCEPT ![s] = 0]
    /\ inbox' = inbox \o <<Datagram(s), Datagram(s)>>
    /\ UNCHANGED <<registry, turn, alive, state, replies>>

LoseReply(s) ==
    /\ \E m \in replies[s] : replies' = [replies EXCEPT ![s] = @ \ {m}]
    /\ UNCHANGED <<registry, turn, inbox, daemons>>

\* The server stops: its socket and what is on the way to it are gone.
Crash(s) ==
    /\ alive[s]
    /\ alive' = [alive EXCEPT ![s] = FALSE]
    /\ replies' = [replies EXCEPT ![s] = {}]
    /\ UNCHANGED <<registry, turn, inbox, state, gap>>

Restart(s) ==
    /\ ~alive[s]
    /\ alive' = [alive EXCEPT ![s] = TRUE]
    /\ \E first \in FirstStates : state' = [state EXCEPT ![s] = first]
    /\ gap' = [gap EXCEPT ![s] = 1]
    /\ UNCHANGED <<registry, turn, inbox, replies>>

\* The load balancer restarts: from_config_file builds the list anew.
RestartBalancer ==
    /\ up'    = [s \in Servers |-> FALSE]
    /\ ident' = [s \in Servers |-> FALSE]
    /\ age'   = [s \in Servers |-> NoBeat]
    /\ turn'  = "check"
    /\ inbox' = <<>>
    /\ UNCHANGED <<daemons, replies>>

Fault ==
    /\ faults < MaxFaults
    /\ faults' = faults + 1
    /\ \/ \E s \in Servers : \/ LoseHeartbeat(s)
                             \/ RepeatHeartbeat(s)
                             \/ LoseReply(s)
                             \/ Crash(s)
                             \/ Restart(s)
       \/ RestartBalancer

Next ==
    \/ \E s \in Servers : Send(s) \/ Receive(s)
    \/ CheckExpiry
    \/ Wake
    \/ Listen
    \/ Fault

Spec == Init /\ [][Next]_vars

\* Daemons and tasks go on; the faults come to an end.
FairSpec ==
    /\ Spec
    /\ \A s \in Servers : WF_vars(Send(s)) /\ WF_vars(Receive(s))
    /\ WF_vars(CheckExpiry) /\ WF_vars(Wake) /\ WF_vars(Listen)

-----------------------------------------------------------------------------
(* Properties. *)

Datagrams == [from: Servers, text: {"OK", "ADDR"}]

TypeOK ==
    /\ up \in [Servers -> BOOLEAN]
    /\ ident \in [Servers -> BOOLEAN]
    /\ age \in [Servers -> {NoBeat} \cup 0 .. MaxAge]
    /\ turn \in {"check", "sleep", "listen"}
    /\ inbox \in Seq(Datagrams) /\ Len(inbox) <= MaxInbox
    /\ (turn = "listen" => inbox # <<>>)
    /\ alive \in [Servers -> BOOLEAN]
    /\ state \in [Servers -> {"SENDING_ADDRESS", "SENDING_OK"}]
    /\ gap \in [Servers -> 0 .. MaxGap]
    /\ replies \in [Servers -> SUBSET {"OK", "AUTH"}]
    /\ faults \in 0 .. MaxFaults

\* A server gets traffic only after it has sent its address pair to this run of
\* the load balancer: an OK that was sent to an earlier run, or before the
\* addresses, does not bring it up.
UpIsIdentified == \A s \in Servers : up[s] => ident[s]

\* get_available_backend gets the guard only while the expiry task does not
\* have it, which is after its sleep and before its next check: even then every
\* server that it finds up had a heartbeat handled within the last two cycles.
UpIsFresh ==
    turn # "sleep" => \A s \in Servers : up[s] => age[s] \in 0 .. TIMEOUT

\* A server that stays down is taken out of the list: "Si un backend falla (sin
\* heartbeat por 2 segundos), se excluye del pool."
DeadGoesDown ==
    \A s \in Servers : <>[](~alive[s]) => <>[](~up[s])

\* A server that stays alive is in the list from some moment on, whatever
\* datagrams were lost and whichever side restarted before.
LiveComesUp ==
    \A s \in Servers : <>[](alive[s]) => <>[](up[s])

\* As long as nothing goes wrong, check_heartbeat_expiry never takes down a
\* server that is up.  With one server on the list the listener keeps pace with
\* the daemon, whatever the phase between the two.
LiveStaysUp ==
    [][\A s \in Servers : faults' = 0 /\ up[s] => up'[s]]_vars

====
