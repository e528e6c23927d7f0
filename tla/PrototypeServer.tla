-------------------------- MODULE PrototypeServer --------------------------
(***************************************************************************)
(* server/server.c: a process that accepts a connection, reads from it,    *)
(* puts a request into request_queue and forks a child that takes one out  *)
(* and answers it.                                                         *)
(*                                                                         *)
(* The queue is copied by fork: the child takes its element from its own   *)
(* copy, and the parent's only grows, so that every child takes the first  *)
(* request there ever was.  enqueue_request does not fill the request in;  *)
(* so the descriptor that the child sends to is whatever malloc's memory   *)
(* held.  What keeps the children apart is their table of descriptors.     *)
(***************************************************************************)
EXTENDS Integers, Sequences

CONSTANTS
    Clients,     \* clients, each of which connects once
    MaxFd,       \* the largest descriptor a process may have
    Garbage,     \* what a descriptor that was never written may hold
    MaxFaults,   \* failures of malloc and fork
    None

\* 0, 1 and 2 are the terminal and 3 is server_fd.
FirstFd == 4
Fds == FirstFd .. MaxFd

ASSUME FdsAssumption == MaxFd \in Nat /\ MaxFaults \in Nat /\ Garbage \subseteq Int
ASSUME NoneAssumption == None \notin Clients

VARIABLES
    stage,   \* of a client: "away", "silent", "spoke" or "done"
    parent,  \* where the loop of main is: "accept", "read", "enqueue" or "fork"
    cur,     \* the client whose connection client_fd is
    open,    \* the parent's descriptors: the client of each, or None
    queue,   \* request_queue: the client_fd of each request
    child,   \* the child forked for a client: "none", "run", "close" or "gone"
    copy,    \* its copy of request_queue
    fds,     \* its descriptors
    got,     \* the children that have written to a client
    faults

process  == <<parent, cur, open, queue>>
children == <<child, copy, fds>>
vars     == <<stage, process, children, got, faults>>

Closed == [f \in Fds |-> None]

Init ==
    /\ stage  = [c \in Clients |-> "away"]
    /\ parent = "accept"
    /\ cur    = None
    /\ open   = Closed
    /\ queue  = <<>>
    /\ child  = [c \in Clients |-> "none"]
    /\ copy   = [c \in Clients |-> <<>>]
    /\ fds    = [c \in Clients |-> Closed]
    /\ got    = [c \in Clients |-> <<>>]
    /\ faults = 0

Fails == faults < MaxFaults /\ faults' = faults + 1

-----------------------------------------------------------------------------
(* The clients. *)

Connect(c) ==
    /\ stage[c] = "away"
    /\ stage' = [stage EXCEPT ![c] = "silent"]
    /\ UNCHANGED <<process, children, got, faults>>

\* The client sends something, or closes.
Speak(c) ==
    /\ stage[c] = "silent"
    /\ stage' = [stage EXCEPT ![c] = "spoke"]
    /\ UNCHANGED <<process, children, got, faults>>

-----------------------------------------------------------------------------
(* main. *)

\* No process has a descriptor of the connection of c, and none will.
Ended(c) ==
    /\ stage[c] = "done"
    /\ \A f \in Fds : open[f] # c /\ \A d \in Clients : fds[d][f] # c

\* accept gives the lowest free descriptor; when it fails nothing happens.
Accept(c) ==
    /\ parent = "accept"
    /\ stage[c] \in {"silent", "spoke"}
    /\ \E f \in Fds : /\ open[f] = None
                      /\ \A g \in FirstFd .. f - 1 : open[g] # None
                      /\ open' = [open EXCEPT ![f] = c]
    /\ cur' = c
    /\ parent' = "read"
    /\ UNCHANGED <<stage, queue, children, got, faults>>

\* read blocks, and the whole server with it, until the client says something.
Read ==
    /\ parent = "read"
    /\ stage[cur] = "spoke"
    /\ stage' = [stage EXCEPT ![cur] = "done"]
    /\ parent' = "enqueue"
    /\ UNCHANGED <<cur, open, queue, children, got, faults>>

\* enqueue_request: neither client_fd nor data goes into the request.
EnqueueRequest ==
    /\ parent = "enqueue"
    /\ \/ /\ \E g \in Garbage : queue' = Append(queue, g)
          /\ UNCHANGED faults
       \/ Fails /\ UNCHANGED queue
    /\ parent' = "fork"
    /\ UNCHANGED <<stage, cur, open, children, got>>

\* Mutant: the parent leaves the connection open.
CloseClient_Forgotten == cur' = None /\ UNCHANGED open

\* close(client_fd) in the parent.
CloseClient ==
    /\ open' = [f \in Fds |-> IF open[f] = cur THEN None ELSE open[f]]
    /\ cur' = None

\* fork gives the child a copy of everything.
Fork ==
    /\ parent = "fork"
    /\ \/ /\ child' = [child EXCEPT ![cur] = "run"]
          /\ copy' = [copy EXCEPT ![cur] = queue]
          /\ fds' = [fds EXCEPT ![cur] = open]
          /\ UNCHANGED faults
       \/ Fails /\ UNCHANGED children
    /\ CloseClient
    /\ parent' = "accept"
    /\ UNCHANGED <<stage, queue, got>>

-----------------------------------------------------------------------------
(* handle_client, in the child forked for c. *)

\* dequeue and send.  Without a request, req is what the stack held.
HandleClient(c) ==
    /\ child[c] = "run"
    /\ \E f \in IF copy[c] = <<>> THEN Garbage ELSE {Head(copy[c])} :
          got' = [d \in Clients |-> IF f \in Fds /\ fds[c][f] = d
                                    THEN Append(got[d], c) ELSE got[d]]
    /\ child' = [child EXCEPT ![c] = "close"]
    /\ UNCHANGED <<stage, process, copy, fds, faults>>

\* Mutant: neither close nor exit comes after send.
Exit_Missing(c) == FALSE

\* close and exit.
Exit(c) ==
    /\ child[c] = "close"
    /\ child' = [child EXCEPT ![c] = "gone"]
    /\ fds' = [fds EXCEPT ![c] = Closed]
    /\ copy' = [copy EXCEPT ![c] = <<>>]
    /\ UNCHANGED <<stage, process, got, faults>>

Main == Read \/ EnqueueRequest \/ Fork \/ \E c \in Clients : Accept(c)

Next ==
    \/ Main
    \/ \E c \in Clients : Connect(c) \/ Speak(c) \/ HandleClient(c) \/ Exit(c)

Spec == Init /\ [][Next]_vars

\* The processes are scheduled; nobody has to connect or to say something.
FairSpec ==
    /\ Spec
    /\ WF_vars(Main)
    /\ \A c \in Clients : WF_vars(HandleClient(c)) /\ WF_vars(Exit(c))

-----------------------------------------------------------------------------
(* Properties. *)

Tables == [Fds -> Clients \cup {None}]

TypeOK ==
    /\ stage \in [Clients -> {"away", "silent", "spoke", "done"}]
    /\ parent \in {"accept", "read", "enqueue", "fork"}
    /\ cur \in Clients \cup {None}
    /\ (parent # "accept" => cur \in Clients)
    /\ open \in Tables
    /\ queue \in Seq(Garbage)
    /\ child \in [Clients -> {"none", "run", "close", "gone"}]
    /\ copy \in [Clients -> Seq(Garbage)]
    /\ fds \in [Clients -> Tables]
    /\ got \in [Clients -> Seq(Clients)]
    /\ faults \in 0 .. MaxFaults

\* A client is never sent another client's answer, nor two answers, whatever
\* descriptor a child finds in the request it takes: the parent has closed the
\* connections of the others when it forks.
AnswerIsOwn ==
    \A c \in Clients : got[c] \in {<<>>, <<c>>}

\* A client that has said something sees its connection end, with an answer or
\* without one, unless the server waits in read for a client that says nothing.
EndsUnlessStalled ==
    \A c \in Clients :
        stage[c] = "spoke" ~> Ended(c) \/ (parent = "read" /\ stage[cur] = "silent")

=============================================================================
