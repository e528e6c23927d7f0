----------------------- MODULE PrototypeServerProofs -----------------------
(***************************************************************************)
(* The children of the prototype are kept apart by their descriptors, for  *)
(* any number of clients and whatever the requests hold.                   *)
(***************************************************************************)
EXTENDS PrototypeServer, TLAPS

\* The parent has the connection it is working on and no other.
OneConnection ==
    /\ parent = "accept" => cur = None
    /\ \A f \in Fds : open[f] \in {None, cur}

\* A child has the connection it was forked for and no other.
OwnTable == \A c \in Clients : \A f \in Fds : fds[c][f] \in {None, c}

\* A client that was read from is done: it has one child, or none yet if it is
\* the one the parent is working on.
OneChild ==
    /\ parent \in {"enqueue", "fork"} => stage[cur] = "done"
    /\ \A c \in Clients : stage[c] # "done" \/ c = cur => child[c] = "none"

\* Nobody has written to a client before its child has.
Unanswered ==
    \A c \in Clients : child[c] \in {"none", "run"} => got[c] = <<>>

IInv == TypeOK /\ OneConnection /\ OwnTable /\ OneChild /\ Unanswered /\ AnswerIsOwn

LEMMA InitIInv ==
    ASSUME Init
    PROVE  IInv
<1>1. Closed \in Tables /\ \A f \in Fds : Closed[f] = None
  BY DEF Closed, Tables
<1>2. TypeOK
  BY <1>1, FdsAssumption DEF Init, TypeOK
<1>3. OneConnection /\ OwnTable
  BY <1>1 DEF Init, OneConnection, OwnTable
<1>4. OneChild /\ Unanswered /\ AnswerIsOwn
  BY DEF Init, OneChild, Unanswered, AnswerIsOwn
<1> QED
  BY <1>2, <1>3, <1>4 DEF IInv

LEMMA ConnectStep ==
    ASSUME IInv, NEW c \in Clients, Connect(c)
    PROVE  IInv'
<1>1. TypeOK'
  BY DEF IInv, TypeOK, Connect, process, children
<1>2. OneConnection' /\ OwnTable' /\ Unanswered' /\ AnswerIsOwn'
  BY DEF IInv, OneConnection, OwnTable, Unanswered, AnswerIsOwn, Connect, process, children
<1>3. OneChild'
  BY DEF IInv, TypeOK, OneChild, Connect, process, children
<1> QED
  BY <1>1, <1>2, <1>3 DEF IInv

LEMMA SpeakStep ==
    ASSUME IInv, NEW c \in Clients, Speak(c)
    PROVE  IInv'
<1>1. TypeOK'
  BY DEF IInv, TypeOK, Speak, process, children
<1>2. OneConnection' /\ OwnTable' /\ Unanswered' /\ AnswerIsOwn'
  BY DEF IInv, OneConnection, OwnTable, Unanswered, AnswerIsOwn, Speak, process, children
<1>3. OneChild'
  BY DEF IInv, TypeOK, OneChild, Speak, process, children
<1> QED
  BY <1>1, <1>2, <1>3 DEF IInv

LEMMA AcceptStep ==
    ASSUME IInv, NEW c \in Clients, Accept(c)
    PROVE  IInv'
<1>1. PICK f \in Fds : open' = [open EXCEPT ![f] = c]
  BY DEF Accept
<1>2. \A g \in Fds : open[g] = None
  BY DEF IInv, OneConnection, Accept
<1>3. cur' = c /\ parent' = "read" /\ UNCHANGED <<stage, queue, child, copy, fds, got, faults>>
  BY DEF Accept, children
<1>4. TypeOK'
  BY <1>1, <1>3 DEF IInv, TypeOK, Tables
<1>5. OneConnection'
  BY <1>1, <1>2, <1>3 DEF IInv, TypeOK, Tables, OneConnection
<1>6. OneChild'
  BY <1>3 DEF IInv, OneChild, Accept
<1>7. OwnTable' /\ Unanswered' /\ AnswerIsOwn'
  BY <1>3 DEF IInv, OwnTable, Unanswered, AnswerIsOwn
<1> QED
  BY <1>4, <1>5, <1>6, <1>7 DEF IInv

LEMMA ReadStep ==
    ASSUME IInv, Read
    PROVE  IInv'
<1>1. cur \in Clients
  BY DEF IInv, TypeOK, Read
<1>2. TypeOK'
  BY <1>1 DEF IInv, TypeOK, Read, children
<1>3. OneConnection' /\ OwnTable' /\ Unanswered' /\ AnswerIsOwn'
  BY DEF IInv, OneConnection, OwnTable, Unanswered, AnswerIsOwn, Read, children
<1>4. OneChild'
  BY <1>1 DEF IInv, TypeOK, OneChild, Read, children
<1> QED
  BY <1>2, <1>3, <1>4 DEF IInv

LEMMA EnqueueStep ==
    ASSUME IInv, EnqueueRequest
    PROVE  IInv'
<1>1. queue' \in Seq(Garbage)
  <2>1. ASSUME NEW g \in Garbage, queue' = Append(queue, g)
        PROVE  queue' \in Seq(Garbage)
    BY <2>1 DEF IInv, TypeOK
  <2>2. CASE UNCHANGED queue
    BY <2>2 DEF IInv, TypeOK
  <2> QED
    BY <2>1, <2>2 DEF EnqueueRequest
<1>2. TypeOK'
  BY <1>1, FdsAssumption DEF IInv, TypeOK, EnqueueRequest, Fails, children
<1>3. OneConnection' /\ OwnTable' /\ OneChild' /\ Unanswered' /\ AnswerIsOwn'
  BY DEF IInv, OneConnection, OwnTable, OneChild, Unanswered, AnswerIsOwn,
         EnqueueRequest, children
<1> QED
  BY <1>2, <1>3 DEF IInv

LEMMA ForkStep ==
    ASSUME IInv, Fork
    PROVE  IInv'
<1>1. /\ cur \in Clients /\ stage[cur] = "done" /\ child[cur] = "none"
      /\ got[cur] = <<>>
  BY DEF IInv, TypeOK, OneChild, Unanswered, Fork
<1>2. /\ open' = [f \in Fds |-> IF open[f] = cur THEN None ELSE open[f]]
      /\ cur' = None /\ parent' = "accept" /\ UNCHANGED <<stage, queue, got>>
  BY DEF Fork, CloseClient
<1>3. open' \in Tables /\ \A f \in Fds : open'[f] = None
  BY <1>2 DEF IInv, TypeOK, Tables, OneConnection
<1>4. CASE /\ child' = [child EXCEPT ![cur] = "run"] /\ copy' = [copy EXCEPT ![cur] = queue]
           /\ fds' = [fds EXCEPT ![cur] = open] /\ UNCHANGED faults
  <2>1. TypeOK'
    BY <1>1, <1>2, <1>3, <1>4 DEF IInv, TypeOK
  <2>2. OwnTable'
    BY <1>1, <1>4 DEF IInv, TypeOK, OwnTable, OneConnection
  <2>3. OneChild' /\ Unanswered' /\ AnswerIsOwn'
    BY <1>1, <1>2, <1>4, NoneAssumption
       DEF IInv, TypeOK, OneChild, Unanswered, AnswerIsOwn
  <2> QED
    BY <1>2, <1>3, <2>1, <2>2, <2>3 DEF IInv, OneConnection
<1>5. CASE Fails /\ UNCHANGED children
  <2>1. TypeOK'
    BY <1>2, <1>3, <1>5, FdsAssumption DEF IInv, TypeOK, Fails, children
  <2>2. OwnTable' /\ OneChild' /\ Unanswered' /\ AnswerIsOwn'
    BY <1>1, <1>2, <1>5, NoneAssumption
       DEF IInv, OwnTable, OneChild, Unanswered, AnswerIsOwn, children
  <2> QED
    BY <1>2, <1>3, <2>1, <2>2 DEF IInv, OneConnection
<1> QED
  BY <1>4, <1>5 DEF Fork

\* Whatever descriptor the child takes, it reaches its own client or none.
LEMMA HandleClientStep ==
    ASSUME IInv, NEW c \in Clients, HandleClient(c)
    PROVE  IInv'
<1>1. PICK f : got' = [d \in Clients |-> IF f \in Fds /\ fds[c][f] = d
                                         THEN Append(got[d], c) ELSE got[d]]
  BY DEF HandleClient
<1>2. /\ child[c] = "run" /\ child' = [child EXCEPT ![c] = "close"]
      /\ UNCHANGED <<stage, parent, cur, open, queue, copy, fds, faults>>
  BY DEF HandleClient, process
<1>3. got[c] = <<>> /\ child[c] # "none"
  BY <1>2 DEF IInv, Unanswered
<1>4. got'[c] \in {<<>>, <<c>>}
  <2>1. Append(<<>>, c) = <<c>>
    OBVIOUS
  <2>2. got'[c] = Append(<<>>, c) \/ got'[c] = <<>>
    BY <1>1, <1>3
  <2> QED
    BY <2>1, <2>2
<1>5. ASSUME NEW d \in Clients, d # c PROVE got'[d] = got[d]
  BY <1>1, <1>5, NoneAssumption DEF IInv, OwnTable
<1>6. got' \in [Clients -> Seq(Clients)]
  BY <1>1 DEF IInv, TypeOK
<1>7. TypeOK'
  BY <1>2, <1>6 DEF IInv, TypeOK
<1>8. AnswerIsOwn'
  BY <1>4, <1>5 DEF IInv, AnswerIsOwn
<1>9. Unanswered'
  BY <1>2, <1>5 DEF IInv, TypeOK, Unanswered
<1>10. OneConnection' /\ OwnTable'
  BY <1>2 DEF IInv, OneConnection, OwnTable
<1>11. OneChild'
  BY <1>2, <1>3 DEF IInv, TypeOK, OneChild
<1> QED
  BY <1>7, <1>8, <1>9, <1>10, <1>11 DEF IInv

LEMMA ExitStep ==
    ASSUME IInv, NEW c \in Clients, Exit(c)
    PROVE  IInv'
<1>1. Closed \in Tables /\ \A f \in Fds : Closed[f] = None
  BY DEF Closed, Tables
<1>2. TypeOK'
  BY <1>1 DEF IInv, TypeOK, Exit, process
<1>3. OwnTable'
  BY <1>1 DEF IInv, TypeOK, OwnTable, Exit
<1>4. OneConnection' /\ AnswerIsOwn'
  BY DEF IInv, OneConnection, AnswerIsOwn, Exit, process
<1>5. OneChild' /\ Unanswered'
  BY DEF IInv, TypeOK, OneChild, Unanswered, Exit, process
<1> QED
  BY <1>2, <1>3, <1>4, <1>5 DEF IInv

LEMMA Inductive == Spec => []IInv
<1>1. Init => IInv
  BY InitIInv
<1>2. IInv /\ [Next]_vars => IInv'
  <2> SUFFICES ASSUME IInv, [Next]_vars
               PROVE  IInv'
    OBVIOUS
  <2>1. CASE UNCHANGED vars
    BY <2>1 DEF vars, process, children, IInv, TypeOK, OneConnection, OwnTable, OneChild,
                Unanswered, AnswerIsOwn
  <2>2. CASE Main
    BY <2>2, AcceptStep, ReadStep, EnqueueStep, ForkStep DEF Main
  <2>3. CASE \E c \in Clients : Connect(c) \/ Speak(c) \/ HandleClient(c) \/ Exit(c)
    BY <2>3, ConnectStep, SpeakStep, HandleClientStep, ExitStep
  <2> QED
    BY <2>1, <2>2, <2>3 DEF Next
<1> QED
  BY <1>1, <1>2, PTL DEF Spec

-----------------------------------------------------------------------------

\* main and handle_client keep their state well formed: after a failed accept
\* the loop never goes on to read without a connection.
THEOREM TypeCorrect == Spec => []TypeOK
<1>1. IInv => TypeOK
  BY DEF IInv
<1> QED
  BY <1>1, Inductive, PTL

\* A client gets at most one answer and never one from another client's child,
\* although enqueue_request leaves client_fd unset.
THEOREM AnswersAreOwn == Spec => []AnswerIsOwn
<1>1. IInv => AnswerIsOwn
  BY DEF IInv
<1> QED
  BY <1>1, Inductive, PTL

=============================================================================
