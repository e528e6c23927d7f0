------------------------------- MODULE Queue -------------------------------
(***************************************************************************)
(* lib/queue/queue.c: a queue as a singly linked list on the heap.         *)
(*                                                                         *)
(* A node and its data block are allocated and freed together, so they     *)
(* share one address.  The functions without a loop are one action each;   *)
(* reverse recurses, clearQueue and copyQueue loop, and one turn of them is*)
(* one action.  The library is not used by two threads at a time, so no    *)
(* other call starts before.                                               *)
(***************************************************************************)
EXTENDS Integers, FiniteSets, Sequences, SequencesExt

CONSTANTS
    Handles,     \* the variables of type queue * of the program
    Addresses,   \* where malloc may place a node
    Values,      \* what an element may hold
    NULL,
    Lost,        \* what a freed block holds
    MaxSize,     \* elements a queue holds before the program stops adding more
    FailOps,     \* the calls in which malloc may fail
    MaxFaults    \* failures of malloc in a behaviour

AllFailOps == {"create", "enqueue", "reverse", "copy"}

ASSUME NamesAssumption ==
    /\ NULL \notin Addresses \cup Handles /\ Lost \notin Addresses \cup {NULL}
    /\ Lost \notin Values
ASSUME FaultsAssumption ==
    FailOps \subseteq AllFailOps /\ MaxFaults \in Nat /\ MaxSize \in Nat

VARIABLES
    live,    \* the handles that are not NULL
    size,    \* q->size
    head,    \* q->head
    tail,    \* q->tail
    next,    \* node->next
    data,    \* *node->data
    used,    \* addresses that are allocated
    call,    \* the call that runs: reverse on its way down or up, ...
    got,     \* what the last call with a result returned
    faults,
    order    \* history: the nodes of each queue in the order of insertion

queues == <<live, size, head, tail>>
heap   == <<next, data, used>>
vars   == <<queues, heap, call, got, faults, order>>

\* to is the queue that copyQueue builds and cur its position in the other one;
\* stack holds the local data of the frames of reverse, the outermost first.
\* History: whether malloc failed during the call, and how many elements the
\* innermost frame of reverse found.
Call(op, h, to, cur) ==
    [op |-> op, h |-> h, to |-> to, stack |-> <<>>, cur |-> cur, short |-> FALSE, rest |-> 0]
Idle == Call("idle", NULL, NULL, NULL)
Busy(op) == call.op = op

Failed      == [ok |-> FALSE, val |-> <<>>]
Success     == [ok |-> TRUE, val |-> <<>>]
Returned(v) == [ok |-> TRUE, val |-> <<v>>]

getSize(h) == IF h \in live THEN size[h] ELSE 0

Init ==
    /\ live   = {}
    /\ size   = [h \in Handles |-> 0]
    /\ head   = [h \in Handles |-> NULL]
    /\ tail   = [h \in Handles |-> NULL]
    /\ next   = [a \in Addresses |-> Lost]
    /\ data   = [a \in Addresses |-> Lost]
    /\ used   = {}
    /\ call   = Idle
    /\ got    = Success
    /\ faults = 0
    /\ order  = [h \in Handles |-> <<>>]

-----------------------------------------------------------------------------
(* What the calls have in common. *)

\* malloc returns NULL.
Fails(op) == op \in FailOps /\ faults < MaxFaults /\ faults' = faults + 1

\* Mutant: the first insertion is told by the tail instead of by the size.
Link_TestsTail(h, a, v) ==
    /\ used' = used \cup {a}
    /\ data' = [data EXCEPT ![a] = v]
    /\ \/ /\ tail[h] = NULL
          /\ head' = [head EXCEPT ![h] = a]
          /\ next' = [next EXCEPT ![a] = NULL]
       \/ /\ tail[h] # NULL
          /\ next' = [next EXCEPT ![a] = NULL, ![tail[h]] = a]
          /\ UNCHANGED head
    /\ tail' = [tail EXCEPT ![h] = a]
    /\ size' = [size EXCEPT ![h] = @ + 1]
    /\ order' = [order EXCEPT ![h] = Append(@, a)]
    /\ UNCHANGED live

\* createNode at a, and the insertion of the node at the end.
Link(h, a, v) ==
    /\ used' = used \cup {a}
    /\ data' = [data EXCEPT ![a] = v]
    /\ \/ /\ size[h] = 0
          /\ head' = [head EXCEPT ![h] = a]
          /\ next' = [next EXCEPT ![a] = NULL]
       \/ /\ size[h] # 0
          /\ next' = [next EXCEPT ![a] = NULL, ![tail[h]] = a]
          /\ UNCHANGED head
    /\ tail' = [tail EXCEPT ![h] = a]
    /\ size' = [size EXCEPT ![h] = @ + 1]
    /\ order' = [order EXCEPT ![h] = Append(@, a)]
    /\ UNCHANGED live

\* Mutant: the node is not given back.
Free_Leak(a) ==
    /\ next' = [next EXCEPT ![a] = Lost]
    /\ data' = [data EXCEPT ![a] = Lost]
    /\ UNCHANGED used

Free(a) ==
    /\ used' = used \ {a}
    /\ next' = [next EXCEPT ![a] = Lost]
    /\ data' = [data EXCEPT ![a] = Lost]

\* Mutant: the node is freed before its successor is read.
Unlink_AfterFree(h) ==
    /\ \/ /\ size[h] = 1
          /\ head' = [head EXCEPT ![h] = NULL]
          /\ tail' = [tail EXCEPT ![h] = NULL]
       \/ /\ size[h] > 1
          /\ head' = [head EXCEPT ![h] = Lost]
          /\ UNCHANGED tail
    /\ size' = [size EXCEPT ![h] = @ - 1]
    /\ Free(head[h])
    /\ order' = [order EXCEPT ![h] = Tail(@)]
    /\ UNCHANGED live

\* dequeue's removal of the first node.
Unlink(h) ==
    /\ \/ /\ size[h] = 1
          /\ head' = [head EXCEPT ![h] = NULL]
          /\ tail' = [tail EXCEPT ![h] = NULL]
       \/ /\ size[h] > 1
          /\ head' = [head EXCEPT ![h] = next[head[h]]]
          /\ UNCHANGED tail
    /\ size' = [size EXCEPT ![h] = @ - 1]
    /\ Free(head[h])
    /\ order' = [order EXCEPT ![h] = Tail(@)]
    /\ UNCHANGED live

\* The call returns NULL and has changed nothing.
Refuse ==
    /\ got' = Failed
    /\ UNCHANGED <<queues, heap, call, order>>

-----------------------------------------------------------------------------
(* The calls. *)

createQueue(h) ==
    /\ Busy("idle") /\ h \notin live
    /\ \/ Fails("create") /\ Refuse
       \/ /\ live' = live \cup {h}
          /\ got' = Success
          /\ UNCHANGED <<size, head, tail, heap, call, faults, order>>

enqueue(h, v) ==
    /\ Busy("idle")
    /\ \/ h \notin live /\ Refuse /\ UNCHANGED faults
       \/ h \in live /\ Fails("enqueue") /\ Refuse
       \/ /\ h \in live /\ size[h] < MaxSize
          /\ \E a \in Addresses \ used : Link(h, a, v)
          /\ got' = Success
          /\ UNCHANGED <<call, faults>>

dequeue(h) ==
    /\ Busy("idle") /\ UNCHANGED faults
    /\ \/ getSize(h) = 0 /\ Refuse
       \/ /\ getSize(h) > 0
          /\ got' = Returned(data[head[h]])
          /\ Unlink(h)
          /\ UNCHANGED call

front(h) ==
    /\ Busy("idle") /\ UNCHANGED faults
    /\ \/ getSize(h) = 0 /\ Refuse
       \/ /\ getSize(h) > 0
          /\ got' = Returned(data[head[h]])
          /\ UNCHANGED <<queues, heap, call, order>>

\* reverse, clearQueue and destroyQueue start.  The first two return NULL for a
\* NULL queue.
Begin(h) ==
    /\ Busy("idle") /\ UNCHANGED faults
    /\ \/ h \notin live /\ Refuse
       \/ /\ h \in live
          /\ \E op \in {"down", "clear", "destroy"} : call' = Call(op, h, NULL, NULL)
          /\ UNCHANGED <<queues, heap, got, order>>

\* Bound: copyQueue is called with a variable that is NULL, and the program
\* copies a queue only while Addresses has room for it.
EnoughFor(h) == size[h] + Cardinality(used) <= Cardinality(Addresses)

copyQueue(h, g) ==
    /\ Busy("idle") /\ g \notin live
    /\ \/ h \notin live /\ Refuse /\ UNCHANGED faults
       \/ h \in live /\ Fails("copy") /\ Refuse
       \/ /\ h \in live /\ EnoughFor(h)
          /\ call' = Call("copy", h, g, head[h])
          /\ UNCHANGED <<queues, heap, got, faults, order>>

\* reverse: keep the first element in a local and reverse the others.  Without
\* memory for the local the others stay as they are.
ReverseDown ==
    LET h == call.h IN
    /\ Busy("down") /\ UNCHANGED got
    /\ \/ /\ size[h] > 0
          /\ call' = [call EXCEPT !.stack = Append(@, data[head[h]])]
          /\ Unlink(h)
          /\ UNCHANGED faults
       \/ /\ size[h] = 0
          /\ call' = [call EXCEPT !.op = "up"]
          /\ UNCHANGED <<queues, heap, faults, order>>
       \/ /\ size[h] > 0 /\ Fails("reverse")
          /\ call' = [call EXCEPT !.op = "up", !.short = TRUE, !.rest = size[h]]
          /\ UNCHANGED <<queues, heap, order>>

\* Mutant: the locals come back in the order in which they were taken.
ReverseUp_Forward ==
    LET h == call.h IN
    /\ Busy("up") /\ call.stack # <<>>
    /\ call' = [call EXCEPT !.stack = Tail(@)]
    /\ \E a \in Addresses \ used : Link(h, a, call.stack[1])
    /\ UNCHANGED <<got, faults>>

\* ... and put the local at the end; what enqueue returns is not looked at.
ReverseUp ==
    LET h == call.h
        s == call.stack
    IN  /\ Busy("up") /\ s # <<>>
        /\ \/ /\ \E a \in Addresses \ used : Link(h, a, s[Len(s)])
              /\ call' = [call EXCEPT !.stack = Front(s)]
              /\ UNCHANGED faults
           \/ /\ Fails("reverse")
              /\ call' = [call EXCEPT !.stack = Front(s), !.short = TRUE]
              /\ UNCHANGED <<queues, heap, order>>
        /\ UNCHANGED got

ReverseReturns ==
    /\ Busy("up") /\ call.stack = <<>>
    /\ call' = Idle
    /\ UNCHANGED <<queues, heap, got, faults, order>>

\* Mutant: the loop skips the last node with continue.
ClearTurn_SkipsLast ==
    LET h == call.h IN
    /\ Busy("clear") \/ Busy("destroy")
    /\ \/ size[h] = 1 /\ UNCHANGED vars
       \/ /\ size[h] > 1
          /\ head' = [head EXCEPT ![h] = next[head[h]]]
          /\ Free(head[h])
          /\ size' = [size EXCEPT ![h] = @ - 1]
          /\ order' = [order EXCEPT ![h] = Tail(@)]
          /\ UNCHANGED <<live, tail, call, got, faults>>

\* One turn of the loop of clearQueue.  It leaves tail pointing at the last
\* node, which is freed.
ClearTurn ==
    LET h == call.h IN
    /\ Busy("clear") \/ Busy("destroy")
    /\ size[h] > 0
    /\ head' = [head EXCEPT ![h] = next[head[h]]]
    /\ Free(head[h])
    /\ size' = [size EXCEPT ![h] = @ - 1]
    /\ order' = [order EXCEPT ![h] = Tail(@)]
    /\ UNCHANGED <<live, tail, call, got, faults>>

ClearReturns ==
    /\ Busy("clear") /\ size[call.h] = 0
    /\ call' = Idle
    /\ UNCHANGED <<queues, heap, got, faults, order>>

\* free(*q); *q = NULL
DestroyReturns ==
    /\ Busy("destroy") /\ size[call.h] = 0
    /\ live' = live \ {call.h}
    /\ tail' = [tail EXCEPT ![call.h] = NULL]
    /\ call' = Idle
    /\ UNCHANGED <<size, head, heap, got, faults, order>>

\* One turn of the loop of copyQueue; what enqueue returns is not looked at.
CopyTurn ==
    /\ Busy("copy") /\ call.cur # NULL
    /\ \/ /\ \E a \in Addresses \ used : Link(call.to, a, data[call.cur])
          /\ call' = [call EXCEPT !.cur = next[call.cur]]
          /\ UNCHANGED faults
       \/ /\ Fails("copy")
          /\ call' = [call EXCEPT !.cur = next[call.cur], !.short = TRUE]
          /\ UNCHANGED <<queues, heap, order>>
    /\ UNCHANGED got

CopyReturns ==
    /\ Busy("copy") /\ call.cur = NULL
    /\ live' = live \cup {call.to}
    /\ call' = Idle
    /\ got' = Success
    /\ UNCHANGED <<size, head, tail, heap, faults, order>>

\* The call that runs goes on.
Step ==
    \/ ReverseDown \/ ReverseUp \/ ReverseReturns
    \/ ClearTurn \/ ClearReturns \/ DestroyReturns
    \/ CopyTurn \/ CopyReturns

Next ==
    \/ \E h \in Handles :
          \/ createQueue(h) \/ dequeue(h) \/ front(h) \/ Begin(h)
          \/ \E v \in Values : enqueue(h, v)
          \/ \E g \in Handles : copyQueue(h, g)
    \/ Step

Spec == Init /\ [][Next]_vars

\* A call runs until it returns.
FairSpec == Spec /\ WF_vars(Step)

-----------------------------------------------------------------------------
(* Properties. *)

CallType ==
    [op: {"idle", "down", "up", "clear", "destroy", "copy"}, h: Handles \cup {NULL},
     to: Handles \cup {NULL}, stack: Seq(Values), cur: Addresses \cup {NULL},
     short: BOOLEAN, rest: Nat]

TypeOK ==
    /\ live \subseteq Handles
    /\ size \in [Handles -> Nat]
    /\ head \in [Handles -> Addresses \cup {NULL}]
    /\ tail \in [Handles -> Addresses \cup {NULL}]
    /\ next \in [Addresses -> Addresses \cup {NULL, Lost}]
    /\ data \in [Addresses -> Values \cup {Lost}]
    /\ used \subseteq Addresses
    /\ call \in CallType
    /\ got \in [ok: BOOLEAN, val: Seq(Values)]
    /\ faults \in 0 .. MaxFaults
    /\ order \in [Handles -> Seq(Addresses)]

\* head, next and tail lead through the nodes of one queue.
Chain(h) ==
    /\ Len(order[h]) = size[h]
    /\ size[h] = 0 => head[h] = NULL
    /\ size[h] > 0 => /\ head[h] = order[h][1]
                      /\ tail[h] = order[h][size[h]]
                      /\ next[tail[h]] = NULL
    /\ \A i \in 1 .. size[h] - 1 : next[order[h][i]] = order[h][i + 1]

\* Whatever calls came before, each queue is a proper list: head leads over
\* size nodes to NULL, the last of them is tail, every node is allocated and
\* none is in two places.  clearQueue leaves tail dangling, and reverse and
\* copyQueue reuse what was freed; neither is ever followed.
HeapIsList ==
    /\ \A h \in Handles : Chain(h)
    /\ \A h, g \in Handles : \A i \in 1 .. size[h], j \in 1 .. size[g] :
          order[h][i] = order[g][j] => h = g /\ i = j
    /\ \A h \in Handles : \A i \in 1 .. size[h] : order[h][i] \in used

\* Every node that is allocated is in a queue: no path, with or without
\* memory, loses one ("This will clear, destroy and free all memory").
NoLeak == \A a \in used : \E h \in Handles : \E i \in 1 .. size[h] : order[h][i] = a

\* The loops over the list and the recursion of reverse come to an end.
CallsReturn == ~Busy("idle") ~> Busy("idle")

\* The elements of a queue as the list has them.
List(h) == [i \in 1 .. size[h] |-> data[order[h][i]]]

\* What a caller is entitled to see of a queue while a call runs: reverse takes
\* effect when it returns, clearQueue and destroyQueue when they begin.
Contents(h) ==
    LET old == SubSeq(List(h), 1, call.rest)
        new == SubSeq(List(h), call.rest + 1, size[h])
    IN  CASE h \notin live                        -> <<>>
          [] h \in live /\ call.h # h            -> List(h)
          [] h \in live /\ call.h = h ->
                CASE Busy("down")                 -> call.stack \o List(h)
                  [] Busy("up")                   -> call.stack \o Reverse(new) \o old
                  [] Busy("clear") \/ Busy("destroy") -> <<>>
                  [] Busy("copy")                 -> List(h)

F == INSTANCE Fifo WITH
        exists   <- live \ (IF Busy("destroy") THEN {call.h} ELSE {}),
        contents <- [h \in Handles |-> Contents(h)],
        got      <- got,
        starved  <- call.short

\* The linked list is a queue as queue.h describes it: elements come out in
\* the order in which they went in, reverse turns the order round, a copy is
\* equal to its original and shares nothing with it, and a failed call changes
\* nothing.  reverse and copyQueue do not look at what enqueue returns: without
\* memory they may lose elements, but never invent, repeat or reorder the others.
ImplementsFifo == F!Spec

=============================================================================
