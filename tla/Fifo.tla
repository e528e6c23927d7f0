-------------------------------- MODULE Fifo --------------------------------
(***************************************************************************)
(* What lib/queue/queue.h promises: a queue is a sequence of elements, and *)
(* a call that cannot be carried out says so and changes nothing.  The     *)
(* exceptions are reverse and copyQueue, which report success when memory  *)
(* ran out on the way: Starve and what follows it are the damage they may  *)
(* do.                                                                     *)
(***************************************************************************)
EXTENDS Integers, Sequences, SequencesExt

CONSTANTS
    Handles,  \* the variables of type queue * of the program
    Values    \* what an element may hold

VARIABLES
    exists,    \* the handles that are not NULL
    contents,  \* the elements of each queue, first in first out
    got,       \* what the last call with a result returned
    starved    \* memory ran out during the call of reverse or copyQueue that runs

vars == <<exists, contents, got, starved>>

\* "@return queue on success, NULL on error"
Failed       == [ok |-> FALSE, val |-> <<>>]
Success      == [ok |-> TRUE, val |-> <<>>]
Returned(v)  == [ok |-> TRUE, val |-> <<v>>]

Init ==
    /\ exists   = {}
    /\ contents = [h \in Handles |-> <<>>]
    /\ got      = Success
    /\ starved  = FALSE

\* A call on a NULL queue, on an empty one, or without memory.
Refuse == got' = Failed /\ UNCHANGED <<exists, contents, starved>>

Create(h) ==
    /\ h \notin exists
    /\ exists' = exists \cup {h}
    /\ got' = Success
    /\ UNCHANGED <<contents, starved>>

Enqueue(h, v) ==
    /\ h \in exists
    /\ contents' = [contents EXCEPT ![h] = Append(@, v)]
    /\ got' = Success
    /\ UNCHANGED <<exists, starved>>

Dequeue(h) ==
    /\ h \in exists /\ contents[h] # <<>>
    /\ got' = Returned(Head(contents[h]))
    /\ contents' = [contents EXCEPT ![h] = Tail(@)]
    /\ UNCHANGED <<exists, starved>>

First(h) ==
    /\ h \in exists /\ contents[h] # <<>>
    /\ got' = Returned(Head(contents[h]))
    /\ UNCHANGED <<exists, contents, starved>>

\* Memory runs out while reverse, or a copy, of h runs; the element that
\* reverse was about to put back is lost.
Starve(h) ==
    /\ h \in exists
    /\ \/ UNCHANGED contents
       \/ \E i \in DOMAIN contents[h] : contents' = [contents EXCEPT ![h] = RemoveAt(@, i)]
    /\ starved' = TRUE
    /\ UNCHANGED <<exists, got>>

\* The first k elements turned round behind the others, which is all of them
\* unless memory ran out.
ReverseAll(h) ==
    /\ h \in exists
    /\ \E k \in 0 .. Len(contents[h]) :
          /\ ~starved => k = Len(contents[h])
          /\ contents' = [contents EXCEPT
                ![h] = SubSeq(@, k + 1, Len(@)) \o Reverse(SubSeq(@, 1, k))]
    /\ starved' = FALSE
    /\ UNCHANGED <<exists, got>>

Clear(h) ==
    /\ h \in exists
    /\ contents' = [contents EXCEPT ![h] = <<>>]
    /\ UNCHANGED <<exists, got, starved>>

Destroy(h) ==
    /\ h \in exists
    /\ exists' = exists \ {h}
    /\ contents' = [contents EXCEPT ![h] = <<>>]
    /\ UNCHANGED <<got, starved>>

\* n of the positions 1 .. m, in their order.
Positions(n, m) == {at \in [1 .. n -> 1 .. m] : \A i, j \in 1 .. n : i < j => at[i] < at[j]}

\* An equal queue, or some of its elements in their order if memory ran out.
Copy(h, g) ==
    /\ h \in exists /\ g \notin exists
    /\ exists' = exists \cup {g}
    /\ \/ contents' = [contents EXCEPT ![g] = contents[h]]
       \/ /\ starved
          /\ \E n \in 0 .. Len(contents[h]) : \E at \in Positions(n, Len(contents[h])) :
                contents' = [contents EXCEPT ![g] = [i \in 1 .. n |-> contents[h][at[i]]]]
    /\ starved' = FALSE
    /\ got' = Success

Next ==
    \/ Refuse
    \/ \E h \in Handles :
          \/ Create(h) \/ Dequeue(h) \/ First(h) \/ Starve(h)
          \/ ReverseAll(h) \/ Clear(h) \/ Destroy(h)
          \/ \E v \in Values : Enqueue(h, v)
          \/ \E g \in Handles : Copy(h, g)

Spec == Init /\ [][Next]_vars

=============================================================================
