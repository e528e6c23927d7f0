---------------------------- MODULE QueueProofs ----------------------------
(***************************************************************************)
(* Proofs about Queue for any number of queues, elements and failures of   *)
(* malloc.                                                                 *)
(***************************************************************************)
EXTENDS Queue, SequenceTheorems, TLAPS

\* A queue that is NULL has nothing allocated, unless copyQueue is filling it.
OnlyLiveHold ==
    \A h \in Handles \ live : size[h] = 0 \/ (Busy("copy") /\ h = call.to)

\* Nodes of a queue hold elements.
HoldValues == \A h \in Handles : \A i \in 1 .. size[h] : data[order[h][i]] \in Values

\* The call that runs has a queue to work on.  copyQueue fills another one, and
\* its position is a node of the first or the end.
CallInv ==
    /\ ~Busy("idle") => call.h \in live
    /\ Busy("copy") =>
          /\ call.to \in Handles \ live
          /\ call.cur = NULL \/ \E k \in 1 .. size[call.h] : call.cur = order[call.h][k]

\* The inductive invariant: what concerns the lists, and what the calls.
ListType ==
    /\ size \in [Handles -> Nat]
    /\ head \in [Handles -> Addresses \cup {NULL}]
    /\ tail \in [Handles -> Addresses \cup {NULL}]
    /\ next \in [Addresses -> Addresses \cup {NULL, Lost}]
    /\ data \in [Addresses -> Values \cup {Lost}]
    /\ used \subseteq Addresses
    /\ order \in [Handles -> Seq(Addresses)]
ListInv == ListType /\ HeapIsList /\ NoLeak /\ HoldValues
CallsTyped ==
    /\ live \subseteq Handles
    /\ call \in CallType
    /\ got \in [ok: BOOLEAN, val: Seq(Values)]
    /\ faults \in 0 .. MaxFaults
QInv == ListInv /\ CallsTyped /\ OnlyLiveHold /\ CallInv

-----------------------------------------------------------------------------
(* The operations on a list. *)

\* A node put at the end.
LEMMA LinkKeeps ==
    ASSUME ListInv, NEW h \in Handles, NEW a \in Addresses \ used, NEW v \in Values,
           Link(h, a, v)
    PROVE  /\ ListInv'
           /\ size'[h] = size[h] + 1 /\ order'[h] = Append(order[h], a)
           /\ data'[a] = v /\ \A b \in Addresses \ {a} : data'[b] = data[b]
           /\ \A g \in Handles \ {h} : size'[g] = size[g] /\ order'[g] = order[g]
           /\ \A g \in Handles : \A i \in 1 .. size[g] :
                 order'[g][i] = order[g][i] /\ order[g][i] # a
<1> DEFINE n == size[h]
           t == tail[h]
<1>1. ListType /\ HeapIsList /\ NoLeak /\ HoldValues
  BY DEF ListInv
<1>2. n \in Nat /\ order[h] \in Seq(Addresses) /\ Len(order[h]) = n
  BY <1>1 DEF ListType, HeapIsList, Chain
<1>3. /\ size'[h] = n + 1 /\ \A g \in Handles \ {h} : size'[g] = size[g] /\ order'[g] = order[g]
      /\ order'[h] = Append(order[h], a)
      /\ Len(order'[h]) = n + 1 /\ order'[h][n + 1] = a
      /\ \A i \in 1 .. n : order'[h][i] = order[h][i]
  BY <1>1, <1>2 DEF Link, ListType
<1>4. ListType'
  <2>1. head' \in [Handles -> Addresses \cup {NULL}]
    BY <1>1 DEF Link, ListType
  <2>2. next' \in [Addresses -> Addresses \cup {NULL, Lost}]
    BY <1>1 DEF Link, ListType
  <2>3. order' \in [Handles -> Seq(Addresses)]
    BY <1>1 DEF Link, ListType
  <2>4. size' \in [Handles -> Nat]
    BY <1>1 DEF Link, ListType
  <2> QED
    BY <1>1, <2>1, <2>2, <2>3, <2>4 DEF Link, ListType
<1>5. /\ \A g \in Handles : \A i \in 1 .. size[g] :
             order[g][i] \in used /\ order[g][i] \in Addresses /\ order[g][i] # a
      /\ \A g, f \in Handles : \A i \in 1 .. size[g], j \in 1 .. size[f] :
            order[g][i] = order[f][j] => g = f /\ i = j
  BY <1>1 DEF HeapIsList, ListType
<1>6. /\ n > 0 => t = order[h][n] /\ t # a /\ next'[t] = a
      /\ next'[a] = NULL
      /\ \A b \in Addresses \ {a} : (n > 0 /\ b = t) \/ next'[b] = next[b]
      /\ tail'[h] = a /\ \A g \in Handles \ {h} : tail'[g] = tail[g]
      /\ n = 0 => head'[h] = a
      /\ n > 0 => head'[h] = head[h]
      /\ \A g \in Handles \ {h} : head'[g] = head[g]
  <2>1. n > 0 => t = order[h][n] /\ t # a /\ t \in Addresses
    BY <1>1, <1>2, <1>5 DEF HeapIsList, Chain
  <2> QED
    BY <1>1, <1>2, <2>1 DEF Link, ListType
<1>7. data'[a] = v /\ \A b \in Addresses \ {a} : data'[b] = data[b]
  BY <1>1 DEF Link, ListType
<1>8. Chain(h)'
  <2>1. Chain(h)
    BY <1>1 DEF HeapIsList
  <2>2. head'[h] = order'[h][1]
    BY <1>2, <1>3, <1>6, <2>1 DEF Chain
  <2>3. tail'[h] = order'[h][size'[h]] /\ next'[tail'[h]] = NULL
    BY <1>3, <1>6
  <2>4. ASSUME NEW i \in 1 .. size'[h] - 1 PROVE next'[order'[h][i]] = order'[h][i + 1]
    <3>1. i \in 1 .. n /\ order'[h][i] = order[h][i] /\ order[h][i] \in Addresses \ {a}
      BY <1>2, <1>3, <1>5
    <3>2. CASE i = n
      BY <1>2, <1>3, <1>6, <3>1, <3>2
    <3>3. CASE i < n
      <4>1. n \in 1 .. n /\ i + 1 \in 1 .. n
        BY <1>2, <3>1, <3>3
      <4>2. order[h][i] # order[h][n]
        BY <1>5, <3>1, <3>3, <4>1
      <4>3. next'[order[h][i]] = next[order[h][i]]
        BY <1>6, <3>1, <4>2
      <4>4. next[order[h][i]] = order[h][i + 1]
        BY <1>2, <2>1, <3>1, <3>3 DEF Chain
      <4> QED
        BY <1>3, <3>1, <4>1, <4>3, <4>4
    <3> QED
      BY <1>2, <3>1, <3>2, <3>3
  <2> HIDE DEF n, t
  <2> QED
    BY <1>2, <1>3, <2>2, <2>3, <2>4 DEF Chain
<1>9. ASSUME NEW g \in Handles \ {h} PROVE Chain(g)'
  <2>1. Chain(g) /\ size[g] \in Nat
    BY <1>1 DEF HeapIsList, ListType
  <2>2. \A i \in 1 .. size[g] : next'[order[g][i]] = next[order[g][i]]
    <3> SUFFICES ASSUME NEW i \in 1 .. size[g] PROVE next'[order[g][i]] = next[order[g][i]]
      OBVIOUS
    <3>1. n > 0 => n \in 1 .. n
      BY <1>2
    <3>2. n > 0 => order[g][i] # order[h][n]
      BY <1>5, <3>1
    <3> QED
      BY <1>5, <1>6, <3>2
  <2>3. size'[g] = size[g] /\ order'[g] = order[g] /\ head'[g] = head[g] /\ tail'[g] = tail[g]
    BY <1>3, <1>6
  <2>4. /\ size[g] > 0 => next'[tail[g]] = next[tail[g]]
        /\ \A i \in 1 .. size[g] - 1 : next'[order[g][i]] = next[order[g][i]]
    BY <2>1, <2>2 DEF Chain
  <2> HIDE DEF n, t
  <2> QED
    BY <2>1, <2>3, <2>4 DEF Chain
<1> HIDE DEF t
<1>10. \A g \in Handles : Chain(g)'
  BY <1>8, <1>9
<1>11. \A g \in Handles : \A i \in 1 .. size'[g] :
          \/ i \in 1 .. size[g] /\ order'[g][i] = order[g][i]
          \/ g = h /\ i = n + 1 /\ order'[g][i] = a
  <2> SUFFICES ASSUME NEW g \in Handles, NEW i \in 1 .. size'[g]
               PROVE  \/ i \in 1 .. size[g] /\ order'[g][i] = order[g][i]
                      \/ g = h /\ i = n + 1 /\ order'[g][i] = a
    OBVIOUS
  <2>1. CASE g = h
    <3>1. i \in 1 .. n + 1
      BY <1>3, <2>1
    <3>2. i \in 1 .. n \/ i = n + 1
      BY <1>2, <3>1
    <3> QED
      BY <1>3, <2>1, <3>2
  <2>2. CASE g # h
    BY <1>3, <2>2
  <2> QED
    BY <2>1, <2>2
<1>12. used' = used \cup {a}
  BY DEF Link
<1> HIDE DEF n
<1>13. HeapIsList'
  <2>1. \A f, g \in Handles : \A i \in 1 .. size'[f], j \in 1 .. size'[g] :
           order'[f][i] = order'[g][j] => f = g /\ i = j
    BY <1>5, <1>11
  <2>2. \A g \in Handles : \A i \in 1 .. size'[g] : order'[g][i] \in used'
    BY <1>5, <1>11, <1>12
  <2> QED
    BY <1>10, <2>1, <2>2 DEF HeapIsList
<1>14. NoLeak'
  <2> SUFFICES ASSUME NEW b \in used'
               PROVE  \E g \in Handles : \E i \in 1 .. size'[g] : order'[g][i] = b
    BY DEF NoLeak
  <2>1. CASE b = a
    BY <1>2, <1>3, <2>1 DEF n
  <2>2. CASE b \in used
    <3>1. PICK g \in Handles : \E i \in 1 .. size[g] : order[g][i] = b
      BY <1>1, <2>2 DEF NoLeak
    <3>2. CASE g = h
      <4>1. PICK i \in 1 .. n : order[h][i] = b
        BY <3>1, <3>2 DEF n
      <4>2. i \in 1 .. n + 1
        BY <1>2
      <4> QED
        BY <1>3, <4>1, <4>2
    <3>3. CASE g # h
      BY <1>3, <3>1, <3>3
    <3> QED
      BY <3>2, <3>3
  <2> QED
    BY <1>12, <2>1, <2>2
<1>15. HoldValues'
  BY <1>1, <1>5, <1>7, <1>11 DEF HoldValues
<1>16. \A g \in Handles : \A i \in 1 .. size[g] : order'[g][i] = order[g][i]
  <2> SUFFICES ASSUME NEW g \in Handles, NEW i \in 1 .. size[g]
               PROVE  order'[g][i] = order[g][i]
    OBVIOUS
  <2>1. CASE g = h
    BY <1>2, <1>3, <2>1 DEF n
  <2>2. CASE g # h
    BY <1>3, <2>2
  <2> QED
    BY <2>1, <2>2
<1> QED
  BY <1>3, <1>4, <1>5, <1>7, <1>13, <1>14, <1>15, <1>16 DEF ListInv, n

\* A node taken from the front; tail only matters while a node is left.
Drop(h) ==
    /\ head' = [head EXCEPT ![h] = next[head[h]]]
    /\ tail' \in [Handles -> Addresses \cup {NULL}]
    /\ \A g \in Handles : g # h \/ size[h] > 1 => tail'[g] = tail[g]
    /\ size' = [size EXCEPT ![h] = @ - 1]
    /\ Free(head[h])
    /\ order' = [order EXCEPT ![h] = Tail(@)]

LEMMA DropKeeps ==
    ASSUME ListInv, NEW h \in Handles, size[h] > 0, Drop(h)
    PROVE  /\ ListInv'
           /\ head[h] = order[h][1]
           /\ size'[h] = size[h] - 1 /\ order'[h] = Tail(order[h])
           /\ \A b \in Addresses \ {head[h]} : data'[b] = data[b]
           /\ \A g \in Handles \ {h} : size'[g] = size[g] /\ order'[g] = order[g]
           /\ \A g \in Handles : \A i \in 1 .. size'[g] : order'[g][i] # head[h]
<1> DEFINE n == size[h]
           a == head[h]
<1>1. ListType /\ HeapIsList /\ NoLeak /\ HoldValues
  BY DEF ListInv
<1>2. /\ n \in Nat /\ n > 0 /\ order[h] \in Seq(Addresses) /\ Len(order[h]) = n
      /\ a = order[h][1] /\ a \in Addresses
  BY <1>1 DEF ListType, HeapIsList, Chain
<1>3. /\ size'[h] = n - 1 /\ \A g \in Handles \ {h} : size'[g] = size[g] /\ order'[g] = order[g]
      /\ order'[h] = Tail(order[h])
      /\ Len(order'[h]) = n - 1
      /\ \A i \in 1 .. n - 1 : order'[h][i] = order[h][i + 1]
  BY <1>1, <1>2 DEF Drop, ListType
<1>4. /\ \A g \in Handles : \A i \in 1 .. size[g] :
            order[g][i] \in used /\ order[g][i] \in Addresses
      /\ \A g, f \in Handles : \A i \in 1 .. size[g], j \in 1 .. size[f] :
            order[g][i] = order[f][j] => g = f /\ i = j
  BY <1>1 DEF HeapIsList, ListType
<1>5. /\ \A b \in Addresses \ {a} : next'[b] = next[b] /\ data'[b] = data[b]
      /\ head'[h] = next[a] /\ \A g \in Handles \ {h} : head'[g] = head[g]
      /\ used' = used \ {a}
  BY <1>1, <1>2 DEF Drop, Free, ListType
<1>6. head'[h] = IF n = 1 THEN NULL ELSE order[h][2]
  <2>1. Chain(h)
    BY <1>1 DEF HeapIsList
  <2>2. CASE n = 1
    BY <1>2, <1>5, <2>1, <2>2 DEF Chain
  <2>3. CASE n # 1
    BY <1>2, <1>5, <2>1, <2>3 DEF Chain
  <2> QED
    BY <2>2, <2>3
<1>7. ListType'
  <2>1. head'[h] \in Addresses \cup {NULL}
    BY <1>2, <1>4, <1>6
  <2>2. head' \in [Handles -> Addresses \cup {NULL}]
    BY <1>1, <2>1 DEF Drop, ListType
  <2>3. next' \in [Addresses -> Addresses \cup {NULL, Lost}]
    BY <1>1 DEF Drop, Free, ListType
  <2>4. order' \in [Handles -> Seq(Addresses)]
    BY <1>1, <1>2, <1>3 DEF Drop, ListType
  <2>5. size' \in [Handles -> Nat]
    BY <1>1, <1>2 DEF Drop, ListType
  <2>6. data' \in [Addresses -> Values \cup {Lost}]
    BY <1>1 DEF Drop, Free, ListType
  <2> QED
    BY <1>1, <1>5, <2>2, <2>3, <2>4, <2>5, <2>6 DEF Drop, ListType
\* Every node of a queue after the step was one before, and not the first of h.
<1>8. \A g \in Handles : \A i \in 1 .. size'[g] :
         /\ order'[g][i] # a
         /\ \E j \in 1 .. size[g] : /\ order'[g][i] = order[g][j]
                                   /\ j = IF g = h THEN i + 1 ELSE i
  <2> SUFFICES ASSUME NEW g \in Handles, NEW i \in 1 .. size'[g]
               PROVE  /\ order'[g][i] # a
                      /\ \E j \in 1 .. size[g] : /\ order'[g][i] = order[g][j]
                                                /\ j = IF g = h THEN i + 1 ELSE i
    OBVIOUS
  <2>0. 1 \in 1 .. n
    BY <1>2
  <2> HIDE DEF a
  <2>1. CASE g = h
    <3>0. i \in 1 .. n - 1
      BY <1>3, <2>1
    <3>1. i + 1 \in 1 .. n /\ i + 1 # 1
      BY <1>2, <3>0
    <3>4. order'[g][i] = order[h][i + 1]
      BY <1>3, <2>1, <3>0
    <3>2. order[h][i + 1] # order[h][1]
      BY <1>4, <2>0, <3>1
    <3> QED
      BY <1>2, <2>1, <3>1, <3>2, <3>4
  <2>2. CASE g # h
    <3>1. i \in 1 .. size[g] /\ order'[g][i] = order[g][i]
      BY <1>3, <2>2
    <3>2. order[g][i] # order[h][1]
      BY <1>4, <2>0, <2>2, <3>1
    <3> QED
      BY <1>2, <2>2, <3>1, <3>2
  <2> QED
    BY <2>1, <2>2
<1> HIDE DEF a
<1>9. Chain(h)'
  <2>1. Chain(h)
    BY <1>1 DEF HeapIsList
  <2>2. n - 1 > 0 => head'[h] = order'[h][1]
    BY <1>2, <1>3, <1>6
  <2>3. n - 1 = 0 => head'[h] = NULL
    BY <1>2, <1>6
  <2>4. ASSUME n - 1 > 0
        PROVE  tail'[h] = order'[h][n - 1] /\ next'[tail'[h]] = NULL
    <3>1. tail'[h] = tail[h] /\ tail[h] = order[h][n] /\ next[tail[h]] = NULL
      BY <1>2, <2>1, <2>4 DEF Drop, Chain
    <3>2. order'[h][n - 1] = order[h][n] /\ order'[h][n - 1] # a /\ order[h][n] \in Addresses
      <4>1. n - 1 \in 1 .. n - 1 /\ n - 1 \in 1 .. size'[h] /\ n \in 1 .. size[h] /\ n - 1 + 1 = n
        BY <1>2, <1>3, <2>4
      <4>2. order'[h][n - 1] # a
        BY <1>8, <4>1
      <4>3. order[h][n] \in Addresses
        BY <1>4, <4>1
      <4>4. order'[h][n - 1] = order[h][n]
        BY <1>3, <4>1
      <4> QED
        BY <4>2, <4>3, <4>4
    <3> QED
      BY <1>5, <3>1, <3>2
  <2>5. ASSUME NEW i \in 1 .. n - 1 - 1 PROVE next'[order'[h][i]] = order'[h][i + 1]
    <3>1. i \in 1 .. size'[h] /\ i + 1 \in 1 .. n - 1
      BY <1>2, <1>3
    <3>2. order'[h][i] = order[h][i + 1] /\ order'[h][i + 1] = order[h][i + 1 + 1]
      BY <1>2, <1>3, <3>1
    <3>3. order'[h][i] \in Addresses \ {a}
      BY <1>2, <1>4, <1>8, <3>1, <3>2
    <3>4. next[order[h][i + 1]] = order[h][i + 1 + 1]
      BY <1>2, <2>1, <3>1 DEF Chain
    <3> QED
      BY <1>5, <3>2, <3>3, <3>4
  <2> HIDE DEF n
  <2> QED
    BY <1>3, <2>2, <2>3, <2>4, <2>5 DEF Chain
<1> HIDE DEF n
<1>10. ASSUME NEW g \in Handles \ {h} PROVE Chain(g)'
  <2>1. Chain(g) /\ size[g] \in Nat
    BY <1>1 DEF HeapIsList, ListType
  <2>2. \A i \in 1 .. size[g] : next'[order[g][i]] = next[order[g][i]]
    BY <1>3, <1>4, <1>5, <1>8
  <2>3. size'[g] = size[g] /\ order'[g] = order[g] /\ head'[g] = head[g] /\ tail'[g] = tail[g]
    BY <1>3, <1>5 DEF Drop
  <2>4. /\ size[g] > 0 => next'[tail[g]] = next[tail[g]]
        /\ \A i \in 1 .. size[g] - 1 : next'[order[g][i]] = next[order[g][i]]
    BY <2>1, <2>2 DEF Chain
  <2> QED
    BY <2>1, <2>3, <2>4 DEF Chain
<1>11. \A g \in Handles : Chain(g)'
  BY <1>9, <1>10
<1>12. HeapIsList'
  <2>1. ASSUME NEW f \in Handles, NEW g \in Handles,
               NEW i \in 1 .. size'[f], NEW j \in 1 .. size'[g], order'[f][i] = order'[g][j]
        PROVE  f = g /\ i = j
    <3>1. PICK k \in 1 .. size[f] : order'[f][i] = order[f][k] /\ k = IF f = h THEN i + 1 ELSE i
      BY <1>8
    <3>2. PICK m \in 1 .. size[g] : order'[g][j] = order[g][m] /\ m = IF g = h THEN j + 1 ELSE j
      BY <1>8
    <3>3. order[f][k] = order[g][m]
      BY <2>1, <3>1, <3>2
    <3>4. f = g /\ k = m
      BY <1>4, <3>3
    <3> QED
      BY <3>1, <3>2, <3>4
  <2>2. \A g \in Handles : \A i \in 1 .. size'[g] : order'[g][i] \in used'
    BY <1>4, <1>5, <1>8
  <2> QED
    BY <1>11, <2>1, <2>2 DEF HeapIsList
<1>13. NoLeak'
  <2> SUFFICES ASSUME NEW b \in used'
               PROVE  \E g \in Handles : \E i \in 1 .. size'[g] : order'[g][i] = b
    BY DEF NoLeak
  <2>1. PICK g \in Handles : \E i \in 1 .. size[g] : order[g][i] = b
    BY <1>1, <1>5 DEF NoLeak
  <2>2. PICK i \in 1 .. size[g] : order[g][i] = b
    BY <2>1
  <2>3. CASE g = h
    <3>1. i # 1
      BY <1>2, <1>5, <2>2, <2>3
    <3>2. i - 1 \in 1 .. n - 1 /\ i - 1 + 1 = i
      BY <1>2, <2>3, <3>1 DEF n
    <3>3. order'[h][i - 1] = b
      BY <1>3, <2>2, <2>3, <3>2
    <3> QED
      BY <1>3, <3>2, <3>3
  <2>4. CASE g # h
    BY <1>3, <2>1, <2>4
  <2> QED
    BY <2>3, <2>4
<1>14. HoldValues'
  BY <1>1, <1>4, <1>5, <1>8 DEF HoldValues
<1> QED
  BY <1>2, <1>3, <1>5, <1>7, <1>8, <1>12, <1>13, <1>14 DEF ListInv, n, a

LEMMA UnlinkDrops ==
    ASSUME ListInv, NEW h \in Handles, size[h] > 0, Unlink(h)
    PROVE  Drop(h) /\ UNCHANGED live
<1>1. ListType /\ Chain(h)
  BY DEF ListInv, HeapIsList
<1>2. size[h] = 1 => next[head[h]] = NULL
  BY <1>1 DEF Chain
<1>3. head' = [head EXCEPT ![h] = next[head[h]]]
  BY <1>1, <1>2 DEF Unlink, ListType
<1>4. tail' = tail \/ (size[h] = 1 /\ tail' = [tail EXCEPT ![h] = NULL])
  BY DEF Unlink
<1>5. /\ tail' \in [Handles -> Addresses \cup {NULL}]
      /\ \A g \in Handles : g # h \/ size[h] > 1 => tail'[g] = tail[g]
  BY <1>1, <1>4 DEF ListType
<1> QED
  BY <1>3, <1>5 DEF Unlink, Drop

\* Nothing has happened to the lists, except that destroyQueue has cleared the
\* tail of an empty one.
Rests ==
    /\ UNCHANGED <<size, head, heap, order>>
    /\ tail' \in [Handles -> Addresses \cup {NULL}]
    /\ \A h \in Handles : size[h] > 0 => tail'[h] = tail[h]

LEMMA RestsKeeps ==
    ASSUME ListInv, Rests
    PROVE  ListInv'
<1>1. ListType' /\ NoLeak' /\ HoldValues'
  BY DEF ListInv, Rests, heap, ListType, NoLeak, HoldValues
<1>2. ASSUME NEW h \in Handles PROVE Chain(h)'
  <2>1. Chain(h) /\ size[h] \in Nat /\ (size[h] > 0 => tail'[h] = tail[h])
    BY DEF ListInv, HeapIsList, ListType, Rests
  <2> QED
    BY <2>1 DEF Rests, heap, Chain
<1>3. HeapIsList'
  BY <1>2 DEF ListInv, HeapIsList, Rests, heap
<1> QED
  BY <1>1, <1>3 DEF ListInv

LEMMA Unchanged ==
    ASSUME ListInv, UNCHANGED <<queues, heap, order>>
    PROVE  Rests /\ UNCHANGED live
BY DEF ListInv, ListType, Rests, queues

-----------------------------------------------------------------------------
(* The calls. *)

\* A step that leaves the calls as they are.
LEMMA CallRests ==
    ASSUME QInv, ListInv', UNCHANGED <<live, call>>, Busy("idle"),
           \A h \in Handles \ live : size'[h] = size[h],
           got' \in [ok: BOOLEAN, val: Seq(Values)], faults' \in 0 .. MaxFaults
    PROVE  QInv'
BY DEF QInv, CallsTyped, OnlyLiveHold, CallInv, Busy

LEMMA FailsCounts ==
    ASSUME QInv, NEW op, Fails(op)
    PROVE  faults' \in 0 .. MaxFaults
BY FaultsAssumption DEF QInv, CallsTyped, Fails

LEMMA RefuseKeeps ==
    ASSUME QInv, Busy("idle"), Refuse, faults' \in 0 .. MaxFaults
    PROVE  QInv'
<1>1. ListInv' /\ UNCHANGED <<live, size>>
  BY Unchanged, RestsKeeps DEF QInv, Refuse, Rests
<1> QED
  BY <1>1, CallRests DEF Refuse, Failed

LEMMA CreateKeeps ==
    ASSUME QInv, NEW h \in Handles, createQueue(h)
    PROVE  QInv'
<1>1. CASE Fails("create") /\ Refuse
  BY <1>1, FailsCounts, RefuseKeeps DEF createQueue
<1>2. CASE /\ live' = live \cup {h} /\ got' = Success
           /\ UNCHANGED <<size, head, tail, heap, call, faults, order>>
  <2>1. Busy("idle") /\ live' = live \cup {h} /\ got' = Success
        /\ UNCHANGED <<size, head, tail, heap, call, faults, order>>
    BY <1>2 DEF createQueue
  <2>2. ListInv'
    BY <2>1, RestsKeeps DEF Rests, QInv, ListInv, ListType
  <2>3. CallsTyped'
    BY <2>1 DEF QInv, CallsTyped, Success
  <2> QED
    BY <2>1, <2>2, <2>3 DEF QInv, OnlyLiveHold, CallInv, Busy
<1> QED
  BY <1>1, <1>2 DEF createQueue

LEMMA EnqueueKeeps ==
    ASSUME QInv, NEW h \in Handles, NEW v \in Values, enqueue(h, v)
    PROVE  QInv'
<1>0. faults \in 0 .. MaxFaults /\ Busy("idle")
  BY DEF QInv, CallsTyped, enqueue
<1>1. CASE Refuse
  BY <1>0, <1>1, FailsCounts, RefuseKeeps DEF enqueue
<1>2. CASE ~Refuse
  <2>1. PICK a \in Addresses \ used : Link(h, a, v)
    BY <1>2 DEF enqueue
  <2>2. h \in live /\ got' = Success /\ UNCHANGED <<live, call, faults>>
    BY <1>2, <2>1 DEF enqueue, Link
  <2>3. ListInv' /\ \A g \in Handles \ live : size'[g] = size[g]
    BY <2>1, <2>2, LinkKeeps DEF QInv
  <2> QED
    BY <1>0, <2>2, <2>3, CallRests DEF Success
<1> QED
  BY <1>1, <1>2

\* What is at the front is an element.
LEMMA FrontIsValue ==
    ASSUME ListInv, NEW h \in Handles, size[h] > 0
    PROVE  data[head[h]] \in Values
<1>1. size[h] \in Nat /\ head[h] = order[h][1]
  BY DEF ListInv, ListType, HeapIsList, Chain
<1>2. 1 \in 1 .. size[h]
  BY <1>1
<1> QED
  BY <1>1, <1>2 DEF ListInv, HoldValues

LEMMA DequeueKeeps ==
    ASSUME QInv, NEW h \in Handles, dequeue(h)
    PROVE  QInv'
<1>0. faults' \in 0 .. MaxFaults /\ Busy("idle")
  BY DEF QInv, CallsTyped, dequeue
<1>1. CASE Refuse
  BY <1>0, <1>1, RefuseKeeps
<1>2. CASE ~Refuse
  <2>1. /\ h \in live /\ size[h] > 0 /\ Unlink(h) /\ got' = Returned(data[head[h]])
        /\ UNCHANGED call
    BY <1>2 DEF dequeue, getSize
  <2>2. ListInv' /\ \A g \in Handles \ live : size'[g] = size[g]
    BY <2>1, UnlinkDrops, DropKeeps DEF QInv
  <2>3. got' \in [ok: BOOLEAN, val: Seq(Values)]
    BY <2>1, FrontIsValue DEF QInv, Returned
  <2> QED
    BY <1>0, <2>1, <2>2, <2>3, CallRests DEF Unlink
<1> QED
  BY <1>1, <1>2

LEMMA FrontKeeps ==
    ASSUME QInv, NEW h \in Handles, front(h)
    PROVE  QInv'
<1>0. faults' \in 0 .. MaxFaults /\ Busy("idle")
  BY DEF QInv, CallsTyped, front
<1>1. CASE Refuse
  BY <1>0, <1>1, RefuseKeeps
<1>2. CASE ~Refuse
  <2>1. /\ h \in live /\ size[h] > 0 /\ got' = Returned(data[head[h]])
        /\ UNCHANGED <<queues, heap, call, order>>
    BY <1>2 DEF front, getSize
  <2>2. ListInv' /\ UNCHANGED <<live, size>>
    BY <2>1, Unchanged, RestsKeeps DEF QInv, Rests
  <2>3. got' \in [ok: BOOLEAN, val: Seq(Values)]
    BY <2>1, FrontIsValue DEF QInv, Returned
  <2> QED
    BY <1>0, <2>1, <2>2, <2>3, CallRests
<1> QED
  BY <1>1, <1>2

LEMMA BeginKeeps ==
    ASSUME QInv, NEW h \in Handles, Begin(h)
    PROVE  QInv'
<1>0. faults' \in 0 .. MaxFaults /\ Busy("idle")
  BY DEF QInv, CallsTyped, Begin
<1>1. CASE Refuse
  BY <1>0, <1>1, RefuseKeeps
<1>2. CASE ~Refuse
  <2>1. PICK op \in {"down", "clear", "destroy"} :
           h \in live /\ call' = Call(op, h, NULL, NULL) /\ UNCHANGED <<queues, heap, got, order>>
    BY <1>2 DEF Begin
  <2>2. ListInv' /\ UNCHANGED <<live, size>>
    BY <2>1, Unchanged, RestsKeeps DEF QInv, Rests
  <2>3. call' \in CallType /\ call'.h = h /\ call'.op = op
    BY <2>1 DEF Call, CallType
  <2>4. CallsTyped'
    BY <1>0, <2>1, <2>2, <2>3 DEF QInv, CallsTyped
  <2> QED
    BY <1>0, <2>1, <2>2, <2>3, <2>4 DEF QInv, OnlyLiveHold, CallInv, Busy
<1> QED
  BY <1>1, <1>2

LEMMA CopyQueueKeeps ==
    ASSUME QInv, NEW h \in Handles, NEW g \in Handles, copyQueue(h, g)
    PROVE  QInv'
<1>0. faults \in 0 .. MaxFaults /\ Busy("idle")
  BY DEF QInv, CallsTyped, copyQueue
<1>1. CASE Refuse
  BY <1>0, <1>1, FailsCounts, RefuseKeeps DEF copyQueue
<1>2. CASE ~Refuse
  <2>1. /\ h \in live /\ g \notin live /\ call' = Call("copy", h, g, head[h])
        /\ UNCHANGED <<queues, heap, got, faults, order>>
    BY <1>2 DEF copyQueue
  <2>2. ListInv' /\ UNCHANGED <<live, size, order>>
    BY <2>1, Unchanged, RestsKeeps DEF QInv, Rests
  <2>3. /\ call' \in CallType /\ call'.h = h /\ call'.op = "copy"
        /\ call'.to = g /\ call'.cur = head[h]
    BY <2>1 DEF Call, CallType, QInv, ListInv, ListType
  <2>4. CallsTyped'
    BY <1>0, <2>1, <2>2, <2>3 DEF QInv, CallsTyped
  <2>5. head[h] = NULL \/ \E k \in 1 .. size[h] : head[h] = order[h][k]
    <3>1. Chain(h) /\ size[h] \in Nat
      BY DEF QInv, ListInv, HeapIsList, ListType
    <3>2. size[h] > 0 => 1 \in 1 .. size[h]
      BY <3>1
    <3> QED
      BY <3>1, <3>2 DEF Chain
  <2> QED
    BY <1>0, <2>1, <2>2, <2>3, <2>4, <2>5 DEF QInv, OnlyLiveHold, CallInv, Busy
<1> QED
  BY <1>1, <1>2

\* A step of reverse, clearQueue, destroyQueue or copyQueue that goes on.
LEMMA CallGoesOn ==
    ASSUME QInv, ListInv', UNCHANGED <<live, got>>, faults' \in 0 .. MaxFaults,
           call' \in CallType, Busy("down") \/ Busy("up") \/ Busy("clear") \/ Busy("destroy"),
           call'.h = call.h, call'.op \in {"down", "up", "clear", "destroy"},
           \A g \in Handles \ {call.h} : size'[g] = size[g]
    PROVE  QInv'
<1>1. call.h \in live
  BY DEF QInv, CallInv, Busy
<1> QED
  BY <1>1 DEF QInv, CallsTyped, OnlyLiveHold, CallInv, Busy

LEMMA ReverseDownKeeps ==
    ASSUME QInv, ReverseDown
    PROVE  QInv'
<1> DEFINE h == call.h
<1>0. /\ faults \in 0 .. MaxFaults /\ h \in live /\ h \in Handles /\ call \in CallType
      /\ ListInv /\ size[h] \in Nat
  BY DEF QInv, CallsTyped, CallInv, ReverseDown, Busy, ListInv, ListType
<1>1. CASE size[h] > 0 /\ Unlink(h) /\ call' = [call EXCEPT !.stack = Append(@, data[head[h]])]
           /\ UNCHANGED <<got, faults>>
  <2>1. ListInv' /\ UNCHANGED live /\ \A g \in Handles \ {h} : size'[g] = size[g]
    BY <1>0, <1>1, UnlinkDrops, DropKeeps
  <2>2. call' \in CallType /\ call'.h = h /\ call'.op = call.op
    <3> DEFINE v == data[head[h]]
    <3>1. v \in Values
      BY <1>0, <1>1, FrontIsValue
    <3>2. call' = [call EXCEPT !.stack = Append(@, v)]
      BY <1>1
    <3> HIDE DEF v
    <3>3. Append(call.stack, v) \in Seq(Values)
      BY <1>0, <3>1 DEF CallType
    <3> QED
      BY <1>0, <3>2, <3>3 DEF CallType
  <2> QED
    BY <1>0, <1>1, <2>1, <2>2, CallGoesOn DEF ReverseDown, Busy
<1>2. CASE /\ \/ call' = [call EXCEPT !.op = "up"] /\ UNCHANGED faults
              \/ /\ call' = [call EXCEPT !.op = "up", !.short = TRUE, !.rest = size[h]]
                 /\ Fails("reverse")
           /\ UNCHANGED <<queues, heap, order>>
  <2>1. ListInv' /\ UNCHANGED <<live, size>>
    BY <1>0, <1>2, Unchanged, RestsKeeps DEF Rests
  <2>2. call' \in CallType /\ call'.h = h /\ call'.op = "up"
    BY <1>0, <1>2 DEF CallType
  <2>3. faults' \in 0 .. MaxFaults
    BY <1>0, <1>2, FailsCounts
  <2> QED
    BY <1>0, <2>1, <2>2, <2>3, CallGoesOn DEF ReverseDown, Busy
<1> QED
  BY <1>1, <1>2 DEF ReverseDown

LEMMA ReverseUpKeeps ==
    ASSUME QInv, ReverseUp
    PROVE  QInv'
<1> DEFINE h == call.h
           s == call.stack
<1>0. /\ faults \in 0 .. MaxFaults /\ h \in live /\ h \in Handles /\ call \in CallType
      /\ ListInv /\ s \in Seq(Values) /\ s # <<>>
  BY DEF QInv, CallsTyped, CallInv, ReverseUp, Busy, CallType
<1>1. Front(s) \in Seq(Values) /\ s[Len(s)] \in Values
  BY <1>0 DEF Front
<1>2. call' \in CallType /\ call'.h = h /\ call'.op = call.op
  <2>1. \/ call' = [call EXCEPT !.stack = Front(s)]
        \/ call' = [call EXCEPT !.stack = Front(s), !.short = TRUE]
    BY DEF ReverseUp
  <2> QED
    BY <1>0, <1>1, <2>1 DEF CallType
<1>3. ASSUME NEW a \in Addresses \ used, Link(h, a, s[Len(s)]), UNCHANGED faults PROVE QInv'
  <2>1. ListInv' /\ \A g \in Handles \ {h} : size'[g] = size[g]
    BY <1>0, <1>1, <1>3, LinkKeeps
  <2> QED
    BY <1>0, <1>2, <1>3, <2>1, CallGoesOn DEF ReverseUp, Busy, Link
<1>4. CASE Fails("reverse") /\ UNCHANGED <<queues, heap, order>>
  <2>1. ListInv' /\ UNCHANGED <<live, size>>
    BY <1>0, <1>4, Unchanged, RestsKeeps DEF Rests
  <2> QED
    BY <1>0, <1>2, <1>4, <2>1, FailsCounts, CallGoesOn DEF ReverseUp, Busy
<1> QED
  BY <1>3, <1>4 DEF ReverseUp

LEMMA ClearDrops ==
    ASSUME QInv, ClearTurn
    PROVE  Drop(call.h) /\ call.h \in live /\ call.h \in Handles /\ size[call.h] > 0
<1>1. call.h \in live /\ live \subseteq Handles
  BY DEF QInv, CallsTyped, CallInv, ClearTurn, Busy
<1> QED
  BY <1>1 DEF QInv, ListInv, ListType, ClearTurn, Drop

LEMMA ClearTurnKeeps ==
    ASSUME QInv, ClearTurn
    PROVE  QInv'
<1>1. ListInv' /\ \A g \in Handles \ {call.h} : size'[g] = size[g]
  BY ClearDrops, DropKeeps DEF QInv
<1> QED
  BY <1>1, CallGoesOn DEF ClearTurn, Busy, QInv, CallsTyped

\* The call returns.
LEMMA IdleType == Idle \in CallType /\ Idle.op = "idle"
  BY DEF Idle, Call, CallType

LEMMA ReturnKeeps ==
    ASSUME QInv, ReverseReturns \/ ClearReturns \/ DestroyReturns
    PROVE  QInv'
<1>1. call.h \in live /\ live \subseteq Handles /\ ~Busy("copy")
  BY DEF QInv, CallsTyped, CallInv, ReverseReturns, ClearReturns, DestroyReturns, Busy
<1>2. Rests /\ UNCHANGED <<faults, got>> /\ call' = Idle
  <2>1. CASE ReverseReturns \/ ClearReturns
    BY <2>1, Unchanged DEF QInv, ReverseReturns, ClearReturns
  <2>2. CASE DestroyReturns
    BY <1>1, <2>2 DEF QInv, ListInv, ListType, DestroyReturns, Rests
  <2> QED
    BY <2>1, <2>2
<1>3. ListInv' /\ UNCHANGED size
  BY <1>2, RestsKeeps DEF QInv, Rests
<1>4. live' = live \/ (live' = live \ {call.h} /\ size[call.h] = 0)
  BY DEF ReverseReturns, ClearReturns, DestroyReturns, queues
<1>5. CallsTyped'
  BY <1>1, <1>2, <1>4, IdleType DEF QInv, CallsTyped
<1> QED
  BY <1>1, <1>2, <1>3, <1>4, <1>5, IdleType DEF QInv, OnlyLiveHold, CallInv, Busy

LEMMA CopyReturnsKeeps ==
    ASSUME QInv, CopyReturns
    PROVE  QInv'
<1>1. call.h \in live /\ live \subseteq Handles /\ call.to \in Handles \ live
  BY DEF QInv, CallsTyped, CallInv, CopyReturns, Busy
<1>2. ListInv' /\ UNCHANGED size
  BY RestsKeeps DEF QInv, ListInv, ListType, CopyReturns, Rests
<1>3. CallsTyped'
  BY <1>1, IdleType DEF QInv, CallsTyped, CopyReturns, Success
<1> QED
  BY <1>1, <1>2, <1>3, IdleType DEF QInv, OnlyLiveHold, CallInv, Busy, CopyReturns

\* What copyQueue reads at its position, and where it goes next.
LEMMA CopyPosition ==
    ASSUME QInv, CopyTurn
    PROVE  /\ call.h \in live /\ call.h \in Handles /\ call.to \in Handles \ live
           /\ \E k \in 1 .. size[call.h] : /\ call.cur = order[call.h][k]
                                           /\ data[call.cur] \in Values
                                           /\ \/ k = size[call.h] /\ next[call.cur] = NULL
                                              \/ /\ k + 1 \in 1 .. size[call.h]
                                                 /\ next[call.cur] = order[call.h][k + 1]
<1> DEFINE h == call.h
<1>1. call.h \in live /\ call.h \in Handles /\ call.to \in Handles \ live
  BY DEF QInv, CallsTyped, CallInv, CopyTurn, Busy
<1>2. PICK k \in 1 .. size[h] : call.cur = order[h][k]
  BY DEF QInv, CallInv, CopyTurn
<1>3. data[call.cur] \in Values
  BY <1>1, <1>2 DEF QInv, ListInv, HoldValues
<1>4. Chain(h) /\ size[h] \in Nat
  BY <1>1 DEF QInv, ListInv, HeapIsList, ListType
<1>5. CASE k = size[h]
  BY <1>1, <1>2, <1>3, <1>4, <1>5 DEF Chain
<1>6. CASE k # size[h]
  <2>1. k \in 1 .. size[h] - 1 /\ k + 1 \in 1 .. size[h]
    BY <1>4, <1>6
  <2> QED
    BY <1>1, <1>2, <1>3, <1>4, <2>1 DEF Chain
<1> QED
  BY <1>5, <1>6

LEMMA CopyTurnKeeps ==
    ASSUME QInv, CopyTurn
    PROVE  QInv'
<1> DEFINE h == call.h
           g == call.to
<1>1. /\ h \in live /\ h \in Handles /\ g \in Handles \ live /\ h # g
      /\ data[call.cur] \in Values
      /\ next[call.cur] = NULL \/ \E k \in 1 .. size[h] : next[call.cur] = order[h][k]
  BY CopyPosition
<1>2. ListInv' /\ UNCHANGED live /\ faults' \in 0 .. MaxFaults
      /\ \A f \in Handles \ {g} : size'[f] = size[f] /\ order'[f] = order[f]
  <2>1. ASSUME NEW a \in Addresses \ used, Link(g, a, data[call.cur]), UNCHANGED faults
        PROVE  <1>2
    BY <1>1, <2>1, LinkKeeps DEF QInv, CallsTyped, Link
  <2>2. CASE Fails("copy") /\ UNCHANGED <<queues, heap, order>>
    BY <2>2, Unchanged, RestsKeeps, FailsCounts DEF QInv, Rests
  <2> QED
    BY <2>1, <2>2 DEF CopyTurn
<1>3. /\ call'.op = "copy" /\ call'.h = h /\ call'.to = g /\ call'.cur = next[call.cur]
      /\ call' \in CallType
  <2>1. \/ call' = [call EXCEPT !.cur = next[call.cur]]
        \/ call' = [call EXCEPT !.cur = next[call.cur], !.short = TRUE]
    BY DEF CopyTurn
  <2>2. next[call.cur] \in Addresses \cup {NULL} /\ call \in CallType /\ call.op = "copy"
    <3>1. order[h] \in Seq(Addresses) /\ Len(order[h]) = size[h]
      BY <1>1 DEF QInv, ListInv, ListType, HeapIsList, Chain
    <3> QED
      BY <1>1, <3>1 DEF QInv, CallsTyped, CopyTurn, Busy
  <2> QED
    BY <2>1, <2>2 DEF CallType
<1>4. CallsTyped'
  BY <1>2, <1>3 DEF QInv, CallsTyped, CopyTurn
<1>5. OnlyLiveHold'
  BY <1>1, <1>2, <1>3 DEF QInv, OnlyLiveHold, Busy, CopyTurn
<1>6. CallInv'
  BY <1>1, <1>2, <1>3 DEF CallInv, Busy
<1> QED
  BY <1>2, <1>4, <1>5, <1>6 DEF QInv

LEMMA StepKeeps == QInv /\ [Next]_vars => QInv'
<1> SUFFICES ASSUME QInv, [Next]_vars PROVE QInv'
  OBVIOUS
<1>1. CASE Step
  BY <1>1, ReverseDownKeeps, ReverseUpKeeps, ClearTurnKeeps, ReturnKeeps, CopyReturnsKeeps,
     CopyTurnKeeps DEF Step
<1>2. CASE UNCHANGED vars
  <2>1. ListInv' /\ UNCHANGED <<live, size, order, call, got, faults>>
    BY <1>2, Unchanged, RestsKeeps DEF vars, QInv, Rests
  <2> QED
    BY <2>1 DEF QInv, CallsTyped, OnlyLiveHold, CallInv, Busy
<1> QED
  BY <1>1, <1>2, CreateKeeps, DequeueKeeps, FrontKeeps, BeginKeeps, EnqueueKeeps, CopyQueueKeeps
  DEF Next

LEMMA StartHolds == Init => QInv
<1> SUFFICES ASSUME Init PROVE QInv
  OBVIOUS
<1>1. ListType
  BY DEF Init, ListType
<1>2. HeapIsList /\ NoLeak /\ HoldValues
  BY DEF Init, HeapIsList, Chain, NoLeak, HoldValues
<1>3. CallsTyped /\ OnlyLiveHold /\ CallInv
  BY IdleType, FaultsAssumption DEF Init, CallsTyped, OnlyLiveHold, CallInv, Busy, Success
<1> QED
  BY <1>1, <1>2, <1>3 DEF QInv, ListInv

THEOREM Invariance == Spec => []QInv
  BY StartHolds, StepKeeps, PTL DEF Spec

\* Every variable of the library has its type; so no head or tail is ever what
\* was read out of a freed block.  It allows them, and next, to be the address of
\* one: that the links of a list are not is ListsAreProper.
THEOREM TypeCorrect == Spec => []TypeOK
<1>1. QInv => TypeOK
  BY DEF QInv, ListInv, ListType, CallsTyped, TypeOK
<1> QED
  BY <1>1, Invariance, PTL

\* Whatever calls came before and whatever malloc refused, each queue is a proper
\* list from head to tail that shares no node with another.
THEOREM ListsAreProper == Spec => []HeapIsList
<1>1. QInv => HeapIsList
  BY DEF QInv, ListInv
<1> QED
  BY <1>1, Invariance, PTL

\* No call loses a node.
THEOREM NothingLeaks == Spec => []NoLeak
<1>1. QInv => NoLeak
  BY DEF QInv, ListInv
<1> QED
  BY <1>1, Invariance, PTL

-----------------------------------------------------------------------------
(* Parts of sequences, element by element. *)

LEMMA Part ==
    ASSUME NEW V, NEW s \in Seq(V), NEW a \in 1 .. Len(s) + 1, NEW b \in a - 1 .. Len(s)
    PROVE  /\ SubSeq(s, a, b) \in Seq(V)
           /\ Len(SubSeq(s, a, b)) = b - a + 1
           /\ \A i \in 1 .. b - a + 1 : SubSeq(s, a, b)[i] = s[a + i - 1]
<1>1. Len(s) \in Nat /\ a \in Int /\ b \in Int
  OBVIOUS
<1>2. \A i \in a .. b : s[i] \in V
  BY <1>1
<1>3. /\ SubSeq(s, a, b) \in Seq(V)
      /\ Len(SubSeq(s, a, b)) = IF a <= b THEN b - a + 1 ELSE 0
      /\ \A i \in 1 .. b - a + 1 : SubSeq(s, a, b)[i] = s[a + i - 1]
  BY <1>1, <1>2, SubSeqProperties
<1> QED
  BY <1>1, <1>3

\* The same of Front and RemoveAt.
LEMMA FrontPart ==
    ASSUME NEW V, NEW s \in Seq(V), s # <<>>
    PROVE  /\ Front(s) \in Seq(V)
           /\ Len(Front(s)) = Len(s) - 1
           /\ \A i \in 1 .. Len(s) - 1 : Front(s)[i] = s[i]
<1>1. Len(s) \in Nat /\ Len(s) > 0
  OBVIOUS
<1>2. 1 \in 1 .. Len(s) + 1 /\ Len(s) - 1 \in 1 - 1 .. Len(s)
  BY <1>1
<1>3. /\ Front(s) \in Seq(V)
      /\ Len(Front(s)) = Len(s) - 1 - 1 + 1
      /\ \A i \in 1 .. Len(s) - 1 - 1 + 1 : Front(s)[i] = s[1 + i - 1]
  BY <1>2, Part DEF Front
<1> QED
  BY <1>1, <1>3

LEMMA RemoveAtParts ==
    ASSUME NEW V, NEW s \in Seq(V), NEW k \in 1 .. Len(s)
    PROVE  /\ RemoveAt(s, k) \in Seq(V)
           /\ Len(RemoveAt(s, k)) = Len(s) - 1
           /\ \A i \in 1 .. Len(s) - 1 : RemoveAt(s, k)[i] = IF i < k THEN s[i] ELSE s[i + 1]
<1> DEFINE a == SubSeq(s, 1, k - 1)
           b == SubSeq(s, k + 1, Len(s))
           n == Len(s)
<1>1. n \in Nat /\ k \in Nat /\ 1 <= k /\ k <= n
  OBVIOUS
<1>2. /\ a \in Seq(V) /\ Len(a) = k - 1 - 1 + 1
      /\ \A i \in 1 .. k - 1 - 1 + 1 : a[i] = s[1 + i - 1]
  <2>1. 1 \in 1 .. n + 1 /\ k - 1 \in 1 - 1 .. n
    BY <1>1
  <2> QED
    BY <2>1, Part
<1>3. /\ b \in Seq(V) /\ Len(b) = n - (k + 1) + 1
      /\ \A i \in 1 .. n - (k + 1) + 1 : b[i] = s[k + 1 + i - 1]
  <2>1. k + 1 \in 1 .. n + 1 /\ n \in k + 1 - 1 .. n
    BY <1>1
  <2> QED
    BY <2>1, Part
<1>4. RemoveAt(s, k) = a \o b
  BY DEF RemoveAt
<1> HIDE DEF a, b, n
<1>5. /\ a \o b \in Seq(V) /\ Len(a \o b) = Len(a) + Len(b)
      /\ \A i \in 1 .. Len(a) + Len(b) : (a \o b)[i] = IF i <= Len(a) THEN a[i] ELSE b[i - Len(a)]
  BY <1>2, <1>3, ConcatProperties
<1>6. Len(a) = k - 1 /\ Len(b) = n - k
  BY <1>1, <1>2, <1>3
<1>7. ASSUME NEW i \in 1 .. n - 1 PROVE (a \o b)[i] = IF i < k THEN s[i] ELSE s[i + 1]
  <2>1. (a \o b)[i] = IF i <= k - 1 THEN a[i] ELSE b[i - (k - 1)]
    BY <1>1, <1>5, <1>6
  <2>2. CASE i < k
    BY <1>1, <1>2, <2>1, <2>2
  <2>3. CASE ~(i < k)
    <3> DEFINE j == i - (k - 1)
    <3>1. j \in 1 .. n - (k + 1) + 1 /\ k + 1 + j - 1 = i + 1 /\ ~(i <= k - 1)
      BY <1>1, <2>3
    <3>2. (a \o b)[i] = b[j]
      BY <2>1, <3>1
    <3> HIDE DEF j
    <3>3. b[j] = s[i + 1]
      BY <1>3, <3>1
    <3> QED
      BY <2>3, <3>2, <3>3
  <2> QED
    BY <2>2, <2>3
<1>8. Len(a \o b) = n - 1
  BY <1>1, <1>5, <1>6
<1> QED
  BY <1>4, <1>5, <1>7, <1>8 DEF n

\* What reverse has on its stack, in front of the elements that are back, turned
\* round, and of the r elements it did not reach.
Turned(s, l, r) == s \o Reverse(SubSeq(l, r + 1, Len(l))) \o SubSeq(l, 1, r)
TurnedAt(s, l, r, i) ==
    IF i <= Len(s) THEN s[i]
    ELSE IF i <= Len(s) + Len(l) - r THEN l[Len(s) + Len(l) - i + 1]
    ELSE l[i - (Len(s) + Len(l) - r)]

\* The element at each position of Turned.
LEMMA TurnedElements ==
    ASSUME NEW V, NEW s \in Seq(V), NEW l \in Seq(V), NEW r \in 0 .. Len(l)
    PROVE  /\ Turned(s, l, r) \in Seq(V)
           /\ Len(Turned(s, l, r)) = Len(s) + Len(l)
           /\ \A i \in 1 .. Len(s) + Len(l) : Turned(s, l, r)[i] = TurnedAt(s, l, r, i)
<1> DEFINE new == SubSeq(l, r + 1, Len(l))
           old == SubSeq(l, 1, r)
           rev == Reverse(new)
           k   == Len(s)
           m   == Len(l)
           n   == m - r
<1>0. m \in Nat /\ k \in Nat /\ r \in Nat /\ n \in Nat
  OBVIOUS
<1>1. /\ new \in Seq(V) /\ Len(new) = n
      /\ \A i \in 1 .. n : new[i] = l[r + i]
  <2>1. r + 1 \in 1 .. m + 1 /\ m \in r + 1 - 1 .. m
    BY <1>0
  <2>2. /\ new \in Seq(V) /\ Len(new) = m - (r + 1) + 1
        /\ \A i \in 1 .. m - (r + 1) + 1 : new[i] = l[(r + 1) + i - 1]
    BY <2>1, Part
  <2> HIDE DEF new, m
  <2> QED
    BY <1>0, <2>2
<1>2. /\ old \in Seq(V) /\ Len(old) = r
      /\ \A i \in 1 .. r : old[i] = l[i]
  <2>1. 1 \in 1 .. m + 1 /\ r \in 1 - 1 .. m
    BY <1>0
  <2>2. /\ old \in Seq(V) /\ Len(old) = r - 1 + 1
        /\ \A i \in 1 .. r - 1 + 1 : old[i] = l[1 + i - 1]
    BY <2>1, Part
  <2> HIDE DEF old, m
  <2> QED
    BY <1>0, <2>2
<1> HIDE DEF new, old, m, k
<1>3. /\ rev \in Seq(V) /\ Len(rev) = n
      /\ \A i \in 1 .. n : rev[i] = l[m - i + 1]
  <2>1. rev = [i \in 1 .. n |-> new[n - i + 1]]
    BY <1>1 DEF Reverse
  <2>2. \A i \in 1 .. n : new[n - i + 1] \in V /\ new[n - i + 1] = l[m - i + 1]
    <3> SUFFICES ASSUME NEW i \in 1 .. n
                 PROVE  new[n - i + 1] \in V /\ new[n - i + 1] = l[m - i + 1]
      OBVIOUS
    <3> DEFINE j == n - i + 1
    <3>1. j \in 1 .. n /\ r + j = m - i + 1
      BY <1>0
    <3> HIDE DEF j, n
    <3>2. new[j] \in V /\ new[j] = l[r + j]
      BY <1>0, <1>1, <3>1
    <3> QED
      BY <3>1, <3>2 DEF j
  <2> HIDE DEF n, rev
  <2>3. rev \in Seq(V)
    BY <1>0, <2>1, <2>2
  <2> QED
    BY <1>0, <2>1, <2>2, <2>3
<1> HIDE DEF rev
<1> DEFINE q == s \o rev
           T == q \o old
<1>4. /\ q \in Seq(V) /\ Len(q) = k + n
      /\ \A i \in 1 .. k + n : q[i] = IF i <= k THEN s[i] ELSE rev[i - k]
  BY <1>3, ConcatProperties DEF k
<1> HIDE DEF q
<1>5. /\ T \in Seq(V) /\ Len(T) = Len(q) + Len(old)
      /\ \A i \in 1 .. Len(q) + Len(old) :
            T[i] = IF i <= Len(q) THEN q[i] ELSE old[i - Len(q)]
  BY <1>2, <1>4, ConcatProperties
<1>6. T = Turned(s, l, r)
  BY DEF T, q, rev, old, new, Turned
<1> HIDE DEF T
<1>7. Len(T) = k + m /\ Len(q) + Len(old) = k + m
  BY <1>0, <1>2, <1>4, <1>5
<1>8. ASSUME NEW i \in 1 .. k + m PROVE T[i] = TurnedAt(s, l, r, i)
  <2>1. T[i] = IF i <= k + n THEN q[i] ELSE old[i - (k + n)]
    BY <1>4, <1>5, <1>7
  <2>2. CASE i <= k
    <3>1. T[i] = q[i] /\ q[i] = s[i]
      BY <1>0, <1>4, <2>1, <2>2
    <3> QED
      BY <2>2, <3>1 DEF TurnedAt, k
  <2>3. CASE ~(i <= k) /\ i <= k + n
    <3>1. T[i] = q[i] /\ q[i] = rev[i - k]
      BY <1>0, <1>4, <2>1, <2>3
    <3>2. i - k \in 1 .. n /\ m - (i - k) + 1 = k + m - i + 1 /\ i <= k + m - r
      BY <1>0, <2>3
    <3>3. rev[i - k] = l[k + m - i + 1]
      BY <1>3, <3>2
    <3> QED
      BY <2>3, <3>1, <3>2, <3>3 DEF TurnedAt, k, m
  <2>4. CASE ~(i <= k + n)
    <3>1. i - (k + n) \in 1 .. r /\ k + n = k + m - r /\ ~(i <= k) /\ ~(i <= k + m - r)
      BY <1>0, <2>4
    <3>2. T[i] = l[i - (k + n)]
      BY <1>2, <2>1, <2>4, <3>1
    <3>3. T[i] = l[i - (k + m - r)]
      BY <3>1, <3>2
    <3> QED
      BY <3>1, <3>3 DEF TurnedAt, k, m
  <2> QED
    BY <2>2, <2>3, <2>4
<1> QED
  BY <1>5, <1>6, <1>7, <1>8 DEF k, m

\* enqueue puts the innermost element of the stack back, or loses it.
LEMMA PutBack ==
    ASSUME NEW V, NEW s \in Seq(V), s # <<>>, NEW l \in Seq(V), NEW r \in 0 .. Len(l)
    PROVE  /\ Turned(Front(s), Append(l, s[Len(s)]), r) = Turned(s, l, r)
           /\ Turned(Front(s), l, r) = RemoveAt(Turned(s, l, r), Len(s))
<1> DEFINE k  == Len(s)
           m  == Len(l)
           f  == Front(s)
           l2 == Append(l, s[k])
           T  == Turned(s, l, r)
           T1 == Turned(f, l2, r)
           T2 == Turned(f, l, r)
           R  == RemoveAt(T, k)
<1>1. k \in Nat /\ k > 0 /\ m \in Nat /\ r \in Nat /\ r <= m
  OBVIOUS
<1>2. f \in Seq(V) /\ Len(f) = k - 1 /\ \A i \in 1 .. k - 1 : f[i] = s[i]
  BY FrontPart
<1>3. l2 \in Seq(V) /\ Len(l2) = m + 1 /\ l2[m + 1] = s[k] /\ \A i \in 1 .. m : l2[i] = l[i]
  BY <1>1
<1>4. /\ T \in Seq(V) /\ Len(T) = k + m
      /\ \A i \in 1 .. k + m : T[i] = TurnedAt(s, l, r, i)
  BY TurnedElements
<1> HIDE DEF f, l2, T
<1>5. /\ T1 \in Seq(V) /\ Len(T1) = Len(f) + Len(l2)
      /\ \A i \in 1 .. Len(f) + Len(l2) : T1[i] = TurnedAt(f, l2, r, i)
  <2>1. r \in 0 .. Len(l2)
    BY <1>1, <1>3
  <2> QED
    BY <1>2, <1>3, <2>1, TurnedElements
<1>6. /\ T2 \in Seq(V) /\ Len(T2) = Len(f) + m
      /\ \A i \in 1 .. Len(f) + m : T2[i] = TurnedAt(f, l, r, i)
  BY <1>2, TurnedElements
<1>7. /\ R \in Seq(V) /\ Len(R) = Len(T) - 1
      /\ \A i \in 1 .. Len(T) - 1 : R[i] = IF i < k THEN T[i] ELSE T[i + 1]
  <2>1. k \in 1 .. Len(T)
    BY <1>1, <1>4
  <2> QED
    BY <1>4, <2>1, RemoveAtParts
<1> HIDE DEF T1, T2, R, k, m
<1>8. Len(f) + Len(l2) = k + m /\ Len(f) + m = k - 1 + m /\ Len(T) - 1 = k - 1 + m
  BY <1>1, <1>2, <1>3, <1>4
<1>9. T1 = T
  <2>1. ASSUME NEW i \in 1 .. k + m PROVE T1[i] = T[i]
    <3>0. T1[i] = TurnedAt(f, l2, r, i) /\ T[i] = TurnedAt(s, l, r, i)
      BY <1>4, <1>5, <1>8
    <3>1. CASE i < k
      <4>1. TurnedAt(f, l2, r, i) = f[i] /\ TurnedAt(s, l, r, i) = s[i] /\ f[i] = s[i]
        BY <1>1, <1>2, <3>1 DEF TurnedAt, k
      <4> QED
        BY <3>0, <4>1
    <3>2. CASE i = k
      <4>1. TurnedAt(f, l2, r, i) = l2[m + 1]
        BY <1>1, <1>2, <1>3, <3>2 DEF TurnedAt
      <4>2. TurnedAt(s, l, r, i) = s[k]
        BY <1>1, <3>2 DEF TurnedAt, k
      <4> QED
        BY <1>3, <3>0, <4>1, <4>2
    <3>3. CASE i > k /\ i <= k + m - r
      <4>1. k + m - i + 1 \in 1 .. m /\ i > k - 1
        BY <1>1, <3>3
      <4>2. TurnedAt(f, l2, r, i) = l2[k + m - i + 1]
        BY <1>1, <1>2, <1>3, <3>3, <4>1 DEF TurnedAt
      <4>3. TurnedAt(s, l, r, i) = l[k + m - i + 1]
        BY <1>1, <3>3 DEF TurnedAt, k, m
      <4> QED
        BY <1>3, <3>0, <4>1, <4>2, <4>3
    <3>4. CASE i > k + m - r
      <4>1. i - (k + m - r) \in 1 .. m /\ i > k - 1
        BY <1>1, <3>4
      <4>2. TurnedAt(f, l2, r, i) = l2[i - (k + m - r)]
        BY <1>1, <1>2, <1>3, <3>4, <4>1 DEF TurnedAt
      <4>3. TurnedAt(s, l, r, i) = l[i - (k + m - r)]
        BY <1>1, <3>4 DEF TurnedAt, k, m
      <4> QED
        BY <1>3, <3>0, <4>1, <4>2, <4>3
    <3> QED
      BY <1>1, <3>1, <3>2, <3>3, <3>4
  <2> QED
    BY <1>4, <1>5, <1>8, <2>1, SeqEqual
<1>10. T2 = R
  <2>1. ASSUME NEW i \in 1 .. k - 1 + m PROVE T2[i] = R[i]
    <3>0. /\ T2[i] = TurnedAt(f, l, r, i) /\ R[i] = IF i < k THEN T[i] ELSE T[i + 1]
          /\ T[i] = TurnedAt(s, l, r, i) /\ T[i + 1] = TurnedAt(s, l, r, i + 1)
      <4>1. i \in 1 .. k + m /\ i + 1 \in 1 .. k + m
        BY <1>1
      <4> QED
        BY <1>4, <1>6, <1>7, <1>8, <4>1
    <3>1. CASE i < k
      <4>1. TurnedAt(f, l, r, i) = f[i] /\ TurnedAt(s, l, r, i) = s[i] /\ f[i] = s[i]
        BY <1>1, <1>2, <3>1 DEF TurnedAt, k
      <4> QED
        BY <3>0, <3>1, <4>1
    <3>2. CASE i >= k /\ i + 1 <= k + m - r
      <4>1. TurnedAt(f, l, r, i) = l[k - 1 + m - i + 1]
        BY <1>1, <1>2, <3>2 DEF TurnedAt, m
      <4>2. TurnedAt(s, l, r, i + 1) = l[k + m - (i + 1) + 1]
        BY <1>1, <3>2 DEF TurnedAt, k, m
      <4>3. k - 1 + m - i + 1 = k + m - (i + 1) + 1
        BY <1>1
      <4> QED
        BY <1>1, <3>0, <3>2, <4>1, <4>2, <4>3
    <3>3. CASE i >= k /\ i + 1 > k + m - r
      <4>1. TurnedAt(f, l, r, i) = l[i - (k - 1 + m - r)]
        BY <1>1, <1>2, <3>3 DEF TurnedAt, m
      <4>2. TurnedAt(s, l, r, i + 1) = l[i + 1 - (k + m - r)]
        BY <1>1, <3>3 DEF TurnedAt, k, m
      <4>3. i - (k - 1 + m - r) = i + 1 - (k + m - r)
        BY <1>1
      <4> QED
        BY <1>1, <3>0, <3>3, <4>1, <4>2, <4>3
    <3> QED
      BY <1>1, <3>1, <3>2, <3>3
  <2> QED
    BY <1>6, <1>7, <1>8, <2>1, SeqEqual
<1> QED
  BY <1>9, <1>10 DEF T1, T2, T, R, f, l2, k

\* Before the recursion comes back, nothing is turned round.
LEMMA TurnedStart ==
    ASSUME NEW V, NEW s \in Seq(V), NEW l \in Seq(V)
    PROVE  Turned(s, l, Len(l)) = s \o l
<1> DEFINE T == Turned(s, l, Len(l))
<1>1. Len(l) \in Nat /\ Len(s) \in Nat
  OBVIOUS
<1>2. /\ T \in Seq(V) /\ Len(T) = Len(s) + Len(l)
      /\ \A i \in 1 .. Len(s) + Len(l) : T[i] = TurnedAt(s, l, Len(l), i)
  <2> DEFINE r == Len(l)
  <2>1. r \in 0 .. Len(l)
    BY <1>1
  <2> HIDE DEF r
  <2>2. /\ Turned(s, l, r) \in Seq(V) /\ Len(Turned(s, l, r)) = Len(s) + Len(l)
        /\ \A i \in 1 .. Len(s) + Len(l) : Turned(s, l, r)[i] = TurnedAt(s, l, r, i)
    BY <2>1, TurnedElements
  <2> QED
    BY <2>2 DEF r
<1> HIDE DEF T
<1>3. /\ s \o l \in Seq(V) /\ Len(s \o l) = Len(s) + Len(l)
      /\ \A i \in 1 .. Len(s) + Len(l) : (s \o l)[i] = IF i <= Len(s) THEN s[i] ELSE l[i - Len(s)]
  BY ConcatProperties
<1>4. ASSUME NEW i \in 1 .. Len(s) + Len(l) PROVE T[i] = (s \o l)[i]
  <2>1. Len(s) + Len(l) - Len(l) = Len(s)
    BY <1>1
  <2>2. T[i] = IF i <= Len(s) THEN s[i] ELSE l[i - Len(s)]
    BY <1>1, <1>2, <2>1 DEF TurnedAt
  <2> QED
    BY <1>3, <2>2
<1> QED
  BY <1>2, <1>3, <1>4, SeqEqual DEF T

\* When the stack is empty all that was put back is turned round behind the rest.
LEMMA TurnedEnd ==
    ASSUME NEW V, NEW l \in Seq(V), NEW r \in 0 .. Len(l)
    PROVE  LET T == Turned(<<>>, l, r)
               k == Len(l) - r
           IN  /\ T \in Seq(V) /\ Len(T) = Len(l) /\ k \in 0 .. Len(T)
               /\ l = SubSeq(T, k + 1, Len(T)) \o Reverse(SubSeq(T, 1, k))
<1> DEFINE T == Turned(<<>>, l, r)
           m == Len(l)
           k == m - r
           old == SubSeq(T, k + 1, Len(T))
           new == SubSeq(T, 1, k)
           rev == Reverse(new)
<1>1. m \in Nat /\ r \in Nat /\ k \in Nat /\ r <= m
  OBVIOUS
<1>2. /\ T \in Seq(V) /\ Len(T) = m
      /\ \A i \in 1 .. m : T[i] = TurnedAt(<<>>, l, r, i)
  <2>1. <<>> \in Seq(V) /\ Len(<<>>) = 0
    OBVIOUS
  <2>2. 0 + m = m
    BY <1>1
  <2> QED
    BY <2>1, <2>2, TurnedElements
<1>3. \A i \in 1 .. m : T[i] = IF i <= k THEN l[m - i + 1] ELSE l[i - k]
  <2> SUFFICES ASSUME NEW i \in 1 .. m PROVE T[i] = IF i <= k THEN l[m - i + 1] ELSE l[i - k]
    OBVIOUS
  <2>1. Len(<<>>) = 0
    OBVIOUS
  <2>2. ~(i <= 0) /\ 0 + m - i + 1 = m - i + 1 /\ 0 + m - r = k
    BY <1>1
  <2>3. T[i] = TurnedAt(<<>>, l, r, i)
    BY <1>2
  <2> QED
    BY <2>1, <2>2, <2>3 DEF TurnedAt
<1> HIDE DEF T
<1>4. /\ old \in Seq(V) /\ Len(old) = m - (k + 1) + 1
      /\ \A i \in 1 .. m - (k + 1) + 1 : old[i] = T[k + 1 + i - 1]
  <2>1. k + 1 \in 1 .. m + 1 /\ m \in k + 1 - 1 .. m
    BY <1>1
  <2> QED
    BY <1>2, <2>1, Part
<1>5. /\ new \in Seq(V) /\ Len(new) = k - 1 + 1
      /\ \A i \in 1 .. k - 1 + 1 : new[i] = T[1 + i - 1]
  <2>1. 1 \in 1 .. m + 1 /\ k \in 1 - 1 .. m
    BY <1>1
  <2> QED
    BY <1>2, <2>1, Part
<1> HIDE DEF m, old, new
<1>6. Len(old) = r /\ Len(new) = k
  BY <1>1, <1>4, <1>5
<1>7. rev = [i \in 1 .. k |-> new[k - i + 1]]
  BY <1>6 DEF Reverse
<1> HIDE DEF rev, k
<1>8. rev \in Seq(V) /\ Len(rev) = k /\ \A i \in 1 .. k : rev[i] = new[k - i + 1]
  <2>1. \A i \in 1 .. k : new[k - i + 1] \in V
    <3> SUFFICES ASSUME NEW i \in 1 .. k PROVE new[k - i + 1] \in V
      OBVIOUS
    <3>1. k - i + 1 \in 1 .. Len(new)
      BY <1>1, <1>6
    <3> QED
      BY <1>5, <3>1
  <2> QED
    BY <1>1, <1>7, <2>1
<1>9. /\ old \o rev \in Seq(V) /\ Len(old \o rev) = r + k
      /\ \A i \in 1 .. r + k : (old \o rev)[i] = IF i <= r THEN old[i] ELSE rev[i - r]
  BY <1>4, <1>6, <1>8, ConcatProperties
<1>10. r + k = m
  BY <1>1 DEF k
<1>11. ASSUME NEW i \in 1 .. m PROVE (old \o rev)[i] = l[i]
  <2>1. CASE i <= r
    <3> DEFINE j == k + i
    <3>1. i \in 1 .. m - (k + 1) + 1 /\ k + 1 + i - 1 = j /\ j \in 1 .. m
          /\ ~(j <= k) /\ j - k = i
      BY <1>1, <1>10, <2>1
    <3> HIDE DEF j
    <3>2. old[i] = T[j]
      BY <1>4, <3>1
    <3>3. T[j] = l[i]
      BY <1>3, <3>1
    <3>4. (old \o rev)[i] = old[i]
      BY <1>9, <1>10, <2>1
    <3> QED
      BY <3>1, <3>2, <3>3, <3>4
  <2>2. CASE ~(i <= r)
    <3> DEFINE j == i - r
               p == k - j + 1
    <3>1. /\ j \in 1 .. k /\ p \in 1 .. k - 1 + 1 /\ 1 + p - 1 = p /\ p \in 1 .. m /\ p <= k
          /\ m - p + 1 = i
      BY <1>1, <1>10, <2>2
    <3>2. (old \o rev)[i] = rev[j]
      BY <1>9, <1>10, <2>2
    <3>3. rev[j] = new[p]
      BY <1>8, <3>1
    <3> HIDE DEF j, p
    <3>4. new[p] = T[p]
      BY <1>5, <3>1
    <3>5. T[p] = l[m - p + 1]
      BY <1>3, <3>1
    <3> QED
      BY <3>1, <3>2, <3>3, <3>4, <3>5
  <2> QED
    BY <2>1, <2>2
<1>12. l = old \o rev
  <2>1. Len(l) = m /\ Len(old \o rev) = m
    BY <1>9, <1>10 DEF m
  <2> QED
    BY <1>9, <1>11, <2>1, SeqEqual
<1>13. k \in 0 .. Len(T)
  BY <1>1, <1>2, <1>10
<1> QED
  BY <1>2, <1>12, <1>13 DEF T, m, k, old, new, rev

\* dequeue takes the first element, and reverse puts it on its stack.
LEMMA OntoStack ==
    ASSUME NEW V, NEW s \in Seq(V), NEW t \in Seq(V), t # <<>>
    PROVE  Append(s, t[1]) \o Tail(t) = s \o t
<1> DEFINE a == Append(s, t[1])
           b == Tail(t)
<1>1. Len(s) \in Nat /\ Len(t) \in Nat /\ Len(t) > 0
  OBVIOUS
<1>2. a \in Seq(V) /\ Len(a) = Len(s) + 1 /\ a[Len(s) + 1] = t[1]
      /\ \A i \in 1 .. Len(s) : a[i] = s[i]
  BY <1>1
<1>3. b \in Seq(V) /\ Len(b) = Len(t) - 1 /\ \A i \in 1 .. Len(b) : b[i] = t[i + 1]
  BY HeadTailProperties
<1> HIDE DEF a, b
<1>4. /\ a \o b \in Seq(V) /\ Len(a \o b) = Len(a) + Len(b)
      /\ \A i \in 1 .. Len(a) + Len(b) : (a \o b)[i] = IF i <= Len(a) THEN a[i] ELSE b[i - Len(a)]
  BY <1>2, <1>3, ConcatProperties
<1>5. /\ s \o t \in Seq(V) /\ Len(s \o t) = Len(s) + Len(t)
      /\ \A i \in 1 .. Len(s) + Len(t) : (s \o t)[i] = IF i <= Len(s) THEN s[i] ELSE t[i - Len(s)]
  BY ConcatProperties
<1>6. Len(a) + Len(b) = Len(s) + Len(t)
  BY <1>1, <1>2, <1>3
<1>7. ASSUME NEW i \in 1 .. Len(s) + Len(t) PROVE (a \o b)[i] = (s \o t)[i]
  <2>1. CASE i <= Len(s)
    BY <1>1, <1>2, <1>4, <1>5, <1>6, <2>1
  <2>2. CASE i = Len(s) + 1
    BY <1>1, <1>2, <1>4, <1>5, <1>6, <2>2
  <2>3. CASE i > Len(s) + 1
    <3> DEFINE j == i - (Len(s) + 1)
    <3>1. j \in 1 .. Len(b) /\ j + 1 = i - Len(s)
      BY <1>1, <1>3, <2>3
    <3>2. (a \o b)[i] = b[j]
      BY <1>1, <1>2, <1>4, <1>6, <2>3
    <3> HIDE DEF j
    <3>3. b[j] = t[i - Len(s)]
      BY <1>3, <3>1
    <3> QED
      BY <1>1, <1>5, <2>3, <3>2, <3>3
  <2>4. i <= Len(s) \/ i = Len(s) + 1 \/ i > Len(s) + 1
    BY <1>1
  <2> QED
    BY <2>1, <2>2, <2>3, <2>4
<1> QED
  BY <1>4, <1>5, <1>6, <1>7, SeqEqual DEF a, b

-----------------------------------------------------------------------------
(* The contents of the queues, as Fifo sees them. *)

Exists == live \ (IF Busy("destroy") THEN {call.h} ELSE {})
Elements == [h \in Handles |-> Contents(h)]

\* What the history variables of a call say: it may have been short of memory only
\* in reverse and copyQueue, and rest counts the elements reverse did not reach.
ReverseInv ==
    /\ Busy("idle") => call = Idle
    /\ ~Busy("up") /\ ~Busy("copy") => ~call.short
    /\ Busy("down") => call.rest = 0
    /\ Busy("up") => call.rest <= size[call.h] /\ (~call.short => call.rest = 0)

\* The elements of s are some of the first m of t, in their order.
Picked(s, t, m) ==
    \E at \in F!Positions(Len(s), m) : \A i \in 1 .. Len(s) : s[i] = t[at[i]]

\* copyQueue has gone over the first k - 1 elements of h and has copied all of
\* them to g, or those for which there was memory.
Copied(h, g, k) ==
    /\ call.cur = IF k <= size[h] THEN order[h][k] ELSE NULL
    /\ size[g] <= k - 1
    /\ ~call.short => List(g) = SubSeq(List(h), 1, k - 1)
    /\ Picked(List(g), List(h), k - 1)
CopyInv ==
    Busy("copy") => \E h, g \in Handles : /\ h = call.h /\ g = call.to
                                          /\ \E k \in 1 .. size[h] + 1 : Copied(h, g, k)

\* The invariant of the refinement.
RefInv == ReverseInv /\ CopyInv

\* The elements of a queue, before and after a step.
LEMMA ListIs ==
    ASSUME ListInv, NEW h \in Handles
    PROVE  /\ List(h) \in Seq(Values) /\ Len(List(h)) = size[h] /\ size[h] \in Nat
           /\ \A i \in 1 .. size[h] : List(h)[i] = data[order[h][i]]
<1>1. size[h] \in Nat /\ \A i \in 1 .. size[h] : data[order[h][i]] \in Values
  BY DEF ListInv, ListType, HoldValues
<1> QED
  BY <1>1 DEF List

LEMMA ListIsNext ==
    ASSUME ListInv', NEW h \in Handles
    PROVE  /\ List(h)' \in Seq(Values) /\ Len(List(h)') = size'[h] /\ size'[h] \in Nat
           /\ \A i \in 1 .. size'[h] : List(h)'[i] = data'[order'[h][i]]
<1>1. size'[h] \in Nat /\ \A i \in 1 .. size'[h] : data'[order'[h][i]] \in Values
  BY DEF ListInv, ListType, HoldValues
<1> QED
  BY <1>1 DEF List

\* The lists after the steps that the calls are made of.
LEMMA SameList ==
    ASSUME ListInv, NEW h \in Handles, size'[h] = size[h], order'[h] = order[h],
           \A i \in 1 .. size[h] : data'[order[h][i]] = data[order[h][i]]
    PROVE  List(h)' = List(h)
BY DEF List

LEMMA LinkList ==
    ASSUME ListInv, NEW h \in Handles, NEW a \in Addresses \ used, NEW v \in Values,
           Link(h, a, v)
    PROVE  /\ List(h)' = Append(List(h), v)
           /\ \A g \in Handles \ {h} : List(g)' = List(g)
<1>1. /\ ListInv'
      /\ size'[h] = size[h] + 1 /\ order'[h] = Append(order[h], a)
      /\ data'[a] = v /\ \A b \in Addresses \ {a} : data'[b] = data[b]
      /\ \A g \in Handles \ {h} : size'[g] = size[g] /\ order'[g] = order[g]
      /\ \A g \in Handles : \A i \in 1 .. size[g] :
            order'[g][i] = order[g][i] /\ order[g][i] # a
  BY LinkKeeps
<1>2. \A g \in Handles : \A i \in 1 .. size[g] : order[g][i] \in Addresses
  BY DEF ListInv, ListType, HeapIsList
<1>3. \A g \in Handles \ {h} : List(g)' = List(g)
  BY <1>1, <1>2, SameList
<1>4. List(h)' = Append(List(h), v)
  <2>1. /\ List(h) \in Seq(Values) /\ Len(List(h)) = size[h] /\ size[h] \in Nat
        /\ \A i \in 1 .. size[h] : List(h)[i] = data[order[h][i]]
    BY ListIs
  <2>2. /\ List(h)' \in Seq(Values) /\ Len(List(h)') = size[h] + 1
        /\ \A i \in 1 .. size[h] + 1 : List(h)'[i] = data'[order'[h][i]]
    <3>1. /\ List(h)' \in Seq(Values) /\ Len(List(h)') = size'[h]
          /\ \A i \in 1 .. size'[h] : List(h)'[i] = data'[order'[h][i]]
      BY <1>1, ListIsNext
    <3>2. size'[h] = size[h] + 1
      BY <1>1
    <3> QED
      BY <3>1, <3>2
  <2>3. order[h] \in Seq(Addresses) /\ Len(order[h]) = size[h]
    BY DEF ListInv, ListType, HeapIsList, Chain
  <2>4. order'[h][size[h] + 1] = a
    BY <1>1, <2>3
  <2> DEFINE l == List(h)
             m == List(h)'
             n == size[h]
  <2>5. \A i \in 1 .. n : m[i] = l[i]
    <3> SUFFICES ASSUME NEW i \in 1 .. n PROVE m[i] = l[i]
      OBVIOUS
    <3>1. i \in 1 .. n + 1
      BY <2>1
    <3>2. order'[h][i] = order[h][i] /\ order[h][i] \in Addresses \ {a}
      BY <1>1, <1>2
    <3>3. data'[order'[h][i]] = data[order[h][i]]
      BY <1>1, <3>2
    <3> QED
      BY <2>1, <2>2, <3>1, <3>3
  <2>6. m[n + 1] = v
    <3>1. n + 1 \in 1 .. n + 1
      BY <2>1
    <3>2. data'[a] = v
      BY <1>1
    <3> QED
      BY <2>2, <2>4, <3>1, <3>2
  <2>7. l \in Seq(Values) /\ Len(l) = n /\ n \in Nat /\ m \in Seq(Values) /\ Len(m) = n + 1
    BY <2>1, <2>2
  <2> HIDE DEF l, m, n
  <2>8. /\ Append(l, v) \in Seq(Values) /\ Len(Append(l, v)) = n + 1
        /\ \A i \in 1 .. n : Append(l, v)[i] = l[i]
        /\ Append(l, v)[n + 1] = v
    BY <2>7
  <2>9. \A i \in 1 .. n + 1 : m[i] = Append(l, v)[i]
    BY <2>5, <2>6, <2>7, <2>8
  <2>10. m = Append(l, v)
    BY <2>7, <2>8, <2>9, SeqEqual
  <2> QED
    BY <2>10 DEF l, m
<1> QED
  BY <1>3, <1>4

LEMMA DropList ==
    ASSUME ListInv, NEW h \in Handles, size[h] > 0, Drop(h)
    PROVE  /\ List(h)' = Tail(List(h)) /\ List(h)[1] = data[head[h]] /\ List(h) # <<>>
           /\ \A g \in Handles \ {h} : List(g)' = List(g)
<1>1. /\ ListInv'
      /\ head[h] = order[h][1]
      /\ size'[h] = size[h] - 1 /\ order'[h] = Tail(order[h])
      /\ \A b \in Addresses \ {head[h]} : data'[b] = data[b]
      /\ \A g \in Handles \ {h} : size'[g] = size[g] /\ order'[g] = order[g]
      /\ \A g \in Handles : \A i \in 1 .. size'[g] : order'[g][i] # head[h]
  BY DropKeeps
<1>2. \A g \in Handles : \A i \in 1 .. size[g] : order[g][i] \in Addresses
  BY DEF ListInv, ListType, HeapIsList
<1>3. \A g \in Handles \ {h} : List(g)' = List(g)
  BY <1>1, <1>2, SameList
<1>4. /\ List(h) \in Seq(Values) /\ Len(List(h)) = size[h] /\ size[h] \in Nat
      /\ \A i \in 1 .. size[h] : List(h)[i] = data[order[h][i]]
  BY ListIs
<1>5. List(h)[1] = data[head[h]] /\ List(h) # <<>>
  <2>1. 1 \in 1 .. size[h]
    BY <1>4
  <2> QED
    BY <1>1, <1>4, <2>1
<1>6. List(h)' = Tail(List(h))
  <2>2. /\ List(h)' \in Seq(Values) /\ Len(List(h)') = size[h] - 1
        /\ \A i \in 1 .. size[h] - 1 : List(h)'[i] = data'[order'[h][i]]
    BY <1>1, ListIsNext
  <2>3. order[h] \in Seq(Addresses) /\ Len(order[h]) = size[h]
    BY DEF ListInv, ListType, HeapIsList, Chain
  <2>4. \A i \in 1 .. size[h] - 1 : order'[h][i] = order[h][i + 1]
    BY <1>1, <1>4, <2>3
  <2> DEFINE l == List(h)
             m == List(h)'
             n == size[h]
  <2>5. \A i \in 1 .. n - 1 : m[i] = l[i + 1]
    <3> SUFFICES ASSUME NEW i \in 1 .. n - 1 PROVE m[i] = l[i + 1]
      OBVIOUS
    <3>1. i + 1 \in 1 .. n /\ i \in 1 .. size'[h]
      BY <1>1, <1>4
    <3>2. m[i] = data'[order[h][i + 1]] /\ l[i + 1] = data[order[h][i + 1]]
      BY <1>4, <2>2, <2>4, <3>1
    <3>3. order[h][i + 1] \in Addresses \ {head[h]}
      <4>1. order'[h][i] # head[h]
        BY <1>1, <3>1
      <4>2. order'[h][i] = order[h][i + 1]
        BY <2>4
      <4> QED
        BY <1>2, <3>1, <4>1, <4>2
    <3> QED
      BY <1>1, <3>2, <3>3
  <2>7. /\ l \in Seq(Values) /\ Len(l) = n /\ n \in Nat /\ m \in Seq(Values)
        /\ Len(m) = n - 1 /\ l # <<>>
    BY <1>4, <1>5, <2>2
  <2> HIDE DEF l, m, n
  <2>8. /\ Tail(l) \in Seq(Values) /\ Len(Tail(l)) = n - 1
        /\ \A i \in 1 .. n - 1 : Tail(l)[i] = l[i + 1]
    BY <2>7, HeadTailProperties
  <2>10. m = Tail(l)
    BY <2>5, <2>7, <2>8, SeqEqual
  <2> QED
    BY <2>10 DEF l, m
<1> QED
  BY <1>3, <1>5, <1>6

LEMMA RestsList ==
    ASSUME ListInv, Rests, NEW h \in Handles
    PROVE  List(h)' = List(h)
BY DEF Rests, heap, List

\* What Contents says, call by call.
LEMMA ContentsIs ==
    ASSUME QInv, NEW h \in Handles
    PROVE  /\ h \notin live => Contents(h) = <<>>
           /\ h \in live /\ call.h # h => Contents(h) = List(h)
           /\ h \in live /\ call.h = h =>
                 /\ Busy("down") => Contents(h) = call.stack \o List(h)
                 /\ Busy("up") => Contents(h) = Turned(call.stack, List(h), call.rest)
                 /\ Busy("clear") \/ Busy("destroy") => Contents(h) = <<>>
                 /\ Busy("copy") => Contents(h) = List(h)
<1>1. Len(List(h)) = size[h]
  BY ListIs DEF QInv
<1>2. CASE h \notin live
  BY <1>2 DEF Contents
<1>3. CASE h \in live /\ call.h # h
  BY <1>3 DEF Contents
<1>4. CASE h \in live /\ call.h = h
  BY <1>1, <1>4 DEF Contents, Busy, Turned
<1> QED
  BY <1>2, <1>3, <1>4

LEMMA ContentsIsNext ==
    ASSUME QInv', NEW h \in Handles
    PROVE  /\ h \notin live' => Contents(h)' = <<>>
           /\ h \in live' /\ call'.h # h => Contents(h)' = List(h)'
           /\ h \in live' /\ call'.h = h =>
                 /\ Busy("down")' => Contents(h)' = call'.stack \o List(h)'
                 /\ Busy("up")' => Contents(h)' = Turned(call'.stack, List(h)', call'.rest)
                 /\ Busy("clear")' \/ Busy("destroy")' => Contents(h)' = <<>>
                 /\ Busy("copy")' => Contents(h)' = List(h)'
<1>1. Len(List(h)') = size'[h]
  BY ListIsNext DEF QInv
<1>2. CASE h \notin live'
  BY <1>2 DEF Contents
<1>3. CASE h \in live' /\ call'.h # h
  BY <1>3 DEF Contents
<1>4. CASE h \in live' /\ call'.h = h
  BY <1>1, <1>4 DEF Contents, Busy, Turned
<1> QED
  BY <1>2, <1>3, <1>4

\* How the contents of all queues follow from those of each.
LEMMA ElementsSame ==
    ASSUME \A g \in Handles : Contents(g)' = Contents(g)
    PROVE  Elements' = Elements
  BY DEF Elements

LEMMA ElementsExcept ==
    ASSUME NEW h \in Handles, NEW c, Contents(h)' = c,
           \A g \in Handles \ {h} : Contents(g)' = Contents(g)
    PROVE  Elements' = [Elements EXCEPT ![h] = c] /\ Elements[h] = Contents(h)
  BY DEF Elements

\* Only h changes.
LEMMA OthersSame ==
    ASSUME QInv, QInv', NEW h \in Handles,
           call.h \in {h, NULL}, call'.h \in {h, NULL},
           \A g \in Handles \ {h} : \/ g \notin live /\ g \notin live'
                                    \/ g \in live /\ g \in live' /\ List(g)' = List(g)
    PROVE  \A g \in Handles \ {h} : Contents(g)' = Contents(g)
<1> SUFFICES ASSUME NEW g \in Handles \ {h} PROVE Contents(g)' = Contents(g)
  OBVIOUS
<1>1. call.h # g /\ call'.h # g
  BY NamesAssumption
<1>2. CASE g \notin live /\ g \notin live'
  BY <1>2, ContentsIs, ContentsIsNext
<1>3. CASE g \in live /\ g \in live' /\ List(g)' = List(g)
  BY <1>1, <1>3, ContentsIs, ContentsIsNext
<1> QED
  BY <1>2, <1>3

\* Between calls nobody is in the middle of anything.
LEMMA WhenIdle ==
    ASSUME QInv, RefInv, Busy("idle")
    PROVE  /\ call = Idle /\ call.h = NULL /\ ~call.short /\ call.rest = 0
           /\ ~Busy("destroy") /\ Exists = live
           /\ \A h \in Handles : Contents(h) = IF h \in live THEN List(h) ELSE <<>>
<1>1. call = Idle
  BY DEF RefInv, ReverseInv
<1>2. call.h = NULL /\ ~call.short /\ call.rest = 0 /\ ~Busy("destroy")
  BY <1>1 DEF Idle, Call, Busy
<1>3. \A h \in Handles : Contents(h) = IF h \in live THEN List(h) ELSE <<>>
  BY <1>2, ContentsIs, NamesAssumption
<1> QED
  BY <1>1, <1>2, <1>3 DEF Exists

\* ... and when a call returns, its bookkeeping starts afresh.
LEMMA WhenIdleNext ==
    ASSUME QInv', call' = Idle
    PROVE  /\ RefInv' /\ call'.h = NULL /\ ~call'.short /\ Exists' = live'
           /\ \A h \in Handles : Contents(h)' = IF h \in live' THEN List(h)' ELSE <<>>
<1>1. call'.h = NULL /\ ~call'.short /\ call'.rest = 0 /\ call'.op = "idle"
  BY DEF Idle, Call
<1>2. \A h \in Handles : Contents(h)' = IF h \in live' THEN List(h)' ELSE <<>>
  BY <1>1, ContentsIsNext, NamesAssumption
<1>3. RefInv'
  BY <1>1 DEF RefInv, ReverseInv, CopyInv, Busy
<1> QED
  BY <1>1, <1>2, <1>3 DEF Exists, Busy

-----------------------------------------------------------------------------
(* The actions of Fifo, in terms of Exists and Elements. *)

LEMMA FRefuse ==
    ASSUME got' = Failed, Exists' = Exists, Elements' = Elements, call'.short = call.short
    PROVE  F!Next
  BY DEF F!Next, F!Refuse, Exists, Elements, F!Failed, Failed

LEMMA FStutter ==
    ASSUME got' = got, Exists' = Exists, Elements' = Elements, call'.short = call.short
    PROVE  [F!Next]_F!vars
  BY DEF F!vars, Exists, Elements

LEMMA FCreate ==
    ASSUME NEW h \in Handles, h \notin Exists, Exists' = Exists \cup {h}, got' = Success,
           Elements' = Elements, call'.short = call.short
    PROVE  F!Next
  BY DEF F!Next, F!Create, Exists, Elements, F!Success, Success

LEMMA FEnqueue ==
    ASSUME NEW h \in Handles, NEW v \in Values, h \in Exists, Exists' = Exists, got' = Success,
           Elements' = [Elements EXCEPT ![h] = Append(Elements[h], v)], call'.short = call.short
    PROVE  F!Next
  BY DEF F!Next, F!Enqueue, Exists, Elements, F!Success, Success

LEMMA FDequeue ==
    ASSUME NEW h \in Handles, h \in Exists, Elements[h] # <<>>, Exists' = Exists,
           got' = Returned(Head(Elements[h])),
           Elements' = [Elements EXCEPT ![h] = Tail(Elements[h])], call'.short = call.short
    PROVE  F!Next
  BY DEF F!Next, F!Dequeue, Exists, Elements, F!Returned, Returned

LEMMA FFirst ==
    ASSUME NEW h \in Handles, h \in Exists, Elements[h] # <<>>, Exists' = Exists,
           got' = Returned(Head(Elements[h])), Elements' = Elements, call'.short = call.short
    PROVE  F!Next
  BY DEF F!Next, F!First, Exists, Elements, F!Returned, Returned

LEMMA FStarve ==
    ASSUME NEW h \in Handles, h \in Exists, Exists' = Exists, got' = got, call'.short = TRUE,
           \/ Elements' = Elements
           \/ \E i \in DOMAIN Elements[h] :
                 Elements' = [Elements EXCEPT ![h] = RemoveAt(Elements[h], i)]
    PROVE  F!Next
  BY DEF F!Next, F!Starve, F!RemoveAt, RemoveAt, Exists, Elements

LEMMA FReverse ==
    ASSUME NEW h \in Handles, h \in Exists, Exists' = Exists, got' = got, call'.short = FALSE,
           NEW k \in 0 .. Len(Elements[h]), ~call.short => k = Len(Elements[h]),
           Elements' = [Elements EXCEPT ![h] = SubSeq(Elements[h], k + 1, Len(Elements[h]))
                                                 \o Reverse(SubSeq(Elements[h], 1, k))]
    PROVE  F!Next
  BY DEF F!Next, F!ReverseAll, F!Reverse, Reverse, Exists, Elements

LEMMA FClear ==
    ASSUME NEW h \in Handles, h \in Exists, Exists' \in {Exists, Exists \ {h}}, got' = got,
           Elements' = [Elements EXCEPT ![h] = <<>>], call'.short = call.short
    PROVE  F!Next
  BY DEF F!Next, F!Clear, F!Destroy, Exists, Elements

LEMMA FCopy ==
    ASSUME NEW h \in Handles, NEW g \in Handles, h \in Exists, g \notin Exists,
           Exists' = Exists \cup {g}, got' = Success, call'.short = FALSE,
           \/ Elements' = [Elements EXCEPT ![g] = Elements[h]]
           \/ /\ call.short = TRUE
              /\ \E n \in 0 .. Len(Elements[h]) : \E at \in F!Positions(n, Len(Elements[h])) :
                    Elements' = [Elements EXCEPT ![g] = [i \in 1 .. n |-> Elements[h][at[i]]]]
    PROVE  F!Next
  BY DEF F!Next, F!Copy, Exists, Elements, F!Success, Success

-----------------------------------------------------------------------------
(* Every step of the library is a step of Fifo or changes nothing of it. *)

Simulates == RefInv' /\ [F!Next]_F!vars

\* What does not touch the lists.
LEMMA SameLists ==
    ASSUME ListInv, UNCHANGED <<queues, heap, order>>
    PROVE  UNCHANGED live /\ \A h \in Handles : List(h)' = List(h)
  BY Unchanged, RestsList

LEMMA SimulateRefuse ==
    ASSUME QInv, QInv', RefInv, Busy("idle"), Refuse
    PROVE  Simulates
<1>1. call' = Idle /\ got' = Failed
  BY WhenIdle DEF Refuse
<1>2. UNCHANGED live /\ \A h \in Handles : List(h)' = List(h)
  BY SameLists DEF Refuse, QInv
<1>3. Elements' = Elements /\ Exists' = Exists /\ call'.short = call.short /\ RefInv'
  BY <1>1, <1>2, WhenIdle, WhenIdleNext, ElementsSame
<1> QED
  BY <1>1, <1>3, FRefuse DEF Simulates

\* The calls without a loop, and the beginnings of the others.
LEMMA SimulateCreate ==
    ASSUME QInv, QInv', RefInv, NEW h \in Handles, createQueue(h)
    PROVE  Simulates
<1>1. CASE Refuse
  BY <1>1, SimulateRefuse DEF createQueue
<1>2. CASE /\ live' = live \cup {h} /\ got' = Success
           /\ UNCHANGED <<size, head, tail, heap, call, faults, order>>
  <2>1. Busy("idle") /\ h \notin live
    BY DEF createQueue
  <2>2. call = Idle /\ call' = Idle
    BY <1>2, <2>1, WhenIdle
  <2>3. \A g \in Handles : List(g)' = List(g)
    BY <1>2, RestsList DEF QInv, ListInv, ListType, Rests
  <2>4. List(h) = <<>>
    <3>1. size[h] = 0
      BY <2>1 DEF QInv, OnlyLiveHold, Busy
    <3> QED
      BY <3>1, ListIs DEF QInv
  <2>5. \A g \in Handles : Contents(g)' = Contents(g)
    BY <1>2, <2>1, <2>2, <2>3, <2>4, WhenIdle, WhenIdleNext
  <2>6. /\ Elements' = Elements /\ Exists = live /\ Exists' = live'
        /\ call'.short = call.short /\ RefInv'
    BY <2>1, <2>2, <2>5, WhenIdle, WhenIdleNext, ElementsSame
  <2> QED
    BY <1>2, <2>1, <2>6, FCreate DEF Simulates
<1> QED
  BY <1>1, <1>2 DEF createQueue

LEMMA SimulateEnqueue ==
    ASSUME QInv, QInv', RefInv, NEW h \in Handles, NEW v \in Values, enqueue(h, v)
    PROVE  Simulates
<1>1. CASE Refuse
  BY <1>1, SimulateRefuse DEF enqueue
<1>2. CASE ~Refuse
  <2>1. PICK a \in Addresses \ used : Link(h, a, v)
    BY <1>2 DEF enqueue
  <2>2. Busy("idle") /\ h \in live /\ got' = Success /\ UNCHANGED <<live, call>>
    BY <1>2, <2>1 DEF enqueue, Link
  <2>3. call = Idle /\ call' = Idle
    BY <2>2, WhenIdle
  <2>4. List(h)' = Append(List(h), v) /\ \A g \in Handles \ {h} : List(g)' = List(g)
    BY <2>1, LinkList DEF QInv
  <2>5. /\ Contents(h) = List(h) /\ Contents(h)' = Append(List(h), v)
        /\ \A g \in Handles \ {h} : Contents(g)' = Contents(g)
    BY <2>2, <2>3, <2>4, WhenIdle, WhenIdleNext
  <2>6. Elements' = [Elements EXCEPT ![h] = Append(Elements[h], v)]
    BY <2>5, ElementsExcept
  <2>7. Exists = live /\ Exists' = live' /\ call'.short = call.short /\ RefInv'
    BY <2>2, <2>3, WhenIdle, WhenIdleNext
  <2> QED
    BY <2>2, <2>6, <2>7, FEnqueue DEF Simulates
<1> QED
  BY <1>1, <1>2

LEMMA SimulateDequeue ==
    ASSUME QInv, QInv', RefInv, NEW h \in Handles, dequeue(h)
    PROVE  Simulates
<1>1. CASE Refuse
  BY <1>1, SimulateRefuse DEF dequeue
<1>2. CASE ~Refuse
  <2>1. /\ Busy("idle") /\ h \in live /\ size[h] > 0 /\ got' = Returned(data[head[h]])
        /\ Unlink(h) /\ UNCHANGED <<live, call>>
    BY <1>2 DEF dequeue, getSize, Unlink
  <2>3. call = Idle /\ call' = Idle
    BY <2>1, WhenIdle
  <2>4. /\ List(h)' = Tail(List(h)) /\ List(h)[1] = data[head[h]] /\ List(h) # <<>>
        /\ \A g \in Handles \ {h} : List(g)' = List(g)
    BY <2>1, UnlinkDrops, DropList DEF QInv
  <2>5. /\ Contents(h) = List(h) /\ Contents(h)' = Tail(List(h))
        /\ \A g \in Handles \ {h} : Contents(g)' = Contents(g)
    BY <2>1, <2>3, <2>4, WhenIdle, WhenIdleNext
  <2>6. Elements' = [Elements EXCEPT ![h] = Tail(Elements[h])] /\ Elements[h] = List(h)
    BY <2>5, ElementsExcept
  <2>7. Exists = live /\ Exists' = live' /\ call'.short = call.short /\ RefInv'
    BY <2>1, <2>3, WhenIdle, WhenIdleNext
  <2>8. got' = Returned(Head(Elements[h]))
    BY <2>1, <2>4, <2>6
  <2> QED
    BY <2>1, <2>4, <2>6, <2>7, <2>8, FDequeue DEF Simulates
<1> QED
  BY <1>1, <1>2

LEMMA SimulateFront ==
    ASSUME QInv, QInv', RefInv, NEW h \in Handles, front(h)
    PROVE  Simulates
<1>1. CASE Refuse
  BY <1>1, SimulateRefuse DEF front
<1>2. CASE ~Refuse
  <2>1. /\ Busy("idle") /\ h \in live /\ size[h] > 0 /\ got' = Returned(data[head[h]])
        /\ UNCHANGED <<queues, heap, call, order>>
    BY <1>2 DEF front, getSize
  <2>2. UNCHANGED live /\ \A g \in Handles : List(g)' = List(g)
    BY <2>1, SameLists DEF QInv
  <2>3. call = Idle /\ call' = Idle
    BY <2>1, WhenIdle
  <2>4. \A g \in Handles : Contents(g)' = Contents(g)
    BY <2>1, <2>2, <2>3, WhenIdle, WhenIdleNext
  <2>5. Contents(h) = List(h)
    BY <2>1, WhenIdle
  <2>6. Elements' = Elements /\ Elements[h] = List(h)
    BY <2>4, <2>5, ElementsSame, ElementsExcept
  <2>7. Exists = live /\ Exists' = live' /\ call'.short = call.short /\ RefInv'
    BY <2>1, <2>3, WhenIdle, WhenIdleNext
  <2>8. List(h)[1] = data[head[h]] /\ List(h) # <<>>
    <3>1. size[h] \in Nat /\ head[h] = order[h][1]
      BY <2>1 DEF QInv, ListInv, ListType, HeapIsList, Chain
    <3>2. 1 \in 1 .. size[h]
      BY <2>1, <3>1
    <3> QED
      BY <3>1, <3>2, ListIs DEF QInv
  <2>9. got' = Returned(Head(Elements[h]))
    BY <2>1, <2>6, <2>8
  <2> QED
    BY <2>1, <2>2, <2>6, <2>7, <2>8, <2>9, FFirst DEF Simulates
<1> QED
  BY <1>1, <1>2

LEMMA SimulateBegin ==
    ASSUME QInv, QInv', RefInv, NEW h \in Handles, Begin(h)
    PROVE  Simulates
<1>1. CASE Refuse
  BY <1>1, SimulateRefuse DEF Begin
<1>2. CASE ~Refuse
  <2>1. PICK op \in {"down", "clear", "destroy"} :
           /\ Busy("idle") /\ h \in live
           /\ call' = Call(op, h, NULL, NULL) /\ UNCHANGED <<queues, heap, got, order>>
    BY <1>2 DEF Begin
  <2>2. UNCHANGED live /\ \A g \in Handles : List(g)' = List(g)
    BY <2>1, SameLists DEF QInv
  <2>3. /\ call'.op = op /\ call'.h = h /\ ~call'.short /\ call'.rest = 0
        /\ call'.stack = <<>>
    BY <2>1 DEF Call
  <2>4. RefInv'
    BY <2>3 DEF RefInv, ReverseInv, CopyInv, Busy
  <2>5. \A g \in Handles \ {h} : Contents(g)' = Contents(g)
    BY <2>1, <2>2, <2>3, WhenIdle, OthersSame
  <2>6. Exists = live /\ Contents(h) = List(h) /\ call'.short = call.short
    <3>1. call'.short = FALSE /\ call.short = FALSE
      BY <2>1, <2>3, WhenIdle DEF Idle, Call
    <3> QED
      BY <2>1, <3>1, WhenIdle
  <2>7. CASE op = "down"
    <3>1. Contents(h)' = <<>> \o List(h)
      BY <2>1, <2>2, <2>3, <2>7, ContentsIsNext DEF Busy
    <3>2. <<>> \o List(h) = List(h)
      BY ListIs DEF QInv
    <3>3. Elements' = Elements
      BY <2>5, <2>6, <3>1, <3>2, ElementsSame
    <3>4. Exists' = live
      BY <2>2, <2>3, <2>7 DEF Exists, Busy
    <3> QED
      BY <2>1, <2>4, <2>6, <3>3, <3>4, FStutter DEF Simulates
  <2>8. CASE op # "down"
    <3>1. Contents(h)' = <<>>
      BY <2>1, <2>2, <2>3, <2>8, ContentsIsNext DEF Busy
    <3>2. Elements' = [Elements EXCEPT ![h] = <<>>]
      BY <2>5, <3>1, ElementsExcept
    <3>3. Exists' = live \/ Exists' = live \ {h}
      BY <2>2, <2>3 DEF Exists
    <3> QED
      BY <2>1, <2>4, <2>6, <3>2, <3>3, FClear DEF Simulates
  <2> QED
    BY <2>7, <2>8
<1> QED
  BY <1>1, <1>2

\* The step of a call that works on one queue.
LEMMA CallTypes ==
    ASSUME QInv, ~Busy("idle")
    PROVE  /\ call.h \in live /\ call.h \in Handles /\ ListInv
           /\ call.stack \in Seq(Values) /\ call.rest \in Nat /\ call.short \in BOOLEAN
           /\ List(call.h) \in Seq(Values) /\ Len(List(call.h)) = size[call.h]
           /\ size[call.h] \in Nat
<1>1. call.h \in live /\ call.h \in Handles /\ ListInv
  BY DEF QInv, CallsTyped, CallInv
<1>2. call \in CallType
  BY DEF QInv, CallsTyped
<1> QED
  BY <1>1, <1>2, ListIs DEF CallType

\* reverse: the contents stay what they are until it returns.
LEMMA SimulateReverseDown ==
    ASSUME QInv, QInv', RefInv, ReverseDown, NEW h \in Handles, h = call.h
    PROVE  Simulates
<1> DEFINE s == call.stack
           l == List(h)
<1>1. /\ Busy("down") /\ h \in live /\ h \in Handles /\ ListInv /\ call \in CallType
      /\ s \in Seq(Values) /\ l \in Seq(Values) /\ Len(l) = size[h] /\ size[h] \in Nat
      /\ call.short = FALSE /\ call.rest = 0 /\ got' = got /\ Exists = live
  <2>1. Busy("down") /\ ~Busy("idle") /\ ~Busy("up") /\ ~Busy("copy") /\ ~Busy("destroy")
    BY DEF ReverseDown, Busy
  <2>2. call.short = FALSE /\ call.rest = 0
    BY <2>1, CallTypes DEF RefInv, ReverseInv
  <2> QED
    BY <2>1, <2>2, CallTypes DEF ReverseDown, QInv, CallsTyped, Exists
<1>2. Contents(h) = s \o l
  BY <1>1, ContentsIs
<1>3. ASSUME size[h] > 0, Unlink(h), call' = [call EXCEPT !.stack = Append(@, data[head[h]])]
      PROVE  Simulates
  <2>1. /\ UNCHANGED live
        /\ List(h)' = Tail(l) /\ l[1] = data[head[h]] /\ l # <<>>
        /\ \A g \in Handles \ {h} : List(g)' = List(g)
    BY <1>1, <1>3, UnlinkDrops, DropList
  <2>2. /\ call'.h = h /\ call'.op = "down" /\ call'.stack = Append(s, l[1])
        /\ call'.short = FALSE /\ call'.rest = 0
    BY <1>1, <1>3, <2>1 DEF CallType, Busy
  <2>3. Contents(h)' = Append(s, l[1]) \o Tail(l)
    BY <1>1, <2>1, <2>2, ContentsIsNext DEF Busy
  <2>4. Contents(h)' = Contents(h)
    <3> HIDE DEF s, l
    <3> QED
      BY <1>1, <1>2, <2>1, <2>3, OntoStack
  <2>5. \A g \in Handles \ {h} : Contents(g)' = Contents(g)
    BY <1>1, <2>1, <2>2, OthersSame
  <2>6. Elements' = Elements
    BY <2>4, <2>5, ElementsSame
  <2>7. RefInv' /\ Exists' = live
    BY <2>1, <2>2 DEF RefInv, ReverseInv, CopyInv, Busy, Exists
  <2> QED
    BY <1>1, <2>2, <2>6, <2>7, FStutter DEF Simulates
<1>4. ASSUME UNCHANGED <<queues, heap, order>>,
             \/ size[h] = 0 /\ call' = [call EXCEPT !.op = "up"]
             \/ call' = [call EXCEPT !.op = "up", !.short = TRUE, !.rest = size[h]]
      PROVE  Simulates
  <2>1. UNCHANGED <<live, size>> /\ \A g \in Handles : List(g)' = List(g)
    BY <1>1, <1>4, SameLists DEF queues
  <2>2. /\ call'.h = h /\ call'.op = "up" /\ call'.stack = s /\ call'.rest = Len(l)
        /\ call'.short \in BOOLEAN /\ (~call'.short => size[h] = 0)
    BY <1>1, <1>4 DEF CallType
  <2>3. Contents(h)' = Turned(s, l, Len(l))
    BY <1>1, <2>1, <2>2, ContentsIsNext DEF Busy
  <2>4. Contents(h)' = Contents(h)
    <3> HIDE DEF s, l
    <3> QED
      BY <1>1, <1>2, <2>3, TurnedStart
  <2>5. \A g \in Handles \ {h} : Contents(g)' = Contents(g)
    BY <1>1, <2>1, <2>2, OthersSame
  <2>6. Elements' = Elements
    BY <2>4, <2>5, ElementsSame
  <2>7. RefInv'
    BY <1>1, <2>1, <2>2 DEF RefInv, ReverseInv, CopyInv, Busy
  <2>8. Exists' = live
    BY <2>1, <2>2 DEF Busy, Exists
  <2>9. CASE call'.short = TRUE
    BY <1>1, <2>6, <2>7, <2>8, <2>9, FStarve DEF Simulates
  <2>10. CASE call'.short = FALSE
    BY <1>1, <2>6, <2>7, <2>8, <2>10, FStutter DEF Simulates
  <2> QED
    BY <2>2, <2>9, <2>10
<1> QED
  BY <1>3, <1>4 DEF ReverseDown

LEMMA SimulateReverseUp ==
    ASSUME QInv, QInv', RefInv, ReverseUp, NEW h \in Handles, h = call.h
    PROVE  Simulates
<1> DEFINE s == call.stack
           l == List(h)
           r == call.rest
<1>1. /\ Busy("up") /\ h \in live /\ h \in Handles /\ ListInv /\ call \in CallType
      /\ s \in Seq(Values) /\ s # <<>>
      /\ l \in Seq(Values) /\ Len(l) = size[h] /\ size[h] \in Nat
      /\ got' = got /\ Exists = live
  <2>1. Busy("up") /\ ~Busy("idle") /\ ~Busy("destroy")
    BY DEF ReverseUp, Busy
  <2> QED
    BY <2>1, CallTypes DEF ReverseUp, QInv, CallsTyped, Exists
<1>2. r \in 0 .. Len(l) /\ (~call.short => r = 0) /\ call.short \in BOOLEAN /\ r \in Nat
  BY <1>1 DEF RefInv, ReverseInv, CallType
<1>3. Contents(h) = Turned(s, l, r)
  BY <1>1, ContentsIs
<1>4. /\ Turned(Front(s), Append(l, s[Len(s)]), r) = Turned(s, l, r)
      /\ Turned(Front(s), l, r) = RemoveAt(Turned(s, l, r), Len(s))
      /\ Len(s) \in DOMAIN Turned(s, l, r)
      /\ s[Len(s)] \in Values
  <2> HIDE DEF s, l, r
  <2>1. /\ Turned(Front(s), Append(l, s[Len(s)]), r) = Turned(s, l, r)
        /\ Turned(Front(s), l, r) = RemoveAt(Turned(s, l, r), Len(s))
    BY <1>1, <1>2, PutBack
  <2>2. Turned(s, l, r) \in Seq(Values) /\ Len(Turned(s, l, r)) = Len(s) + Len(l)
    BY <1>1, <1>2, TurnedElements
  <2>3. Len(s) \in DOMAIN Turned(s, l, r)
    BY <1>1, <2>2
  <2> QED
    BY <1>1, <2>1, <2>3
<1>5. /\ call'.h = h /\ call'.op = "up" /\ call'.stack = Front(s) /\ call'.rest = r
  BY <1>1 DEF ReverseUp, CallType, Busy
<1>6. ASSUME NEW a \in Addresses \ used, Link(h, a, s[Len(s)]),
             call' = [call EXCEPT !.stack = Front(s)]
      PROVE  Simulates
  <2>1. /\ List(h)' = Append(l, s[Len(s)])
        /\ \A g \in Handles \ {h} : List(g)' = List(g)
        /\ UNCHANGED live /\ size'[h] = size[h] + 1
    <3>1. size'[h] = size[h] + 1
      BY <1>1, <1>4, <1>6, LinkKeeps
    <3> QED
      BY <1>1, <1>4, <1>6, <3>1, LinkList DEF Link
  <2>2. call'.short = call.short
    BY <1>1, <1>6 DEF CallType
  <2>3. Contents(h)' = Turned(Front(s), Append(l, s[Len(s)]), r)
    BY <1>1, <1>5, <2>1, ContentsIsNext DEF Busy
  <2>4. Contents(h)' = Contents(h)
    BY <1>3, <1>4, <2>3
  <2>5. \A g \in Handles \ {h} : Contents(g)' = Contents(g)
    BY <1>1, <1>5, <2>1, OthersSame
  <2>6. Elements' = Elements
    BY <2>4, <2>5, ElementsSame
  <2>7. RefInv' /\ Exists' = live
    BY <1>1, <1>2, <1>5, <2>1, <2>2 DEF RefInv, ReverseInv, CopyInv, Busy, Exists
  <2> QED
    BY <1>1, <2>2, <2>6, <2>7, FStutter DEF Simulates
<1>7. ASSUME UNCHANGED <<queues, heap, order>>,
             call' = [call EXCEPT !.stack = Front(s), !.short = TRUE]
      PROVE  Simulates
  <2>1. UNCHANGED <<live, size>> /\ \A g \in Handles : List(g)' = List(g)
    BY <1>1, <1>7, SameLists DEF queues
  <2>2. call'.short = TRUE
    BY <1>1, <1>7 DEF CallType
  <2>3. Contents(h)' = Turned(Front(s), l, r)
    BY <1>1, <1>5, <2>1, ContentsIsNext DEF Busy
  <2>4. \A g \in Handles \ {h} : Contents(g)' = Contents(g)
    BY <1>1, <1>5, <2>1, OthersSame
  <2>5. /\ Elements' = [Elements EXCEPT ![h] = Contents(h)'] /\ Elements[h] = Contents(h)
    BY <1>1, <2>4, ElementsExcept
  <2>6. \E i \in DOMAIN Elements[h] :
           Elements' = [Elements EXCEPT ![h] = RemoveAt(Elements[h], i)]
    BY <1>3, <1>4, <2>3, <2>5
  <2>7. RefInv' /\ Exists' = live
    BY <1>1, <1>2, <1>5, <2>1, <2>2 DEF RefInv, ReverseInv, CopyInv, Busy, Exists
  <2> QED
    BY <1>1, <2>2, <2>6, <2>7, FStarve DEF Simulates
<1> QED
  BY <1>6, <1>7 DEF ReverseUp

LEMMA SimulateReverseReturns ==
    ASSUME QInv, QInv', RefInv, ReverseReturns, NEW h \in Handles, h = call.h
    PROVE  Simulates
<1> DEFINE l == List(h)
           r == call.rest
           T == Turned(<<>>, l, r)
           k == Len(l) - r
<1>1. /\ Busy("up") /\ h \in live /\ h \in Handles /\ ListInv /\ call \in CallType
      /\ l \in Seq(Values) /\ Len(l) = size[h] /\ size[h] \in Nat
      /\ got' = got /\ Exists = live /\ call.stack = <<>> /\ call' = Idle
      /\ UNCHANGED <<queues, heap, order>>
  <2>1. Busy("up") /\ ~Busy("idle") /\ ~Busy("destroy")
    BY DEF ReverseReturns, Busy
  <2> QED
    BY <2>1, CallTypes DEF ReverseReturns, QInv, CallsTyped, Exists
<1>2. r \in 0 .. Len(l) /\ (~call.short => r = 0) /\ call.short \in BOOLEAN /\ r \in Nat
  BY <1>1 DEF RefInv, ReverseInv, CallType
<1>3. Contents(h) = T
  BY <1>1, ContentsIs
<1>4. /\ T \in Seq(Values) /\ Len(T) = Len(l) /\ k \in 0 .. Len(T)
      /\ l = SubSeq(T, k + 1, Len(T)) \o Reverse(SubSeq(T, 1, k))
  <2> HIDE DEF l, r
  <2> QED
    BY <1>1, <1>2, TurnedEnd
<1>5. UNCHANGED live /\ \A g \in Handles : List(g)' = List(g)
  BY <1>1, SameLists
<1>6. /\ RefInv' /\ call'.h = NULL /\ call'.short = FALSE /\ Exists' = live
      /\ Contents(h)' = l
  BY <1>1, <1>5, WhenIdleNext DEF Idle, Call
<1>7. \A g \in Handles \ {h} : Contents(g)' = Contents(g)
  BY <1>1, <1>5, <1>6, OthersSame
<1>8. Elements' = [Elements EXCEPT ![h] = l] /\ Elements[h] = T
  BY <1>1, <1>3, <1>6, <1>7, ElementsExcept
<1>9. ~call.short => k = Len(T)
  BY <1>1, <1>2, <1>4
<1> HIDE DEF l, r, T, k
<1>10. /\ k \in 0 .. Len(Elements[h]) /\ (~call.short => k = Len(Elements[h]))
       /\ Elements' = [Elements EXCEPT ![h] = SubSeq(Elements[h], k + 1, Len(Elements[h]))
                                                 \o Reverse(SubSeq(Elements[h], 1, k))]
  BY <1>4, <1>8, <1>9
<1>11. F!Next
  BY <1>1, <1>6, <1>10, FReverse
<1> QED
  BY <1>6, <1>11 DEF Simulates

\* clearQueue and destroyQueue took effect when they began.
LEMMA SimulateClear ==
    ASSUME QInv, QInv', RefInv, ClearTurn, NEW h \in Handles, h = call.h
    PROVE  Simulates
<1>1. /\ h \in live /\ h \in Handles /\ ListInv /\ size[h] > 0 /\ Drop(h)
      /\ UNCHANGED <<live, call, got>>
  BY ClearDrops DEF QInv, ClearTurn
<1>2. \A g \in Handles \ {h} : List(g)' = List(g)
  BY <1>1, DropList
<1>3. Contents(h) = <<>> /\ Contents(h)' = <<>>
  BY <1>1, ContentsIs, ContentsIsNext DEF ClearTurn, Busy
<1>4. \A g \in Handles \ {h} : Contents(g)' = Contents(g)
  BY <1>1, <1>2, OthersSame
<1>5. Elements' = Elements
  BY <1>3, <1>4, ElementsSame
<1>6. RefInv' /\ Exists' = Exists
  BY <1>1 DEF RefInv, ReverseInv, CopyInv, ClearTurn, Busy, Exists
<1> QED
  BY <1>1, <1>5, <1>6, FStutter DEF Simulates

LEMMA SimulateClearEnds ==
    ASSUME QInv, QInv', RefInv, ClearReturns \/ DestroyReturns,
           NEW h \in Handles, h = call.h
    PROVE  Simulates
<1>1. /\ h \in live /\ h \in Handles /\ ListInv /\ size[h] = 0 /\ call.short = FALSE
      /\ call' = Idle /\ got' = got
      /\ Busy("clear") \/ Busy("destroy")
  <2>1. ~Busy("idle") /\ ~Busy("up") /\ ~Busy("copy")
    BY DEF ClearReturns, DestroyReturns, Busy
  <2>2. call.short = FALSE
    BY <2>1, CallTypes DEF RefInv, ReverseInv
  <2> QED
    BY <2>1, <2>2, CallTypes DEF ClearReturns, DestroyReturns
<1>2. Rests
  <2>1. CASE ClearReturns
    BY <1>1, <2>1, Unchanged DEF ClearReturns
  <2>2. CASE DestroyReturns
    BY <1>1, <2>2 DEF ListInv, ListType, DestroyReturns, Rests
  <2> QED
    BY <2>1, <2>2
<1>3. \A g \in Handles : List(g)' = List(g)
  BY <1>1, <1>2, RestsList
<1>4. live' = IF Busy("destroy") THEN live \ {h} ELSE live
  BY DEF ClearReturns, DestroyReturns, queues, Busy
<1>5. /\ RefInv' /\ call'.h = NULL /\ call'.short = FALSE /\ Exists' = live'
      /\ Contents(h)' = IF h \in live' THEN List(h)' ELSE <<>>
  BY <1>1, WhenIdleNext DEF Idle, Call
<1>6. List(h) = <<>>
  BY <1>1, ListIs
<1>7. Contents(h) = <<>> /\ Contents(h)' = <<>>
  BY <1>1, <1>3, <1>5, <1>6, ContentsIs
<1>8. \A g \in Handles \ {h} : Contents(g)' = Contents(g)
  BY <1>1, <1>3, <1>4, <1>5, OthersSame
<1>9. Elements' = Elements
  BY <1>7, <1>8, ElementsSame
<1>10. Exists' = Exists
  BY <1>4, <1>5 DEF Exists
<1> QED
  BY <1>1, <1>5, <1>9, <1>10, FStutter DEF Simulates

\* The next element of t, copied or not.
LEMMA PickedGrows ==
    ASSUME NEW V, NEW s \in Seq(V), NEW t \in Seq(V), NEW k \in 1 .. Len(t),
           Len(s) <= k - 1, Picked(s, t, k - 1)
    PROVE  Picked(Append(s, t[k]), t, k) /\ Picked(s, t, k)
<1> DEFINE n == Len(s)
<1>1. n \in Nat /\ k \in Nat /\ n <= k - 1
  OBVIOUS
<1>2. PICK at \in F!Positions(n, k - 1) : \A i \in 1 .. n : s[i] = t[at[i]]
  BY DEF Picked
<1>3. /\ at \in [1 .. n -> 1 .. k - 1]
      /\ \A i, j \in 1 .. n : i < j => at[i] < at[j]
  BY <1>2 DEF F!Positions
<1>4. Picked(s, t, k)
  <2>1. at \in [1 .. n -> 1 .. k]
    BY <1>1, <1>3
  <2>2. at \in F!Positions(n, k)
    BY <1>3, <2>1 DEF F!Positions
  <2> QED
    BY <1>2, <2>2 DEF Picked
<1>5. Picked(Append(s, t[k]), t, k)
  <2> DEFINE a2 == [i \in 1 .. n + 1 |-> IF i <= n THEN at[i] ELSE k]
             s2 == Append(s, t[k])
  <2>1. \A i \in 1 .. n + 1 : a2[i] \in 1 .. k
    BY <1>1, <1>3
  <2>2. a2 \in [1 .. n + 1 -> 1 .. k]
    BY <2>1
  <2>3. \A i, j \in 1 .. n + 1 : i < j => a2[i] < a2[j]
    BY <1>1, <1>3
  <2>4. a2 \in F!Positions(n + 1, k)
    BY <2>2, <2>3 DEF F!Positions
  <2>5. Len(s2) = n + 1 /\ s2[n + 1] = t[k] /\ \A i \in 1 .. n : s2[i] = s[i]
    <3>1. t[k] \in V
      OBVIOUS
    <3> QED
      BY <3>1
  <2>6. \A i \in 1 .. n + 1 : s2[i] = t[a2[i]]
    <3> SUFFICES ASSUME NEW i \in 1 .. n + 1 PROVE s2[i] = t[a2[i]]
      OBVIOUS
    <3>1. CASE i = n + 1
      <4>1. a2[n + 1] = k
        BY <1>1
      <4> QED
        BY <2>5, <3>1, <4>1
    <3>2. CASE i # n + 1
      <4>1. i \in 1 .. n
        BY <1>1, <3>2
      <4>2. a2[i] = at[i]
        BY <1>1, <4>1
      <4> QED
        BY <1>2, <2>5, <4>1, <4>2
    <3> QED
      BY <3>1, <3>2
  <2> HIDE DEF a2, s2
  <2>7. Picked(s2, t, k)
    BY <2>4, <2>5, <2>6 DEF Picked
  <2> QED
    BY <2>7 DEF s2
<1> QED
  BY <1>4, <1>5

\* One element more of t, and all of it.
LEMMA PartGrows ==
    ASSUME NEW V, NEW t \in Seq(V), NEW k \in 1 .. Len(t)
    PROVE  /\ Append(SubSeq(t, 1, k - 1), t[k]) = SubSeq(t, 1, k)
           /\ SubSeq(t, 1, Len(t)) = t
<1> DEFINE a == SubSeq(t, 1, k - 1)
           b == SubSeq(t, 1, k)
           c == Append(a, t[k])
<1>1. Len(t) \in Nat /\ k \in Nat /\ t[k] \in V /\ 1 <= k /\ k <= Len(t)
  OBVIOUS
<1>2. a \in Seq(V) /\ Len(a) = k - 1 /\ \A i \in 1 .. k - 1 : a[i] = t[i]
  <2>1. 1 \in 1 .. Len(t) + 1 /\ k - 1 \in 1 - 1 .. Len(t)
    BY <1>1
  <2>2. /\ a \in Seq(V) /\ Len(a) = k - 1 - 1 + 1
        /\ \A i \in 1 .. k - 1 - 1 + 1 : a[i] = t[1 + i - 1]
    BY <2>1, Part
  <2> QED
    BY <1>1, <2>2
<1>3. b \in Seq(V) /\ Len(b) = k /\ \A i \in 1 .. k : b[i] = t[i]
  <2>1. 1 \in 1 .. Len(t) + 1 /\ k \in 1 - 1 .. Len(t)
    BY <1>1
  <2>2. /\ b \in Seq(V) /\ Len(b) = k - 1 + 1
        /\ \A i \in 1 .. k - 1 + 1 : b[i] = t[1 + i - 1]
    BY <2>1, Part
  <2> QED
    BY <1>1, <2>2
<1> HIDE DEF a, b
<1>4. /\ c \in Seq(V) /\ Len(c) = k /\ c[k] = t[k] /\ \A i \in 1 .. k - 1 : c[i] = t[i]
  BY <1>1, <1>2
<1> HIDE DEF c
<1>5. \A i \in 1 .. k : c[i] = b[i]
  BY <1>1, <1>3, <1>4
<1>6. c = b
  BY <1>3, <1>4, <1>5, SeqEqual
<1>7. SubSeq(t, 1, Len(t)) = t
  OBVIOUS
<1> QED
  BY <1>6, <1>7 DEF a, b, c

\* copyQueue: the copy is seen when it returns.
LEMMA SimulateCopyQueue ==
    ASSUME QInv, QInv', RefInv, NEW h \in Handles, NEW g \in Handles, copyQueue(h, g)
    PROVE  Simulates
<1>1. CASE Refuse
  BY <1>1, SimulateRefuse DEF copyQueue
<1>2. CASE ~Refuse
  <2>1. /\ Busy("idle") /\ h \in live /\ g \notin live
        /\ call' = Call("copy", h, g, head[h])
        /\ UNCHANGED <<queues, heap, got, order>>
    BY <1>2 DEF copyQueue
  <2>2. UNCHANGED <<live, size, order>> /\ \A f \in Handles : List(f)' = List(f)
    BY <2>1, SameLists DEF QInv, queues
  <2>3. /\ call'.op = "copy" /\ call'.h = h /\ call'.to = g /\ call'.cur = head[h]
        /\ call'.short = FALSE
    BY <2>1 DEF Call
  <2>4. List(g) = <<>> /\ size[g] = 0
    <3>1. size[g] = 0
      BY <2>1 DEF QInv, OnlyLiveHold, Busy
    <3> QED
      BY <3>1, ListIs DEF QInv
  <2>5. Copied(h, g, 1)'
    <3>1. Chain(h) /\ size[h] \in Nat
      BY DEF QInv, ListInv, ListType, HeapIsList
    <3>2. call'.cur = IF 1 <= size'[h] THEN order'[h][1] ELSE NULL
      BY <2>2, <2>3, <3>1 DEF Chain
    <3>3. Picked(List(g), List(h), 0)'
      <4>1. [i \in 1 .. 0 |-> 0] \in F!Positions(0, 0)
        BY DEF F!Positions
      <4>2. Picked(<<>>, List(h), 0)
        BY <4>1 DEF Picked
      <4> QED
        BY <2>2, <2>4, <4>2 DEF Picked
    <3>4. List(g)' = SubSeq(List(h)', 1, 0)
      <4>1. List(h) \in Seq(Values) /\ Len(List(h)) \in Nat
        BY ListIs DEF QInv
      <4>2. 1 \in 1 .. Len(List(h)) + 1 /\ 0 \in 1 - 1 .. Len(List(h))
        BY <4>1
      <4>3. SubSeq(List(h), 1, 0) \in Seq(Values) /\ Len(SubSeq(List(h), 1, 0)) = 0 - 1 + 1
        BY <4>1, <4>2, Part
      <4>4. SubSeq(List(h), 1, 0) = <<>>
        BY <4>3
      <4> QED
        BY <2>2, <2>4, <4>4
    <3> QED
      BY <2>2, <2>4, <3>2, <3>3, <3>4 DEF Copied
  <2>6. RefInv'
    <3>1. 1 \in 1 .. size'[h] + 1
      BY <2>2 DEF QInv, ListInv, ListType
    <3> QED
      BY <2>3, <2>5, <3>1 DEF RefInv, ReverseInv, CopyInv, Busy
  <2>7. \A f \in Handles \ {h} : Contents(f)' = Contents(f)
    BY <2>1, <2>2, <2>3, WhenIdle, OthersSame
  <2>8. Contents(h)' = List(h) /\ Contents(h) = List(h)
    BY <2>1, <2>2, <2>3, ContentsIsNext, WhenIdle DEF Busy
  <2>9. Elements' = Elements
    BY <2>7, <2>8, ElementsSame
  <2>10. Exists' = Exists /\ call'.short = call.short
    <3>1. call.short = FALSE /\ Exists = live
      BY <2>1, WhenIdle DEF Idle, Call
    <3> QED
      BY <2>2, <2>3, <3>1 DEF Exists, Busy
  <2> QED
    BY <2>1, <2>6, <2>9, <2>10, FStutter DEF Simulates
<1> QED
  BY <1>1, <1>2

LEMMA SimulateCopyTurn ==
    ASSUME QInv, QInv', RefInv, CopyTurn
    PROVE  Simulates
<1>1. PICK h \in Handles, g \in Handles :
         h = call.h /\ g = call.to /\ \E k \in 1 .. size[h] + 1 : Copied(h, g, k)
  BY DEF CopyTurn, RefInv, CopyInv
<1>2. PICK k \in 1 .. size[h] + 1 : Copied(h, g, k)
  BY <1>1
<1> DEFINE l == List(h)
           c == List(g)
           v == data[call.cur]
<1>3. /\ h \in live /\ g \notin live /\ h # g /\ ListInv /\ call \in CallType
      /\ Busy("copy") /\ Exists = live /\ got' = got /\ call.cur # NULL
  BY <1>1, CopyPosition DEF QInv, CallsTyped, CopyTurn, Busy, Exists
<1>4. /\ l \in Seq(Values) /\ Len(l) = size[h] /\ size[h] \in Nat
      /\ c \in Seq(Values) /\ Len(c) = size[g] /\ size[g] \in Nat
      /\ \A i \in 1 .. size[h] : l[i] = data[order[h][i]]
  BY <1>3, ListIs
<1>5. k \in 1 .. size[h] /\ call.cur = order[h][k] /\ v = l[k] /\ v \in Values
  <2>1. k \in 1 .. size[h] /\ call.cur = order[h][k]
    BY <1>2, <1>3, <1>4 DEF Copied
  <2> QED
    BY <1>4, <2>1
<1>6. next[call.cur] = IF k + 1 <= size[h] THEN order[h][k + 1] ELSE NULL
  <2>1. Chain(h)
    BY <1>3 DEF ListInv, HeapIsList
  <2>2. CASE k = size[h]
    BY <1>4, <1>5, <2>1, <2>2 DEF Chain
  <2>3. CASE k # size[h]
    <3>1. k \in 1 .. size[h] - 1
      BY <1>4, <1>5, <2>3
    <3> QED
      BY <1>4, <1>5, <2>1, <3>1 DEF Chain
  <2> QED
    BY <2>2, <2>3
<1>7. /\ call'.op = "copy" /\ call'.h = h /\ call'.to = g /\ call'.cur = next[call.cur]
  BY <1>1, <1>3 DEF CopyTurn, CallType, Busy
<1>8. /\ size[g] <= k - 1
      /\ ~call.short => c = SubSeq(l, 1, k - 1)
      /\ Picked(c, l, k - 1)
  BY <1>2 DEF Copied
<1>9. Picked(Append(c, l[k]), l, k) /\ Picked(c, l, k)
      /\ Append(SubSeq(l, 1, k - 1), l[k]) = SubSeq(l, 1, k)
  <2> HIDE DEF l, c
  <2> QED
    BY <1>4, <1>5, <1>8, PickedGrows, PartGrows
\* What both outcomes of the turn have in common.
<1>10. ASSUME UNCHANGED live, List(h)' = l, size'[h] = size[h], Copied(h, g, k + 1)',
              \A f \in Handles \ {g} : List(f)' = List(f)
       PROVE  RefInv' /\ Exists' = live /\ Elements' = Elements
  <2>1. k + 1 \in 1 .. size'[h] + 1
    BY <1>4, <1>5, <1>10
  <2>2. RefInv'
    BY <1>7, <1>10, <2>1 DEF RefInv, ReverseInv, CopyInv, Busy
  <2>3. Contents(h)' = Contents(h)
    BY <1>1, <1>3, <1>7, <1>10, ContentsIs, ContentsIsNext DEF Busy
  <2>4. \A f \in Handles \ {h} : Contents(f)' = Contents(f)
    BY <1>1, <1>3, <1>7, <1>10, OthersSame
  <2>5. Elements' = Elements
    BY <2>3, <2>4, ElementsSame
  <2> QED
    BY <1>7, <1>10, <2>2, <2>5 DEF Exists, Busy
<1>11. ASSUME NEW a \in Addresses \ used, Link(g, a, v),
              call' = [call EXCEPT !.cur = next[call.cur]]
       PROVE  Simulates
  <2>1. /\ List(g)' = Append(c, v) /\ \A f \in Handles \ {g} : List(f)' = List(f)
        /\ UNCHANGED live
    BY <1>3, <1>5, <1>11, LinkList DEF Link
  <2>2. size'[g] = size[g] + 1 /\ size'[h] = size[h] /\ order'[h] = order[h]
    BY <1>3, <1>5, <1>11, LinkKeeps
  <2>3. call'.short = call.short /\ List(h)' = l
    BY <1>3, <1>11, <2>1 DEF CallType
  <2>4. Copied(h, g, k + 1)'
    <3>1. call'.cur = IF k + 1 <= size'[h] THEN order'[h][k + 1] ELSE NULL
      BY <1>6, <1>7, <2>2
    <3>2. k + 1 - 1 = k /\ size'[g] <= k
      BY <1>4, <1>5, <1>8, <2>2
    <3>3. ~call'.short => List(g)' = SubSeq(List(h)', 1, k)
      BY <1>5, <1>8, <1>9, <2>1, <2>3
    <3>4. Picked(List(g), List(h), k)'
      <4>1. Picked(List(g)', List(h)', k)
        BY <1>5, <1>9, <2>1, <2>3
      <4> QED
        BY <4>1 DEF Picked
    <3> QED
      BY <3>1, <3>2, <3>3, <3>4 DEF Copied
  <2> QED
    BY <1>3, <1>10, <2>1, <2>2, <2>3, <2>4, FStutter DEF Simulates
<1>12. ASSUME UNCHANGED <<queues, heap, order>>,
              call' = [call EXCEPT !.cur = next[call.cur], !.short = TRUE]
       PROVE  Simulates
  <2>1. UNCHANGED <<live, size, order>> /\ \A f \in Handles : List(f)' = List(f)
    BY <1>3, <1>12, SameLists DEF queues
  <2>2. call'.short = TRUE
    BY <1>3, <1>12 DEF CallType
  <2>3. Copied(h, g, k + 1)'
    <3>1. call'.cur = IF k + 1 <= size'[h] THEN order'[h][k + 1] ELSE NULL
      BY <1>6, <1>7, <2>1
    <3>2. k + 1 - 1 = k /\ size'[g] <= k
      BY <1>4, <1>5, <1>8, <2>1
    <3>3. Picked(List(g), List(h), k)'
      <4>1. Picked(List(g)', List(h)', k)
        BY <1>9, <2>1
      <4> QED
        BY <4>1 DEF Picked
    <3> QED
      BY <2>2, <3>1, <3>2, <3>3 DEF Copied
  <2> QED
    BY <1>3, <1>10, <2>1, <2>2, <2>3, FStarve DEF Simulates
<1> QED
  BY <1>1, <1>11, <1>12 DEF CopyTurn

LEMMA SimulateCopyReturns ==
    ASSUME QInv, QInv', RefInv, CopyReturns
    PROVE  Simulates
<1>1. PICK h \in Handles, g \in Handles :
         h = call.h /\ g = call.to /\ \E k \in 1 .. size[h] + 1 : Copied(h, g, k)
  BY DEF CopyReturns, RefInv, CopyInv
<1>2. PICK k \in 1 .. size[h] + 1 : Copied(h, g, k)
  BY <1>1
<1> DEFINE l == List(h)
           c == List(g)
<1>3. /\ h \in live /\ g \notin live /\ h # g /\ ListInv /\ call \in CallType
      /\ Busy("copy") /\ Exists = live /\ got' = Success /\ call.cur = NULL
      /\ live' = live \cup {g} /\ call' = Idle
  BY <1>1 DEF QInv, CallsTyped, CallInv, CopyReturns, Busy, Exists
<1>4. /\ l \in Seq(Values) /\ Len(l) = size[h] /\ size[h] \in Nat
      /\ c \in Seq(Values) /\ Len(c) = size[g] /\ size[g] \in Nat
  BY <1>3, ListIs
<1>5. k = size[h] + 1
  <2>1. k <= size[h] => order[h][k] \in Addresses
    BY <1>2, <1>3, <1>4 DEF ListInv, ListType, HeapIsList, Chain
  <2> QED
    BY <1>2, <1>3, <1>4, <2>1, NamesAssumption DEF Copied
<1>6. /\ size[g] <= Len(l)
      /\ ~call.short => c = l
      /\ Picked(c, l, Len(l))
  <2>1. k - 1 = Len(l)
    BY <1>4, <1>5
  <2>2. SubSeq(l, 1, Len(l)) = l
    BY <1>4
  <2> QED
    BY <1>2, <2>1, <2>2 DEF Copied
<1>7. \A f \in Handles : List(f)' = List(f)
  BY <1>3, RestsList DEF CopyReturns, Rests, ListInv, ListType
<1>8. /\ RefInv' /\ call'.h = NULL /\ call'.short = FALSE /\ Exists' = live'
      /\ Contents(g)' = c
  BY <1>3, <1>7, WhenIdleNext DEF Idle, Call
<1>9. \A f \in Handles \ {g} : Contents(f)' = Contents(f)
  <2> SUFFICES ASSUME NEW f \in Handles \ {g} PROVE Contents(f)' = Contents(f)
    OBVIOUS
  <2>1. Contents(f)' = IF f \in live' THEN List(f) ELSE <<>>
    BY <1>3, <1>7, WhenIdleNext
  <2>2. Contents(f) = IF f \in live THEN List(f) ELSE <<>>
    BY <1>1, <1>3, ContentsIs
  <2> QED
    BY <1>3, <2>1, <2>2
<1>10. Elements' = [Elements EXCEPT ![g] = c]
  BY <1>8, <1>9, ElementsExcept
<1>11. Elements[h] = l
  BY <1>1, <1>3, ContentsIs DEF Elements
<1>12. CASE ~call.short
  <2>1. Elements' = [Elements EXCEPT ![g] = Elements[h]]
    BY <1>6, <1>10, <1>11, <1>12
  <2>2. F!Next
    BY <1>3, <1>8, <2>1, FCopy
  <2> QED
    BY <1>8, <2>2 DEF Simulates
<1>13. CASE call.short
  <2>1. PICK at \in F!Positions(Len(c), Len(l)) : \A i \in 1 .. Len(c) : c[i] = l[at[i]]
    BY <1>6 DEF Picked
  <2>2. c = [i \in 1 .. Len(c) |-> l[at[i]]]
    BY <1>4, <2>1
  <2>3. call.short = TRUE
    BY <1>3, <1>13 DEF CallType
  <2>4. Len(c) \in 0 .. Len(l)
    BY <1>4, <1>6
  <2> HIDE DEF c, l
  <2>5. \E n \in 0 .. Len(Elements[h]) : \E p \in F!Positions(n, Len(Elements[h])) :
           Elements' = [Elements EXCEPT ![g] = [i \in 1 .. n |-> Elements[h][p[i]]]]
    BY <1>10, <1>11, <2>1, <2>2, <2>4
  <2>6. F!Next
    BY <1>3, <1>8, <2>3, <2>5, FCopy
  <2> QED
    BY <1>8, <2>6 DEF Simulates
<1> QED
  BY <1>12, <1>13

LEMMA StepSimulates ==
    QInv /\ QInv' /\ RefInv /\ [Next]_vars => Simulates
<1> SUFFICES ASSUME QInv, QInv', RefInv, [Next]_vars PROVE Simulates
  OBVIOUS
<1>1. CASE UNCHANGED vars
  <2>1. UNCHANGED <<live, size, order, call, got>> /\ \A h \in Handles : List(h)' = List(h)
    BY <1>1, SameLists DEF QInv, vars, queues
  <2>2. \A h \in Handles : Contents(h)' = Contents(h)
    BY <1>1 DEF vars, queues, heap, Contents, List, Busy
  <2>3. ReverseInv'
    BY <1>1 DEF vars, queues, heap, RefInv, ReverseInv, Busy
  <2>4. ASSUME NEW h \in Handles, NEW g \in Handles, NEW k \in Int, Copied(h, g, k)
        PROVE  Copied(h, g, k)'
    BY <2>1, <2>4 DEF Copied, Picked
  <2>5. CopyInv'
    <3> SUFFICES ASSUME Busy("copy") PROVE CopyInv'
      BY <2>1 DEF CopyInv, Busy
    <3>1. PICK h \in Handles, g \in Handles :
             h = call.h /\ g = call.to /\ \E k \in 1 .. size[h] + 1 : Copied(h, g, k)
      BY DEF RefInv, CopyInv
    <3>2. PICK k \in 1 .. size[h] + 1 : Copied(h, g, k)
      BY <3>1
    <3>3. k \in 1 .. size'[h] + 1 /\ Copied(h, g, k)'
      BY <2>1, <2>4, <3>2
    <3> QED
      BY <2>1, <3>1, <3>3 DEF CopyInv
  <2> QED
    BY <2>1, <2>2, <2>3, <2>5, ElementsSame, FStutter DEF Simulates, RefInv, Exists, Busy
<1>2. CASE Step
  <2>1. ~Busy("idle")
    BY <1>2 DEF Step, ReverseDown, ReverseUp, ReverseReturns, ClearTurn, ClearReturns,
                DestroyReturns, CopyTurn, CopyReturns, Busy
  <2>2. PICK h \in Handles : h = call.h
    BY <2>1, CallTypes
  <2> QED
    BY <1>2, <2>2, SimulateReverseDown, SimulateReverseUp, SimulateReverseReturns,
       SimulateClear, SimulateClearEnds, SimulateCopyTurn, SimulateCopyReturns DEF Step
<1> QED
  BY <1>1, <1>2, SimulateCreate, SimulateEnqueue, SimulateDequeue, SimulateFront,
     SimulateBegin, SimulateCopyQueue DEF Next

LEMMA StartSimulates == Init => RefInv /\ F!Init
<1> SUFFICES ASSUME Init PROVE RefInv /\ F!Init
  OBVIOUS
<1>1. call = Idle /\ live = {} /\ got = Success /\ call.op = "idle" /\ call.short = FALSE
  BY DEF Init, Idle, Call
<1>2. RefInv
  BY <1>1 DEF RefInv, ReverseInv, CopyInv, Busy
<1>3. Elements = [h \in Handles |-> <<>>]
  BY <1>1 DEF Elements, Contents
<1> QED
  BY <1>1, <1>2, <1>3 DEF F!Init, Elements, Success, F!Success

\* The linked list implements the queue of queue.h: whatever calls come in which
\* order, elements leave it in the order in which they came, reverse turns it
\* round, a copy is equal and apart, and only memory that runs out inside reverse
\* or copyQueue, which do not look at what enqueue returns, loses elements.
THEOREM Refinement == Spec => ImplementsFifo
<1>1. QInv /\ QInv' /\ RefInv /\ [Next]_vars => RefInv'
  BY StepSimulates DEF Simulates
<1>2. QInv /\ QInv' /\ RefInv /\ [Next]_vars => [F!Next]_F!vars
  BY StepSimulates DEF Simulates
<1>3. Init => RefInv /\ F!Init
  BY StartSimulates
<1> QED
  BY <1>1, <1>2, <1>3, Invariance, PTL DEF Spec, ImplementsFifo, F!Spec

=============================================================================
