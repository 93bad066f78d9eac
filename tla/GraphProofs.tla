---------------------------- MODULE GraphProofs ----------------------------
(***************************************************************************)
(* Proofs about GraphStrategy: what the stateful nodes report is what the  *)
(* decided bars say, for every graph of the three wirings, every order of  *)
(* its ids, and any number of bars, positions and restarts.                *)
(***************************************************************************)
EXTENDS GraphStrategy, SumProofs

-----------------------------------------------------------------------------
(***************************************************************************)
(* The nodes of a graph.                                                   *)
(***************************************************************************)
Names ==
  {"cond", "lower", "cool", "hold", "bridge", "cross", "edge", "exit", "level", "gate"}

\* Every edge leads to a node further down.
Depth(n) ==
  IF n \in {"cond", "lower", "cool"} THEN 0 ELSE IF n \in {"hold", "bridge", "cross"} THEN 1
  ELSE IF n \in {"edge", "exit"} THEN 2 ELSE IF n = "level" THEN 3 ELSE 4

PlainNodes == {"cool", "gate", "cond", "hold", "edge", "bridge", "exit"}
EdgeNodes == {"cool", "gate", "cond", "hold", "edge", "level", "lower"}
CrossNodes == {"cool", "gate", "cond", "cross", "level", "lower"}

\* The connections of each wiring, spelled out.
LEMMA EdgesOf ==
  ASSUME NEW q
  PROVE  /\ q.wiring = "plain" =>
              Edges(q) = {<<"cool", "gate">>, <<"cond", "hold">>, <<"hold", "edge">>,
                          <<"edge", "gate">>, <<"cond", "bridge">>, <<"bridge", "exit">>}
         /\ q.wiring = "edge" =>
              Edges(q) = {<<"cool", "gate">>, <<"cond", "hold">>, <<"hold", "edge">>,
                          <<"edge", "level">>, <<"lower", "level">>, <<"level", "gate">>}
         /\ q.wiring = "cross" =>
              Edges(q) = {<<"cool", "gate">>, <<"cond", "cross">>, <<"cross", "level">>,
                          <<"lower", "level">>, <<"level", "gate">>}
BY DEF Edges, Reducers, Owner

\* Every connection joins two nodes of the graph, the second one deeper.
LEMMA EdgesGoDown ==
  ASSUME NEW q, q.wiring \in {"plain", "edge", "cross"}, NEW e \in Edges(q)
  PROVE  /\ e[1] \in Names /\ e[2] \in Names /\ e[1] \in Nodes(q) /\ e[2] \in Nodes(q)
         /\ Depth(e[1]) < Depth(e[2])
<1>1. /\ e[1] \in Nodes(q) /\ e[2] \in Nodes(q)
  BY DEF Nodes
<1>2. /\ e[1] \in Names /\ e[2] \in Names
      /\ Depth(e[1]) < Depth(e[2])
  BY EdgesOf DEF Names, Depth
<1> QED BY <1>1, <1>2

\* The nodes of a plain graph; parents are what the connections say.
LEMMA PlainEdges ==
  ASSUME NEW q, q.wiring = "plain"
  PROVE  /\ Nodes(q) = PlainNodes
         /\ \A p, n : p \in Parents(q, n) <=> <<p, n>> \in Edges(q)
<1> DEFINE E == {<<"cool", "gate">>, <<"cond", "hold">>, <<"hold", "edge">>,
                 <<"edge", "gate">>, <<"cond", "bridge">>, <<"bridge", "exit">>}
<1>1. Edges(q) = E
  BY EdgesOf
<1>2. \A x : x \in Nodes(q) <=> \E e \in E : x = e[1] \/ x = e[2]
  BY <1>1 DEF Nodes
<1>3. \A x : x \in PlainNodes <=> \E e \in E : x = e[1] \/ x = e[2]
  BY DEF PlainNodes
<1>4. \A p, n : p \in Parents(q, n) <=> \E e \in E : e[1] = p /\ e[2] = n
  BY <1>1 DEF Parents
<1>5. \A p, n : (\E e \in E : e[1] = p /\ e[2] = n) <=> <<p, n>> \in E
  OBVIOUS
<1> QED
  BY <1>1, <1>2, <1>3, <1>4, <1>5

\* The same for a graph whose level hangs on an edge.
LEMMA EdgeEdges ==
  ASSUME NEW q, q.wiring = "edge"
  PROVE  /\ Nodes(q) = EdgeNodes
         /\ \A p, n : p \in Parents(q, n) <=> <<p, n>> \in Edges(q)
<1> DEFINE E == {<<"cool", "gate">>, <<"cond", "hold">>, <<"hold", "edge">>,
                 <<"edge", "level">>, <<"lower", "level">>, <<"level", "gate">>}
<1>1. Edges(q) = E
  BY EdgesOf
<1>2. \A x : x \in Nodes(q) <=> \E e \in E : x = e[1] \/ x = e[2]
  BY <1>1 DEF Nodes
<1>3. \A x : x \in EdgeNodes <=> \E e \in E : x = e[1] \/ x = e[2]
  BY DEF EdgeNodes
<1>4. \A p, n : p \in Parents(q, n) <=> \E e \in E : e[1] = p /\ e[2] = n
  BY <1>1 DEF Parents
<1>5. \A p, n : (\E e \in E : e[1] = p /\ e[2] = n) <=> <<p, n>> \in E
  OBVIOUS
<1> QED
  BY <1>1, <1>2, <1>3, <1>4, <1>5

\* The same for a graph whose level hangs on a crossing.
LEMMA CrossEdges ==
  ASSUME NEW q, q.wiring = "cross"
  PROVE  /\ Nodes(q) = CrossNodes
         /\ \A p, n : p \in Parents(q, n) <=> <<p, n>> \in Edges(q)
<1> DEFINE E == {<<"cool", "gate">>, <<"cond", "cross">>, <<"cross", "level">>,
                 <<"lower", "level">>, <<"level", "gate">>}
<1>1. Edges(q) = E
  BY EdgesOf
<1>2. \A x : x \in Nodes(q) <=> \E e \in E : x = e[1] \/ x = e[2]
  BY <1>1 DEF Nodes
<1>3. \A x : x \in CrossNodes <=> \E e \in E : x = e[1] \/ x = e[2]
  BY DEF CrossNodes
<1>4. \A p, n : p \in Parents(q, n) <=> \E e \in E : e[1] = p /\ e[2] = n
  BY <1>1 DEF Parents
<1>5. \A p, n : (\E e \in E : e[1] = p /\ e[2] = n) <=> <<p, n>> \in E
  OBVIOUS
<1> QED
  BY <1>1, <1>2, <1>3, <1>4, <1>5

\* The nodes of the three wirings and what each is fed by.
LEMMA Wirings ==
  ASSUME NEW q, q.wiring \in {"plain", "edge", "cross"}
  PROVE  /\ Nodes(q) \subseteq Names /\ IsFiniteSet(Nodes(q))
         /\ \A n : \A p \in Parents(q, n) :
              p \in Nodes(q) /\ n \in Nodes(q) /\ Depth(p) < Depth(n)
         /\ q.wiring = "plain" =>
              /\ Nodes(q) = PlainNodes
              /\ "cond" \in Parents(q, "hold") /\ "hold" \in Parents(q, "edge")
              /\ "cond" \in Parents(q, "bridge") /\ "bridge" \in Parents(q, "exit")
              /\ "cool" \in Parents(q, "gate") /\ "edge" \in Parents(q, "gate")
         /\ q.wiring = "edge" =>
              /\ Nodes(q) = EdgeNodes
              /\ "cond" \in Parents(q, "hold") /\ "hold" \in Parents(q, "edge")
              /\ "edge" \in Parents(q, "level")
              /\ "cool" \in Parents(q, "gate") /\ "level" \in Parents(q, "gate")
         /\ q.wiring = "cross" =>
              /\ Nodes(q) = CrossNodes
              /\ "cond" \in Parents(q, "cross") /\ "cross" \in Parents(q, "level")
              /\ "cool" \in Parents(q, "gate") /\ "level" \in Parents(q, "gate")
<1>1. \A p, n : p \in Parents(q, n) <=> <<p, n>> \in Edges(q)
  BY PlainEdges, EdgeEdges, CrossEdges
<1>2. \A n : \A p \in Parents(q, n) : p \in Nodes(q) /\ n \in Nodes(q) /\ Depth(p) < Depth(n)
  <2> SUFFICES ASSUME NEW n, NEW p \in Parents(q, n)
               PROVE  p \in Nodes(q) /\ n \in Nodes(q) /\ Depth(p) < Depth(n)
    OBVIOUS
  <2>1. <<p, n>> \in Edges(q) /\ <<p, n>>[1] = p /\ <<p, n>>[2] = n
    BY <1>1
  <2> DEFINE e == <<p, n>>
  <2>2. e \in Edges(q) /\ e[1] = p /\ e[2] = n
    BY <2>1
  <2> HIDE DEF e
  <2> QED
    BY <2>2, EdgesGoDown
<1>3. IsFiniteSet(Names)
  <2>1. Names = {"cond"} \cup {"lower"} \cup {"cool"} \cup {"hold"} \cup {"bridge"}
                  \cup {"cross"} \cup {"edge"} \cup {"exit"} \cup {"level"} \cup {"gate"}
    BY DEF Names
  <2>2. \A x : IsFiniteSet({x})
    BY FS_Singleton
  <2> QED
    BY <2>1, <2>2, FS_Union
<1>4. Nodes(q) \subseteq Names
  BY PlainEdges, EdgeEdges, CrossEdges DEF PlainNodes, EdgeNodes, CrossNodes, Names
<1>5. IsFiniteSet(Nodes(q))
  BY <1>3, <1>4, FS_Subset
<1>6. ASSUME q.wiring = "plain"
      PROVE  /\ Nodes(q) = PlainNodes
               /\ "cond" \in Parents(q, "hold")
               /\ "hold" \in Parents(q, "edge")
               /\ "cond" \in Parents(q, "bridge")
               /\ "bridge" \in Parents(q, "exit")
               /\ "cool" \in Parents(q, "gate")
               /\ "edge" \in Parents(q, "gate")
  <2>1. Nodes(q) = PlainNodes
    BY <1>6, PlainEdges
  <2>2. /\ <<"cond", "hold">> \in Edges(q)
               /\ <<"hold", "edge">> \in Edges(q)
               /\ <<"cond", "bridge">> \in Edges(q)
               /\ <<"bridge", "exit">> \in Edges(q)
               /\ <<"cool", "gate">> \in Edges(q)
               /\ <<"edge", "gate">> \in Edges(q)
    BY <1>6, EdgesOf
  <2> QED
    BY <1>1, <2>1, <2>2
<1>7. ASSUME q.wiring = "edge"
      PROVE  /\ Nodes(q) = EdgeNodes
               /\ "cond" \in Parents(q, "hold")
               /\ "hold" \in Parents(q, "edge")
               /\ "edge" \in Parents(q, "level")
               /\ "cool" \in Parents(q, "gate")
               /\ "level" \in Parents(q, "gate")
  <2>1. Nodes(q) = EdgeNodes
    BY <1>7, EdgeEdges
  <2>2. /\ <<"cond", "hold">> \in Edges(q)
               /\ <<"hold", "edge">> \in Edges(q)
               /\ <<"edge", "level">> \in Edges(q)
               /\ <<"cool", "gate">> \in Edges(q)
               /\ <<"level", "gate">> \in Edges(q)
    BY <1>7, EdgesOf
  <2> QED
    BY <1>1, <2>1, <2>2
<1>8. ASSUME q.wiring = "cross"
      PROVE  /\ Nodes(q) = CrossNodes
               /\ "cond" \in Parents(q, "cross")
               /\ "cross" \in Parents(q, "level")
               /\ "cool" \in Parents(q, "gate")
               /\ "level" \in Parents(q, "gate")
  <2>1. Nodes(q) = CrossNodes
    BY <1>8, CrossEdges
  <2>2. /\ <<"cond", "cross">> \in Edges(q)
               /\ <<"cross", "level">> \in Edges(q)
               /\ <<"cool", "gate">> \in Edges(q)
               /\ <<"level", "gate">> \in Edges(q)
    BY <1>8, EdgesOf
  <2> QED
    BY <1>1, <2>1, <2>2
<1> QED
  BY <1>2, <1>4, <1>5, <1>6, <1>7, <1>8

-----------------------------------------------------------------------------
(***************************************************************************)
(* The order of evaluation: every node once, after the nodes it is fed by. *)
(***************************************************************************)
NextInOrder(q, seq) ==
  LET done == ToSet(seq)
      ready == {n \in Nodes(q) \ done : Parents(q, n) \subseteq done}
  IN Append(seq, CHOOSE n \in ready : \A m \in ready : q.ranks[n] <= q.ranks[m])

OrderUpTo(q, N, f) == f = [k \in 0 .. N |-> IF k = 0 THEN <<>> ELSE NextInOrder(q, f[k - 1])]

Sorted(q, seq) ==
  /\ seq \in Seq(Nodes(q))
  /\ IsFiniteSet(ToSet(seq)) /\ Cardinality(ToSet(seq)) = Len(seq)
  /\ \A i, j \in 1 .. Len(seq) : seq[i] = seq[j] => i = j
  /\ \A i \in 1 .. Len(seq) : \A p \in Parents(q, seq[i]) : \E j \in 1 .. i - 1 : seq[j] = p

\* The recursion that orders the nodes defines a function.
LEMMA OrderExists ==
  ASSUME NEW q, NEW N \in Nat
  PROVE  \E f : OrderUpTo(q, N, f)
<1> DEFINE P == {M \in Nat : \E f : OrderUpTo(q, M, f)}
           step(s) == NextInOrder(q, s)
<1>1. 0 \in P
  <2> DEFINE order == [k \in 0 .. 0 |-> <<>>]
  <2>1. OrderUpTo(q, 0, order)
    BY DEF OrderUpTo
  <2> QED
    BY <2>1
<1>2. ASSUME NEW M \in P PROVE M + 1 \in P
  <2>1. PICK order : OrderUpTo(q, M, order)
    OBVIOUS
  <2>2. \A n \in 0 .. M : order[n] = IF n = 0 THEN <<>> ELSE step(order[n - 1])
    BY <2>1 DEF OrderUpTo
  <2> HIDE DEF step
  <2> DEFINE h == [n \in 0 .. M + 1 |-> IF n <= M THEN order[n] ELSE step(order[M])]
  <2>3. ASSUME NEW n \in 0 .. M + 1
        PROVE  h[n] = IF n = 0 THEN <<>> ELSE step(h[n - 1])
    <3>1. CASE n = M + 1
      <4>1. n # 0 /\ n - 1 = M /\ ~(n <= M) /\ M \in 0 .. M + 1
        BY <3>1
      <4> QED
        BY <3>1, <4>1
    <3>2. CASE n # M + 1
      <4>1. n \in 0 .. M /\ n <= M
        BY <3>2
      <4>2. n # 0 => n - 1 \in 0 .. M + 1 /\ n - 1 <= M
        BY <4>1
      <4> QED
        BY <2>2, <4>1, <4>2
    <3> QED
      BY <3>1, <3>2
  <2>4. h = [n \in 0 .. M + 1 |-> IF n = 0 THEN <<>> ELSE step(h[n - 1])]
    <3> DEFINE e(n) == IF n = 0 THEN <<>> ELSE step(h[n - 1])
    <3>1. h = [n \in 0 .. M + 1 |-> h[n]]
      OBVIOUS
    <3>2. \A n \in 0 .. M + 1 : h[n] = e(n)
      BY <2>3
    <3> HIDE DEF h
    <3> QED
      BY <3>1, <3>2
  <2> HIDE DEF h
  <2>5. OrderUpTo(q, M + 1, h)
    BY <2>4 DEF OrderUpTo, step
  <2> QED
    BY <2>5
<1>3. P = Nat
  <2> HIDE DEF P
  <2>1. P \subseteq Nat
    BY DEF P
  <2> QED
    BY <1>1, <1>2, <2>1, InductionOnNat
<1> QED
  BY <1>3

\* While nodes are left, one of them has all its parents done: the one least deep.
LEMMA SomeReady ==
  ASSUME NEW q, IsGraph(q), NEW done, ~(Nodes(q) \subseteq done)
  PROVE  \E n \in Nodes(q) \ done : Parents(q, n) \subseteq done
<1>1. q.wiring \in {"plain", "edge", "cross"}
  BY DEF IsGraph
<1> DEFINE T == {Depth(n) : n \in Nodes(q) \ done}
<1>2. T \subseteq Nat /\ T # {}
  BY DEF Depth
<1>3. PICK d \in T : \A e \in T : d <= e
  BY <1>2, LeastNat
<1>4. PICK n \in Nodes(q) \ done : d = Depth(n)
  OBVIOUS
<1>5. ASSUME NEW p \in Parents(q, n), p \notin done PROVE FALSE
  <2>1. p \in Nodes(q) /\ Depth(p) < Depth(n)
    BY <1>1, Wirings
  <2>2. Depth(n) <= Depth(p)
    BY <1>3, <1>4, <1>5, <2>1
  <2>3. Depth(n) \in Nat /\ Depth(p) \in Nat
    BY DEF Depth
  <2> HIDE DEF T
  <2> QED
    BY <2>1, <2>2, <2>3
<1> QED
  BY <1>4, <1>5

\* A ready node of the smallest rank exists.
LEMMA ReadyChosen ==
  ASSUME NEW q, IsGraph(q), NEW ready, ready \subseteq Nodes(q), ready # {}
  PROVE  (CHOOSE n \in ready : \A m \in ready : q.ranks[n] <= q.ranks[m]) \in ready
<1> DEFINE T == {q.ranks[n] : n \in ready}
<1>1. T \subseteq Nat /\ T # {}
  BY DEF IsGraph
<1>2. PICK d \in T : \A e \in T : d <= e
  BY <1>1, LeastNat
<1>3. PICK n \in ready : d = q.ranks[n]
  OBVIOUS
<1>4. \A m \in ready : q.ranks[n] <= q.ranks[m]
  BY <1>2, <1>3
<1> QED
  BY <1>3, <1>4

\* One more node in order.
LEMMA SortedNext ==
  ASSUME NEW q, IsGraph(q), NEW seq, Sorted(q, seq), Len(seq) < Cardinality(Nodes(q))
  PROVE  Sorted(q, NextInOrder(q, seq)) /\ Len(NextInOrder(q, seq)) = Len(seq) + 1
<1> DEFINE done == ToSet(seq)
           ready == {n \in Nodes(q) \ done : Parents(q, n) \subseteq done}
           new == CHOOSE n \in ready : \A m \in ready : q.ranks[n] <= q.ranks[m]
           r == Append(seq, new)
<1>1. q.wiring \in {"plain", "edge", "cross"}
  BY DEF IsGraph
<1>2. IsFiniteSet(Nodes(q))
  BY <1>1, Wirings
<1>3. /\ seq \in Seq(Nodes(q)) /\ Len(seq) \in Nat
      /\ done = {seq[i] : i \in 1 .. Len(seq)} /\ done \subseteq Nodes(q)
      /\ IsFiniteSet(done) /\ Cardinality(done) = Len(seq)
  BY DEF Sorted, ToSet
<1> DEFINE L == Len(seq)
<1>14. L \in Nat /\ DOMAIN seq = 1 .. L
  <2>1. seq \in Seq(Nodes(q))
    BY DEF Sorted
  <2> QED
    BY <2>1
<1> HIDE DEF L
<1>4. ~(Nodes(q) \subseteq done)
  <2>1. ASSUME Nodes(q) = done PROVE FALSE
    <3> HIDE DEF done
    <3>1. Cardinality(Nodes(q)) = L
      BY <1>3, <2>1 DEF L
    <3>2. L < Cardinality(Nodes(q))
      BY DEF L
    <3> QED
      BY <1>14, <3>1, <3>2
  <2> QED
    BY <1>3, <2>1
<1>5. ready # {} /\ ready \subseteq Nodes(q)
  BY <1>4, SomeReady
<1>6. new \in ready
  <2> HIDE DEF ready
  <2> QED
    BY <1>5, ReadyChosen
<1>7. NextInOrder(q, seq) = r
  BY DEF NextInOrder
<1>8. new \in Nodes(q) /\ new \notin done /\ Parents(q, new) \subseteq done
  BY <1>6
<1> HIDE DEF new, ready, done
<1>9. /\ r \in Seq(Nodes(q)) /\ Len(r) = L + 1 /\ r[L + 1] = new
      /\ \A i \in 1 .. L : r[i] = seq[i]
  <2>1. seq \in Seq(Nodes(q)) /\ new \in Nodes(q)
    BY <1>3, <1>8
  <2> QED
    BY <2>1 DEF L
<1> HIDE DEF r
<1>10. ToSet(r) = done \cup {new}
  <2>1. DOMAIN r = 1 .. L + 1
    BY <1>9
  <2>2. \A x : x \in ToSet(r) <=> \E i \in 1 .. L + 1 : r[i] = x
    BY <2>1 DEF ToSet
  <2>3. \A x : x \in done <=> \E i \in 1 .. L : seq[i] = x
    BY <1>3 DEF L
  <2>4. \A i \in 1 .. L + 1 : i \in 1 .. L \/ i = L + 1
    BY <1>14
  <2>5. L + 1 \in 1 .. L + 1 /\ \A i \in 1 .. L : i \in 1 .. L + 1
    BY <1>14
  <2>6. \A x : x \in ToSet(r) <=> x \in done \/ x = new
    BY <1>9, <2>2, <2>3, <2>4, <2>5
  <2> QED
    BY <2>6
<1>11. IsFiniteSet(ToSet(r)) /\ Cardinality(ToSet(r)) = Len(r)
  <2>1. IsFiniteSet(done \cup {new}) /\ Cardinality(done \cup {new}) = Cardinality(done) + 1
    <3> QED
      BY <1>3, <1>8, FS_AddElement
  <2>2. Cardinality(done) = L
    BY <1>3 DEF L
  <2> QED
    BY <1>9, <1>10, <2>1, <2>2
<1>12. \A i, j \in 1 .. Len(r) : r[i] = r[j] => i = j
  <2> SUFFICES ASSUME NEW i \in 1 .. Len(r), NEW j \in 1 .. Len(r), r[i] = r[j]
               PROVE  i = j
    OBVIOUS
  <2>1. \A k \in 1 .. L : seq[k] # new
    BY <1>3, <1>8 DEF L
  <2>2. \A k, l \in 1 .. L : seq[k] = seq[l] => k = l
    BY DEF Sorted, L
  <2>3. /\ i \in 1 .. L \/ i = L + 1
        /\ j \in 1 .. L \/ j = L + 1
    BY <1>9, <1>14
  <2> QED
    BY <1>9, <2>1, <2>2, <2>3
<1>13. \A i \in 1 .. Len(r) : \A p \in Parents(q, r[i]) : \E j \in 1 .. i - 1 : r[j] = p
  <2> SUFFICES ASSUME NEW i \in 1 .. Len(r), NEW p \in Parents(q, r[i])
               PROVE  \E j \in 1 .. i - 1 : r[j] = p
    OBVIOUS
  <2>1. CASE i \in 1 .. L
    <3>1. PICK j \in 1 .. i - 1 : seq[j] = p
      BY <1>9, <2>1 DEF Sorted, L
    <3>2. j \in 1 .. L
      BY <1>14, <2>1
    <3> QED
      BY <1>9, <3>1, <3>2
  <2>2. CASE i = L + 1
    <3>1. PICK j \in 1 .. L : seq[j] = p
      BY <1>3, <1>8, <1>9, <2>2 DEF L
    <3>2. j \in 1 .. i - 1
      BY <1>14, <2>2
    <3> QED
      BY <1>9, <3>1, <3>2
  <2> QED
    BY <1>9, <1>14, <2>1, <2>2
<1> QED
  BY <1>7, <1>9, <1>11, <1>12, <1>13 DEF Sorted, L

\* The order of a graph.
LEMMA OrderSorted ==
  ASSUME NEW q, IsGraph(q)
  PROVE  Sorted(q, TopoOrder(q)) /\ ToSet(TopoOrder(q)) = Nodes(q)
<1> DEFINE N == Cardinality(Nodes(q))
           f == CHOOSE h : OrderUpTo(q, N, h)
           P == {k \in Nat : k <= N => Sorted(q, f[k]) /\ Len(f[k]) = k}
<1>1. IsFiniteSet(Nodes(q)) /\ N \in Nat
  <2>1. q.wiring \in {"plain", "edge", "cross"}
    BY DEF IsGraph
  <2>2. IsFiniteSet(Nodes(q))
    BY <2>1, Wirings
  <2> QED
    BY <2>2, FS_CardinalityType
<1>2. OrderUpTo(q, N, f)
  BY <1>1, OrderExists
<1>3. TopoOrder(q) = f[N]
  BY DEF TopoOrder, OrderUpTo, NextInOrder
<1> HIDE DEF f
<1>4. /\ f[0] = <<>>
      /\ \A k \in Nat : k + 1 <= N => f[k + 1] = NextInOrder(q, f[k])
  <2>1. \A k \in 0 .. N : f[k] = IF k = 0 THEN <<>> ELSE NextInOrder(q, f[k - 1])
    BY <1>2 DEF OrderUpTo
  <2>2. \A k \in Nat : k + 1 <= N => k + 1 \in 0 .. N /\ k + 1 # 0 /\ (k + 1) - 1 = k
    BY <1>1
  <2>3. 0 \in 0 .. N
    BY <1>1
  <2> HIDE DEF N
  <2> QED
    BY <2>1, <2>2, <2>3
<1> HIDE DEF N
<1>5. 0 \in P
  <2>1. ToSet(<<>>) = {} /\ <<>> \in Seq(Nodes(q)) /\ Len(<<>>) = 0
    BY DEF ToSet
  <2>2. Sorted(q, <<>>)
    BY <2>1, FS_EmptySet DEF Sorted
  <2> QED
    BY <1>4, <2>1, <2>2
<1>6. ASSUME NEW k \in P PROVE k + 1 \in P
  <2> SUFFICES ASSUME k + 1 <= N PROVE Sorted(q, f[k + 1]) /\ Len(f[k + 1]) = k + 1
    OBVIOUS
  <2>1. k \in Nat /\ k <= N /\ k < N
    BY <1>1
  <2>2. Sorted(q, f[k]) /\ Len(f[k]) = k
    BY <2>1
  <2> QED
    BY <1>4, <2>1, <2>2, SortedNext DEF N
<1>7. N \in P
  <2> HIDE DEF P
  <2>1. P \subseteq Nat
    BY DEF P
  <2>2. P = Nat
    BY <1>5, <1>6, <2>1, InductionOnNat
  <2> QED
    BY <1>1, <2>2
<1>8. Sorted(q, TopoOrder(q)) /\ Len(TopoOrder(q)) = N
  BY <1>1, <1>3, <1>7
<1>9. ToSet(TopoOrder(q)) \subseteq Nodes(q)
  BY <1>8 DEF Sorted, ToSet
<1>10. Cardinality(ToSet(TopoOrder(q))) = N
  BY <1>8 DEF Sorted
<1> QED
  BY <1>1, <1>8, <1>9, <1>10, FS_Subset DEF N

-----------------------------------------------------------------------------
(***************************************************************************)
(* One bar.                                                                *)
(***************************************************************************)
NodeStates ==
  [hold : HoldState \cup {None}, edge : EdgeState \cup {None}, cross : EdgeState \cup {None},
   level : LevelState \cup {None}, cool : Int]

\* What each node computes from the states before the bar.
HoldTo(q, st, b) ==
  IF Duplicate(st.hold, b) THEN st.hold ELSE HoldAfter(q.bars, st.hold, b, Compare(b))
EdgeTo(q, st, b) == IF Duplicate(st.edge, b) THEN st.edge ELSE EdgeAfter(b, HoldTo(q, st, b).out)
EdgeOut(q, st, b) == ~Duplicate(st.edge, b) /\ EdgeFires(st.edge, b, HoldTo(q, st, b).out)
Repeats(st, b) == st # None /\ st.t = b.t
CrossTo(st, b) == IF Repeats(st.cross, b) THEN st.cross ELSE CrossAfter(b, Compare(b))
CrossOut(st, b) == ~Repeats(st.cross, b) /\ CrossFires(st.cross, b, Compare(b))
TriggerOut(q, st, b) == IF q.wiring = "cross" THEN CrossOut(st, b) ELSE EdgeOut(q, st, b)
LevelTo(q, st, b) ==
  IF Duplicate(st.level, b) THEN st.level ELSE LevelAfter(q, st.level, b, TriggerOut(q, st, b))
LevelOut(q, st, b) == LevelFires(st.level, LevelTo(q, st, b))
SignalOut(q, st, b) == IF HasLevel(q) THEN LevelOut(q, st, b) ELSE TriggerOut(q, st, b)
CoolOut(st, pos) == CoolAllows(CoolAfter(st.cool, pos), pos)
GateOut(q, st, b, pos) ==
  DirectionGate(SignalOut(q, st, b), CoolOut(st, pos))
ExitOut(b, pos, kn) == PositionExit(Bridge(b, Compare(b)), pos, kn)

To(q, st, b, pos) ==
  [hold |-> HoldTo(q, st, b), edge |-> EdgeTo(q, st, b), cross |-> CrossTo(st, b),
   level |-> LevelTo(q, st, b), cool |-> CoolAfter(st.cool, pos)]
Out(q, st, b, pos, kn) ==
  [cond |-> Compare(b), hold |-> HoldTo(q, st, b).out, edge |-> EdgeOut(q, st, b),
   cross |-> CrossOut(st, b), level |-> LevelOut(q, st, b), cool |-> CoolOut(st, pos),
   bridge |-> Bridge(b, Compare(b)), exit |-> ExitOut(b, pos, kn),
   gate |-> GateOut(q, st, b, pos)]
Keeping == {"hold", "edge", "cross", "level", "cool"}
Speaking == {"cond", "hold", "edge", "cross", "level", "cool", "bridge", "exit", "gate"}

\* An evaluation in which the nodes of done have been visited, of states st to those of to, with
\* the outputs of out.
Evaluation(G, O, r) == [g |-> G, out |-> O, raised |-> r]
VisitedAll(s, st, to, out, done) ==
  /\ s = Evaluation(s.g, s.out, s.raised)
  /\ DOMAIN s.g = Keeping /\ DOMAIN s.out = Speaking
  /\ \A n \in Keeping : s.g[n] = IF n \in done THEN to[n] ELSE st[n]
  /\ \A n \in Speaking : s.out[n] = IF n \in done THEN out[n] ELSE NoOutput[n]

\* A node changes its own state and its own output.
Say(s, n, y) == [s EXCEPT !.out[n] = y]
Keep(s, n, x, y) == [s EXCEPT !.g[n] = x, !.out[n] = y]

\* Saying a value changes one output of an evaluation and nothing else.
LEMMA OutputSet ==
  ASSUME NEW G, NEW O, NEW r, NEW y, NEW n, NEW s, s = Evaluation(G, O, r)
  PROVE  Say(s, n, y) = Evaluation(G, [O EXCEPT ![n] = y], r)
<1>1. s = [g |-> G, out |-> O, raised |-> r] /\ s.out = O
  BY DEF Evaluation
<1> DEFINE O1 == [O EXCEPT ![n] = y]
<1>2. Say(s, n, y) = [s EXCEPT !.out = O1]
  BY <1>1 DEF Say
<1> HIDE DEF O1
<1>3. [s EXCEPT !.out = O1] = [g |-> G, out |-> O1, raised |-> r]
  BY <1>1
<1> QED
  BY <1>2, <1>3 DEF O1, Evaluation

\* Keeping a state and saying a value changes that node's two entries and nothing else.
LEMMA BothSet ==
  ASSUME NEW G, NEW O, NEW r, NEW x, NEW y, NEW n, NEW s, s = Evaluation(G, O, r)
  PROVE  Keep(s, n, x, y) = Evaluation([G EXCEPT ![n] = x], [O EXCEPT ![n] = y], r)
<1>1. s = [g |-> G, out |-> O, raised |-> r] /\ s.g = G /\ s.out = O
  BY DEF Evaluation
<1> DEFINE G1 == [G EXCEPT ![n] = x]
           O1 == [O EXCEPT ![n] = y]
           s1 == [s EXCEPT !.g[n] = x]
<1>2. s1 = [s EXCEPT !.g = G1]
  BY <1>1
<1>3. Keep(s, n, x, y) = [s1 EXCEPT !.out[n] = y]
  BY DEF Keep
<1> HIDE DEF G1, s1
<1>4. s1 = [g |-> G1, out |-> O, raised |-> r]
  BY <1>1, <1>2
<1>5. s1.out = O
  BY <1>4
<1>6. [s1 EXCEPT !.out[n] = y] = [s1 EXCEPT !.out = O1]
  BY <1>5
<1> HIDE DEF O1
<1>7. [s1 EXCEPT !.out = O1] = [g |-> G1, out |-> O1, raised |-> r]
  BY <1>4
<1> QED
  BY <1>3, <1>6, <1>7 DEF G1, O1, Evaluation

\* Raising leaves states and outputs alone.
LEMMA RaisedSet ==
  ASSUME NEW G, NEW O, NEW r, NEW y, NEW s, s = Evaluation(G, O, r)
  PROVE  /\ [s EXCEPT !.raised = y] = Evaluation(G, O, y)
         /\ s.g = G /\ s.out = O /\ s.raised = r
BY DEF Evaluation

\* A visit that keeps and says what the node owes adds the node to those visited.
LEMMA KeptAndSaid ==
  ASSUME NEW s, NEW st, NEW to, NEW out, NEW done, VisitedAll(s, st, to, out, done),
         NEW n \in Keeping, NEW s1,
         s1 = Evaluation([s.g EXCEPT ![n] = to[n]], [s.out EXCEPT ![n] = out[n]], s.raised)
  PROVE  VisitedAll(s1, st, to, out, done \cup {n})
<1>1. /\ s1.g = [s.g EXCEPT ![n] = to[n]] /\ s1.out = [s.out EXCEPT ![n] = out[n]]
      /\ s1.raised = s.raised
  BY DEF Evaluation
<1>2. n \in Speaking
  BY DEF Keeping, Speaking
<1>3. DOMAIN s.g = Keeping /\ DOMAIN s.out = Speaking
  BY DEF VisitedAll
<1>4. ASSUME NEW m \in Keeping
      PROVE  s1.g[m] = IF m \in done \cup {n} THEN to[m] ELSE st[m]
  BY <1>1, <1>3 DEF VisitedAll
<1>5. ASSUME NEW m \in Speaking
      PROVE  s1.out[m] = IF m \in done \cup {n} THEN out[m] ELSE NoOutput[m]
  BY <1>1, <1>2, <1>3 DEF VisitedAll
<1> QED
  BY <1>1, <1>3, <1>4, <1>5 DEF VisitedAll

\* So does a visit that only says, for a node with no state of its own to change.
LEMMA OnlySaid ==
  ASSUME NEW s, NEW st, NEW to, NEW out, NEW done, VisitedAll(s, st, to, out, done),
         NEW n \in Speaking, n \in Keeping => to[n] = st[n], NEW s1,
         s1 = Evaluation(s.g, [s.out EXCEPT ![n] = out[n]], s.raised)
  PROVE  VisitedAll(s1, st, to, out, done \cup {n})
<1>1. s1.g = s.g /\ s1.out = [s.out EXCEPT ![n] = out[n]] /\ s1.raised = s.raised
  BY DEF Evaluation
<1>3. DOMAIN s.g = Keeping /\ DOMAIN s.out = Speaking
  BY DEF VisitedAll
<1>4. ASSUME NEW m \in Keeping
      PROVE  s1.g[m] = IF m \in done \cup {n} THEN to[m] ELSE st[m]
  BY <1>1, <1>3 DEF VisitedAll
<1>5. ASSUME NEW m \in Speaking
      PROVE  s1.out[m] = IF m \in done \cup {n} THEN out[m] ELSE NoOutput[m]
  BY <1>1, <1>3 DEF VisitedAll
<1> QED
  BY <1>1, <1>3, <1>4, <1>5 DEF VisitedAll

\* What a node reads when its parents have been visited and it has not.
LEMMA NodeReads ==
  ASSUME NEW q, NEW s, NEW st, NEW b, NEW pos, NEW kn, NEW done,
         VisitedAll(s, st, To(q, st, b, pos), Out(q, st, b, pos, kn), done)
  PROVE  /\ "cond" \in done => s.out.cond = Compare(b)
         /\ "hold" \in done => s.out.hold = HoldTo(q, st, b).out
         /\ "edge" \in done => s.out.edge = EdgeOut(q, st, b)
         /\ "cross" \in done => s.out.cross = CrossOut(st, b)
         /\ "level" \in done => s.out.level = LevelOut(q, st, b)
         /\ "cool" \in done => s.out.cool = CoolOut(st, pos)
         /\ "bridge" \in done => s.out.bridge = Bridge(b, Compare(b))
         /\ "hold" \notin done => s.g.hold = st.hold
         /\ "edge" \notin done => s.g.edge = st.edge
         /\ "cross" \notin done => s.g.cross = st.cross
         /\ "level" \notin done => s.g.level = st.level
         /\ "cool" \notin done => s.g.cool = st.cool
<1>1. /\ \A n \in Keeping : n \notin done => s.g[n] = st[n]
      /\ \A n \in Speaking : n \in done => s.out[n] = Out(q, st, b, pos, kn)[n]
  BY DEF VisitedAll
<1>2. {"hold", "edge", "cross", "level", "cool"} \subseteq Keeping
  BY DEF Keeping
<1>3. {"cond", "hold", "edge", "cross", "level", "cool", "bridge"} \subseteq Speaking
  BY DEF Speaking
<1>4. /\ Out(q, st, b, pos, kn).cond = Compare(b)
      /\ Out(q, st, b, pos, kn).hold = HoldTo(q, st, b).out
      /\ Out(q, st, b, pos, kn).edge = EdgeOut(q, st, b)
      /\ Out(q, st, b, pos, kn).cross = CrossOut(st, b)
      /\ Out(q, st, b, pos, kn).level = LevelOut(q, st, b)
      /\ Out(q, st, b, pos, kn).cool = CoolOut(st, pos)
      /\ Out(q, st, b, pos, kn).bridge = Bridge(b, Compare(b))
  BY DEF Out
<1> QED
  BY <1>1, <1>2, <1>3, <1>4

\* A reducer keeps and says what the states before the bar make of it.
LEMMA ReducersEvaluate ==
  ASSUME NEW q, q.wiring \in {"plain", "edge", "cross"}, NEW s, NEW st, NEW b, NEW pos, NEW kn,
         NEW done,
         VisitedAll(s, st, To(q, st, b, pos), Out(q, st, b, pos, kn), done),
         NEW n \in Nodes(q) \ done, Parents(q, n) \subseteq done,
         n \in {"hold", "edge", "cross"}
  PROVE  /\ VisitedAll(Evaluated(q, n, s, b, pos, kn), st, To(q, st, b, pos),
                       Out(q, st, b, pos, kn), done \cup {n})
         /\ Evaluated(q, n, s, b, pos, kn).raised = s.raised
<1> DEFINE to == To(q, st, b, pos)
           out == Out(q, st, b, pos, kn)
           s1 == Evaluated(q, n, s, b, pos, kn)
<1>1. q.wiring \in {"plain", "edge", "cross"}
  OBVIOUS
<1> DEFINE G == s.g
           O == s.out
           R == s.raised
<1>2. s = Evaluation(G, O, R)
  BY DEF VisitedAll
<1> HIDE DEF G, O, R
<1>3. /\ to.hold = HoldTo(q, st, b) /\ to.edge = EdgeTo(q, st, b) /\ to.cross = CrossTo(st, b)
      /\ out.hold = HoldTo(q, st, b).out /\ out.edge = EdgeOut(q, st, b)
      /\ out.cross = CrossOut(st, b)
  BY DEF To, Out
<1>4. n \in Keeping /\ n \in Speaking
  BY DEF Keeping, Speaking
<1>5. CASE n = "hold"
  <2>1. "cond" \in done
    BY <1>1, <1>5, Wirings DEF PlainNodes, EdgeNodes, CrossNodes
  <2>2. s.out.cond = Compare(b) /\ s.g.hold = st.hold
    BY <1>5, <2>1, NodeReads
  <2> DEFINE x == HoldTo(q, st, b)
  <2>3. s1 = Keep(s, n, x, x.out)
    BY <1>5, <2>2 DEF Evaluated, HoldTo, Keep
  <2> HIDE DEF x, s1
  <2>4. s1 = Evaluation([G EXCEPT ![n] = x], [O EXCEPT ![n] = x.out], R)
    BY <1>2, <2>3, BothSet
  <2> HIDE DEF to, out
  <2>5. s1 = Evaluation([s.g EXCEPT ![n] = to[n]], [s.out EXCEPT ![n] = out[n]], s.raised)
    BY <1>3, <1>5, <2>4 DEF x, G, O, R
  <2>6. VisitedAll(s1, st, to, out, done \cup {n})
    BY <1>4, <2>5, KeptAndSaid DEF to, out
  <2>7. s1.raised = s.raised
    BY <2>5, RaisedSet
  <2> QED
    BY <2>6, <2>7 DEF to, out, s1
<1>6. CASE n = "edge"
  <2>1. "hold" \in done
    BY <1>1, <1>6, Wirings DEF PlainNodes, EdgeNodes, CrossNodes
  <2>2. s.out.hold = HoldTo(q, st, b).out /\ s.g.edge = st.edge
    BY <1>6, <2>1, NodeReads
  <2>3. CASE Duplicate(st.edge, b)
    <3> DEFINE y == EdgeOut(q, st, b)
    <3>1. y = FALSE /\ EdgeTo(q, st, b) = st.edge
      BY <2>3 DEF EdgeOut, EdgeTo
    <3>2. s1 = Say(s, n, FALSE)
      BY <1>6, <2>2, <2>3 DEF Evaluated, Say
    <3>3. s1 = Say(s, n, y)
      BY <3>1, <3>2
    <3> HIDE DEF y, s1, to, out
    <3>4. s1 = Evaluation(G, [O EXCEPT ![n] = y], R)
      BY <1>2, <3>3, OutputSet
    <3>5. s1 = Evaluation(s.g, [s.out EXCEPT ![n] = out[n]], s.raised)
      BY <1>3, <1>6, <3>4 DEF y, G, O, R
    <3>6. to[n] = st[n]
      BY <1>3, <1>6, <3>1
    <3>7. VisitedAll(s1, st, to, out, done \cup {n})
      BY <1>4, <3>5, <3>6, OnlySaid DEF to, out
    <3>8. s1.raised = s.raised
      BY <3>5, RaisedSet
    <3> QED
      BY <3>7, <3>8 DEF to, out, s1
  <2>4. CASE ~Duplicate(st.edge, b)
    <3> DEFINE x == EdgeTo(q, st, b)
               y == EdgeFires(st.edge, b, HoldTo(q, st, b).out)
    <3>1. x = EdgeAfter(b, HoldTo(q, st, b).out) /\ out.edge = y
      BY <1>3, <2>4 DEF EdgeOut, EdgeTo, EdgeFires
    <3>2. s1 = Keep(s, n, x, y)
      BY <1>6, <2>2, <2>4, <3>1 DEF Evaluated, Keep
    <3> HIDE DEF y, s1, to, out, x
    <3>4. s1 = Evaluation([G EXCEPT ![n] = x], [O EXCEPT ![n] = y], R)
      BY <1>2, <3>2, BothSet
    <3>5. s1 = Evaluation([s.g EXCEPT ![n] = to[n]], [s.out EXCEPT ![n] = out[n]], s.raised)
      BY <1>3, <1>6, <3>1, <3>4 DEF x, G, O, R
    <3>7. VisitedAll(s1, st, to, out, done \cup {n})
      BY <1>4, <3>5, KeptAndSaid DEF to, out
    <3>8. s1.raised = s.raised
      BY <3>5, RaisedSet
    <3> QED
      BY <3>7, <3>8 DEF to, out, s1
  <2> QED
    BY <2>3, <2>4
<1>7. CASE n = "cross"
  <2>1. "cond" \in done
    BY <1>1, <1>7, Wirings DEF PlainNodes, EdgeNodes, CrossNodes
  <2>2. s.out.cond = Compare(b) /\ s.g.cross = st.cross
    BY <1>7, <2>1, NodeReads
  <2>3. CASE Repeats(st.cross, b)
    <3> DEFINE y == CrossOut(st, b)
    <3>1. y = FALSE /\ CrossTo(st, b) = st.cross
      BY <2>3 DEF CrossOut, CrossTo
    <3>2. s1 = Say(s, n, FALSE)
      BY <1>7, <2>2, <2>3 DEF Evaluated, Repeats, Say
    <3>3. s1 = Say(s, n, y)
      BY <3>1, <3>2
    <3> HIDE DEF y, s1, to, out
    <3>4. s1 = Evaluation(G, [O EXCEPT ![n] = y], R)
      BY <1>2, <3>3, OutputSet
    <3>5. s1 = Evaluation(s.g, [s.out EXCEPT ![n] = out[n]], s.raised)
      BY <1>3, <1>7, <3>4 DEF y, G, O, R
    <3>6. to[n] = st[n]
      BY <1>3, <1>7, <3>1
    <3>7. VisitedAll(s1, st, to, out, done \cup {n})
      BY <1>4, <3>5, <3>6, OnlySaid DEF to, out
    <3>8. s1.raised = s.raised
      BY <3>5, RaisedSet
    <3> QED
      BY <3>7, <3>8 DEF to, out, s1
  <2>4. CASE ~Repeats(st.cross, b)
    <3> DEFINE x == CrossTo(st, b)
               y == CrossFires(st.cross, b, Compare(b))
    <3>1. x = CrossAfter(b, Compare(b)) /\ out.cross = y
      BY <1>3, <2>4 DEF CrossOut, CrossTo, CrossFires
    <3>2. s1 = Keep(s, n, x, y)
      BY <1>7, <2>2, <2>4, <3>1 DEF Evaluated, Repeats, Keep
    <3> HIDE DEF y, s1, to, out, x
    <3>4. s1 = Evaluation([G EXCEPT ![n] = x], [O EXCEPT ![n] = y], R)
      BY <1>2, <3>2, BothSet
    <3>5. s1 = Evaluation([s.g EXCEPT ![n] = to[n]], [s.out EXCEPT ![n] = out[n]], s.raised)
      BY <1>3, <1>7, <3>1, <3>4 DEF x, G, O, R
    <3>7. VisitedAll(s1, st, to, out, done \cup {n})
      BY <1>4, <3>5, KeptAndSaid DEF to, out
    <3>8. s1.raised = s.raised
      BY <3>5, RaisedSet
    <3> QED
      BY <3>7, <3>8 DEF to, out, s1
  <2> QED
    BY <2>3, <2>4
<1> QED
  BY <1>5, <1>6, <1>7

\* So does a level or a cooldown; the other nodes only speak.
LEMMA OthersEvaluate ==
  ASSUME NEW q, q.wiring \in {"plain", "edge", "cross"}, NEW s, NEW st, NEW b, NEW pos, NEW kn,
         NEW done,
         VisitedAll(s, st, To(q, st, b, pos), Out(q, st, b, pos, kn), done),
         NEW n \in Nodes(q) \ done, Parents(q, n) \subseteq done,
         n \notin {"hold", "edge", "cross"}
  PROVE  /\ VisitedAll(Evaluated(q, n, s, b, pos, kn), st, To(q, st, b, pos),
                       Out(q, st, b, pos, kn), done \cup {n})
         /\ Evaluated(q, n, s, b, pos, kn).raised = s.raised
<1> DEFINE to == To(q, st, b, pos)
           out == Out(q, st, b, pos, kn)
           s1 == Evaluated(q, n, s, b, pos, kn)
<1>1. q.wiring \in {"plain", "edge", "cross"}
  OBVIOUS
<1> DEFINE G == s.g
           O == s.out
           R == s.raised
<1>2. s = Evaluation(G, O, R)
  BY DEF VisitedAll
<1> HIDE DEF G, O, R
<1>3. /\ to.level = LevelTo(q, st, b) /\ to.cool = CoolAfter(st.cool, pos)
      /\ out.level = LevelOut(q, st, b) /\ out.cool = CoolOut(st, pos)
      /\ out.cond = Compare(b) /\ out.bridge = Bridge(b, Compare(b))
      /\ out.exit = ExitOut(b, pos, kn) /\ out.gate = GateOut(q, st, b, pos)
  BY DEF To, Out
<1>4. CASE n = "level"
  <2>1. IF q.wiring = "cross" THEN "cross" \in done ELSE "edge" \in done
    BY <1>1, <1>4, Wirings DEF PlainNodes, EdgeNodes, CrossNodes
  <2>2. Trigger(q, s.out) = TriggerOut(q, st, b) /\ s.g.level = st.level
    BY <1>4, <2>1, NodeReads DEF Trigger, TriggerOut
  <2> DEFINE x == LevelTo(q, st, b)
             y == LevelOut(q, st, b)
  <2>3. s1 = Keep(s, n, x, y)
    BY <1>4, <2>2 DEF Evaluated, LevelTo, LevelOut, Keep
  <2> HIDE DEF x, y, s1, to, out
  <2>4. s1 = Evaluation([G EXCEPT ![n] = x], [O EXCEPT ![n] = y], R)
    BY <1>2, <2>3, BothSet
  <2>5. s1 = Evaluation([s.g EXCEPT ![n] = to[n]], [s.out EXCEPT ![n] = out[n]], s.raised)
    BY <1>3, <1>4, <2>4 DEF x, y, G, O, R
  <2>6. VisitedAll(s1, st, to, out, done \cup {n})
    BY <1>4, <2>5, KeptAndSaid DEF to, out, Keeping
  <2>7. s1.raised = s.raised
    BY <2>5, RaisedSet
  <2> QED
    BY <2>6, <2>7 DEF to, out, s1
<1>5. CASE n = "cool"
  <2>2. s.g.cool = st.cool
    BY <1>5, NodeReads
  <2> DEFINE x == CoolAfter(st.cool, pos)
             y == CoolOut(st, pos)
  <2>3. s1 = Keep(s, n, x, y)
    BY <1>5, <2>2 DEF Evaluated, CoolOut, Keep
  <2> HIDE DEF x, y, s1, to, out
  <2>4. s1 = Evaluation([G EXCEPT ![n] = x], [O EXCEPT ![n] = y], R)
    BY <1>2, <2>3, BothSet
  <2>5. s1 = Evaluation([s.g EXCEPT ![n] = to[n]], [s.out EXCEPT ![n] = out[n]], s.raised)
    BY <1>3, <1>5, <2>4 DEF x, y, G, O, R
  <2>6. VisitedAll(s1, st, to, out, done \cup {n})
    BY <1>5, <2>5, KeptAndSaid DEF to, out, Keeping
  <2>7. s1.raised = s.raised
    BY <2>5, RaisedSet
  <2> QED
    BY <2>6, <2>7 DEF to, out, s1
<1>6. CASE n = "cond"
  <2> DEFINE y == Compare(b)
  <2>3. s1 = Say(s, n, y)
    BY <1>6 DEF Evaluated, Say
  <2> HIDE DEF y, s1, to, out
  <2>4. s1 = Evaluation(G, [O EXCEPT ![n] = y], R)
    BY <1>2, <2>3, OutputSet
  <2>5. s1 = Evaluation(s.g, [s.out EXCEPT ![n] = out[n]], s.raised)
    BY <1>3, <1>6, <2>4 DEF y, G, O, R
  <2>6. VisitedAll(s1, st, to, out, done \cup {n})
    BY <1>6, <2>5, OnlySaid DEF to, out, Keeping, Speaking
  <2>7. s1.raised = s.raised
    BY <2>5, RaisedSet
  <2> QED
    BY <2>6, <2>7 DEF to, out, s1
<1>7. CASE n = "bridge"
  <2>1. "cond" \in done
    BY <1>1, <1>7, Wirings DEF PlainNodes, EdgeNodes, CrossNodes
  <2>2. s.out.cond = Compare(b)
    BY <2>1, NodeReads
  <2> DEFINE y == Bridge(b, Compare(b))
  <2>3. s1 = Say(s, n, y)
    BY <1>7, <2>2 DEF Evaluated, Say
  <2> HIDE DEF y, s1, to, out
  <2>4. s1 = Evaluation(G, [O EXCEPT ![n] = y], R)
    BY <1>2, <2>3, OutputSet
  <2>5. s1 = Evaluation(s.g, [s.out EXCEPT ![n] = out[n]], s.raised)
    BY <1>3, <1>7, <2>4 DEF y, G, O, R
  <2>6. VisitedAll(s1, st, to, out, done \cup {n})
    BY <1>7, <2>5, OnlySaid DEF to, out, Keeping, Speaking
  <2>7. s1.raised = s.raised
    BY <2>5, RaisedSet
  <2> QED
    BY <2>6, <2>7 DEF to, out, s1
<1>8. CASE n = "exit"
  <2>1. "bridge" \in done
    BY <1>1, <1>8, Wirings DEF PlainNodes, EdgeNodes, CrossNodes
  <2>2. s.out.bridge = Bridge(b, Compare(b))
    BY <2>1, NodeReads
  <2> DEFINE y == ExitOut(b, pos, kn)
  <2>3. s1 = Say(s, n, y)
    BY <1>8, <2>2 DEF Evaluated, ExitOut, Say
  <2> HIDE DEF y, s1, to, out
  <2>4. s1 = Evaluation(G, [O EXCEPT ![n] = y], R)
    BY <1>2, <2>3, OutputSet
  <2>5. s1 = Evaluation(s.g, [s.out EXCEPT ![n] = out[n]], s.raised)
    BY <1>3, <1>8, <2>4 DEF y, G, O, R
  <2>6. VisitedAll(s1, st, to, out, done \cup {n})
    BY <1>8, <2>5, OnlySaid DEF to, out, Keeping, Speaking
  <2>7. s1.raised = s.raised
    BY <2>5, RaisedSet
  <2> QED
    BY <2>6, <2>7 DEF to, out, s1
<1>9. CASE n = "gate"
  <2>1. /\ "cool" \in done
        /\ IF HasLevel(q) THEN "level" \in done ELSE "edge" \in done
    BY <1>1, <1>9, Wirings DEF HasLevel
  <2>2. Signal(q, s.out) = SignalOut(q, st, b) /\ s.out.cool = CoolOut(st, pos)
    BY <1>1, <2>1, NodeReads DEF Signal, SignalOut, Trigger, TriggerOut, HasLevel
  <2> DEFINE y == GateOut(q, st, b, pos)
  <2>3. s1 = Say(s, n, y)
    BY <1>9, <2>2 DEF Evaluated, GateOut, Say
  <2> HIDE DEF y, s1, to, out
  <2>4. s1 = Evaluation(G, [O EXCEPT ![n] = y], R)
    BY <1>2, <2>3, OutputSet
  <2>5. s1 = Evaluation(s.g, [s.out EXCEPT ![n] = out[n]], s.raised)
    BY <1>3, <1>9, <2>4 DEF y, G, O, R
  <2>6. VisitedAll(s1, st, to, out, done \cup {n})
    BY <1>9, <2>5, OnlySaid DEF to, out, Keeping, Speaking
  <2>7. s1.raised = s.raised
    BY <2>5, RaisedSet
  <2> QED
    BY <2>6, <2>7 DEF to, out, s1
<1>10. CASE n = "lower"
  <2>1. s1 = s
    BY <1>10 DEF Evaluated
  <2>2. "lower" \notin Keeping /\ "lower" \notin Speaking
    BY DEF Keeping, Speaking
  <2> HIDE DEF s1, to, out
  <2>3. VisitedAll(s, st, to, out, done \cup {"lower"})
    BY <2>2 DEF VisitedAll, to, out
  <2> QED
    BY <1>10, <2>1, <2>3 DEF to, out, s1
<1> QED
  BY <1>1, <1>4, <1>5, <1>6, <1>7, <1>8, <1>9, <1>10, Wirings DEF Names

\* A node that is visited in order, and does not raise.
LEMMA NodeEvaluates ==
  ASSUME NEW q, q.wiring \in {"plain", "edge", "cross"}, NEW s, NEW st, NEW b, NEW pos, NEW kn,
         NEW done,
         VisitedAll(s, st, To(q, st, b, pos), Out(q, st, b, pos, kn), done),
         NEW n, n \in Nodes(q), n \notin done, Parents(q, n) \subseteq done
  PROVE  /\ VisitedAll(Evaluated(q, n, s, b, pos, kn), st, To(q, st, b, pos),
                       Out(q, st, b, pos, kn), done \cup {n})
         /\ Evaluated(q, n, s, b, pos, kn).raised = s.raised
<1>1. CASE n \in {"hold", "edge", "cross"}
  BY <1>1, ReducersEvaluate
<1>2. CASE n \notin {"hold", "edge", "cross"}
  BY <1>2, OthersEvaluate
<1> QED
  BY <1>1, <1>2

\* What a strategy is built from.
WellBuilt(q) ==
  /\ q.wiring \in {"plain", "edge", "cross"}
  /\ HasLevel(q) => q.mode \in {"sweep_reclaim", "breakout_retest", "breakout"}
  /\ q.bars \in Nat \ {0} /\ q.expires \in Nat \ {0} /\ q.history \in Nat
  /\ Sorted(q, q.order) /\ ToSet(q.order) = Nodes(q)

\* A strategy built from a graph has the graph's parameters and a sorted order.
LEMMA GraphBuilt ==
  ASSUME NEW x, IsGraph(x)
  PROVE  WellBuilt(Built(x))
<1> DEFINE q == Built(x)
<1>1. /\ q.wiring = x.wiring /\ q.mode = x.mode /\ q.bars = x.bars /\ q.expires = x.expires
      /\ q.history = x.history /\ q.order = TopoOrder(x)
  BY DEF Built
<1> HIDE DEF q
<1>2. Edges(q) = Edges(x) /\ HasLevel(q) = HasLevel(x)
  BY <1>1 DEF Edges, HasLevel
<1>3. Nodes(q) = Nodes(x) /\ \A n : Parents(q, n) = Parents(x, n)
  BY <1>2 DEF Nodes, Parents
<1>4. Sorted(x, TopoOrder(x)) /\ ToSet(TopoOrder(x)) = Nodes(x)
  BY OrderSorted
<1>5. Sorted(q, q.order) /\ ToSet(q.order) = Nodes(q)
  <2> DEFINE T == TopoOrder(x)
  <2>1. q.order = T /\ Sorted(x, T) /\ ToSet(T) = Nodes(x)
    BY <1>1, <1>4
  <2> HIDE DEF T
  <2>2. \A i \in 1 .. Len(T) : \A p \in Parents(x, T[i]) : \E j \in 1 .. i - 1 : T[j] = p
    BY <2>1 DEF Sorted
  <2>3. \A i \in 1 .. Len(T) : \A p \in Parents(q, T[i]) : \E j \in 1 .. i - 1 : T[j] = p
    BY <1>3, <2>2
  <2>4. /\ T \in Seq(Nodes(q))
        /\ IsFiniteSet(ToSet(T)) /\ Cardinality(ToSet(T)) = Len(T)
        /\ \A i, j \in 1 .. Len(T) : T[i] = T[j] => i = j
    BY <1>3, <2>1 DEF Sorted
  <2>5. Sorted(q, T)
    BY <2>3, <2>4 DEF Sorted
  <2> QED
    BY <1>3, <2>1, <2>5
<1>6. /\ q.wiring \in {"plain", "edge", "cross"}
      /\ HasLevel(q) => q.mode \in {"sweep_reclaim", "breakout_retest", "breakout"}
      /\ q.bars \in Nat \ {0} /\ q.expires \in Nat \ {0} /\ q.history \in Nat
  BY <1>1, <1>2 DEF IsGraph
<1> QED
  BY <1>5, <1>6 DEF WellBuilt, q

\* A node that refuses a bar.
Complains(n, st, b) ==
  \/ n \in {"hold", "edge"} /\ CursorRaises(st[n], b)
  \/ n = "cross" /\ st.cross # None /\ b.t < st.cross.t
  \/ n = "level" /\ LevelRaises(st.level, b)

VisitsUpTo(q, st, b, pos, kn, N, f) ==
  f = [k \in 0 .. N |->
         IF k = 0 THEN [g |-> st, out |-> NoOutput, raised |-> FALSE]
         ELSE Visited(q, q.order[k], f[k - 1], b, pos, kn)]

\* The recursion over the nodes of one bar defines a function.
LEMMA VisitsExist ==
  ASSUME NEW q, NEW st, NEW b, NEW pos, NEW kn, NEW N \in Nat
  PROVE  \E f : VisitsUpTo(q, st, b, pos, kn, N, f)
<1> DEFINE P == {M \in Nat : \E f : VisitsUpTo(q, st, b, pos, kn, M, f)}
           s0 == [g |-> st, out |-> NoOutput, raised |-> FALSE]
           step(k, s) == Visited(q, q.order[k], s, b, pos, kn)
<1>1. 0 \in P
  <2> DEFINE h == [k \in 0 .. 0 |-> s0]
  <2>1. VisitsUpTo(q, st, b, pos, kn, 0, h)
    <3> HIDE DEF s0
    <3>1. h = [k \in 0 .. 0 |-> IF k = 0 THEN s0 ELSE step(k, h[k - 1])]
      OBVIOUS
    <3> QED
      BY <3>1 DEF VisitsUpTo, s0
  <2> QED
    BY <2>1
<1>2. ASSUME NEW M \in P PROVE M + 1 \in P
  <2>1. PICK a : VisitsUpTo(q, st, b, pos, kn, M, a)
    OBVIOUS
  <2>2. \A n \in 0 .. M : a[n] = IF n = 0 THEN s0 ELSE step(n, a[n - 1])
    BY <2>1 DEF VisitsUpTo
  <2> HIDE DEF step, s0
  <2> DEFINE h == [n \in 0 .. M + 1 |-> IF n <= M THEN a[n] ELSE step(n, a[M])]
  <2>3. ASSUME NEW n \in 0 .. M + 1
        PROVE  h[n] = IF n = 0 THEN s0 ELSE step(n, h[n - 1])
    <3>1. CASE n = M + 1
      <4>1. n # 0 /\ n - 1 = M /\ ~(n <= M) /\ M \in 0 .. M + 1
        BY <3>1
      <4> QED
        BY <3>1, <4>1
    <3>2. CASE n # M + 1
      <4>1. n \in 0 .. M /\ n <= M
        BY <3>2
      <4>2. n # 0 => n - 1 \in 0 .. M + 1 /\ n - 1 <= M
        BY <4>1
      <4> QED
        BY <2>2, <4>1, <4>2
    <3> QED
      BY <3>1, <3>2
  <2>4. h = [n \in 0 .. M + 1 |-> IF n = 0 THEN s0 ELSE step(n, h[n - 1])]
    <3> DEFINE e(n) == IF n = 0 THEN s0 ELSE step(n, h[n - 1])
    <3>1. h = [n \in 0 .. M + 1 |-> h[n]]
      OBVIOUS
    <3>2. \A n \in 0 .. M + 1 : h[n] = e(n)
      BY <2>3
    <3> HIDE DEF h
    <3> QED
      BY <3>1, <3>2
  <2> HIDE DEF h
  <2>5. VisitsUpTo(q, st, b, pos, kn, M + 1, h)
    BY <2>4 DEF VisitsUpTo, step, s0
  <2> QED
    BY <2>5
<1>3. P = Nat
  <2> HIDE DEF P
  <2>1. P \subseteq Nat
    BY DEF P
  <2> QED
    BY <1>1, <1>2, <2>1, InductionOnNat
<1> QED
  BY <1>3

\* The bar that no node refuses leaves every node where its inputs say, whatever the order of
\* evaluation.
LEMMA StepOutcome ==
  ASSUME NEW q, WellBuilt(q), NEW st, DOMAIN st = Keeping, NEW b, NEW pos, NEW kn
  PROVE  \/ Step(q, st, b, pos, kn).raised
         \/ /\ VisitedAll(Step(q, st, b, pos, kn), st, To(q, st, b, pos),
                          Out(q, st, b, pos, kn), Nodes(q))
            /\ \A n \in Nodes(q) : ~Complains(n, st, b)
<1> DEFINE N == Len(q.order)
           f == CHOOSE h : VisitsUpTo(q, st, b, pos, kn, N, h)
           to == To(q, st, b, pos)
           out == Out(q, st, b, pos, kn)
           done(k) == {q.order[j] : j \in 1 .. k}
           fine(k) == /\ VisitedAll(f[k], st, to, out, done(k))
                      /\ ~f[k].raised
                      /\ \A n \in done(k) : ~Complains(n, st, b)
           P == {k \in Nat : k <= N => f[k].raised \/ fine(k)}
<1>1. /\ q.order \in Seq(Nodes(q)) /\ N \in Nat /\ DOMAIN q.order = 1 .. N
      /\ \A i, j \in 1 .. N : q.order[i] = q.order[j] => i = j
      /\ \A i \in 1 .. N : \A p \in Parents(q, q.order[i]) : \E j \in 1 .. i - 1 : q.order[j] = p
      /\ ToSet(q.order) = Nodes(q)
      /\ q.wiring \in {"plain", "edge", "cross"}
  BY DEF WellBuilt, Sorted
<1>2. VisitsUpTo(q, st, b, pos, kn, N, f)
  BY <1>1, VisitsExist
<1>3. Step(q, st, b, pos, kn) = f[N]
  BY DEF Step, VisitsUpTo
<1> HIDE DEF f, N
<1>4. /\ f[0] = [g |-> st, out |-> NoOutput, raised |-> FALSE]
      /\ \A k \in Nat : k + 1 <= N =>
           f[k + 1] = Visited(q, q.order[k + 1], f[k], b, pos, kn)
  <2> DEFINE s0 == [g |-> st, out |-> NoOutput, raised |-> FALSE]
  <2>1. \A k \in 0 .. N : f[k] = IF k = 0 THEN s0 ELSE Visited(q, q.order[k], f[k - 1], b, pos, kn)
    BY <1>2 DEF VisitsUpTo
  <2> HIDE DEF s0
  <2>2. \A k \in Nat : k + 1 <= N => k + 1 \in 0 .. N /\ k + 1 # 0 /\ (k + 1) - 1 = k
    BY <1>1
  <2>3. 0 \in 0 .. N
    BY <1>1
  <2>4. f[0] = s0
    BY <2>1, <2>3
  <2> QED
    BY <2>1, <2>2, <2>4 DEF s0
<1>5. 0 \in P
  <2>1. done(0) = {}
    OBVIOUS
  <2>2. DOMAIN NoOutput = Speaking
    BY DEF NoOutput, Speaking
  <2>3. f[0].g = st /\ f[0].out = NoOutput /\ ~f[0].raised
    BY <1>4
  <2>4. f[0] = Evaluation(f[0].g, f[0].out, f[0].raised)
    BY <1>4 DEF Evaluation
  <2> HIDE DEF done
  <2>5. VisitedAll(f[0], st, to, out, done(0))
    BY <2>1, <2>2, <2>3, <2>4 DEF VisitedAll
  <2> QED
    BY <2>1, <2>3, <2>5
<1>6. ASSUME NEW k \in P PROVE k + 1 \in P
  <2> SUFFICES ASSUME k + 1 <= N PROVE f[k + 1].raised \/ fine(k + 1)
    OBVIOUS
  <2>1. k \in Nat /\ k <= N /\ k + 1 \in 1 .. N
    BY <1>1
  <2> DEFINE n == q.order[k + 1]
             s == f[k]
  <2>2. f[k + 1] = Visited(q, n, s, b, pos, kn)
    BY <1>4, <2>1
  <2>3. done(k + 1) = done(k) \cup {n}
    <3>1. \A j : j \in 1 .. k + 1 <=> j \in 1 .. k \/ j = k + 1
      BY <2>1
    <3>2. \A m : m \in done(k + 1) <=> m \in done(k) \/ m = n
      BY <3>1
    <3> QED
      BY <3>2
  <2>4. n \in Nodes(q) \ done(k) /\ Parents(q, n) \subseteq done(k)
    <3>1. n \in Nodes(q)
      BY <1>1, <2>1
    <3>2. \A j \in 1 .. k : j \in 1 .. N /\ j # k + 1
      BY <1>1, <2>1
    <3>3. (k + 1) - 1 = k
      BY <2>1
    <3> DEFINE i == k + 1
    <3>5. \A p \in Parents(q, q.order[i]) : \E j \in 1 .. i - 1 : q.order[j] = p
      <4>1. i \in 1 .. N
        BY <2>1
      <4> HIDE DEF i
      <4> QED
        BY <1>1, <4>1
    <3>4. \A p \in Parents(q, n) : \E j \in 1 .. k : q.order[j] = p
      BY <3>3, <3>5
    <3> QED
      BY <1>1, <2>1, <3>1, <3>2, <3>4
  <2> HIDE DEF n, s, to, out, done
  <2>5. CASE s.raised
    <3>1. f[k + 1] = s
      BY <2>2, <2>5 DEF Visited
    <3> QED
      BY <2>5, <3>1
  <2>6. CASE ~s.raised
    <3>1. VisitedAll(s, st, to, out, done(k)) /\ \A m \in done(k) : ~Complains(m, st, b)
      BY <2>1, <2>6 DEF s
    <3>2. n \in Keeping => s.g[n] = st[n]
      BY <2>4, <3>1 DEF VisitedAll
    <3>3. Raises(n, s, b) <=> Complains(n, st, b)
      BY <3>2 DEF Raises, Complains, Keeping
    <3>4. CASE Raises(n, s, b)
      <4>1. f[k + 1] = [s EXCEPT !.raised = TRUE]
        BY <2>2, <2>6, <3>4 DEF Visited
      <4>2. s = [g |-> s.g, out |-> s.out, raised |-> s.raised]
        BY <3>1 DEF VisitedAll, Evaluation
      <4>3. f[k + 1].raised
        BY <4>1, <4>2
      <4> QED
        BY <4>3
    <3>5. CASE ~Raises(n, s, b)
      <4>1. f[k + 1] = Evaluated(q, n, s, b, pos, kn)
        BY <2>2, <2>6, <3>5 DEF Visited
      <4>2. /\ VisitedAll(f[k + 1], st, to, out, done(k) \cup {n})
            /\ f[k + 1].raised = s.raised
        <5> DEFINE d == done(k)
        <5>1. /\ VisitedAll(s, st, To(q, st, b, pos), Out(q, st, b, pos, kn), d)
              /\ n \in Nodes(q) /\ n \notin d /\ Parents(q, n) \subseteq d
          BY <2>4, <3>1 DEF to, out
        <5>3. q.wiring \in {"plain", "edge", "cross"}
          BY <1>1
        <5> HIDE DEF d, P, fine
        <5>2. /\ VisitedAll(Evaluated(q, n, s, b, pos, kn), st, To(q, st, b, pos),
                            Out(q, st, b, pos, kn), d \cup {n})
              /\ Evaluated(q, n, s, b, pos, kn).raised = s.raised
          BY <5>1, <5>3, NodeEvaluates
        <5> QED
          BY <4>1, <5>2 DEF to, out, d
      <4> QED
        BY <2>3, <2>6, <3>1, <3>3, <3>5, <4>2
    <3> QED
      BY <3>4, <3>5
  <2> QED
    BY <2>5, <2>6
<1>7. N \in P
  <2> HIDE DEF P
  <2>1. P \subseteq Nat
    BY DEF P
  <2>2. P = Nat
    BY <1>5, <1>6, <2>1, InductionOnNat
  <2> QED
    BY <1>1, <2>2
<1>8. done(N) = Nodes(q)
  BY <1>1 DEF ToSet
<1> HIDE DEF to, out, done
<1>9. f[N].raised \/ fine(N)
  BY <1>1, <1>7
<1> QED
  BY <1>3, <1>8, <1>9 DEF to, out

\* What a decided bar reports and leaves behind, wiring by wiring.
Outcome(q, s, st, b, pos, kn) ==
  /\ DOMAIN s.g = Keeping
  /\ IF q.wiring = "cross"
     THEN /\ s.g.hold = st.hold /\ s.g.edge = st.edge /\ s.g.cross = CrossTo(st, b)
          /\ s.out.hold = "unready" /\ Trigger(q, s.out) = CrossOut(st, b)
          /\ st.cross # None => ~(b.t < st.cross.t)
     ELSE /\ s.g.hold = HoldTo(q, st, b) /\ s.g.edge = EdgeTo(q, st, b) /\ s.g.cross = st.cross
          /\ s.out.hold = HoldTo(q, st, b).out /\ Trigger(q, s.out) = EdgeOut(q, st, b)
          /\ ~CursorRaises(st.hold, b) /\ ~CursorRaises(st.edge, b)
  /\ IF HasLevel(q)
     THEN /\ s.g.level = LevelTo(q, st, b) /\ s.out.level = LevelOut(q, st, b)
          /\ s.out.exit = 0 /\ ~LevelRaises(st.level, b)
     ELSE /\ s.g.level = st.level /\ s.out.level = FALSE
          /\ s.out.exit = ExitOut(b, pos, kn)
  /\ s.g.cool = CoolAfter(st.cool, pos)
  /\ s.out.gate = (SignalOut(q, st, b) /\ CoolOut(st, pos))

\* A step that does not raise gives the states and outputs of Outcome, whatever the order.
LEMMA Decision ==
  ASSUME NEW q, WellBuilt(q), NEW st, DOMAIN st = Keeping, NEW b, NEW pos, NEW kn,
         NEW s, s = Step(q, st, b, pos, kn), ~s.raised
  PROVE  Outcome(q, s, st, b, pos, kn)
<1> DEFINE to == To(q, st, b, pos)
           out == Out(q, st, b, pos, kn)
<1>1. q.wiring \in {"plain", "edge", "cross"}
  BY DEF WellBuilt
<1>2. VisitedAll(s, st, to, out, Nodes(q)) /\ \A n \in Nodes(q) : ~Complains(n, st, b)
  BY StepOutcome
<1> HIDE DEF to, out
<1>3. DOMAIN s.g = Keeping
  BY <1>2 DEF VisitedAll
<1>4. \A n \in Keeping : s.g[n] = IF n \in Nodes(q) THEN to[n] ELSE st[n]
  BY <1>2 DEF VisitedAll
<1>5. \A n \in Speaking : s.out[n] = IF n \in Nodes(q) THEN out[n] ELSE NoOutput[n]
  BY <1>2 DEF VisitedAll
<1>6. /\ to.hold = HoldTo(q, st, b) /\ to.edge = EdgeTo(q, st, b) /\ to.cross = CrossTo(st, b)
      /\ to.level = LevelTo(q, st, b) /\ to.cool = CoolAfter(st.cool, pos)
  BY DEF to, To
<1>7. /\ out.hold = HoldTo(q, st, b).out /\ out.edge = EdgeOut(q, st, b)
      /\ out.cross = CrossOut(st, b) /\ out.level = LevelOut(q, st, b)
      /\ out.exit = ExitOut(b, pos, kn) /\ out.gate = GateOut(q, st, b, pos)
  BY DEF out, Out
<1>8. NoOutput.hold = "unready" /\ NoOutput.exit = 0 /\ NoOutput.level = FALSE
  BY DEF NoOutput
<1>9. /\ {"hold", "edge", "cross", "level", "cool"} \subseteq Keeping
      /\ {"hold", "edge", "cross", "level", "exit", "gate"} \subseteq Speaking
  BY DEF Keeping, Speaking
<1>10. /\ q.wiring = "plain" => Nodes(q) = PlainNodes
       /\ q.wiring = "edge" => Nodes(q) = EdgeNodes
       /\ q.wiring = "cross" => Nodes(q) = CrossNodes
  BY <1>1, Wirings
<1>11. IF q.wiring = "cross"
       THEN /\ s.g.hold = st.hold /\ s.g.edge = st.edge /\ s.g.cross = CrossTo(st, b)
            /\ s.out.hold = "unready" /\ Trigger(q, s.out) = CrossOut(st, b)
            /\ ~Complains("cross", st, b)
       ELSE /\ s.g.hold = HoldTo(q, st, b) /\ s.g.edge = EdgeTo(q, st, b) /\ s.g.cross = st.cross
            /\ s.out.hold = HoldTo(q, st, b).out /\ Trigger(q, s.out) = EdgeOut(q, st, b)
            /\ ~Complains("hold", st, b) /\ ~Complains("edge", st, b)
  BY <1>1, <1>2, <1>4, <1>5, <1>6, <1>7, <1>8, <1>9, <1>10
     DEF Trigger, PlainNodes, EdgeNodes, CrossNodes
<1>12. IF HasLevel(q)
       THEN /\ s.g.level = LevelTo(q, st, b) /\ s.out.level = LevelOut(q, st, b)
            /\ s.out.exit = 0 /\ ~Complains("level", st, b)
       ELSE /\ s.g.level = st.level /\ s.out.level = FALSE
            /\ s.out.exit = ExitOut(b, pos, kn)
  BY <1>1, <1>2, <1>4, <1>5, <1>6, <1>7, <1>8, <1>9, <1>10
     DEF HasLevel, PlainNodes, EdgeNodes, CrossNodes
<1>13. s.g.cool = CoolAfter(st.cool, pos) /\ s.out.gate = GateOut(q, st, b, pos)
  BY <1>1, <1>4, <1>5, <1>6, <1>7, <1>9, <1>10 DEF PlainNodes, EdgeNodes, CrossNodes
<1>14. /\ ~Complains("cross", st, b) => (st.cross # None => ~(b.t < st.cross.t))
       /\ ~Complains("hold", st, b) => ~CursorRaises(st.hold, b)
       /\ ~Complains("edge", st, b) => ~CursorRaises(st.edge, b)
       /\ ~Complains("level", st, b) => ~LevelRaises(st.level, b)
  BY DEF Complains
<1> QED
  BY <1>3, <1>11, <1>12, <1>13, <1>14 DEF Outcome, GateOut, DirectionGate

-----------------------------------------------------------------------------
(***************************************************************************)
(* The inductive invariant: the checkpoint is what the decided bars make   *)
(* of the nodes, and a running process holds the checkpoint's states.      *)
(***************************************************************************)
Bars == [i : Int, t : Int, d : Int, cond : Values, px : Prices, lower : Nat]
Entries ==
  [bar : Bars, position : Nat, hold : Values, trigger : BOOLEAN, event : BOOLEAN,
   level : LevelState \cup {None}, order : BOOLEAN]

\* A condition needs its history.
Warm(b) == b.cond # "unready" => b.i >= gr.history

Types ==
  /\ name \in DOMAIN Graphs
  /\ feed \in Bars /\ Warm(feed)
  /\ log \in Seq(Entries)
  /\ position \in Nat /\ opened \in Nat /\ known \in Nat

\* The decided bars move forward on both clocks; without a level there are no opportunities.
Growing ==
  \A n \in 1 .. Len(log) :
    /\ log[n].bar.i >= 1 /\ Warm(log[n].bar)
    /\ ~HasLevel(gr) => ~log[n].event
    /\ n > 1 => log[n - 1].bar.t < log[n].bar.t /\ log[n - 1].bar.i < log[n].bar.i

Running ==
  up => /\ g = saved.g /\ stepped = saved.stepped
        /\ log = <<>> => feed.i = 0

\* The condition was true, and decided on time, on the last c bars up to n.
OnTrue(n) == log[n].bar.cond = "true" /\ OnTime(log[n].bar)
Run(n, c) ==
  /\ n >= c
  /\ \A k \in n - c + 1 .. n : OnTrue(k)
  /\ \A k \in n - c + 2 .. n : Follows(k)

HoldKept(st, n) ==
  /\ st \in HoldState /\ st.t = log[n].bar.t /\ st.i = log[n].bar.i /\ st.count <= gr.bars
  /\ \A c \in 1 .. gr.bars : st.count >= c <=> Run(n, c)
  /\ st.out = "unready" <=> ~Ready(n)
  /\ st.out = "true" <=> Held(n)
  /\ st.out = "unready" => st.count = 0

EdgeKept(st, n) ==
  /\ st \in EdgeState /\ st.t = log[n].bar.t /\ st.i = log[n].bar.i
  /\ st.previous = "false" <=> Ready(n) /\ ~Held(n)

CrossKept(st, n) ==
  /\ st \in EdgeState /\ st.t = log[n].bar.t /\ st.i = log[n].bar.i
  /\ st.previous = Compare(log[n].bar)

PendingBefore(n) == {a \in 1 .. n - 1 : ArmedAt(a) /\ Pending(a, n)}

LevelKept(st, n) ==
  /\ st \in LevelState /\ st.t = log[n].bar.t /\ st.i = log[n].bar.i /\ st.d = log[n].bar.d
  /\ st.px = IF PrimaryReady(log[n].bar) THEN log[n].bar.px ELSE Void
  /\ log[n].level = st
  /\ ValidLevelState(gr, st)
  /\ IF st.level.status = "armed"
     THEN \E a \in 1 .. n : /\ PendingBefore(n + 1) = {a}
                            /\ st.level.lower = log[a].bar.lower
                            /\ st.level.armed = log[a].bar.i
     ELSE PendingBefore(n + 1) = {}

\* flat bars have been decided since the last one with a position, -1 if there was none.
CoolKept(flat, n) ==
  IF flat = -1 THEN \A k \in 1 .. n : log[k].position = 0
  ELSE /\ flat \in Nat /\ flat < n
       /\ log[n - flat].position # 0
       /\ \A k \in n - flat + 1 .. n : log[k].position = 0

NodesKept(st, n) ==
  /\ DOMAIN st = Keeping
  /\ IF gr.wiring = "cross"
     THEN st.hold = None /\ st.edge = None /\ CrossKept(st.cross, n)
     ELSE HoldKept(st.hold, n) /\ EdgeKept(st.edge, n) /\ st.cross = None
  /\ IF HasLevel(gr) THEN LevelKept(st.level, n) ELSE st.level = None
  /\ CoolKept(st.cool, n)

Kept ==
  IF log = <<>> THEN saved.g = NoNodes /\ saved.stepped = -1
  ELSE NodesKept(saved.g, Len(log)) /\ saved.stepped = log[Len(log)].bar.i

\* The strategy knows the open long or none; what it asks to close was open when it asked.
LongKnown ==
  /\ known \in {0, position}
  /\ result = None \/ (result.exit # 0 => log # <<>> /\ result.exit = log[Len(log)].position)
  /\ answer.exit # 0 =>
       log # <<>> /\ answer.exit = position /\ log[Len(log)].position = position

GraphInv ==
  /\ Types /\ Growing /\ Running /\ Kept /\ LongKnown
  /\ ReducersFollowHistory /\ OpportunityExplained /\ CooldownExact

-----------------------------------------------------------------------------
(***************************************************************************)
(* A longer log: what was said of the earlier bars still holds.            *)
(***************************************************************************)
LEMMA GraphHere ==
  ASSUME name \in DOMAIN Graphs
  PROVE  gr = Built(Graphs[name]) /\ WellBuilt(gr)
<1>1. gr = Built(Graphs[name])
  BY DEF gr, Strategies
<1>2. IsGraph(Graphs[name])
  BY GraphsAssumption
<1> QED
  BY <1>1, <1>2, GraphBuilt

\* A strategy keeps its graph.
LEMMA GraphStays ==
  ASSUME name' = name
  PROVE  gr' = gr
BY DEF gr, Strategies

Extends(e) == name' = name /\ log \in Seq(Entries) /\ e \in Entries /\ log' = Append(log, e)

\* A decided bar is added at the end of the log.
LEMMA LogGrows ==
  ASSUME NEW e, Extends(e)
  PROVE  /\ Len(log) \in Nat /\ Len(log') = Len(log) + 1 /\ log' \in Seq(Entries)
         /\ log'[Len(log) + 1] = e
         /\ \A k \in 1 .. Len(log) : log'[k] = log[k] /\ log[k] \in Entries
         /\ gr' = gr
<1>1. gr' = gr
  BY GraphStays DEF Extends
<1>2. log \in Seq(Entries) /\ e \in Entries /\ log' = Append(log, e)
  BY DEF Extends
<1> QED
  BY <1>1, <1>2

\* What was said of one earlier bar, or of two neighbours, still holds.
LEMMA EarlierBars ==
  ASSUME NEW e, Extends(e)
  PROVE  /\ \A k \in 1 .. Len(log) :
              /\ Follows(k)' <=> Follows(k)
              /\ OnTrue(k)' <=> OnTrue(k)
              /\ Ready(k)' <=> Ready(k)
              /\ ArmedAt(k)' <=> ArmedAt(k)
              /\ Crosses(k)' <=> Crosses(k)
<1> DEFINE L == Len(log)
<1>1. L \in Nat /\ \A k \in 1 .. L : log'[k] = log[k]
  BY LogGrows
<1> HIDE DEF L
<1> SUFFICES ASSUME NEW k \in 1 .. L
             PROVE  /\ Follows(k)' <=> Follows(k)
                    /\ OnTrue(k)' <=> OnTrue(k)
                    /\ Ready(k)' <=> Ready(k)
                    /\ ArmedAt(k)' <=> ArmedAt(k)
                    /\ Crosses(k)' <=> Crosses(k)
  BY DEF L
<1>2. log'[k] = log[k] /\ (k > 1 => log'[k - 1] = log[k - 1])
  <2>1. k > 1 => k - 1 \in 1 .. L
    BY <1>1
  <2> QED
    BY <1>1, <2>1
<1> QED
  BY <1>2 DEF Follows, OnTrue, Ready, ArmedAt, Crosses, OnTime, Compare, ScalarReady

\* So does what was said of the bars a condition held on.
LEMMA EarlierRuns ==
  ASSUME NEW e, Extends(e), WellBuilt(gr)
  PROVE  \A k \in 1 .. Len(log) :
           /\ \A c \in Nat : c >= 1 => (Run(k, c)' <=> Run(k, c))
           /\ Held(k)' <=> Held(k)
           /\ Rises(k)' <=> Rises(k)
<1> DEFINE L == Len(log)
<1>1. L \in Nat /\ gr' = gr /\ gr.bars \in Nat /\ gr.bars >= 1
  BY LogGrows DEF WellBuilt
<1>2. \A k \in 1 .. L : /\ Follows(k)' <=> Follows(k)
                        /\ OnTrue(k)' <=> OnTrue(k)
                        /\ Ready(k)' <=> Ready(k)
  BY EarlierBars
<1> HIDE DEF L
<1>3. ASSUME NEW k \in 1 .. L, NEW c \in Nat, c >= 1 PROVE Run(k, c)' <=> Run(k, c)
  <2>1. k >= c => /\ \A j \in k - c + 1 .. k : j \in 1 .. L
                  /\ \A j \in k - c + 2 .. k : j \in 1 .. L
    BY <1>1, <1>3
  <2>2. k >= c => ((\A j \in k - c + 1 .. k : OnTrue(j)') <=> \A j \in k - c + 1 .. k : OnTrue(j))
    BY <1>2, <2>1
  <2>3. k >= c => ((\A j \in k - c + 2 .. k : Follows(j)') <=> \A j \in k - c + 2 .. k : Follows(j))
    BY <1>2, <2>1
  <2> QED
    BY <2>2, <2>3 DEF Run
<1>4. \A k : Held(k) <=> Run(k, gr.bars)
  BY DEF Held, Run, OnTrue
<1>5. \A k : Held(k)' <=> Run(k, gr.bars)'
  BY DEF Held, Run, OnTrue
<1>6. ASSUME NEW k \in 1 .. L PROVE Held(k)' <=> Held(k)
  <2> DEFINE B == gr.bars
  <2>1. Run(k, B)' <=> Run(k, B)
    <3>1. \A c \in Nat : c >= 1 => (Run(k, c)' <=> Run(k, c))
      BY <1>3
    <3> QED
      BY <1>1, <3>1 DEF Run
  <2> QED
    BY <1>4, <1>5, <2>1
<1>7. ASSUME NEW k \in 1 .. L PROVE Rises(k)' <=> Rises(k)
  <2>1. k > 1 => k - 1 \in 1 .. L
    BY <1>1
  <2>2. Follows(k) => k > 1
    BY DEF Follows
  <2> QED
    BY <1>2, <1>6, <2>1, <2>2 DEF Rises
<1> QED
  BY <1>3, <1>6, <1>7 DEF L

\* So does what was said of the levels armed before.
LEMMA EarlierLevels ==
  ASSUME NEW e, Extends(e)
  PROVE  /\ \A a, n \in 1 .. Len(log) :
              (Survives(a, n)' <=> Survives(a, n)) /\ (Hits(a, n)' <=> Hits(a, n))
         /\ \A a \in 1 .. Len(log), n \in 1 .. Len(log) + 1 : Pending(a, n)' <=> Pending(a, n)
         /\ \A n \in 1 .. Len(log) + 1 : PendingBefore(n)' = PendingBefore(n)
<1> DEFINE L == Len(log)
<1>1. L \in Nat /\ gr' = gr /\ \A k \in 1 .. L : log'[k] = log[k]
  BY LogGrows
<1>2. \A k \in 1 .. L : (Follows(k)' <=> Follows(k)) /\ (ArmedAt(k)' <=> ArmedAt(k))
  BY EarlierBars
<1> HIDE DEF L
<1>3. ASSUME NEW a \in 1 .. L, NEW n \in 1 .. L
      PROVE  (Survives(a, n)' <=> Survives(a, n)) /\ (Hits(a, n)' <=> Hits(a, n))
  <2>1. log'[a] = log[a] /\ log'[n] = log[n] /\ (Follows(n)' <=> Follows(n))
    BY <1>1, <1>2
  <2>2. Survives(a, n)' <=> Survives(a, n)
    BY <1>1, <2>1 DEF Survives, PrimaryReady, OnTime, Invalidates, Open, Close
  <2>3. n > 1 => log'[n - 1] = log[n - 1]
    <3>1. n > 1 => n - 1 \in 1 .. L
      BY <1>1
    <3> QED
      BY <1>1, <3>1
  <2>4. Survives(a, n) => n > 1
    BY DEF Survives, Follows
  <2>5. Hits(a, n)' <=> Hits(a, n)
    BY <1>1, <2>1, <2>2, <2>3, <2>4 DEF Hits
  <2> QED
    BY <2>2, <2>5
<1>4. ASSUME NEW a \in 1 .. L, NEW n \in 1 .. L + 1
      PROVE  Pending(a, n)' <=> Pending(a, n)
  <2>1. \A k \in a + 1 .. n - 1 : k \in 1 .. L
    BY <1>1
  <2> QED
    BY <1>3, <2>1 DEF Pending
<1>5. ASSUME NEW n \in 1 .. L + 1
      PROVE  PendingBefore(n)' = PendingBefore(n)
  <2>1. \A a \in 1 .. n - 1 : a \in 1 .. L
    BY <1>1
  <2>2. \A a : a \in PendingBefore(n)' <=> a \in 1 .. n - 1 /\ ArmedAt(a)' /\ Pending(a, n)'
    BY DEF PendingBefore
  <2>3. \A a : a \in PendingBefore(n) <=> a \in 1 .. n - 1 /\ ArmedAt(a) /\ Pending(a, n)
    BY DEF PendingBefore
  <2>4. \A a : a \in PendingBefore(n)' <=> a \in PendingBefore(n)
    BY <1>2, <1>4, <2>1, <2>2, <2>3
  <2> QED
    BY <2>4
<1> QED
  BY <1>3, <1>4, <1>5 DEF L

\* One more bar lengthens or ends a run, and a level that was pending stays so or not.
LEMMA RunGrows ==
  ASSUME NEW n \in Nat, NEW c \in Nat, c >= 1
  PROVE  Run(n + 1, c) <=> OnTrue(n + 1) /\ (c = 1 \/ (Follows(n + 1) /\ Run(n, c - 1)))
<1>1. CASE c = 1
  <2>1. (n + 1) - c + 1 .. n + 1 = {n + 1} /\ (n + 1) - c + 2 .. n + 1 = {} /\ n + 1 >= c
    BY <1>1
  <2> QED
    BY <1>1, <2>1 DEF Run
<1>2. CASE c # 1
  <2> DEFINE lo == n - c
  <2>1. lo \in Int /\ c - 1 \in Nat /\ (n + 1) - c + 1 = lo + 2 /\ (n + 1) - c + 2 = lo + 3
        /\ n - (c - 1) + 1 = lo + 2 /\ n - (c - 1) + 2 = lo + 3
        /\ (n + 1 >= c <=> n >= c - 1) /\ lo + 3 <= n + 1
    BY <1>2
  <2> HIDE DEF lo
  <2>2. /\ \A k : k \in lo + 2 .. n + 1 <=> k \in lo + 2 .. n \/ k = n + 1
        /\ \A k : k \in lo + 3 .. n + 1 <=> k \in lo + 3 .. n \/ k = n + 1
    BY <2>1
  <2>3. Run(n + 1, c) <=> /\ n + 1 >= c
                          /\ \A k \in lo + 2 .. n + 1 : OnTrue(k)
                          /\ \A k \in lo + 3 .. n + 1 : Follows(k)
    BY <2>1 DEF Run
  <2>4. Run(n, c - 1) <=> /\ n >= c - 1
                          /\ \A k \in lo + 2 .. n : OnTrue(k)
                          /\ \A k \in lo + 3 .. n : Follows(k)
    BY <2>1 DEF Run
  <2> QED
    BY <1>2, <2>1, <2>2, <2>3, <2>4
<1> QED
  BY <1>1, <1>2

\* The levels pending after a bar: those that survive it unserved, and the one armed at it.
LEMMA PendingGrows ==
  ASSUME NEW n \in Nat, n >= 1
  PROVE  PendingBefore(n + 1)
           = {a \in PendingBefore(n) : Survives(a, n) /\ ~Hits(a, n)}
               \cup {a \in {n} : ArmedAt(a)}
<1>1. ASSUME NEW a \in 1 .. n - 1
      PROVE  Pending(a, n + 1) <=> Pending(a, n) /\ Survives(a, n) /\ ~Hits(a, n)
  <2>1. a < n /\ a < n + 1 /\ (n + 1) - 1 = n
    OBVIOUS
  <2>2. \A k : k \in a + 1 .. n <=> k \in a + 1 .. n - 1 \/ k = n
    OBVIOUS
  <2> QED
    BY <2>1, <2>2 DEF Pending
<1>2. Pending(n, n + 1)
  <2>1. n + 1 .. (n + 1) - 1 = {} /\ n < n + 1
    OBVIOUS
  <2> QED
    BY <2>1 DEF Pending
<1>3. \A a : a \in 1 .. (n + 1) - 1 <=> a \in 1 .. n - 1 \/ a = n
  OBVIOUS
<1>4. \A a : a \in PendingBefore(n + 1) <=>
               a \in 1 .. (n + 1) - 1 /\ ArmedAt(a) /\ Pending(a, n + 1)
  BY DEF PendingBefore
<1>5. \A a : a \in PendingBefore(n) <=> a \in 1 .. n - 1 /\ ArmedAt(a) /\ Pending(a, n)
  BY DEF PendingBefore
<1>6. n \notin 1 .. n - 1
  OBVIOUS
<1> QED
  BY <1>1, <1>2, <1>3, <1>4, <1>5, <1>6

RunLaw ==
  \A n \in Nat, c \in Nat : c >= 1 =>
    (Run(n + 1, c) <=> OnTrue(n + 1) /\ (c = 1 \/ (Follows(n + 1) /\ Run(n, c - 1))))

\* The same law of the log after a step.
LEMMA RunGrowsToo == RunLaw'
<1>1. RunLaw
  BY RunGrows DEF RunLaw
<1> QED
  BY <1>1, PTL

\* The least of two numbers.
LEMMA SmallerOfTwo ==
  ASSUME NEW a \in Int, NEW c \in Int
  PROVE  Min({a, c}) = IF a <= c THEN a ELSE c
<1> DEFINE m == IF a <= c THEN a ELSE c
<1>1. m \in {a, c} /\ \A y \in {a, c} : m <= y
  OBVIOUS
<1>2. \A x \in {a, c} : (\A y \in {a, c} : x <= y) => x = m
  OBVIOUS
<1> QED
  BY <1>1, <1>2 DEF Min

\* A bar later than the last one decided.
Later(n, b) ==
  /\ b \in Bars /\ Warm(b)
  /\ n = Len(log)
  /\ b.i >= 1
  /\ n # 0 => b.t > log[n].bar.t /\ b.i > log[n].bar.i

\* One more bar keeps what the holding condition remembers of the log.
LEMMA HoldNext ==
  ASSUME NEW e, Extends(e), WellBuilt(gr), NEW n, Later(n, e.bar), NEW st, NEW h,
         IF n = 0 THEN st = None ELSE HoldKept(st, n),
         h = HoldAfter(gr.bars, st, e.bar, Compare(e.bar))
  PROVE  HoldKept(h, n + 1)' /\ ~Duplicate(st, e.bar) /\ h.out \in Values
<1> PICK B : B = gr.bars
  OBVIOUS
<1> DEFINE b == e.bar
           value == Compare(b)
           ready == value # "unready" /\ OnTime(b)
           before == IF Consecutive(st, b) THEN st.count ELSE 0
           count == IF ready /\ value = "true" THEN Min({B, before + 1}) ELSE 0
           out == IF ~ready THEN "unready" ELSE IF count = B THEN "true" ELSE "false"
<1>1. /\ n \in Nat /\ log'[n + 1] = e /\ gr' = gr /\ B \in Nat /\ B >= 1
      /\ n >= 1 => log'[n] = log[n] /\ log[n] \in Entries
  BY LogGrows DEF Later, WellBuilt
<1>2. /\ b \in Bars /\ b.t \in Int /\ b.i \in Int /\ b.d \in Int /\ b.cond \in Values
      /\ n >= 1 => log[n].bar.t \in Int /\ log[n].bar.i \in Int
                   /\ b.t > log[n].bar.t /\ b.i > log[n].bar.i
  BY <1>1 DEF Later, Bars, Entries
<1>3. /\ n = 0 => st = None
      /\ n >= 1 => st # None /\ st.t = log[n].bar.t /\ st.i = log[n].bar.i /\ st.count \in Nat
                   /\ st.count <= B
  BY <1>1, NoneAssumption DEF HoldKept, HoldState
<1>4. h = [t |-> b.t, i |-> b.i, count |-> count, out |-> out]
  BY DEF HoldAfter
<1>5. ~Duplicate(st, b)
  BY <1>1, <1>2, <1>3 DEF Duplicate
<1>6. Consecutive(st, b) <=> Follows(n + 1)'
  <2>1. (n + 1) - 1 = n /\ (n + 1 > 1 <=> n >= 1)
    BY <1>1
  <2>2. Follows(n + 1)' <=> n >= 1 /\ b.t = log[n].bar.t + 1 /\ b.i = log[n].bar.i + 1
    BY <1>1, <2>1 DEF Follows
  <2> QED
    BY <1>1, <1>3, <2>2 DEF Consecutive
<1>7. ready <=> Ready(n + 1)'
  BY <1>1, <1>2 DEF Ready, Compare, ScalarReady, OnTime
<1>8. ready /\ value = "true" <=> OnTrue(n + 1)'
  BY <1>1, <1>2 DEF OnTrue, Compare, ScalarReady, OnTime
<1>9. before \in Nat /\ before <= B
  BY <1>1, <1>3 DEF Consecutive
<1>10. Min({B, before + 1}) = IF B <= before + 1 THEN B ELSE before + 1
  BY <1>1, <1>9, SmallerOfTwo
<1> DEFINE seen == ready /\ value = "true"
<1>11. count = IF seen THEN IF B <= before + 1 THEN B ELSE before + 1 ELSE 0
  BY <1>10
<1>12. \A c \in 1 .. B : c >= 2 => (before >= c - 1 <=> Follows(n + 1)' /\ Run(n, c - 1)')
  <2> SUFFICES ASSUME NEW c \in 1 .. B, c >= 2
               PROVE  before >= c - 1 <=> Follows(n + 1)' /\ Run(n, c - 1)'
    OBVIOUS
  <2>1. c - 1 \in 1 .. B /\ c - 1 \in Nat /\ c - 1 >= 1
    BY <1>1
  <2>2. CASE ~Consecutive(st, b)
    BY <1>6, <2>1, <2>2
  <2>3. CASE Consecutive(st, b)
    <3>1. n >= 1 /\ HoldKept(st, n)
      BY <1>1, <1>3, <2>3 DEF Consecutive
    <3>2. st.count >= c - 1 <=> Run(n, c - 1)
      BY <2>1, <3>1 DEF HoldKept
    <3>3. n \in 1 .. Len(log)
      BY <1>1, <3>1 DEF Later
    <3>4. Run(n, c - 1)' <=> Run(n, c - 1)
      BY <2>1, <3>3, EarlierRuns
    <3> QED
      BY <1>6, <2>3, <3>2, <3>4
  <2> QED
    BY <2>2, <2>3
<1>13. \A c \in 1 .. B : Run(n + 1, c)' <=>
         OnTrue(n + 1)' /\ (c = 1 \/ (Follows(n + 1)' /\ Run(n, c - 1)'))
  <2> HIDE DEF count, before, ready, value, seen, b
  <2>1. n \in Nat /\ \A c \in 1 .. B : c \in Nat /\ c >= 1
    BY <1>1
  <2> QED
    BY <2>1, RunGrowsToo DEF RunLaw
<1> HIDE DEF count, before, ready, value, seen, b
<1>14. \A c \in 1 .. B : count >= c <=> Run(n + 1, c)'
  <2> SUFFICES ASSUME NEW c \in 1 .. B PROVE count >= c <=> Run(n + 1, c)'
    OBVIOUS
  <2>1. seen <=> OnTrue(n + 1)'
    BY <1>8 DEF seen
  <2>2. c \in Nat /\ c >= 1 /\ c <= B /\ B \in Nat /\ before \in Nat
    BY <1>1, <1>9
  <2>3. Run(n + 1, c)' <=> seen /\ (c = 1 \/ before >= c - 1)
    BY <1>12, <1>13, <2>1, <2>2
  <2> QED
    BY <1>11, <2>2, <2>3
<1>15. count \in Nat /\ count <= B
  BY <1>1, <1>9, <1>11
<1>16. Held(n + 1)' <=> Run(n + 1, B)'
  BY <1>1 DEF Held, Run, OnTrue
<1>17. count = B <=> Run(n + 1, B)'
  <2>1. B \in 1 .. B /\ B \in Nat
    BY <1>1
  <2> QED
    BY <1>14, <1>15, <2>1
<1>18. ~ready => count = 0 /\ count # B
  BY <1>1, <1>11 DEF seen
<1>19. h.t = b.t /\ h.i = b.i /\ h.count = count /\ h.out = out
  BY <1>4
<1>20. h \in HoldState /\ h.out \in Values
  <2>1. out \in Values
    BY DEF Values
  <2>2. b.t \in Int /\ b.i \in Int /\ count \in Nat
    BY <1>2, <1>15 DEF b
  <2> QED
    BY <1>4, <2>1, <2>2 DEF HoldState
<1>21. /\ out = "unready" <=> ~Ready(n + 1)'
       /\ out = "true" <=> Held(n + 1)'
       /\ out = "unready" => count = 0
  BY <1>7, <1>16, <1>17, <1>18
<1> HIDE DEF out
<1>22. b = log'[n + 1].bar
  BY <1>1 DEF b
<1>23. HoldKept(h, n + 1)'
  BY <1>1, <1>14, <1>15, <1>19, <1>20, <1>21, <1>22 DEF HoldKept
<1> QED
  BY <1>5, <1>20, <1>23 DEF b

\* One more bar keeps what the edge remembers, and the edge fires on a rise.
LEMMA EdgeNext ==
  ASSUME NEW e, Extends(e), WellBuilt(gr), NEW n, Later(n, e.bar), NEW st, NEW h, NEW x,
         IF n = 0 THEN st = None ELSE EdgeKept(st, n),
         HoldKept(h, n + 1)', x = EdgeAfter(e.bar, h.out)
  PROVE  /\ EdgeKept(x, n + 1)' /\ ~Duplicate(st, e.bar)
         /\ EdgeFires(st, e.bar, h.out) <=> Rises(n + 1)'
<1> DEFINE b == e.bar
<1>1. /\ n \in Nat /\ log'[n + 1] = e /\ gr' = gr
      /\ n >= 1 => log'[n] = log[n] /\ log[n] \in Entries
  BY LogGrows DEF Later, WellBuilt
<1>2. /\ b \in Bars /\ b.t \in Int /\ b.i \in Int /\ b.d \in Int /\ b.cond \in Values
      /\ n >= 1 => log[n].bar.t \in Int /\ log[n].bar.i \in Int
                   /\ b.t > log[n].bar.t /\ b.i > log[n].bar.i
  BY <1>1 DEF Later, Bars, Entries
<1>3. /\ n = 0 => st = None
      /\ n >= 1 => st # None /\ st.t = log[n].bar.t /\ st.i = log[n].bar.i
                   /\ (st.previous = "false" <=> Ready(n) /\ ~Held(n))
  BY <1>1, NoneAssumption DEF EdgeKept
<1>4. ~Duplicate(st, b)
  BY <1>1, <1>2, <1>3 DEF Duplicate
<1>5. Follows(n + 1)' <=> Consecutive(st, b)
  <2>1. (n + 1) - 1 = n /\ (n + 1 > 1 <=> n >= 1)
    BY <1>1
  <2>2. Follows(n + 1)' <=> n >= 1 /\ b.t = log[n].bar.t + 1 /\ b.i = log[n].bar.i + 1
    BY <1>1, <2>1 DEF Follows
  <2> QED
    BY <1>1, <1>3, <2>2 DEF Consecutive
<1>6. /\ h.out \in Values
      /\ h.out = "unready" <=> ~Ready(n + 1)'
      /\ h.out = "true" <=> Held(n + 1)'
  BY DEF HoldKept, HoldState
<1>7. Ready(n + 1)' => OnTime(b)
  BY <1>1 DEF Ready, OnTime
<1>8. x = [t |-> b.t, i |-> b.i, previous |-> IF OnTime(b) THEN h.out ELSE "unready"]
  BY DEF EdgeAfter
<1> DEFINE p == IF OnTime(b) THEN h.out ELSE "unready"
<1>9. p \in Values /\ (p = "false" <=> Ready(n + 1)' /\ ~Held(n + 1)')
  BY <1>6, <1>7 DEF Values
<1>10. x.t = b.t /\ x.i = b.i /\ x.previous = p
  BY <1>8
<1>11. x \in EdgeState
  <2> HIDE DEF p, b
  <2> QED
    BY <1>2, <1>8, <1>9 DEF EdgeState, p
<1>12. EdgeKept(x, n + 1)'
  <2> HIDE DEF p
  <2> QED
    BY <1>1, <1>9, <1>10, <1>11 DEF EdgeKept
<1>13. EdgeFires(st, b, h.out) <=> Rises(n + 1)'
  <2>1. CASE n = 0
    BY <1>3, <1>5, <2>1 DEF EdgeFires, Rises, Consecutive
  <2>2. CASE n # 0
    <3>1. n >= 1 /\ n \in 1 .. Len(log) /\ (n + 1) - 1 = n
      BY <1>1, <2>2 DEF Later
    <3>2. (Ready(n)' <=> Ready(n)) /\ (Held(n)' <=> Held(n))
      BY <3>1, EarlierBars, EarlierRuns
    <3>3. Rises(n + 1)' <=> Follows(n + 1)' /\ Held(n + 1)' /\ Ready(n)' /\ ~Held(n)'
      BY <3>1 DEF Rises
    <3> QED
      BY <1>3, <1>5, <1>6, <1>7, <3>1, <3>2, <3>3 DEF EdgeFires
  <2> QED
    BY <2>1, <2>2
<1> QED
  BY <1>4, <1>12, <1>13

\* One more bar keeps what the crossing remembers, and it fires on a crossing.
LEMMA CrossNext ==
  ASSUME NEW e, Extends(e), WellBuilt(gr), NEW n, Later(n, e.bar), NEW st, NEW x,
         IF n = 0 THEN st = None ELSE CrossKept(st, n),
         x = CrossAfter(e.bar, Compare(e.bar))
  PROVE  /\ CrossKept(x, n + 1)' /\ ~Repeats(st, e.bar)
         /\ CrossFires(st, e.bar, Compare(e.bar)) <=> Crosses(n + 1)'
<1> DEFINE b == e.bar
<1>1. /\ n \in Nat /\ log'[n + 1] = e /\ gr' = gr
      /\ n >= 1 => log'[n] = log[n] /\ log[n] \in Entries
  BY LogGrows DEF Later, WellBuilt
<1>2. /\ b \in Bars /\ b.t \in Int /\ b.i \in Int /\ b.d \in Int /\ b.cond \in Values
      /\ n >= 1 => log[n].bar.t \in Int /\ b.t > log[n].bar.t
  BY <1>1 DEF Later, Bars, Entries
<1>3. /\ n = 0 => st = None
      /\ n >= 1 => st # None /\ st.t = log[n].bar.t /\ st.previous = Compare(log[n].bar)
  BY <1>1, NoneAssumption DEF CrossKept
<1>4. ~Repeats(st, b)
  BY <1>1, <1>2, <1>3 DEF Repeats
<1>5. Compare(b) \in Values
  BY <1>2 DEF Compare, Values
<1>6. x = [t |-> b.t, i |-> b.i, previous |-> Compare(b)]
  BY DEF CrossAfter
<1>7. x \in EdgeState /\ x.t = b.t /\ x.i = b.i /\ x.previous = Compare(b)
  <2> HIDE DEF b
  <2> QED
    BY <1>2, <1>5, <1>6 DEF EdgeState
<1>8. CrossKept(x, n + 1)'
  BY <1>1, <1>7 DEF CrossKept
<1>9. CrossFires(st, b, Compare(b)) <=> Crosses(n + 1)'
  <2>1. (n + 1) - 1 = n /\ (n + 1 > 1 <=> n >= 1)
    BY <1>1
  <2>2. Crosses(n + 1)' <=> /\ n >= 1 /\ b.t = log[n].bar.t + 1
                            /\ Compare(log[n].bar) = "false" /\ Compare(b) = "true"
    BY <1>1, <2>1 DEF Crosses
  <2> QED
    BY <1>1, <1>3, <2>2 DEF CrossFires
<1> QED
  BY <1>4, <1>8, <1>9

\* One more bar keeps what the cooldown counts.
LEMMA CoolNext ==
  ASSUME NEW e, Extends(e), NEW n, n = Len(log), NEW flat, NEW x, NEW pos, pos \in Nat,
         IF n = 0 THEN flat = -1 ELSE CoolKept(flat, n),
         x = CoolAfter(flat, pos), e.position = pos
  PROVE  CoolKept(x, n + 1)'
<1>1. /\ n \in Nat /\ log'[n + 1] = e
      /\ \A k \in 1 .. n : log'[k] = log[k]
  BY LogGrows
<1>2. CASE pos # 0
  <2>1. x = 0 /\ x # -1 /\ (n + 1) - x = n + 1 /\ (n + 1) - x + 1 .. n + 1 = {}
    BY <1>1, <1>2 DEF CoolAfter
  <2> QED
    BY <1>1, <1>2, <2>1 DEF CoolKept
<1>3. CASE pos = 0 /\ flat = -1
  <2>1. x = -1
    BY <1>3 DEF CoolAfter
  <2>2. \A k \in 1 .. n : log[k].position = 0
    BY <1>1, <1>3 DEF CoolKept
  <2>3. \A k \in 1 .. n + 1 : k \in 1 .. n \/ k = n + 1
    BY <1>1
  <2> QED
    BY <1>1, <1>3, <2>1, <2>2, <2>3 DEF CoolKept
<1>4. CASE pos = 0 /\ flat # -1
  <2>1. n # 0 /\ flat \in Nat /\ flat < n /\ log[n - flat].position # 0
        /\ \A k \in n - flat + 1 .. n : log[k].position = 0
    BY <1>4 DEF CoolKept
  <2>2. x = flat + 1 /\ x # -1 /\ x \in Nat /\ x < n + 1 /\ (n + 1) - x = n - flat
        /\ n - flat \in 1 .. n
    BY <1>1, <1>4, <2>1 DEF CoolAfter
  <2>3. \A k \in (n + 1) - x + 1 .. n + 1 :
          k = n + 1 \/ (k \in n - flat + 1 .. n /\ k \in 1 .. n)
    BY <1>1, <2>1, <2>2
  <2> QED
    BY <1>1, <1>4, <2>1, <2>2, <2>3 DEF CoolKept
<1> QED
  BY <1>2, <1>3, <1>4

\* A cooldown lets an order pass when more than Cooldown flat bars came since the last one with
\* a position.
LEMMA CoolSays ==
  ASSUME log \in Seq(Entries), NEW n \in Nat, n >= 1, n = Len(log), NEW x, CoolKept(x, n),
         NEW busy, busy = {k \in 1 .. n : log[k].position # 0}
  PROVE  CoolAllows(x, log[n].position) <=> (busy = {} \/ n - Max(busy) > Cooldown)
<1>1. Cooldown \in Nat
  BY GraphAssumption
<1>2. log[n] \in Entries /\ log[n].position \in Nat
  <2>1. log[n] \in Entries
    OBVIOUS
  <2> QED
    BY <2>1 DEF Entries
<1>3. CASE x = -1
  <2>1. busy = {} /\ log[n].position = 0
    BY <1>3 DEF CoolKept
  <2> QED
    BY <1>3, <2>1 DEF CoolAllows
<1>4. CASE x # -1
  <2>1. x \in Nat /\ x < n /\ log[n - x].position # 0 /\ n - x \in 1 .. n
        /\ \A k \in n - x + 1 .. n : log[k].position = 0
    BY <1>4 DEF CoolKept
  <2>2. n - x \in busy /\ \A k \in busy : k <= n - x
    BY <2>1
  <2>3. Max(busy) = n - x
    <3>1. \A y \in busy : y \in Int
      OBVIOUS
    <3>2. \A y \in busy : (\A k \in busy : y >= k) => y = n - x
      BY <2>1, <2>2, <3>1
    <3>3. \A k \in busy : n - x >= k
      BY <2>1, <2>2, <3>1
    <3> QED
      BY <2>2, <3>2, <3>3 DEF Max
  <2>4. n - Max(busy) = x /\ busy # {}
    BY <2>1, <2>2, <2>3
  <2>5. x > Cooldown => log[n].position = 0
    BY <1>1, <2>1
  <2> QED
    BY <1>4, <2>4, <2>5 DEF CoolAllows
<1> QED
  BY <1>3, <1>4

CoolLaw ==
  log \in Seq(Entries) =>
    \A n \in Nat : \A x, busy :
      n >= 1 /\ n = Len(log) /\ CoolKept(x, n) /\ busy = {k \in 1 .. n : log[k].position # 0} =>
        (CoolAllows(x, log[n].position) <=> (busy = {} \/ n - Max(busy) > Cooldown))

\* The same law of the log after a step.
LEMMA CoolSaysToo == CoolLaw'
<1>1. CoolLaw
  BY CoolSays DEF CoolLaw
<1> QED
  BY <1>1, PTL

-----------------------------------------------------------------------------
(***************************************************************************)
(* The level.                                                              *)
(***************************************************************************)
\* The cursor and the memory of a level that consumed a bar.
Consumed(x, st, b, trig) ==
  /\ x \in LevelState /\ x.t = b.t /\ x.i = b.i /\ x.d = b.d
  /\ x.px = IF PrimaryReady(b) THEN b.px ELSE Void
  /\ x.mark = IF trig THEN b.i ELSE IF st = None THEN -1 ELSE st.mark

\* A level that takes a bar remembers it as its cursor.
LEMMA LevelConsumes ==
  ASSUME NEW q, NEW st \in LevelState \cup {None}, NEW b \in Bars, NEW trig \in BOOLEAN, NEW x,
         NEW lv, LevelNext(q, st, b, trig) = lv, lv \in Level,
         x = LevelAfter(q, st, b, trig)
  PROVE  Consumed(x, st, b, trig) /\ x.level = lv
<1> DEFINE px == IF PrimaryReady(b) THEN b.px ELSE Void
           mark == IF trig THEN b.i ELSE IF st = None THEN -1 ELSE st.mark
           pay == Fingerprint(b)
<1>1. x = [t |-> b.t, i |-> b.i, d |-> b.d, px |-> px, payload |-> pay, mark |-> mark,
           level |-> lv]
  BY DEF LevelAfter
<1>2. /\ b.t \in Int /\ b.i \in Int /\ b.d \in Int /\ b.cond \in Values /\ b.px \in Prices
      /\ b.lower \in Nat
  BY DEF Bars
<1>3. Void \in Prices
  BY DEF Void, Prices
<1>4. px \in Prices
  BY <1>2, <1>3
<1>5. mark \in Int
  BY <1>2 DEF LevelState
<1>6. pay \in Int \X Int \X Int \X Values \X Prices \X Nat
  <2> HIDE DEF px, mark
  <2>1. pay = <<b.i, b.t, b.d, b.cond, b.px, b.lower>>
    BY DEF Fingerprint
  <2> HIDE DEF pay
  <2> QED
    BY <1>2, <2>1
<1> HIDE DEF px, mark, pay
<1>7. x \in LevelState
  BY <1>1, <1>2, <1>4, <1>5, <1>6 DEF LevelState
<1>8. x.t = b.t /\ x.i = b.i /\ x.d = b.d /\ x.px = px /\ x.mark = mark /\ x.level = lv
  BY <1>1
<1> QED
  BY <1>7, <1>8 DEF Consumed, px, mark

\* A bar inside the window, next to the last one, with valid prices above the buffer.
Stays(st, b) ==
  /\ b.i <= st.level.expires /\ Consecutive(st, b) /\ PrimaryReady(b) /\ st.px # Void
  /\ ~Invalidates(b, st.level.lower)

\* An armed level stays armed, or is consumed, exactly when the bar says so.
LEMMA LevelServed ==
  ASSUME NEW q, q.expires \in Nat \ {0}, NEW st \in LevelState, ValidLevelState(q, st),
         st.level.status = "armed", NEW b \in Bars, b.i > st.i, NEW trig \in BOOLEAN, NEW x,
         x = LevelAfter(q, st, b, trig), NEW opp,
         opp = Opportunity(q.mode, st.px[3], b, st.level.lower), opp \in BOOLEAN
  PROVE  /\ Consumed(x, st, b, trig) /\ ValidLevelState(q, x)
         /\ x.level.status = "armed" <=> Stays(st, b) /\ ~opp
         /\ x.level.status = "consumed" <=> Stays(st, b) /\ opp
         /\ x.level.lower = st.level.lower /\ x.level.armed = st.level.armed
<1> DEFINE old == st.level
           status == IF b.i > old.expires THEN "expired"
                     ELSE IF ~Consecutive(st, b) \/ ~PrimaryReady(b) \/ st.px = Void
                          THEN "invalidated"
                     ELSE IF Invalidates(b, old.lower) THEN "invalidated"
                     ELSE IF opp THEN "consumed" ELSE "armed"
           ended == IF status = "armed" THEN 0 ELSE b.i
           lv == [old EXCEPT !.status = status, !.ended = ended]
<1>1. /\ old \in Level /\ old.lower \in Nat /\ old.armed \in Int /\ old.expires \in Int
      /\ b.i \in Int /\ st.i \in Int /\ st # None /\ st.mark \in Int
  BY NoneAssumption DEF LevelState, Level, Bars
<1>2. LevelNext(q, st, b, trig) = lv
  BY <1>1 DEF LevelNext, Served
<1>3. status \in {"armed", "expired", "invalidated", "consumed"}
  OBVIOUS
<1>4. /\ status = "armed" <=> Stays(st, b) /\ ~opp
      /\ status = "consumed" <=> Stays(st, b) /\ opp
      /\ status = "expired" <=> b.i > old.expires
  BY <1>1 DEF Stays
<1> HIDE DEF status
<1>5. ended \in Int
  BY <1>1
<1> HIDE DEF ended
<1>6. old = [status |-> old.status, lower |-> old.lower, armed |-> old.armed,
             expires |-> old.expires, ended |-> old.ended]
  BY <1>1 DEF Level
<1>7. lv = [status |-> status, lower |-> old.lower, armed |-> old.armed,
            expires |-> old.expires, ended |-> ended]
  <2>1. PICK s0, l0, a0, x0, e0 :
          old = [status |-> s0, lower |-> l0, armed |-> a0, expires |-> x0, ended |-> e0]
    BY <1>6
  <2> HIDE DEF old
  <2>2. old.lower = l0 /\ old.armed = a0 /\ old.expires = x0
    BY <2>1
  <2> DEFINE m == [old EXCEPT !.status = status]
  <2>3. m = [status |-> status, lower |-> l0, armed |-> a0, expires |-> x0, ended |-> e0]
    BY <2>1
  <2>4. lv = [m EXCEPT !.ended = ended]
    OBVIOUS
  <2> HIDE DEF m, lv
  <2>5. lv = [status |-> status, lower |-> l0, armed |-> a0, expires |-> x0, ended |-> ended]
    BY <2>3, <2>4
  <2> QED
    BY <2>2, <2>5
<1> HIDE DEF lv, old
<1>8. /\ lv.status = status /\ lv.lower = old.lower /\ lv.armed = old.armed
      /\ lv.expires = old.expires /\ lv.ended = ended
  BY <1>7
<1>9. lv \in Level
  BY <1>1, <1>3, <1>5, <1>7 DEF Level
<1>10. Consumed(x, st, b, trig) /\ x.level = lv
  BY <1>2, <1>9, LevelConsumes
<1>11. /\ old.armed < old.expires /\ old.armed <= st.i /\ st.mark <= st.i
       /\ st.mark >= old.armed /\ old.expires = old.armed + q.expires
  BY DEF ValidLevelState, LevelConsistent, SnapshotConsistent, old
<1>12. ended = IF status = "armed" THEN 0 ELSE b.i
  BY DEF ended
<1>13. status = "armed" => b.i <= old.expires
  BY <1>4 DEF Stays, old
<1>14. status = "consumed" => b.i <= old.expires
  BY <1>4 DEF Stays, old
<1>15. x.i = b.i /\ x.mark = IF trig THEN b.i ELSE st.mark
  BY <1>1, <1>10 DEF Consumed
<1>16. x.mark \in Int /\ x.mark <= x.i /\ x.mark >= old.armed
  BY <1>1, <1>11, <1>15
<1>17. SnapshotConsistent(lv, x.i)
  BY <1>1, <1>3, <1>8, <1>11, <1>12, <1>15 DEF SnapshotConsistent
<1>18. LevelConsistent(x)
  BY <1>1, <1>3, <1>4, <1>8, <1>10, <1>12, <1>13, <1>14, <1>15, <1>16, <1>17
     DEF LevelConsistent
<1>19. ValidLevelState(q, x)
  BY <1>8, <1>10, <1>11, <1>18 DEF ValidLevelState
<1> QED
  BY <1>4, <1>8, <1>10, <1>19 DEF old

\* What a level that is not armed makes of a bar.
Armable(b, trig) == trig /\ PrimaryReady(b) /\ b.lower # 0

\* A level that is not armed takes a new trigger, or is left with its history.
LEMMA LevelIdle ==
  ASSUME NEW q, q.expires \in Nat \ {0}, NEW st \in LevelState \cup {None},
         st # None => ValidLevelState(q, st) /\ st.level.status # "armed",
         NEW b \in Bars, st # None => b.i > st.i, b.i >= 1, NEW trig \in BOOLEAN, NEW x,
         x = LevelAfter(q, st, b, trig)
  PROVE  /\ Consumed(x, st, b, trig) /\ ValidLevelState(q, x)
         /\ IF Armable(b, trig)
            THEN x.level.status = "armed" /\ x.level.lower = b.lower /\ x.level.armed = b.i
            ELSE x.level.status # "armed"
<1> DEFINE old == IF st = None THEN NoLevel ELSE st.level
           arm == [status |-> "armed", lower |-> b.lower, armed |-> b.i,
                   expires |-> b.i + q.expires, ended |-> 0]
           lv == IF Armable(b, trig) THEN arm ELSE old
<1>1. /\ b.i \in Int /\ b.lower \in Nat /\ q.expires \in Int /\ q.expires >= 1
      /\ st # None => st.i \in Int /\ st.mark \in Int /\ st.level \in Level
  BY DEF LevelState, Bars
<1>2. NoLevel \in Level /\ NoLevel.status = "unavailable"
  BY DEF NoLevel, Level
<1>3. arm \in Level /\ arm # NoLevel
  <2>1. b.i + q.expires \in Int
    BY <1>1
  <2>2. arm \in Level
    BY <1>1, <2>1 DEF Level
  <2>3. arm.status = "armed"
    OBVIOUS
  <2> QED
    BY <1>2, <2>2, <2>3
<1>4. old \in Level /\ old.status # "armed"
  BY <1>1, <1>2
<1>5. st # None => st.mark < b.i
  BY <1>1 DEF ValidLevelState, LevelConsistent
<1>6. LevelNext(q, st, b, trig) = lv
  <2> DEFINE fresh == trig /\ (st = None \/ b.i > st.mark)
             new == IF fresh /\ PrimaryReady(b) THEN Armed(q, b) ELSE NoLevel
  <2>1. fresh = trig
    BY <1>1, <1>5
  <2>2. new = IF Armable(b, trig) THEN arm ELSE NoLevel
    BY <2>1 DEF Armable, Armed
  <2>3. LevelNext(q, st, b, trig)
          = IF old.status = "armed" THEN Served(q, st, b) ELSE IF new = NoLevel THEN old ELSE new
    BY DEF LevelNext
  <2> HIDE DEF new, old, arm
  <2> QED
    BY <1>3, <1>4, <2>2, <2>3
<1>7. lv \in Level
  BY <1>3, <1>4
<1> HIDE DEF lv
<1>8. Consumed(x, st, b, trig) /\ x.level = lv
  BY <1>6, <1>7, LevelConsumes
<1>9. x.i = b.i /\ x.mark = IF trig THEN b.i ELSE IF st = None THEN -1 ELSE st.mark
  BY <1>8 DEF Consumed
<1>10. x.mark \in Int /\ x.mark <= x.i
  BY <1>1, <1>5, <1>9
<1>11. CASE Armable(b, trig)
  <2>1. lv = arm /\ trig
    BY <1>11 DEF lv, Armable
  <2>2. /\ lv.status = "armed" /\ lv.lower = b.lower /\ lv.armed = b.i
        /\ lv.expires = b.i + q.expires /\ lv.ended = 0
    BY <2>1
  <2>3. LevelConsistent(x)
    BY <1>1, <1>8, <1>9, <1>10, <2>1, <2>2 DEF LevelConsistent, SnapshotConsistent
  <2> QED
    BY <1>8, <1>11, <2>2, <2>3 DEF ValidLevelState
<1>12. CASE ~Armable(b, trig)
  <2>1. lv = old
    BY <1>12 DEF lv
  <2>2. CASE st = None
    <3>1. lv = NoLevel
      BY <2>1, <2>2
    <3>2. LevelConsistent(x)
      BY <1>2, <1>8, <1>10, <3>1 DEF LevelConsistent, SnapshotConsistent
    <3> QED
      BY <1>2, <1>8, <1>12, <3>1, <3>2 DEF ValidLevelState
  <2>3. CASE st # None
    <3>1. lv = st.level /\ lv.status # "armed" /\ lv \in Level
      BY <2>1, <2>3, <1>7
    <3>2. ValidLevelState(q, st) /\ st.i < x.i /\ x.mark >= st.mark
      BY <1>1, <1>5, <1>9, <2>3
    <3>3. SnapshotConsistent(lv, x.i)
      <4>1. SnapshotConsistent(lv, st.i)
        BY <3>1, <3>2 DEF ValidLevelState, LevelConsistent
      <4>2. lv.armed \in Int /\ lv.ended \in Int /\ x.i \in Int
        BY <1>1, <1>9, <3>1 DEF Level
      <4> QED
        BY <1>1, <2>3, <3>2, <4>1, <4>2 DEF SnapshotConsistent
    <3>4. lv.status # "unavailable" => x.mark >= lv.armed /\ lv.expires = lv.armed + q.expires
      <4>1. lv.armed \in Int
        BY <3>1 DEF Level
      <4> QED
        BY <1>1, <1>10, <2>3, <3>1, <3>2, <4>1 DEF ValidLevelState, LevelConsistent
    <3>5. /\ lv.status = "consumed" => lv.ended <= lv.expires
          /\ lv.status = "expired" => lv.ended > lv.expires
      BY <3>1, <3>2 DEF ValidLevelState, LevelConsistent
    <3>6. LevelConsistent(x)
      BY <1>8, <1>10, <3>1, <3>3, <3>4, <3>5 DEF LevelConsistent
    <3> QED
      BY <1>8, <1>12, <3>1, <3>4, <3>6 DEF ValidLevelState
  <2> QED
    BY <2>2, <2>3
<1> QED
  BY <1>11, <1>12

PendingLaw ==
  \A n \in Nat : n >= 1 =>
    PendingBefore(n + 1)
      = {a \in PendingBefore(n) : Survives(a, n) /\ ~Hits(a, n)} \cup {a \in {n} : ArmedAt(a)}

\* The same law of the log after a step.
LEMMA PendingGrowsToo == PendingLaw'
<1>1. PendingLaw
  BY PendingGrows DEF PendingLaw
<1> QED
  BY <1>1, PTL

\* Each mode's predicate is a truth value.
LEMMA OpportunityIs ==
  ASSUME NEW q, q.mode \in {"sweep_reclaim", "breakout_retest", "breakout"},
         NEW last, NEW b, NEW lower
  PROVE  Opportunity(q.mode, last, b, lower) \in BOOLEAN
<1>1. CASE q.mode = "sweep_reclaim"
  BY <1>1 DEF Opportunity
<1>2. CASE q.mode = "breakout_retest"
  BY <1>2 DEF Opportunity
<1>3. CASE q.mode = "breakout"
  BY <1>3 DEF Opportunity
<1> QED
  BY <1>1, <1>2, <1>3

\* A level waits for its bar as long as it is pending, fires on that bar, and is armed only
\* when none is pending.
LEMMA LevelMoves ==
  ASSUME NEW e, Extends(e), WellBuilt(gr), HasLevel(gr), NEW n, Later(n, e.bar),
         NEW st, NEW x, NEW trig \in BOOLEAN, OpportunityExplained,
         IF n = 0 THEN st = None ELSE LevelKept(st, n),
         x = LevelAfter(gr, st, e.bar, trig), e.level = x
  PROVE  /\ LevelKept(x, n + 1)' /\ ~Duplicate(st, e.bar)
         /\ ArmedAt(n + 1)' <=> trig /\ PendingBefore(n + 1) = {} /\ PrimaryReady(e.bar)
                                  /\ e.bar.lower # 0
         /\ LevelFires(st, x) <=> \E a \in PendingBefore(n + 1) : Hits(a, n + 1)'
<1> PICK b : b = e.bar
  OBVIOUS
<1> PICK q : q = gr
  OBVIOUS
<1>1. /\ n \in Nat /\ log'[n + 1] = e /\ gr' = q /\ n = Len(log)
      /\ \A k \in 1 .. n : log'[k] = log[k] /\ log[k] \in Entries
  BY LogGrows DEF Later
<1>2. /\ b \in Bars /\ b.t \in Int /\ b.i \in Int /\ b.d \in Int /\ b.lower \in Nat
      /\ b.i >= 1
      /\ n >= 1 => b.t > log[n].bar.t /\ b.i > log[n].bar.i
  BY <1>1 DEF Later, Bars
<1>3. \A k \in 1 .. n : log[k].bar \in Bars /\ log[k].bar.i \in Int /\ log[k].bar.t \in Int
  BY <1>1 DEF Entries, Bars
<1>4. /\ n = 0 => st = None
      /\ n >= 1 => st # None /\ LevelKept(st, n)
  BY <1>1, NoneAssumption DEF LevelKept
<1>5. n >= 1 => st \in LevelState /\ st.t = log[n].bar.t /\ st.i = log[n].bar.i
                /\ ValidLevelState(q, st)
  BY <1>4 DEF LevelKept
<1>6. ~Duplicate(st, b) /\ (n >= 1 => b.i > st.i)
  BY <1>1, <1>2, <1>3, <1>4, <1>5 DEF Duplicate
<1>7. PendingBefore(n + 1)' = PendingBefore(n + 1)
  BY <1>1, EarlierLevels
<1>8. PendingBefore(n + 2)'
        = {a \in PendingBefore(n + 1) : Survives(a, n + 1)' /\ ~Hits(a, n + 1)'}
            \cup {a \in {n + 1} : ArmedAt(a)'}
  <2>1. n + 1 \in Nat /\ n + 1 >= 1 /\ (n + 1) + 1 = n + 2
    BY <1>1
  <2> QED
    BY <1>7, <2>1, PendingGrowsToo DEF PendingLaw
<1>9. q.expires \in Nat \ {0} /\ q.mode \in {"sweep_reclaim", "breakout_retest", "breakout"}
  BY DEF WellBuilt
<1>10. ArmedAt(n + 1)' <=> x # None /\ x.level.status = "armed" /\ x.level.armed = b.i
  BY <1>1 DEF ArmedAt
<1>11. /\ Consumed(x, st, b, trig) /\ ValidLevelState(q, x) /\ x # None
       /\ IF x.level.status = "armed"
          THEN \E a \in 1 .. n + 1 : /\ PendingBefore(n + 2)' = {a}
                                     /\ x.level.lower = log'[a].bar.lower
                                     /\ x.level.armed = log'[a].bar.i
          ELSE PendingBefore(n + 2)' = {}
       /\ ArmedAt(n + 1)' <=> Armable(b, trig) /\ PendingBefore(n + 1) = {}
       /\ LevelFires(st, x) <=> \E a \in PendingBefore(n + 1) : Hits(a, n + 1)'
  <2>1. CASE n >= 1 /\ st.level.status = "armed"
    <3>1. st # None /\ st \in LevelState /\ LevelKept(st, n)
      BY <1>4, <1>5, <2>1
    <3>2. PICK a \in 1 .. n : /\ PendingBefore(n + 1) = {a} /\ st.level.lower = log[a].bar.lower
                              /\ st.level.armed = log[a].bar.i
      BY <2>1, <3>1 DEF LevelKept
    <3>3. a \in 1 .. n /\ ArmedAt(a) /\ Pending(a, n + 1) /\ a \in 1 .. n + 1
      <4>1. a \in PendingBefore(n + 1) /\ a \in 1 .. n
        BY <3>2
      <4> QED
        BY <1>1, <4>1 DEF PendingBefore
    <3>4. PrimaryReady(log[n].bar)
      <4>1. CASE a = n
        <5>1. n \in DOMAIN log /\ ArmedAt(n)
          BY <1>1, <2>1, <3>3, <4>1 DEF Extends
        <5> QED
          BY <5>1 DEF OpportunityExplained
      <4>2. CASE a # n
        <5>1. n \in a + 1 .. (n + 1) - 1
          BY <1>1, <3>3, <4>2
        <5>2. Survives(a, n)
          BY <3>3, <5>1 DEF Pending
        <5> QED
          BY <5>2 DEF Survives
      <4> QED
        BY <4>1, <4>2
    <3>5. st.px = log[n].bar.px /\ st.px # Void
      BY <3>1, <3>4 DEF LevelKept, PrimaryReady
    <3>6. st.level.expires = log[a].bar.i + q.expires
      BY <1>5, <2>1, <3>2 DEF ValidLevelState
    <3>7. log'[a] = log[a] /\ log'[n] = log[n] /\ (n + 1) - 1 = n
      BY <1>1, <2>1, <3>3
    <3>8. Follows(n + 1)' <=> Consecutive(st, b)
      BY <1>1, <1>5, <2>1, <3>1, <3>7 DEF Follows, Consecutive
    <3>9. Survives(a, n + 1)' <=> Stays(st, b)
      <4>1. Survives(a, n + 1)' <=>
              /\ b.i <= log[a].bar.i + q.expires /\ Follows(n + 1)' /\ PrimaryReady(b)
              /\ ~Invalidates(b, log[a].bar.lower)
        BY <1>1, <3>7 DEF Survives, PrimaryReady, OnTime, Invalidates, Open, Close
      <4> QED
        BY <3>2, <3>5, <3>6, <3>8, <4>1 DEF Stays
    <3>10. PICK opp \in BOOLEAN : opp = Opportunity(q.mode, st.px[3], b, st.level.lower)
      BY <1>9, OpportunityIs
    <3>11. Hits(a, n + 1)' <=> Stays(st, b) /\ opp
      <4>1. Hits(a, n + 1)' <=>
              Survives(a, n + 1)' /\ Opportunity(q.mode, log[n].bar.px[3], b, log[a].bar.lower)
        BY <1>1, <3>7 DEF Hits, Opportunity, Close, Low
      <4> QED
        BY <3>2, <3>5, <3>9, <3>10, <4>1
    <3>12. /\ Consumed(x, st, b, trig) /\ ValidLevelState(q, x)
           /\ x.level.status = "armed" <=> Stays(st, b) /\ ~opp
           /\ x.level.status = "consumed" <=> Stays(st, b) /\ opp
           /\ x.level.lower = st.level.lower /\ x.level.armed = st.level.armed
      <4>1. b.i > st.i /\ ValidLevelState(q, st) /\ x = LevelAfter(q, st, b, trig)
        BY <1>5, <1>6, <2>1
      <4> QED
        BY <1>2, <1>9, <2>1, <3>1, <3>10, <4>1, LevelServed
    <3>13. x # None
      BY <3>12, NoneAssumption DEF Consumed
    <3>14. ~ArmedAt(n + 1)'
      <4>1. st.level.armed <= st.i
        BY <1>5, <2>1 DEF ValidLevelState, LevelConsistent, SnapshotConsistent
      <4>2. x.level.armed # b.i
        <5>1. log[n].bar.i \in Int /\ st.i = log[n].bar.i /\ b.i > st.i
          BY <1>1, <1>3, <1>5, <1>6, <2>1
        <5>2. x.level.armed = st.level.armed /\ st.level.armed = log[a].bar.i
          BY <3>2, <3>12
        <5>3. log[a].bar.i \in Int
          BY <1>3
        <5> QED
          BY <1>2, <4>1, <5>1, <5>2, <5>3
      <4> QED
        BY <1>10, <4>2
    <3>15. PendingBefore(n + 2)' = IF Stays(st, b) /\ ~opp THEN {a} ELSE {}
      BY <1>8, <3>2, <3>9, <3>11, <3>14
    <3>16. LevelFires(st, x) <=> Stays(st, b) /\ opp
      BY <2>1, <3>1, <3>12 DEF LevelFires
    <3> QED
      BY <3>2, <3>3, <3>7, <3>11, <3>12, <3>13, <3>14, <3>15, <3>16
  <2>2. CASE n = 0 \/ st.level.status # "armed"
    <3>1. PendingBefore(n + 1) = {}
      <4>1. CASE n = 0
        <5>1. 1 .. (n + 1) - 1 = {}
          BY <4>1
        <5> QED
          BY <5>1 DEF PendingBefore
      <4>2. CASE n # 0
        <5>1. LevelKept(st, n) /\ st.level.status # "armed"
          BY <1>1, <1>4, <2>2, <4>2
        <5> QED
          BY <5>1 DEF LevelKept
      <4> QED
        BY <4>1, <4>2
    <3>2. /\ st \in LevelState \cup {None}
          /\ st # None => ValidLevelState(q, st) /\ st.level.status # "armed" /\ b.i > st.i
      BY <1>1, <1>4, <1>5, <1>6, <2>2
    <3>3. b.i >= 1
      BY <1>2
    <3>4. /\ Consumed(x, st, b, trig) /\ ValidLevelState(q, x)
          /\ IF Armable(b, trig)
             THEN x.level.status = "armed" /\ x.level.lower = b.lower /\ x.level.armed = b.i
             ELSE x.level.status # "armed"
      <4>1. x = LevelAfter(q, st, b, trig)
        OBVIOUS
      <4> QED
        BY <1>2, <1>9, <3>2, <3>3, <4>1, LevelIdle
    <3>5. x # None
      BY <3>4, NoneAssumption DEF Consumed
    <3>6. ArmedAt(n + 1)' <=> Armable(b, trig)
      BY <1>10, <3>4, <3>5
    <3>7. PendingBefore(n + 2)' = IF Armable(b, trig) THEN {n + 1} ELSE {}
      BY <1>8, <3>1, <3>6
    <3>8. ~LevelFires(st, x)
      BY <3>2 DEF LevelFires
    <3>9. n + 1 \in 1 .. n + 1 /\ log'[n + 1].bar = b
      BY <1>1
    <3> QED
      BY <3>1, <3>4, <3>5, <3>6, <3>7, <3>8, <3>9
  <2> QED
    BY <1>1, <2>1, <2>2
<1>12. LevelKept(x, n + 1)'
  <2>1. (n + 1) + 1 = n + 2 /\ log'[n + 1].bar = b /\ log'[n + 1].level = x
    BY <1>1
  <2> QED
    BY <1>1, <1>11, <2>1 DEF LevelKept, Consumed
<1> QED
  BY <1>6, <1>11, <1>12 DEF Armable

-----------------------------------------------------------------------------
(***************************************************************************)
(* A decided bar.                                                          *)
(***************************************************************************)
Before(st, n) == IF n = 0 THEN st = NoNodes ELSE NodesKept(st, n)

\* What a step adds to the log is typed.
LEMMA EntryTyped ==
  ASSUME log \in Seq(Entries), WellBuilt(gr), NEW n, NEW b, Later(n, b), NEW st, Before(st, n),
         NEW pos \in Nat, NEW kn, NEW s, Outcome(gr, s, st, b, pos, kn)
  PROVE  /\ s.out.hold \in Values /\ Trigger(gr, s.out) \in BOOLEAN
         /\ s.out.level \in BOOLEAN /\ s.out.gate \in BOOLEAN
         /\ s.g.level \in LevelState \cup {None}
<1>1. n \in Nat /\ n = Len(log) /\ b \in Bars /\ b.i \in Int /\ b.i >= 1 /\ b.cond \in Values
  BY DEF Later, Bars
<1>2. s.out.hold \in Values
  <2>1. CASE gr.wiring = "cross"
    BY <2>1 DEF Outcome, Values
  <2>2. CASE gr.wiring # "cross"
    <3>1. s.out.hold = HoldTo(gr, st, b).out
      BY <2>2 DEF Outcome
    <3>2. CASE Duplicate(st.hold, b)
      <4>1. n # 0
        BY <3>2 DEF Before, NoNodes, Duplicate
      <4>2. st.hold \in HoldState
        BY <2>2, <4>1 DEF Before, NodesKept, HoldKept
      <4> QED
        BY <3>1, <3>2, <4>2 DEF HoldTo, HoldState
    <3>3. CASE ~Duplicate(st.hold, b)
      BY <3>1, <3>3 DEF HoldTo, HoldAfter, Values
    <3> QED
      BY <3>2, <3>3
  <2> QED
    BY <2>1, <2>2
<1>3. Trigger(gr, s.out) \in BOOLEAN
  BY DEF Outcome, CrossOut, EdgeOut
<1>4. s.out.level \in BOOLEAN
  BY DEF Outcome, LevelOut, LevelFires
<1>5. s.out.gate \in BOOLEAN
  BY DEF Outcome
<1>6. s.g.level \in LevelState \cup {None}
  <2>1. CASE ~HasLevel(gr)
    BY <2>1 DEF Outcome, Before, NodesKept, NoNodes
  <2>2. CASE HasLevel(gr)
    <3> DEFINE l == st.level
    <3>1. s.g.level = LevelTo(gr, st, b)
      BY <2>2 DEF Outcome
    <3>2. l = None \/ (/\ n >= 1 /\ l \in LevelState /\ ValidLevelState(gr, l)
                       /\ l.i = log[n].bar.i)
      BY <1>1, <2>2 DEF Before, NodesKept, NoNodes, LevelKept
    <3>3. l # None => b.i > l.i
      BY <1>1, <3>2 DEF Later
    <3>4. CASE Duplicate(l, b)
      BY <3>1, <3>2, <3>4 DEF LevelTo
    <3>5. CASE ~Duplicate(l, b)
      <4>1. PICK trig \in BOOLEAN : trig = TriggerOut(gr, st, b)
        BY DEF TriggerOut, CrossOut, EdgeOut
      <4>2. s.g.level = LevelAfter(gr, l, b, trig)
        BY <3>1, <3>5, <4>1 DEF LevelTo
      <4>3. PICK q : q = gr
        OBVIOUS
      <4>4. q.expires \in Nat \ {0}
            /\ q.mode \in {"sweep_reclaim", "breakout_retest", "breakout"}
        BY <2>2, <4>3 DEF WellBuilt
      <4>5. PICK x : x = s.g.level
        OBVIOUS
      <4> HIDE DEF l
      <4>6. CASE l # None /\ l.level.status = "armed"
        <5>1. PICK opp \in BOOLEAN : opp = Opportunity(q.mode, l.px[3], b, l.level.lower)
          BY <4>4, OpportunityIs
        <5>2. Consumed(x, l, b, trig)
          BY <1>1, <3>2, <3>3, <4>2, <4>3, <4>4, <4>5, <4>6, <5>1, LevelServed
        <5> QED
          BY <4>5, <5>2 DEF Consumed
      <4>7. CASE l = None \/ l.level.status # "armed"
        <5>1. l \in LevelState \cup {None}
          BY <3>2
        <5>2. Consumed(x, l, b, trig)
          BY <1>1, <3>2, <3>3, <4>2, <4>3, <4>4, <4>5, <4>7, <5>1, LevelIdle
        <5> QED
          BY <4>5, <5>2 DEF Consumed
      <4> QED
        BY <4>6, <4>7
    <3> QED
      BY <3>4, <3>5
  <2> QED
    BY <2>1, <2>2
<1> QED
  BY <1>2, <1>3, <1>4, <1>5, <1>6

\* The same bar's part in the three histories.
ReducersAt(m) ==
  IF gr.wiring = "cross" THEN log[m].trigger <=> Crosses(m)
  ELSE /\ log[m].hold = "unready" <=> ~Ready(m)
       /\ log[m].hold = "true" <=> Held(m)
       /\ log[m].trigger <=> Rises(m)

OpportunityAt(m) ==
  HasLevel(gr) =>
    /\ ArmedAt(m) <=> /\ log[m].trigger /\ PendingBefore(m) = {} /\ PrimaryReady(log[m].bar)
                      /\ log[m].bar.lower # 0
    /\ log[m].event <=> \E a \in PendingBefore(m) : Hits(a, m)

OrderAt(m) ==
  \A busy : busy = {k \in 1 .. m : log[k].position # 0} =>
    (log[m].order <=>
       (IF HasLevel(gr) THEN log[m].event ELSE log[m].trigger)
         /\ (busy = {} \/ m - Max(busy) > Cooldown))

Histories == \A m \in 1 .. Len(log) : ReducersAt(m) /\ OpportunityAt(m) /\ OrderAt(m)

\* The three properties of the log, one bar at a time.
LEMMA HistoriesAre ==
  ASSUME log \in Seq(Entries)
  PROVE  Histories <=> ReducersFollowHistory /\ OpportunityExplained /\ CooldownExact
<1>1. DOMAIN log = 1 .. Len(log)
  OBVIOUS
<1>2. ReducersFollowHistory <=> \A m \in 1 .. Len(log) : ReducersAt(m)
  <2>1. ASSUME NEW m \in 1 .. Len(log)
        PROVE  /\ (log[m].trigger = Crosses(m)) <=> (log[m].trigger <=> Crosses(m))
               /\ (log[m].trigger = Rises(m)) <=> (log[m].trigger <=> Rises(m))
               /\ ((log[m].hold = "unready") = ~Ready(m))
                    <=> (log[m].hold = "unready" <=> ~Ready(m))
               /\ ((log[m].hold = "true") = Held(m)) <=> (log[m].hold = "true" <=> Held(m))
    <3>1. log[m] \in Entries
      OBVIOUS
    <3>2. log[m].trigger \in BOOLEAN
      BY <3>1 DEF Entries
    <3> QED
      BY <3>2 DEF Crosses, Rises, Ready, Held
  <2> QED
    BY <1>1, <2>1 DEF ReducersFollowHistory, ReducersAt
<1>3. OpportunityExplained <=> \A m \in 1 .. Len(log) : OpportunityAt(m)
  BY <1>1 DEF OpportunityExplained, OpportunityAt, PendingBefore
<1>4. CooldownExact <=> \A m \in 1 .. Len(log) : OrderAt(m)
  BY <1>1 DEF CooldownExact, OrderAt
<1> QED
  BY <1>2, <1>3, <1>4 DEF Histories

\* The earlier bars keep their part.
LEMMA EarlierHistories ==
  ASSUME NEW e, Extends(e), WellBuilt(gr), Histories
  PROVE  \A m \in 1 .. Len(log) : ReducersAt(m)' /\ OpportunityAt(m)' /\ OrderAt(m)'
<1> PICK L : L = Len(log)
  OBVIOUS
<1>1. L \in Nat /\ gr' = gr /\ \A k \in 1 .. L : log'[k] = log[k]
  BY LogGrows
<1>2. ASSUME NEW m \in 1 .. L PROVE ReducersAt(m)'
  <2>1. ReducersAt(m) /\ log'[m] = log[m]
    BY <1>1, <1>2 DEF Histories
  <2>2. /\ Ready(m)' <=> Ready(m)
        /\ Crosses(m)' <=> Crosses(m)
    BY <1>2, EarlierBars
  <2>3. /\ Held(m)' <=> Held(m)
        /\ Rises(m)' <=> Rises(m)
    BY <1>2, EarlierRuns
  <2> QED
    BY <1>1, <2>1, <2>2, <2>3 DEF ReducersAt
<1>3. ASSUME NEW m \in 1 .. L PROVE OpportunityAt(m)'
  <2>1. OpportunityAt(m) /\ log'[m] = log[m]
    BY <1>1, <1>3 DEF Histories
  <2>2. ArmedAt(m)' <=> ArmedAt(m)
    BY <1>3, EarlierBars
  <2>3. PendingBefore(m)' = PendingBefore(m)
    <3>1. m \in 1 .. L + 1
      BY <1>1
    <3> QED
      BY <3>1, EarlierLevels
  <2>4. \A a \in PendingBefore(m) : Hits(a, m)' <=> Hits(a, m)
    <3>1. \A a \in PendingBefore(m) : a \in 1 .. L
      BY <1>1 DEF PendingBefore
    <3> QED
      BY <1>3, <3>1, EarlierLevels
  <2> QED
    BY <1>1, <2>1, <2>2, <2>3, <2>4 DEF OpportunityAt, HasLevel
<1>4. ASSUME NEW m \in 1 .. L PROVE OrderAt(m)'
  <2>1. OrderAt(m) /\ log'[m] = log[m]
    BY <1>1, <1>4 DEF Histories
  <2>2. \A k \in 1 .. m : log'[k] = log[k]
    BY <1>1
  <2>3. {k \in 1 .. m : log'[k].position # 0} = {k \in 1 .. m : log[k].position # 0}
    BY <2>2
  <2> QED
    BY <1>1, <2>1, <2>3 DEF OrderAt, HasLevel
<1> QED
  BY <1>2, <1>3, <1>4

HistoriesLaw ==
  log \in Seq(Entries) =>
    (Histories <=> ReducersFollowHistory /\ OpportunityExplained /\ CooldownExact)

\* The same law of the log after a step.
LEMMA HistoriesAreToo == HistoriesLaw'
<1>1. HistoriesLaw
  BY HistoriesAre DEF HistoriesLaw
<1> QED
  BY <1>1, PTL

\* An entry of the log: what a decided bar reported.
Reports(e, s, b, pos) ==
  /\ e.bar = b /\ e.position = pos /\ e.hold = s.out.hold /\ e.trigger = Trigger(gr, s.out)
  /\ e.event = s.out.level /\ e.level = s.g.level /\ e.order = s.out.gate

\* A decided bar leaves every node where the longer history says, and reports what it says.
LEMMA DecisionMoves ==
  ASSUME NEW e, Extends(e), WellBuilt(gr), Histories, NEW n, NEW b, Later(n, b),
         NEW st, Before(st, n), NEW pos \in Nat, NEW kn, NEW s,
         Outcome(gr, s, st, b, pos, kn), Reports(e, s, b, pos)
  PROVE  NodesKept(s.g, n + 1)' /\ Histories'
<1> PICK q : q = gr
  OBVIOUS
<1> PICK G : G = s.g
  OBVIOUS
<1>1. /\ n \in Nat /\ n = Len(log) /\ Len(log') = n + 1 /\ log'[n + 1] = e /\ gr' = q
      /\ \A k \in 1 .. n : log'[k] = log[k]
      /\ log \in Seq(Entries) /\ log' \in Seq(Entries) /\ e \in Entries
  BY LogGrows DEF Later, Extends
<1>2. e.bar = b /\ e.position = pos /\ Later(n, e.bar)
  BY DEF Reports
<1>3. ReducersFollowHistory /\ OpportunityExplained /\ CooldownExact
  BY <1>1, HistoriesAre
<1>4. /\ DOMAIN st = Keeping
      /\ IF q.wiring = "cross"
         THEN /\ st.hold = None /\ st.edge = None
              /\ IF n = 0 THEN st.cross = None ELSE CrossKept(st.cross, n)
         ELSE /\ IF n = 0 THEN st.hold = None ELSE HoldKept(st.hold, n)
              /\ IF n = 0 THEN st.edge = None ELSE EdgeKept(st.edge, n)
              /\ st.cross = None
      /\ IF HasLevel(q) THEN IF n = 0 THEN st.level = None ELSE LevelKept(st.level, n)
                        ELSE st.level = None
      /\ IF n = 0 THEN st.cool = -1 ELSE CoolKept(st.cool, n)
  <2>1. CASE n = 0
    BY <2>1 DEF Before, NoNodes, Keeping
  <2>2. CASE n # 0
    BY <2>2 DEF Before, NodesKept
  <2> QED
    BY <2>1, <2>2
<1>5. IF q.wiring = "cross"
      THEN /\ G.hold = None /\ G.edge = None /\ CrossKept(G.cross, n + 1)'
           /\ e.trigger <=> Crosses(n + 1)'
           /\ e.trigger <=> TriggerOut(q, st, b)
      ELSE /\ HoldKept(G.hold, n + 1)' /\ EdgeKept(G.edge, n + 1)' /\ G.cross = None
           /\ e.hold = G.hold.out
           /\ e.trigger <=> Rises(n + 1)'
           /\ e.trigger <=> TriggerOut(q, st, b)
  <2>1. CASE q.wiring = "cross"
    <3> PICK x : x = CrossAfter(b, Compare(b))
      OBVIOUS
    <3> PICK c : c = st.cross
      OBVIOUS
    <3>1. /\ CrossKept(x, n + 1)' /\ ~Repeats(c, b)
          /\ CrossFires(c, b, Compare(b)) <=> Crosses(n + 1)'
      BY <1>2, <1>4, <2>1, CrossNext
    <3>2. G.cross = x /\ (CrossOut(st, b) <=> Crosses(n + 1)')
      BY <2>1, <3>1 DEF Outcome, CrossTo, CrossOut
    <3>3. /\ G.hold = None /\ G.edge = None /\ e.trigger = CrossOut(st, b)
          /\ TriggerOut(q, st, b) = CrossOut(st, b)
      BY <1>4, <2>1 DEF Outcome, Reports, TriggerOut
    <3> QED
      BY <2>1, <3>1, <3>2, <3>3
  <2>2. CASE q.wiring # "cross"
    <3> PICK h : h = HoldAfter(q.bars, st.hold, b, Compare(b))
      OBVIOUS
    <3> PICK x : x = EdgeAfter(b, h.out)
      OBVIOUS
    <3> PICK sh : sh = st.hold
      OBVIOUS
    <3> PICK se : se = st.edge
      OBVIOUS
    <3>1. HoldKept(h, n + 1)' /\ ~Duplicate(sh, b)
      BY <1>2, <1>4, <2>2, HoldNext
    <3>2. /\ EdgeKept(x, n + 1)' /\ ~Duplicate(se, b)
          /\ EdgeFires(se, b, h.out) <=> Rises(n + 1)'
      BY <1>2, <1>4, <2>2, <3>1, EdgeNext
    <3>3. HoldTo(q, st, b) = h
      BY <3>1 DEF HoldTo
    <3>4. EdgeTo(q, st, b) = x /\ (EdgeOut(q, st, b) <=> Rises(n + 1)')
      BY <3>2, <3>3 DEF EdgeTo, EdgeOut
    <3>5. /\ G.hold = h /\ G.edge = x /\ G.cross = None /\ e.hold = h.out
          /\ e.trigger = EdgeOut(q, st, b) /\ TriggerOut(q, st, b) = EdgeOut(q, st, b)
      BY <1>4, <2>2, <3>3, <3>4 DEF Outcome, Reports, TriggerOut
    <3> QED
      BY <2>2, <3>1, <3>2, <3>4, <3>5
  <2> QED
    BY <2>1, <2>2
<1>6. IF HasLevel(q)
      THEN /\ LevelKept(G.level, n + 1)'
           /\ ArmedAt(n + 1)' <=> e.trigger /\ PendingBefore(n + 1) = {} /\ PrimaryReady(b)
                                    /\ b.lower # 0
           /\ e.event <=> \E a \in PendingBefore(n + 1) : Hits(a, n + 1)'
           /\ e.event <=> LevelOut(q, st, b)
      ELSE G.level = None
  <2>1. CASE ~HasLevel(q)
    BY <1>4, <2>1 DEF Outcome
  <2>2. CASE HasLevel(q)
    <3> PICK trig \in BOOLEAN : trig = TriggerOut(q, st, b)
      BY DEF TriggerOut, CrossOut, EdgeOut
    <3> PICK l : l = st.level
      OBVIOUS
    <3>1. e.trigger <=> trig
      BY <1>5
    <3>2. LevelTo(q, st, b) = IF Duplicate(l, b) THEN l ELSE LevelAfter(q, l, b, trig)
      BY DEF LevelTo
    <3>3. ~Duplicate(l, b)
      <4>1. CASE n = 0
        BY <1>4, <2>2, <4>1 DEF Duplicate
      <4>2. CASE n # 0
        <5>1. LevelKept(l, n)
          BY <1>4, <2>2, <4>2
        <5>2. l.t = log[n].bar.t /\ b.t > log[n].bar.t
          BY <4>2, <5>1 DEF LevelKept, Later
        <5>3. log[n] \in Entries
          BY <1>1, <4>2
        <5>4. log[n].bar.t \in Int /\ b.t \in Int
          BY <5>3 DEF Entries, Bars, Later
        <5> QED
          BY <5>2, <5>4 DEF Duplicate
      <4> QED
        BY <4>1, <4>2
    <3> PICK x : x = LevelAfter(q, l, b, trig)
      OBVIOUS
    <3>4. G.level = x /\ LevelTo(q, st, b) = x /\ e.level = x
      BY <2>2, <3>2, <3>3 DEF Outcome, Reports
    <3>5. /\ LevelKept(x, n + 1)'
          /\ ArmedAt(n + 1)' <=> trig /\ PendingBefore(n + 1) = {} /\ PrimaryReady(e.bar)
                                   /\ e.bar.lower # 0
          /\ LevelFires(l, x) <=> \E a \in PendingBefore(n + 1) : Hits(a, n + 1)'
      <4>1. IF n = 0 THEN l = None ELSE LevelKept(l, n)
        BY <1>4, <2>2
      <4>2. x = LevelAfter(gr, l, e.bar, trig)
        BY <1>2
      <4> QED
        BY <1>2, <1>3, <2>2, <3>4, <4>1, <4>2, LevelMoves
    <3>6. LevelOut(q, st, b) <=> LevelFires(l, x)
      BY <3>4 DEF LevelOut
    <3>7. e.event = LevelOut(q, st, b)
      BY <2>2 DEF Outcome, Reports
    <3> QED
      BY <1>2, <2>2, <3>1, <3>4, <3>5, <3>6, <3>7
  <2> QED
    BY <2>1, <2>2
<1>7. CoolKept(G.cool, n + 1)' /\ G.cool = CoolAfter(st.cool, pos)
  <2> PICK flat : flat = st.cool
    OBVIOUS
  <2> PICK x : x = CoolAfter(flat, pos)
    OBVIOUS
  <2>1. IF n = 0 THEN flat = -1 ELSE CoolKept(flat, n)
    BY <1>4
  <2>2. CoolKept(x, n + 1)'
    BY <1>1, <1>2, <2>1, CoolNext
  <2>3. G.cool = x
    BY DEF Outcome
  <2> QED
    BY <2>2, <2>3
<1>8. NodesKept(s.g, n + 1)'
  <2>1. DOMAIN G = Keeping
    BY DEF Outcome
  <2>2. NodesKept(G, n + 1)'
    BY <1>1, <1>5, <1>6, <1>7, <2>1 DEF NodesKept
  <2> QED
    BY <2>2
<1>9. ReducersAt(n + 1)'
  <2>1. CASE q.wiring = "cross"
    BY <1>1, <1>5, <2>1 DEF ReducersAt
  <2>2. CASE q.wiring # "cross"
    <3>1. /\ G.hold.out = "unready" <=> ~Ready(n + 1)'
          /\ G.hold.out = "true" <=> Held(n + 1)'
      BY <1>5, <2>2 DEF HoldKept
    <3> QED
      BY <1>1, <1>5, <2>2, <3>1 DEF ReducersAt
  <2> QED
    BY <2>1, <2>2
<1>10. OpportunityAt(n + 1)'
  <2>1. PendingBefore(n + 1)' = PendingBefore(n + 1)
    BY <1>1, EarlierLevels
  <2> QED
    BY <1>1, <1>2, <1>6, <2>1 DEF OpportunityAt
<1>11. OrderAt(n + 1)'
  <2> SUFFICES ASSUME NEW busy, busy = {k \in 1 .. n + 1 : log'[k].position # 0}
               PROVE  e.order <=> (IF HasLevel(q) THEN e.event ELSE e.trigger)
                                    /\ (busy = {} \/ (n + 1) - Max(busy) > Cooldown)
    BY <1>1 DEF OrderAt
  <2> PICK x : x = G.cool
    OBVIOUS
  <2>1. CoolKept(x, n + 1)'
    BY <1>7
  <2>2. CoolAllows(x, pos) <=> (busy = {} \/ (n + 1) - Max(busy) > Cooldown)
    <3>1. n + 1 \in Nat /\ n + 1 >= 1 /\ n + 1 = Len(log')
      BY <1>1
    <3>2. log'[n + 1].position = pos
      BY <1>1, <1>2
    <3> QED
      BY <1>1, <2>1, <3>1, <3>2, CoolSaysToo DEF CoolLaw
  <2>3. e.order <=> SignalOut(q, st, b) /\ CoolOut(st, pos)
    BY DEF Outcome, Reports
  <2>4. CoolOut(st, pos) <=> CoolAllows(x, pos)
    BY <1>7 DEF CoolOut
  <2>5. SignalOut(q, st, b) <=> IF HasLevel(q) THEN e.event ELSE e.trigger
    BY <1>5, <1>6 DEF SignalOut
  <2> QED
    BY <2>2, <2>3, <2>4, <2>5
<1>12. Histories'
  <2>1. \A m \in 1 .. n : ReducersAt(m)' /\ OpportunityAt(m)' /\ OrderAt(m)'
    BY <1>1, EarlierHistories
  <2>2. \A m \in 1 .. n + 1 : m \in 1 .. n \/ m = n + 1
    BY <1>1
  <2> QED
    BY <1>1, <1>9, <1>10, <1>11, <2>1, <2>2 DEF Histories
<1> QED
  BY <1>8, <1>12

-----------------------------------------------------------------------------
(***************************************************************************)
(* The steps of the host.                                                  *)
(***************************************************************************)
LEMMA BarTyped ==
  ASSUME WellBuilt(gr), NEW i \in Int, NEW t \in Int, NEW d \in Int,
         NEW shape \in Values \X Prices \X Nat
  PROVE  /\ Bar(i, t, d, shape) \in Bars /\ Warm(Bar(i, t, d, shape))
         /\ Bar(i, t, d, shape).i = i
<1> DEFINE c == IF i < gr.history THEN "unready" ELSE shape[1]
<1>1. shape[1] \in Values /\ shape[2] \in Prices /\ shape[3] \in Nat /\ "unready" \in Values
  BY DEF Values
<1>2. Bar(i, t, d, shape)
        = [i |-> i, t |-> t, d |-> d, cond |-> c, px |-> shape[2], lower |-> shape[3]]
  BY DEF Bar
<1>3. c \in Values /\ (c # "unready" => i >= gr.history)
  BY <1>1 DEF WellBuilt
<1> HIDE DEF c
<1>4. Bar(i, t, d, shape) \in Bars
  BY <1>1, <1>2, <1>3 DEF Bars
<1>5. Bar(i, t, d, shape).cond = c /\ Bar(i, t, d, shape).i = i
  BY <1>2
<1> QED
  BY <1>3, <1>4, <1>5 DEF Warm

\* A bar decided earlier or later is still a bar.
LEMMA DecidedAt ==
  ASSUME NEW b \in Bars, Warm(b), NEW d \in Int
  PROVE  [b EXCEPT !.d = d] \in Bars /\ Warm([b EXCEPT !.d = d])
<1> DEFINE c == [b EXCEPT !.d = d]
<1>1. c \in Bars
  BY DEF Bars
<1>2. c.cond = b.cond /\ c.i = b.i
  BY DEF Bars
<1> QED
  BY <1>1, <1>2 DEF Warm

\* The contents a bar may have are typed.
LEMMA ShapesTyped ==
  ASSUME name \in DOMAIN Graphs, NEW shape \in Shapes[name] \cup OddShapes[name]
  PROVE  shape \in Values \X Prices \X Nat
BY GraphsAssumption

\* The bar that follows is a bar.
LEMMA FollowingTyped ==
  ASSUME Types, NEW shape \in Shapes[name] \cup OddShapes[name]
  PROVE  Following(shape) \in Bars /\ Warm(Following(shape)) /\ Following(shape).i = feed.i + 1
<1>1. WellBuilt(gr) /\ shape \in Values \X Prices \X Nat
  BY GraphHere, ShapesTyped DEF Types
<1>2. feed.i + 1 \in Int /\ feed.t + 1 \in Int /\ feed.t + 2 \in Int
  BY DEF Types, Bars
<1> QED
  BY <1>1, <1>2, BarTyped DEF Following

\* The bar that a query is about.
LEMMA Asked ==
  ASSUME Types, NextBar \/ OddBar \/ AskAgain
  PROVE  \E b : b \in Bars /\ Warm(b) /\ Asks(b) /\ (log = <<>> => b.i = feed.i + 1)
<1>1. WellBuilt(gr)
  BY GraphHere DEF Types
<1>2. feed \in Bars /\ feed.i \in Int /\ feed.t \in Int
  BY DEF Types, Bars
<1>3. CASE NextBar
  <2>1. PICK shape \in Shapes[name] : Asks(Following(shape))
    BY <1>3 DEF NextBar
  <2> QED
    BY <2>1, FollowingTyped
<1>4. CASE OddBar
  <2>1. PICK shape \in OddShapes[name] : \E b \in Irregular(shape) : Asks(b)
    BY <1>4 DEF OddBar
  <2>2. PICK b \in Irregular(shape) : Asks(b)
    BY <2>1
  <2>3. shape \in Values \X Prices \X Nat
    BY ShapesTyped DEF Types
  <2>4. Following(shape) \in Bars /\ Warm(Following(shape))
    BY FollowingTyped
  <2>5. /\ feed.i + 1 \in Int /\ feed.i + 2 \in Int /\ feed.i - 1 \in Int
        /\ feed.t + 1 \in Int /\ feed.t + 2 \in Int /\ feed.t + 3 \in Int /\ feed.t - 1 \in Int
    BY <1>2
  <2>6. \/ \E d \in Int : b = [Following(shape) EXCEPT !.d = d]
        \/ \E i, t, d \in Int : b = Bar(i, t, d, shape)
    <3>1. \/ b = [Following(shape) EXCEPT !.d = feed.t + 1]
          \/ b = [Following(shape) EXCEPT !.d = feed.t + 3]
          \/ b = Bar(feed.i + 1, feed.t + 2, feed.t + 3, shape)
          \/ b = Bar(feed.i + 2, feed.t + 2, feed.t + 3, shape)
          \/ b = Bar(feed.i, feed.t, feed.t + 1, shape)
          \/ b = Bar(feed.i + 1, feed.t, feed.t + 1, shape)
          \/ b = Bar(feed.i, feed.t + 1, feed.t + 2, shape)
          \/ b = Bar(feed.i - 1, feed.t - 1, feed.t, shape)
      BY DEF Irregular
    <3> QED
      BY <1>2, <2>5, <3>1
  <2>7. b \in Bars /\ Warm(b)
    BY <1>1, <2>3, <2>4, <2>6, BarTyped, DecidedAt
  <2>8. log # <<>>
    BY <1>4 DEF OddBar
  <2> QED
    BY <2>2, <2>7, <2>8
<1>5. CASE AskAgain
  BY <1>5 DEF AskAgain, Types
<1> QED
  BY <1>3, <1>4, <1>5

\* A decided bar is later than the one before: the nodes would have refused any other.
LEMMA DecidedLater ==
  ASSUME Types, WellBuilt(gr), NEW n, n = Len(log), NEW b \in Bars, Warm(b), NEW st,
         Before(st, n), NEW pos, NEW kn, NEW s, Outcome(gr, s, st, b, pos, kn), Growing,
         n = 0 => b.i = 1, n # 0 => b.i # log[n].bar.i
  PROVE  Later(n, b)
<1>1. n \in Nat /\ log \in Seq(Entries)
  BY DEF Types
<1>2. CASE n = 0
  BY <1>2 DEF Later
<1>3. CASE n # 0
  <2> PICK l : l = log[n].bar
    OBVIOUS
  <2>1. log[n] \in Entries /\ n \in 1 .. Len(log)
    BY <1>1, <1>3
  <2>2. l \in Bars /\ l.i \in Int /\ l.t \in Int /\ b.i \in Int /\ b.t \in Int /\ l.i >= 1
    BY <2>1 DEF Entries, Bars, Growing
  <2>3. NodesKept(st, n)
    BY <1>3 DEF Before
  <2>4. b.t > l.t /\ b.i > l.i
    <3>1. CASE HasLevel(gr)
      <4>1. LevelKept(st.level, n) /\ ~LevelRaises(st.level, b)
        BY <2>3, <3>1 DEF NodesKept, Outcome
      <4>2. st.level # None /\ st.level.t = l.t /\ st.level.i = l.i
        BY <4>1, NoneAssumption DEF LevelKept
      <4>3. b.i # l.i
        BY <1>3
      <4> QED
        BY <2>2, <4>1, <4>2, <4>3 DEF LevelRaises, Duplicate
    <3>2. CASE ~HasLevel(gr)
      <4>1. gr.wiring = "plain"
        BY <3>2 DEF HasLevel
      <4>2. HoldKept(st.hold, n) /\ ~CursorRaises(st.hold, b)
        BY <2>3, <4>1 DEF NodesKept, Outcome
      <4>3. st.hold # None /\ st.hold.t = l.t /\ st.hold.i = l.i
        BY <4>2, NoneAssumption DEF HoldKept
      <4>4. b.i # l.i
        BY <1>3
      <4> QED
        BY <2>2, <4>2, <4>3, <4>4 DEF CursorRaises
    <3> QED
      BY <3>1, <3>2
  <2> QED
    BY <1>3, <2>2, <2>4 DEF Later
<1> QED
  BY <1>2, <1>3

\* Nothing is said of the log by a step that decides nothing.
LEMMA HistoryStays ==
  ASSUME UNCHANGED <<name, log, saved>>, log \in Seq(Entries), Growing, Kept,
         ReducersFollowHistory, OpportunityExplained, CooldownExact
  PROVE  (Growing /\ Kept /\ ReducersFollowHistory /\ OpportunityExplained /\ CooldownExact)'
<1>1. gr' = gr /\ log' = log /\ saved' = saved
  BY GraphStays
<1>2. Growing'
  BY <1>1 DEF Growing, Warm, HasLevel
<1>3. \A k : /\ Follows(k)' <=> Follows(k)
             /\ OnTrue(k)' <=> OnTrue(k)
             /\ Ready(k)' <=> Ready(k)
             /\ ArmedAt(k)' <=> ArmedAt(k)
             /\ Crosses(k)' <=> Crosses(k)
             /\ Held(k)' <=> Held(k)
  BY <1>1 DEF Follows, OnTrue, Ready, ArmedAt, Crosses, Held
<1>4. \A k : /\ Rises(k)' <=> Rises(k)
             /\ \A c : Run(k, c)' <=> Run(k, c)
  BY <1>3 DEF Rises, Run
<1>5. \A a, k : Survives(a, k)' <=> Survives(a, k)
  BY <1>1, <1>3 DEF Survives
<1>6. \A a, k : Hits(a, k)' <=> Hits(a, k)
  BY <1>1, <1>5 DEF Hits
<1>7. \A a, k : Pending(a, k)' <=> Pending(a, k)
  BY <1>5, <1>6 DEF Pending
<1>8. \A k : PendingBefore(k)' = PendingBefore(k)
  <2> SUFFICES ASSUME NEW k PROVE PendingBefore(k)' = PendingBefore(k)
    OBVIOUS
  <2>1. \A a : a \in PendingBefore(k)' <=> a \in PendingBefore(k)
    BY <1>3, <1>7 DEF PendingBefore
  <2> QED
    BY <2>1
<1>9. Kept'
  <2>1. CASE log = <<>>
    BY <1>1, <2>1 DEF Kept
  <2>2. CASE log # <<>>
    <3> PICK st : st = saved.g
      OBVIOUS
    <3> PICK n : n = Len(log)
      OBVIOUS
    <3>1. NodesKept(st, n) /\ saved.stepped = log[n].bar.i
      BY <2>2 DEF Kept
    <3>2. HoldKept(st.hold, n)' <=> HoldKept(st.hold, n)
      BY <1>1, <1>3, <1>4 DEF HoldKept
    <3>3. EdgeKept(st.edge, n)' <=> EdgeKept(st.edge, n)
      BY <1>1, <1>3 DEF EdgeKept
    <3>4. CrossKept(st.cross, n)' <=> CrossKept(st.cross, n)
      BY <1>1 DEF CrossKept
    <3>5. LevelKept(st.level, n)' <=> LevelKept(st.level, n)
      BY <1>1, <1>8 DEF LevelKept
    <3>6. CoolKept(st.cool, n)' <=> CoolKept(st.cool, n)
      BY <1>1 DEF CoolKept
    <3>7. NodesKept(st, n)'
      BY <1>1, <3>1, <3>2, <3>3, <3>4, <3>5, <3>6 DEF NodesKept
    <3> QED
      BY <1>1, <2>2, <3>1, <3>7 DEF Kept
  <2> QED
    BY <2>1, <2>2
<1>10. ReducersFollowHistory' /\ OpportunityExplained' /\ CooldownExact'
  <2>1. Histories
    BY HistoriesAre
  <2>2. \A m : ReducersAt(m)' <=> ReducersAt(m)
    BY <1>1, <1>3, <1>4 DEF ReducersAt
  <2>3. \A m : OpportunityAt(m)' <=> OpportunityAt(m)
    BY <1>1, <1>3, <1>6, <1>8 DEF OpportunityAt
  <2>4. \A m : OrderAt(m)' <=> OrderAt(m)
    BY <1>1 DEF OrderAt
  <2>5. Histories'
    BY <1>1, <2>1, <2>2, <2>3, <2>4 DEF Histories
  <2> QED
    BY <1>1, <2>5, HistoriesAreToo DEF HistoriesLaw
<1> QED
  BY <1>2, <1>9, <1>10

\* A query that decides a bar.
LEMMA DecisionKeeps ==
  ASSUME GraphInv, up, NEW b \in Bars, Warm(b), log = <<>> => b.i = feed.i + 1,
         b.i # stepped, UNCHANGED <<name, hostVars>>, feed' = b, NEW s,
         s = Step(gr, g, b, position, known), ~s.raised, Stepped(b)
  PROVE  GraphInv'
<1>1. /\ Types /\ Growing /\ Running /\ Kept /\ LongKnown
      /\ ReducersFollowHistory /\ OpportunityExplained /\ CooldownExact
  BY DEF GraphInv
<1> PICK n : n = Len(log)
  OBVIOUS
<1> PICK st : st = g
  OBVIOUS
<1> PICK pos : pos = position
  OBVIOUS
<1> PICK kn : kn = known
  OBVIOUS
<1>2. WellBuilt(gr) /\ log \in Seq(Entries) /\ n \in Nat /\ pos \in Nat /\ kn \in {0, pos}
  BY <1>1, GraphHere DEF Types, LongKnown
<1>3. st = saved.g /\ stepped = saved.stepped /\ (log = <<>> => b.i = 1)
  BY <1>1 DEF Running
<1>4. n = 0 <=> log = <<>>
  BY <1>2
<1>5. Before(st, n) /\ (n # 0 => b.i # log[n].bar.i)
  BY <1>1, <1>3, <1>4 DEF Before, Kept
<1>6. DOMAIN st = Keeping
  <2>1. CASE n = 0
    BY <1>5, <2>1 DEF Before, NoNodes, Keeping
  <2>2. CASE n # 0
    BY <1>5, <2>2 DEF Before, NodesKept
  <2> QED
    BY <2>1, <2>2
<1>7. Outcome(gr, s, st, b, pos, kn)
  <2> PICK q : q = gr
    OBVIOUS
  <2>1. s = Step(q, st, b, pos, kn)
    OBVIOUS
  <2> QED
    BY <1>2, <1>6, <2>1, Decision
<1>8. Later(n, b)
  BY <1>1, <1>2, <1>3, <1>4, <1>5, <1>7, DecidedLater
<1> PICK r : r = [order |-> s.out.gate, exit |-> s.out.exit]
  OBVIOUS
<1> PICK e : e = Decided(b, s)
  OBVIOUS
<1>9. /\ g' = s.g /\ stepped' = b.i /\ result' = r /\ answer' = Answered(r)
      /\ saved' = [g |-> s.g, stepped |-> b.i] /\ log' = Append(log, e) /\ up' = TRUE
  BY DEF Stepped
<1>10. e = [bar |-> b, position |-> pos, hold |-> s.out.hold, trigger |-> Trigger(gr, s.out),
            event |-> s.out.level, level |-> s.g.level, order |-> s.out.gate]
  BY DEF Decided
<1>11. e \in Entries
  <2>1. /\ s.out.hold \in Values /\ Trigger(gr, s.out) \in BOOLEAN
        /\ s.out.level \in BOOLEAN /\ s.out.gate \in BOOLEAN
        /\ s.g.level \in LevelState \cup {None}
    BY <1>2, <1>5, <1>7, <1>8, EntryTyped
  <2> QED
    BY <1>2, <1>10, <2>1 DEF Entries
<1>12. Extends(e) /\ Reports(e, s, b, pos)
  BY <1>2, <1>9, <1>10, <1>11 DEF Extends, Reports
<1>13. NodesKept(s.g, n + 1)' /\ Histories'
  <2>1. Histories
    BY <1>1, <1>2, HistoriesAre
  <2> QED
    BY <1>2, <1>5, <1>7, <1>8, <1>12, <2>1, DecisionMoves
<1>14. /\ Len(log') = n + 1 /\ log'[n + 1] = e /\ gr' = gr /\ log' \in Seq(Entries)
       /\ \A k \in 1 .. n : log'[k] = log[k]
       /\ log' # <<>> /\ e.bar = b /\ e.position = pos
  <2>1. /\ Len(log') = n + 1 /\ log'[n + 1] = e /\ gr' = gr /\ log' \in Seq(Entries)
        /\ \A k \in 1 .. n : log'[k] = log[k]
    BY <1>12, LogGrows
  <2>2. log' # <<>>
    BY <1>2, <2>1
  <2> QED
    BY <1>12, <2>1, <2>2 DEF Reports
<1>15. Types'
  BY <1>1, <1>14 DEF Types, Warm, hostVars
<1>16. Growing'
  <2> SUFFICES ASSUME NEW k \in 1 .. n + 1
               PROVE  /\ log'[k].bar.i >= 1 /\ Warm(log[k].bar)'
                      /\ ~HasLevel(gr)' => ~log'[k].event
                      /\ k > 1 => /\ log'[k - 1].bar.t < log'[k].bar.t
                                  /\ log'[k - 1].bar.i < log'[k].bar.i
    BY <1>14 DEF Growing
  <2>3. /\ HasLevel(gr)' <=> HasLevel(gr)
        /\ ~HasLevel(gr) => ~e.event
    <3>1. ~HasLevel(gr) => s.out.level = FALSE
      BY <1>7 DEF Outcome
    <3>2. e.event = s.out.level
      BY <1>12 DEF Reports
    <3> QED
      BY <1>14, <3>1, <3>2 DEF HasLevel
  <2>1. CASE k \in 1 .. n
    <3>1. k > 1 => k - 1 \in 1 .. n
      BY <1>2
    <3> QED
      BY <1>1, <1>14, <2>1, <2>3, <3>1 DEF Growing, Warm
  <2>2. CASE k = n + 1
    <3>1. k - 1 = n /\ (k > 1 => n \in 1 .. n /\ n # 0)
      BY <1>2, <2>2
    <3>2. k > 1 => log[n] \in Entries
      BY <1>2, <3>1
    <3>3. k > 1 => log[n].bar.t \in Int /\ log[n].bar.i \in Int
      BY <3>2 DEF Entries, Bars
    <3>4. b.t \in Int /\ b.i \in Int
      BY DEF Bars
    <3> QED
      BY <1>8, <1>14, <2>2, <2>3, <3>1, <3>3, <3>4 DEF Later, Warm
  <2> QED
    BY <1>2, <2>1, <2>2
<1>17. Running'
  BY <1>9, <1>14 DEF Running
<1>18. Kept'
  BY <1>9, <1>13, <1>14 DEF Kept
<1>19. ReducersFollowHistory' /\ OpportunityExplained' /\ CooldownExact'
  BY <1>13, <1>14, HistoriesAreToo DEF HistoriesLaw
<1>20. LongKnown'
  <2>1. r.exit # 0 => r.exit = pos /\ kn = pos
    <3>1. s.out.exit # 0 => s.out.exit = kn /\ pos # 0
      BY <1>7 DEF Outcome, ExitOut, PositionExit
    <3>2. r.exit = s.out.exit
      OBVIOUS
    <3> QED
      BY <1>2, <3>1, <3>2
  <2>2. answer'.exit # 0 => r.exit # 0 /\ answer'.exit = r.exit
    <3>1. answer'.exit = ExitFor(r.exit)
      BY <1>9 DEF Answered
    <3> QED
      BY <3>1 DEF ExitFor
  <2>3. position' = pos /\ known' = kn /\ result' = r /\ log'[Len(log')].position = pos
    BY <1>9, <1>14 DEF hostVars
  <2> QED
    BY <1>2, <1>14, <2>1, <2>2, <2>3 DEF LongKnown
<1> QED
  BY <1>15, <1>16, <1>17, <1>18, <1>19, <1>20 DEF GraphInv

\* Any query.
LEMMA QueryKeeps ==
  ASSUME GraphInv, NextBar \/ OddBar \/ AskAgain
  PROVE  GraphInv'
<1>1. /\ Types /\ Growing /\ Running /\ Kept /\ LongKnown
      /\ ReducersFollowHistory /\ OpportunityExplained /\ CooldownExact
  BY DEF GraphInv
<1>2. PICK b : b \in Bars /\ Warm(b) /\ Asks(b) /\ (log = <<>> => b.i = feed.i + 1)
  BY <1>1, Asked
<1>3. up /\ feed' = b /\ EnsureStepped(b) /\ UNCHANGED <<name, hostVars>>
  BY <1>2 DEF Asks
<1>4. ASSUME UNCHANGED <<saved, log>>
      PROVE  /\ Types' /\ Growing' /\ Kept'
             /\ ReducersFollowHistory' /\ OpportunityExplained' /\ CooldownExact'
  <2>1. log \in Seq(Entries) /\ gr' = gr
    BY <1>1, <1>3, GraphStays DEF Types
  <2>2. Types'
    BY <1>1, <1>2, <1>3, <1>4, <2>1 DEF Types, Warm, hostVars
  <2> QED
    BY <1>1, <1>3, <1>4, <2>1, <2>2, HistoryStays
<1>5. ASSUME answer' = Refused, up' = FALSE, UNCHANGED <<result, saved, log>>
      PROVE  GraphInv'
  <2>1. Running'
    BY <1>5 DEF Running
  <2>2. LongKnown'
    BY <1>1, <1>3, <1>5 DEF LongKnown, Refused, hostVars
  <2> QED
    BY <1>4, <1>5, <2>1, <2>2 DEF GraphInv
<1>6. CASE Refuses(gr, g, b)
  BY <1>3, <1>5, <1>6 DEF EnsureStepped
<1>7. CASE ~Refuses(gr, g, b) /\ b.i # stepped
  <2>1. Stepped(b)
    BY <1>3, <1>7 DEF EnsureStepped
  <2> PICK s : s = Step(gr, g, b, position, known)
    OBVIOUS
  <2>2. CASE s.raised
    <3>1. answer' = Refused /\ up' = FALSE /\ UNCHANGED <<result, saved, log>>
      BY <2>1, <2>2 DEF Stepped
    <3> QED
      BY <1>5, <3>1
  <2>3. CASE ~s.raised
    BY <1>2, <1>3, <1>7, <2>1, <2>3, DecisionKeeps
  <2> QED
    BY <2>2, <2>3
<1>8. CASE ~Refuses(gr, g, b) /\ b.i = stepped
  <2>1. Cached
    BY <1>3, <1>8 DEF EnsureStepped
  <2>2. /\ result' = IF result = None THEN Nothing ELSE result
        /\ answer' = Answered(result') /\ UNCHANGED <<g, stepped, saved, log, up>>
    BY <2>1 DEF Cached
  <2>3. log # <<>>
    <3>1. ASSUME log = <<>> PROVE FALSE
      <4>1. b.i = 0 + 1 /\ stepped = 0 - 1
        BY <1>1, <1>2, <1>3, <3>1 DEF Running, Kept
      <4>2. b.i = stepped
        BY <1>8
      <4>3. 0 + 1 # 0 - 1
        OBVIOUS
      <4> QED
        BY <4>1, <4>2, <4>3
    <3> QED
      BY <3>1
  <2>4. Running'
    BY <1>1, <2>2, <2>3 DEF Running
  <2>5. result'.exit # 0 => result'.exit = log[Len(log)].position
    BY <1>1, <2>2 DEF LongKnown, Nothing
  <2>6. answer'.exit # 0 => answer'.exit = result'.exit /\ result'.exit # 0 /\ result'.exit = known
                            /\ known # 0
    <3> PICK r : r = result'
      OBVIOUS
    <3>1. answer'.exit = ExitFor(r.exit)
      BY <2>2 DEF Answered
    <3> QED
      BY <3>1 DEF ExitFor
  <2>7. LongKnown'
    BY <1>1, <1>3, <2>2, <2>3, <2>5, <2>6 DEF LongKnown, hostVars
  <2> QED
    BY <1>4, <2>2, <2>4, <2>7 DEF GraphInv
<1> QED
  BY <1>6, <1>7, <1>8

\* Opening or closing a position keeps the invariant.
LEMMA PositionKeeps ==
  ASSUME GraphInv, OpenPosition \/ ClosePosition
  PROVE  GraphInv'
<1>1. /\ Types /\ Growing /\ Running /\ Kept /\ LongKnown
      /\ ReducersFollowHistory /\ OpportunityExplained /\ CooldownExact
  BY DEF GraphInv
<1>2. /\ UNCHANGED <<name, feed, g, stepped, result, saved, log, up>> /\ answer' = NoAnswer
      /\ position' \in Nat /\ opened' \in Nat /\ known' \in {0, position'}
  BY <1>1 DEF OpenPosition, ClosePosition, strategyVars, Types, LongKnown
<1>3. gr' = gr
  BY <1>2, GraphStays
<1>4. Types'
  BY <1>1, <1>2, <1>3 DEF Types, Warm
<1>5. Running' /\ LongKnown'
  BY <1>1, <1>2 DEF Running, LongKnown, NoAnswer
<1>6. (Growing /\ Kept /\ ReducersFollowHistory /\ OpportunityExplained /\ CooldownExact)'
  BY <1>1, <1>2, HistoryStays DEF Types
<1> QED
  BY <1>4, <1>5, <1>6 DEF GraphInv

\* The bar before all bars is a bar.
LEMMA FirstBar ==
  ASSUME WellBuilt(gr)
  PROVE  /\ Bar(0, 0, 1, <<"unready", Void, 0>>) \in Bars
         /\ Warm(Bar(0, 0, 1, <<"unready", Void, 0>>))
         /\ Bar(0, 0, 1, <<"unready", Void, 0>>).i = 0
<1> DEFINE shape == <<"unready", Void, 0>>
<1>1. shape \in Values \X Prices \X Nat
  BY DEF Values, Prices, Void
<1> HIDE DEF shape
<1>2. Bar(0, 0, 1, shape) \in Bars /\ Warm(Bar(0, 0, 1, shape)) /\ Bar(0, 0, 1, shape).i = 0
  BY <1>1, BarTyped
<1> QED
  BY <1>2 DEF shape

\* A restart from the checkpoint keeps the invariant.
LEMMA RestartKeeps ==
  ASSUME GraphInv, Restart
  PROVE  GraphInv'
<1>1. /\ Types /\ Growing /\ Running /\ Kept /\ LongKnown
      /\ ReducersFollowHistory /\ OpportunityExplained /\ CooldownExact
  BY DEF GraphInv
<1>2. /\ UNCHANGED <<name, odd, saved, position, opened, log>> /\ answer' = NoAnswer
      /\ g' = saved.g /\ stepped' = saved.stepped /\ result' = None /\ known' = 0 /\ up' = TRUE
      /\ feed' = IF log = <<>> THEN Bar(0, 0, 1, <<"unready", Void, 0>>) ELSE Last(log).bar
  BY DEF Restart
<1>3. gr' = gr /\ WellBuilt(gr)
  BY <1>1, <1>2, GraphStays, GraphHere DEF Types
<1>4. feed' \in Bars /\ Warm(feed)'
  <2>1. CASE log = <<>>
    BY <1>2, <1>3, <2>1, FirstBar DEF Warm
  <2>2. CASE log # <<>>
    <3>1. log \in Seq(Entries) /\ Len(log) \in 1 .. Len(log) /\ Last(log) = log[Len(log)]
      BY <1>1, <2>2 DEF Types, Last
    <3>2. log[Len(log)] \in Entries
      BY <3>1
    <3>3. log[Len(log)].bar \in Bars
      BY <3>2 DEF Entries
    <3>4. Warm(log[Len(log)].bar)
      BY <1>1, <3>1 DEF Growing
    <3> QED
      BY <1>2, <1>3, <2>2, <3>1, <3>3, <3>4 DEF Warm
  <2> QED
    BY <2>1, <2>2
<1>5. Types'
  BY <1>1, <1>2, <1>4 DEF Types
<1>6. Running'
  <2>1. log = <<>> => feed'.i = 0
    BY <1>2, <1>3, FirstBar
  <2> QED
    BY <1>2, <2>1 DEF Running
<1>7. LongKnown'
  BY <1>1, <1>2 DEF LongKnown, NoAnswer
<1>8. (Growing /\ Kept /\ ReducersFollowHistory /\ OpportunityExplained /\ CooldownExact)'
  BY <1>1, <1>2, HistoryStays DEF Types
<1> QED
  BY <1>5, <1>6, <1>7, <1>8 DEF GraphInv

\* The invariant holds at first.
LEMMA GraphInitially == Init => GraphInv
<1> SUFFICES ASSUME Init PROVE GraphInv
  OBVIOUS
<1>1. /\ name \in DOMAIN Graphs /\ feed = Bar(0, 0, 1, <<"unready", Void, 0>>)
      /\ g = NoNodes /\ stepped = -1 /\ result = None /\ answer = NoAnswer
      /\ saved = [g |-> NoNodes, stepped |-> -1] /\ position = 0 /\ opened = 0 /\ known = 0
      /\ log = <<>>
  BY DEF Init
<1>2. WellBuilt(gr)
  BY <1>1, GraphHere
<1>3. feed \in Bars /\ Warm(feed) /\ feed.i = 0
  BY <1>1, <1>2, FirstBar
<1>4. log \in Seq(Entries) /\ Len(log) = 0 /\ DOMAIN log = {}
  BY <1>1
<1>5. Types /\ Growing
  BY <1>1, <1>3, <1>4 DEF Types, Growing
<1>6. Running /\ Kept
  BY <1>1, <1>3 DEF Running, Kept
<1>7. LongKnown
  BY <1>1 DEF LongKnown, NoAnswer
<1>8. ReducersFollowHistory /\ OpportunityExplained /\ CooldownExact
  BY <1>4 DEF ReducersFollowHistory, OpportunityExplained, CooldownExact
<1> QED
  BY <1>5, <1>6, <1>7, <1>8 DEF GraphInv

\* Every action keeps the invariant.
LEMMA GraphNext == GraphInv /\ [Next]_vars => GraphInv'
<1> SUFFICES ASSUME GraphInv, [Next]_vars PROVE GraphInv'
  OBVIOUS
<1>1. CASE NextBar \/ OddBar \/ AskAgain
  BY <1>1, QueryKeeps
<1>2. CASE OpenPosition \/ ClosePosition
  BY <1>2, PositionKeeps
<1>3. CASE Restart
  BY <1>3, RestartKeeps
<1>4. CASE UNCHANGED vars
  <2>1. /\ Types /\ Growing /\ Running /\ Kept /\ LongKnown
        /\ ReducersFollowHistory /\ OpportunityExplained /\ CooldownExact
    BY DEF GraphInv
  <2>2. UNCHANGED <<name, feed, g, stepped, result, answer, saved, position, opened, known, log,
                    up>>
    BY <1>4 DEF vars, strategyVars, hostVars
  <2>3. gr' = gr
    BY <2>2, GraphStays
  <2>4. Types' /\ Running' /\ LongKnown'
    BY <2>1, <2>2, <2>3 DEF Types, Warm, Running, LongKnown
  <2>5. (Growing /\ Kept /\ ReducersFollowHistory /\ OpportunityExplained /\ CooldownExact)'
    BY <2>1, <2>2, HistoryStays DEF Types
  <2> QED
    BY <2>4, <2>5 DEF GraphInv
<1> QED
  BY <1>1, <1>2, <1>3, <1>4 DEF Next

\* The invariant of a strategy and its host, for every graph and every bar the feed may bring:
\* nodes, checkpoint, decided bars and answers fit together (graph/strategy.py, interp.py).
THEOREM GraphInvariant == Spec => []GraphInv
<1>1. Init => GraphInv
  BY GraphInitially
<1>2. GraphInv /\ [Next]_vars => GraphInv'
  BY GraphNext
<1> QED
  BY <1>1, <1>2, PTL DEF Spec

\* Holding conditions, rising edges and crossings say what the decided bars say, in every graph
\* (nodes/condition_reducers.py, nodes/cross.py).
THEOREM ReducersExact == Spec => []ReducersFollowHistory
<1>1. GraphInv => ReducersFollowHistory
  BY DEF GraphInv
<1> QED
  BY <1>1, GraphInvariant, PTL

\* Levels are armed and fire exactly when the decided bars say so (nodes/levels.py).
THEOREM LevelsExact == Spec => []OpportunityExplained
<1>1. GraphInv => OpportunityExplained
  BY DEF GraphInv
<1> QED
  BY <1>1, GraphInvariant, PTL

\* Orders are routed exactly outside the cooldown (nodes/policy.py, nodes/interp.py).
THEOREM CooldownHolds == Spec => []CooldownExact
<1>1. GraphInv => CooldownExact
  BY DEF GraphInv
<1> QED
  BY <1>1, GraphInvariant, PTL

\* An exit is only ever asked of the long that was open when its bar was decided
\* (graph/strategy.py, get_position_exit_request).
THEOREM ExitsAreCurrent == Spec => []ExitIsCurrent
<1>1. GraphInv => ExitIsCurrent
  BY DEF GraphInv, LongKnown, ExitIsCurrent, Last
<1> QED
  BY <1>1, GraphInvariant, PTL

\* The invariant makes the kept checkpoint acceptable.
LEMMA CheckpointIsValid ==
  ASSUME GraphInv
  PROVE  CheckpointRestores
<1>1. Types /\ Growing /\ Kept /\ WellBuilt(gr)
  BY GraphHere DEF GraphInv, Types
<1> PICK q : q = gr
  OBVIOUS
<1> PICK st : st = saved.g
  OBVIOUS
<1> PICK n : n = Len(log)
  OBVIOUS
<1>2. /\ q.wiring \in {"plain", "edge", "cross"} /\ ToSet(q.order) = Nodes(q)
      /\ q.bars \in Nat /\ q.bars >= 1
  BY <1>1 DEF WellBuilt
<1>3. CASE log = <<>>
  <2>1. st = NoNodes /\ saved.stepped = -1
    BY <1>1, <1>3 DEF Kept
  <2> QED
    BY <2>1 DEF CheckpointRestores, ValidCheckpoint, ReducersValid, LevelGraphValid
<1>4. CASE log # <<>>
  <2> PICK i : i = log[n].bar.i
    OBVIOUS
  <2>1. NodesKept(st, n) /\ saved.stepped = i /\ i >= 1 /\ i \in Int
    <3>1. n \in 1 .. Len(log) /\ log[n] \in Entries
      BY <1>1, <1>4 DEF Types
    <3> QED
      BY <1>1, <1>4, <3>1 DEF Kept, Growing, Entries, Bars
  <2>2. i # -1
    BY <2>1
  <2>3. /\ q.wiring # "cross" => HoldKept(st.hold, n) /\ EdgeKept(st.edge, n)
        /\ q.wiring = "cross" => CrossKept(st.cross, n)
        /\ HasLevel(q) => LevelKept(st.level, n)
    BY <2>1 DEF NodesKept
  <2>4. q.wiring # "cross" =>
          /\ st.hold # None /\ st.hold.i = i /\ st.edge # None /\ st.edge.i = i
          /\ st.edge.t = st.hold.t /\ st.hold.t = log[n].bar.t
    BY <2>3, NoneAssumption DEF HoldKept, EdgeKept
  <2>5. HasLevel(q) => /\ st.level # None /\ st.level.i = i /\ st.level.t = log[n].bar.t
                       /\ ValidLevelState(q, st.level)
    BY <2>3, NoneAssumption DEF LevelKept
  <2>6. q.wiring = "cross" => st.cross # None /\ st.cross.t = log[n].bar.t
    BY <2>3, NoneAssumption DEF CrossKept
  <2>7. q.wiring # "cross" => HoldConsistent(q, st.hold)
    <3> SUFFICES ASSUME q.wiring # "cross" PROVE HoldConsistent(q, st.hold)
      OBVIOUS
    <3> PICK h : h = st.hold
      OBVIOUS
    <3> PICK B : B = q.bars
      OBVIOUS
    <3>1. /\ h.count \in Nat /\ h.count <= B /\ (h.count >= B <=> Run(n, B))
          /\ h.out = "true" <=> Held(n)
          /\ h.out = "unready" => h.count = 0
      <4>1. B \in 1 .. B
        BY <1>2
      <4> QED
        BY <2>3, <4>1 DEF HoldKept, HoldState
    <3>2. Held(n) <=> Run(n, B)
      BY DEF Held, Run, OnTrue
    <3>3. (h.out = "true") = (h.count = B)
      BY <1>2, <3>1, <3>2
    <3> QED
      BY <3>1, <3>3 DEF HoldConsistent
  <2>8. ReducersValid(q, st, i)
    <3>1. q.wiring = "cross" => ToSet(q.order) \cap {"hold", "edge"} = {}
      BY <1>2, Wirings DEF CrossNodes
    <3>2. \A m \in {"hold", "edge"} : m = "hold" \/ m = "edge"
      OBVIOUS
    <3>3. CASE q.wiring = "cross"
      BY <3>1, <3>3 DEF ReducersValid
    <3>4. CASE q.wiring # "cross"
      <4>1. \A m \in {"hold", "edge"} : st[m] # None /\ st[m].i = i /\ st[m].t = st.hold.t
        BY <2>4, <3>4
      <4> QED
        BY <2>2, <2>7, <3>4, <4>1 DEF ReducersValid
    <3> QED
      BY <3>3, <3>4
  <2>9. HasLevel(q) => LevelGraphValid(q, st, i)
    <3>1. q.wiring = "edge" =>
            \A m \in {"hold", "edge"} :
              st[m] # None /\ st[m].i = st.level.i /\ st[m].t = st.level.t
      BY <2>4, <2>5 DEF HasLevel
    <3> QED
      BY <2>2, <2>5, <2>6, <3>1 DEF LevelGraphValid, CrossValid
  <2> QED
    BY <2>1, <2>5, <2>8, <2>9 DEF CheckpointRestores, ValidCheckpoint
<1> QED
  BY <1>3, <1>4

\* The checkpoint kept after any number of bars, refusals and restarts is one that a new
\* process accepts (graph/strategy.py, checkpoint validation).
THEOREM CheckpointsRestore == Spec => []CheckpointRestores
<1>1. GraphInv => CheckpointRestores
  BY CheckpointIsValid
<1> QED
  BY <1>1, GraphInvariant, PTL

-----------------------------------------------------------------------------
(***************************************************************************)
(* The bars reported for a graph, before which nothing can happen.         *)
(***************************************************************************)
LEMMA GreaterOfTwo ==
  ASSUME NEW a \in Int, NEW c \in Int
  PROVE  Max({a, c}) = IF a >= c THEN a ELSE c
<1> DEFINE m == IF a >= c THEN a ELSE c
<1>1. m \in {a, c} /\ \A y \in {a, c} : m >= y
  OBVIOUS
<1>2. \A x \in {a, c} : (\A y \in {a, c} : x >= y) => x = m
  OBVIOUS
<1> QED
  BY <1>1, <1>2 DEF Max

\* The greatest of one number.
LEMMA GreatestOfOne ==
  ASSUME NEW a \in Int
  PROVE  Max({a}) = a
BY DEF Max

\* The first bar at which a trigger can fire.
Late(q) ==
  IF q.wiring = "cross" THEN q.history + 1
  ELSE IF q.bars = 1 THEN q.history + 1 ELSE q.history + q.bars - 1

\* The nodes that a trigger and a level hang on, and the first bars of each.
Timed == {"cond", "lower", "hold", "edge", "cross"}
FirstAt(q, n) ==
  [opportunity |-> -1,
   ready |-> IF n = "lower" THEN 1 ELSE IF n \in {"cond", "hold"} THEN q.history ELSE Late(q),
   true |-> IF n = "lower" THEN 1 ELSE IF n = "cond" THEN q.history
            ELSE IF n = "hold" THEN q.history + q.bars - 1 ELSE Late(q)]

\* The first bars of a timed node are known.
LEMMA FirstAtIs ==
  ASSUME NEW q, IsGraph(q), NEW n \in Timed
  PROVE  /\ FirstAt(q, n).ready \in Nat /\ FirstAt(q, n).true \in Nat /\ FirstAt(q, n) # Unknown
<1>1. q.history \in Nat /\ q.bars \in Nat /\ q.bars >= 1
  BY DEF IsGraph
<1>2. Late(q) \in Nat
  BY <1>1 DEF Late
<1>3. FirstAt(q, n).ready \in Nat /\ FirstAt(q, n).true \in Nat
  BY <1>1, <1>2 DEF FirstAt
<1>4. Unknown.ready = -1
  BY DEF Unknown
<1> QED
  BY <1>3, <1>4

\* Each reducer and the crossing hang on one node.
LEMMA ReducerParents ==
  ASSUME NEW q, q.wiring \in {"plain", "edge", "cross"}
  PROVE  /\ q.wiring # "cross" => Parents(q, "hold") = {"cond"} /\ Parents(q, "edge") = {"hold"}
         /\ q.wiring = "cross" => Parents(q, "cross") = {"cond"}
<1>1. \A p, m : p \in Parents(q, m) <=> <<p, m>> \in Edges(q)
  BY PlainEdges, EdgeEdges, CrossEdges
<1>2. CASE q.wiring = "plain"
  <2> DEFINE E == {<<"cool", "gate">>, <<"cond", "hold">>, <<"hold", "edge">>,
                   <<"edge", "gate">>, <<"cond", "bridge">>, <<"bridge", "exit">>}
  <2>1. \A p : (<<p, "hold">> \in E <=> p = "cond") /\ (<<p, "edge">> \in E <=> p = "hold")
    OBVIOUS
  <2>2. Edges(q) = E
    BY <1>2, EdgesOf
  <2> HIDE DEF E
  <2>3. \A p : /\ p \in Parents(q, "hold") <=> p = "cond"
               /\ p \in Parents(q, "edge") <=> p = "hold"
    BY <1>1, <2>1, <2>2
  <2> QED
    BY <1>2, <2>3
<1>3. CASE q.wiring = "edge"
  <2> DEFINE E == {<<"cool", "gate">>, <<"cond", "hold">>, <<"hold", "edge">>,
                   <<"edge", "level">>, <<"lower", "level">>, <<"level", "gate">>}
  <2>1. \A p : (<<p, "hold">> \in E <=> p = "cond") /\ (<<p, "edge">> \in E <=> p = "hold")
    OBVIOUS
  <2>2. Edges(q) = E
    BY <1>3, EdgesOf
  <2> HIDE DEF E
  <2>3. \A p : /\ p \in Parents(q, "hold") <=> p = "cond"
               /\ p \in Parents(q, "edge") <=> p = "hold"
    BY <1>1, <2>1, <2>2
  <2> QED
    BY <1>3, <2>3
<1>4. CASE q.wiring = "cross"
  <2> DEFINE E == {<<"cool", "gate">>, <<"cond", "cross">>, <<"cross", "level">>,
                   <<"lower", "level">>, <<"level", "gate">>}
  <2>1. \A p : <<p, "cross">> \in E <=> p = "cond"
    OBVIOUS
  <2>2. Edges(q) = E
    BY <1>4, EdgesOf
  <2> HIDE DEF E
  <2>3. \A p : p \in Parents(q, "cross") <=> p = "cond"
    BY <1>1, <2>1, <2>2
  <2> QED
    BY <1>4, <2>3
<1> QED
  BY <1>2, <1>3, <1>4

\* One more node in order: it reports its first bars if its parents report theirs.
LEMMA FirstVisited ==
  ASSUME NEW q, IsGraph(q), NEW F, DOMAIN F = Nodes(q), NEW done,
         \A m \in done \cap Timed : F[m] = FirstAt(q, m),
         NEW n, n \in Nodes(q), n \notin done, Parents(q, n) \subseteq done
  PROVE  /\ DOMAIN ConditionWith(q, F, n) = Nodes(q)
         /\ \A m \in (done \cup {n}) \cap Timed : ConditionWith(q, F, n)[m] = FirstAt(q, m)
<1> DEFINE parents == {F[p] : p \in Parents(q, n)}
           value == IF n \in {"cond", "lower"} THEN SourceFirst(n, q.history)
                    ELSE IF n \in {"hold", "edge", "cross", "bridge"} /\ parents # {}
                              /\ Unknown \notin parents
                         THEN ConditionFirst(q, n, Max({p.ready : p \in parents}),
                                             Max({p.true : p \in parents}))
                         ELSE Unknown
<1>1. ConditionWith(q, F, n) = [F EXCEPT ![n] = value]
  BY DEF ConditionWith
<1>2. /\ q.history \in Nat /\ q.bars \in Nat /\ q.bars >= 1
      /\ q.wiring \in {"plain", "edge", "cross"}
  BY DEF IsGraph
<1> PICK H : H = q.history
  OBVIOUS
<1> PICK B : B = q.bars
  OBVIOUS
<1>4. ASSUME NEW m, NEW c, Parents(q, n) = {m}, m \in Timed, c = FirstAt(q, m)
      PROVE  /\ parents # {} /\ Unknown \notin parents
             /\ Max({p.ready : p \in parents}) = c.ready
             /\ Max({p.true : p \in parents}) = c.true
  <2>1. F[m] = c
    BY <1>4
  <2>2. parents = {c}
    BY <1>4, <2>1
  <2>3. c.ready \in Int /\ c.true \in Int /\ c # Unknown
    BY <1>4, FirstAtIs
  <2> HIDE DEF parents
  <2>4. {p.ready : p \in parents} = {c.ready} /\ {p.true : p \in parents} = {c.true}
    BY <2>2
  <2> QED
    BY <2>2, <2>3, <2>4, GreatestOfOne
<1>5. n \in Timed => value = FirstAt(q, n)
  <2>1. CASE n = "cond"
    BY <1>2, <2>1 DEF SourceFirst, FirstAt
  <2>2. CASE n = "lower"
    BY <1>2, <2>2 DEF SourceFirst, FirstAt
  <2>3. CASE n = "hold"
    <3>1. Parents(q, n) = {"cond"}
      <4>1. q.wiring # "cross"
        BY <1>2, <2>3, Wirings DEF CrossNodes
      <4> QED
        BY <1>2, <2>3, <4>1, ReducerParents
    <3> PICK c : c = FirstAt(q, "cond")
      OBVIOUS
    <3>2. c.ready = H /\ c.true = H
      BY DEF FirstAt
    <3>3. value = ConditionFirst(q, n, H, H)
      <4>1. /\ parents # {} /\ Unknown \notin parents
            /\ Max({p.ready : p \in parents}) = H
            /\ Max({p.true : p \in parents}) = H
        BY <1>4, <3>1, <3>2 DEF Timed
      <4> HIDE DEF parents
      <4> QED
        BY <2>3, <4>1
    <3>4. value = [opportunity |-> -1, ready |-> H, true |-> H + B - 1]
      BY <2>3, <3>3 DEF ConditionFirst
    <3> HIDE DEF value
    <3> QED
      BY <1>2, <2>3, <3>4 DEF FirstAt
  <2>4. CASE n = "edge"
    <3>1. Parents(q, n) = {"hold"} /\ q.wiring # "cross"
      <4>1. q.wiring # "cross"
        BY <1>2, <2>4, Wirings DEF CrossNodes
      <4> QED
        BY <1>2, <2>4, <4>1, ReducerParents
    <3> PICK c : c = FirstAt(q, "hold")
      OBVIOUS
    <3>2. c.ready = H /\ c.true = H + B - 1
      BY DEF FirstAt
    <3>3. value = ConditionFirst(q, n, H, H + B - 1)
      <4>1. /\ parents # {} /\ Unknown \notin parents
            /\ Max({p.ready : p \in parents}) = H
            /\ Max({p.true : p \in parents}) = H + B - 1
        BY <1>4, <3>1, <3>2 DEF Timed
      <4> HIDE DEF parents
      <4> QED
        BY <2>4, <4>1
    <3>4. Max({H + 1, H + B - 1}) = Late(q)
      <4>1. H + 1 \in Int /\ H + B - 1 \in Int
        BY <1>2
      <4>2. Max({H + 1, H + B - 1}) = IF H + 1 >= H + B - 1 THEN H + 1 ELSE H + B - 1
        BY <4>1, GreaterOfTwo
      <4> QED
        BY <1>2, <3>1, <4>2 DEF Late
    <3>5. value = [opportunity |-> -1, ready |-> Late(q), true |-> Late(q)]
      BY <2>4, <3>3, <3>4 DEF ConditionFirst
    <3> HIDE DEF value
    <3> QED
      BY <1>2, <2>4, <3>5 DEF FirstAt
  <2>5. CASE n = "cross"
    <3>1. Parents(q, n) = {"cond"} /\ q.wiring = "cross"
      <4>1. q.wiring = "cross"
        BY <1>2, <2>5, Wirings DEF PlainNodes, EdgeNodes
      <4> QED
        BY <1>2, <2>5, <4>1, ReducerParents
    <3> PICK c : c = FirstAt(q, "cond")
      OBVIOUS
    <3>2. c.ready = H /\ c.true = H
      BY DEF FirstAt
    <3>3. value = ConditionFirst(q, n, H, H)
      <4>1. /\ parents # {} /\ Unknown \notin parents
            /\ Max({p.ready : p \in parents}) = H
            /\ Max({p.true : p \in parents}) = H
        BY <1>4, <3>1, <3>2 DEF Timed
      <4> HIDE DEF parents
      <4> QED
        BY <2>5, <4>1
    <3>4. Max({H + 1, H}) = Late(q)
      <4>1. H + 1 \in Int /\ H \in Int /\ H + 1 >= H
        BY <1>2
      <4>2. Max({H + 1, H}) = H + 1
        BY <4>1, GreaterOfTwo
      <4> QED
        BY <3>1, <4>2 DEF Late
    <3>5. value = [opportunity |-> -1, ready |-> Late(q), true |-> Late(q)]
      BY <2>5, <3>3, <3>4 DEF ConditionFirst
    <3> HIDE DEF value
    <3> QED
      BY <1>2, <2>5, <3>5 DEF FirstAt
  <2> QED
    BY <2>1, <2>2, <2>3, <2>4, <2>5 DEF Timed
<1> HIDE DEF value
<1> QED
  BY <1>1, <1>5

ConditionsUpTo(q, N, f) ==
  f = [k \in 0 .. N |-> IF k = 0 THEN [n \in Nodes(q) |-> Unknown]
                        ELSE ConditionWith(q, f[k - 1], TopoOrder(q)[k])]

\* The recursion over a graph's order defines a function.
LEMMA ConditionsExist ==
  ASSUME NEW q, NEW N \in Nat
  PROVE  \E f : ConditionsUpTo(q, N, f)
<1> DEFINE P == {M \in Nat : \E f : ConditionsUpTo(q, M, f)}
           s0 == [n \in Nodes(q) |-> Unknown]
           step(k, s) == ConditionWith(q, s, TopoOrder(q)[k])
<1>1. 0 \in P
  <2> DEFINE h == [k \in 0 .. 0 |-> s0]
  <2>1. ConditionsUpTo(q, 0, h)
    <3> HIDE DEF s0
    <3>1. h = [k \in 0 .. 0 |-> IF k = 0 THEN s0 ELSE step(k, h[k - 1])]
      OBVIOUS
    <3> QED
      BY <3>1 DEF ConditionsUpTo, s0
  <2> QED
    BY <2>1
<1>2. ASSUME NEW M \in P PROVE M + 1 \in P
  <2>1. PICK a : ConditionsUpTo(q, M, a)
    OBVIOUS
  <2>2. \A n \in 0 .. M : a[n] = IF n = 0 THEN s0 ELSE step(n, a[n - 1])
    BY <2>1 DEF ConditionsUpTo
  <2> HIDE DEF step, s0
  <2> DEFINE h == [n \in 0 .. M + 1 |-> IF n <= M THEN a[n] ELSE step(n, a[M])]
  <2>3. ASSUME NEW n \in 0 .. M + 1
        PROVE  h[n] = IF n = 0 THEN s0 ELSE step(n, h[n - 1])
    <3>1. CASE n = M + 1
      <4>1. n # 0 /\ n - 1 = M /\ ~(n <= M) /\ M \in 0 .. M + 1
        BY <3>1
      <4> QED
        BY <3>1, <4>1
    <3>2. CASE n # M + 1
      <4>1. n \in 0 .. M /\ n <= M
        BY <3>2
      <4>2. n # 0 => n - 1 \in 0 .. M + 1 /\ n - 1 <= M
        BY <4>1
      <4> QED
        BY <2>2, <4>1, <4>2
    <3> QED
      BY <3>1, <3>2
  <2>4. h = [n \in 0 .. M + 1 |-> IF n = 0 THEN s0 ELSE step(n, h[n - 1])]
    <3> DEFINE e(n) == IF n = 0 THEN s0 ELSE step(n, h[n - 1])
    <3>1. h = [n \in 0 .. M + 1 |-> h[n]]
      OBVIOUS
    <3>2. \A n \in 0 .. M + 1 : h[n] = e(n)
      BY <2>3
    <3> HIDE DEF h
    <3> QED
      BY <3>1, <3>2
  <2> HIDE DEF h
  <2>5. ConditionsUpTo(q, M + 1, h)
    BY <2>4 DEF ConditionsUpTo, step, s0
  <2> QED
    BY <2>5
<1>3. P = Nat
  <2> HIDE DEF P
  <2>1. P \subseteq Nat
    BY DEF P
  <2> QED
    BY <1>1, <1>2, <2>1, InductionOnNat
<1> QED
  BY <1>3

\* What the walk along the order reports of each node.
LEMMA ConditionsAre ==
  ASSUME NEW q, IsGraph(q)
  PROVE  /\ DOMAIN ConditionReported(q) = Nodes(q)
         /\ \A m \in Nodes(q) \cap Timed : ConditionReported(q)[m] = FirstAt(q, m)
<1> DEFINE order == TopoOrder(q)
           N == Len(order)
           f == CHOOSE h : ConditionsUpTo(q, N, h)
           done(k) == {order[j] : j \in 1 .. k}
           fine(k) == /\ DOMAIN f[k] = Nodes(q)
                      /\ \A m \in done(k) \cap Timed : f[k][m] = FirstAt(q, m)
           P == {k \in Nat : k <= N => fine(k)}
<1>1. Sorted(q, order) /\ ToSet(order) = Nodes(q)
  BY OrderSorted
<1>2. N \in Nat /\ DOMAIN order = 1 .. N
  <2>1. order \in Seq(Nodes(q))
    BY <1>1 DEF Sorted
  <2> QED
    BY <2>1
<1>3. ConditionsUpTo(q, N, f)
  BY <1>2, ConditionsExist
<1>4. ConditionReported(q) = f[N]
  BY DEF ConditionReported, ConditionsUpTo
<1> HIDE DEF f
<1>5. /\ f[0] = [n \in Nodes(q) |-> Unknown]
      /\ \A k \in Nat : k + 1 <= N => f[k + 1] = ConditionWith(q, f[k], order[k + 1])
  <2>1. \A k \in 0 .. N : f[k] = IF k = 0 THEN [n \in Nodes(q) |-> Unknown]
                                 ELSE ConditionWith(q, f[k - 1], order[k])
    BY <1>3 DEF ConditionsUpTo
  <2>2. \A k \in Nat : k + 1 <= N => k + 1 \in 0 .. N /\ k + 1 # 0 /\ (k + 1) - 1 = k
    BY <1>2
  <2>3. 0 \in 0 .. N
    BY <1>2
  <2> HIDE DEF N, order
  <2> QED
    BY <2>1, <2>2, <2>3
<1>6. /\ \A i \in 1 .. N : order[i] \in Nodes(q)
      /\ \A i, j \in 1 .. N : order[i] = order[j] => i = j
      /\ \A i \in 1 .. N : \A p \in Parents(q, order[i]) : \E j \in 1 .. i - 1 : order[j] = p
      /\ \A m \in Nodes(q) : \E j \in 1 .. N : order[j] = m
  BY <1>1, <1>2 DEF Sorted, ToSet
<1> HIDE DEF order, N
<1>7. 0 \in P
  <2>1. done(0) = {}
    OBVIOUS
  <2>2. fine(0)
    BY <1>5, <2>1
  <2> QED
    BY <2>2
<1>8. ASSUME NEW k \in P PROVE k + 1 \in P
  <2> SUFFICES ASSUME k + 1 <= N PROVE fine(k + 1)
    OBVIOUS
  <2>1. k \in Nat /\ k <= N /\ k + 1 \in 1 .. N
    BY <1>2
  <2> DEFINE n == order[k + 1]
  <2>2. f[k + 1] = ConditionWith(q, f[k], n)
    BY <1>5, <2>1
  <2>3. fine(k)
    BY <2>1
  <2>4. n \in Nodes(q) /\ n \notin done(k) /\ Parents(q, n) \subseteq done(k)
    <3>1. n \in Nodes(q)
      BY <1>6, <2>1
    <3>2. ASSUME NEW j \in 1 .. k, order[j] = n PROVE FALSE
      <4>1. j \in 1 .. N /\ j # k + 1
        BY <1>2, <2>1
      <4> QED
        BY <1>6, <2>1, <3>2, <4>1
    <3>3. (k + 1) - 1 = k
      BY <2>1
    <3>4. \A p \in Parents(q, n) : \E j \in 1 .. k : order[j] = p
      BY <1>6, <2>1, <3>3
    <3> HIDE DEF n
    <3> QED
      BY <3>1, <3>2, <3>4
  <2>5. done(k + 1) = done(k) \cup {n}
    <3>1. \A j : j \in 1 .. k + 1 <=> j \in 1 .. k \/ j = k + 1
      BY <2>1
    <3> QED
      BY <3>1
  <2> HIDE DEF n, done
  <2>6. /\ DOMAIN ConditionWith(q, f[k], n) = Nodes(q)
        /\ \A m \in (done(k) \cup {n}) \cap Timed : ConditionWith(q, f[k], n)[m] = FirstAt(q, m)
    <3> PICK D : D = done(k)
      OBVIOUS
    <3> PICK F : F = f[k]
      OBVIOUS
    <3>1. DOMAIN F = Nodes(q) /\ \A m \in D \cap Timed : F[m] = FirstAt(q, m)
      BY <2>3
    <3>2. n \in Nodes(q) /\ n \notin D /\ Parents(q, n) \subseteq D
      BY <2>4
    <3>3. /\ DOMAIN ConditionWith(q, F, n) = Nodes(q)
          /\ \A m \in (D \cup {n}) \cap Timed : ConditionWith(q, F, n)[m] = FirstAt(q, m)
      BY <3>1, <3>2, FirstVisited
    <3> QED
      BY <3>3
  <2> QED
    BY <2>2, <2>5, <2>6
<1>9. N \in P
  <2> HIDE DEF P
  <2>1. P \subseteq Nat
    BY DEF P
  <2> QED
    BY <1>2, <1>7, <1>8, <2>1, InductionOnNat
<1>10. fine(N)
  BY <1>2, <1>9
<1>11. Nodes(q) \subseteq done(N)
  BY <1>6
<1> HIDE DEF done
<1> QED
  BY <1>4, <1>10, <1>11

\* A level hangs on its trigger and on its bound.
LEMMA LevelParents ==
  ASSUME NEW q, q.wiring \in {"edge", "cross"}
  PROVE  Parents(q, "level") = {IF q.wiring = "cross" THEN "cross" ELSE "edge", "lower"}
<1>1. \A p, m : p \in Parents(q, m) <=> <<p, m>> \in Edges(q)
  BY EdgeEdges, CrossEdges
<1>2. CASE q.wiring = "edge"
  <2> DEFINE E == {<<"cool", "gate">>, <<"cond", "hold">>, <<"hold", "edge">>,
                   <<"edge", "level">>, <<"lower", "level">>, <<"level", "gate">>}
  <2>1. \A p : <<p, "level">> \in E <=> p \in {"edge", "lower"}
    OBVIOUS
  <2>2. Edges(q) = E
    BY <1>2, EdgesOf
  <2> HIDE DEF E
  <2>3. \A p : p \in Parents(q, "level") <=> p \in {"edge", "lower"}
    BY <1>1, <2>1, <2>2
  <2> QED
    BY <1>2, <2>3
<1>3. CASE q.wiring = "cross"
  <2> DEFINE E == {<<"cool", "gate">>, <<"cond", "cross">>, <<"cross", "level">>,
                   <<"lower", "level">>, <<"level", "gate">>}
  <2>1. \A p : <<p, "level">> \in E <=> p \in {"cross", "lower"}
    OBVIOUS
  <2>2. Edges(q) = E
    BY <1>3, EdgesOf
  <2> HIDE DEF E
  <2>3. \A p : p \in Parents(q, "level") <=> p \in {"cross", "lower"}
    BY <1>1, <2>1, <2>2
  <2> QED
    BY <1>3, <2>3
<1> QED
  BY <1>2, <1>3

\* The graph's own report: an edge or crossing not before Late, an opportunity after both
\* parents of its level.
LEMMA LevelsAre ==
  ASSUME NEW q, IsGraph(q)
  PROVE  /\ q.wiring # "cross" => ConditionReported(q)["edge"].true = Late(q)
         /\ q.wiring = "cross" => ConditionReported(q)["cross"].true = Late(q)
         /\ HasLevel(q) => LevelReported(q)["level"].opportunity =
                             (IF Late(q) >= 1 THEN Late(q) ELSE 1) + 1
<1>1. /\ q.history \in Nat /\ q.bars \in Nat /\ q.bars >= 1
      /\ q.wiring \in {"plain", "edge", "cross"}
  BY DEF IsGraph
<1>2. Late(q) \in Nat
  BY <1>1 DEF Late
<1> PICK F : F = ConditionReported(q)
  OBVIOUS
<1> PICK L : L = Late(q)
  OBVIOUS
<1>3. DOMAIN F = Nodes(q) /\ \A m \in Nodes(q) \cap Timed : F[m] = FirstAt(q, m)
  BY ConditionsAre
<1>4. q.wiring # "cross" => F["edge"].true = L
  <2>1. q.wiring # "cross" => "edge" \in Nodes(q) \cap Timed
    BY <1>1, Wirings DEF PlainNodes, EdgeNodes, Timed
  <2> QED
    BY <1>3, <2>1 DEF FirstAt
<1>5. q.wiring = "cross" => F["cross"].true = L
  <2>1. q.wiring = "cross" => "cross" \in Nodes(q) \cap Timed
    BY <1>1, Wirings DEF CrossNodes, Timed
  <2> QED
    BY <1>3, <2>1 DEF FirstAt
<1>6. ASSUME HasLevel(q)
      PROVE  LevelReported(q)["level"].opportunity = (IF L >= 1 THEN L ELSE 1) + 1
  <2> PICK s : s = IF q.wiring = "cross" THEN "cross" ELSE "edge"
    OBVIOUS
  <2>1. q.wiring \in {"edge", "cross"}
    BY <1>1, <1>6 DEF HasLevel
  <2>2. s \in Nodes(q) \cap Timed /\ "lower" \in Nodes(q) \cap Timed /\ "level" \in Nodes(q)
    BY <2>1, Wirings DEF CrossNodes, EdgeNodes, Timed
  <2>3. Parents(q, "level") = {s, "lower"}
    BY <2>1, LevelParents
  <2> PICK a : a = FirstAt(q, s)
    OBVIOUS
  <2> PICK c : c = FirstAt(q, "lower")
    OBVIOUS
  <2>4. F[s] = a /\ F["lower"] = c
    BY <1>3, <2>2
  <2> DEFINE parents == {F[p] : p \in Parents(q, "level")}
  <2>5. parents = {a, c}
    BY <2>3, <2>4
  <2>6. /\ a.ready = L /\ a.true = L /\ c.ready = 1 /\ c.true = 1
        /\ a # Unknown /\ c # Unknown
    <3>1. a.ready = L /\ a.true = L
      BY <2>1 DEF FirstAt
    <3>2. c.ready = 1 /\ c.true = 1
      BY DEF FirstAt
    <3> QED
      BY <2>2, <3>1, <3>2, FirstAtIs
  <2> DEFINE m == IF L >= 1 THEN L ELSE 1
  <2>7. /\ Unknown \notin parents
        /\ Max({p.ready : p \in parents}) = m
        /\ Max({p.true : p \in parents}) = m
    <3> HIDE DEF parents
    <3>1. {p.ready : p \in parents} = {L, 1} /\ {p.true : p \in parents} = {L, 1}
      BY <2>5, <2>6
    <3> QED
      BY <1>2, <2>5, <2>6, <3>1, GreaterOfTwo
  <2>8. Max({m, m}) = m
    BY <1>2, GreaterOfTwo
  <2>9. LevelWith(q, F) = [F EXCEPT !.level = [ready |-> m, true |-> m, opportunity |-> m + 1]]
    <3> HIDE DEF parents, m
    <3>1. Max({Max({p.ready : p \in parents}), Max({p.true : p \in parents})}) = m
      BY <2>7, <2>8
    <3> QED
      BY <1>6, <2>7, <3>1 DEF LevelWith, parents
  <2>10. LevelReported(q)["level"] = [ready |-> m, true |-> m, opportunity |-> m + 1]
    <3> HIDE DEF m
    <3> QED
      BY <1>3, <2>2, <2>9 DEF LevelReported
  <2> QED
    BY <2>10
<1> QED
  BY <1>4, <1>5, <1>6

\* The indexes of the decided bars are integers.
LEMMA IndexesAreInts ==
  ASSUME Types
  PROVE  /\ Len(log) \in Nat /\ DOMAIN log = 1 .. Len(log)
         /\ \A j \in 1 .. Len(log) : log[j].bar.i \in Int
<1>1. log \in Seq(Entries)
  BY DEF Types
<1>2. Len(log) \in Nat /\ DOMAIN log = 1 .. Len(log) /\ \A j \in 1 .. Len(log) : log[j] \in Entries
  <2> HIDE DEF Entries
  <2> QED
    BY <1>1
<1>3. \A e \in Entries : e.bar.i \in Int
  BY DEF Entries, Bars
<1> QED
  BY <1>2, <1>3

\* Between two decided bars the index grows at least as fast as the log.
LEMMA IndexGrows ==
  ASSUME Types, Growing, NEW a \in 1 .. Len(log), NEW n \in a .. Len(log)
  PROVE  log[n].bar.i >= log[a].bar.i + (n - a)
<1> PICK N : N = Len(log)
  OBVIOUS
<1> DEFINE P == {k \in Nat : a + k <= N => log[a + k].bar.i >= log[a].bar.i + k}
<1>1. N \in Nat /\ \A j \in 1 .. N : log[j].bar.i \in Int
  BY IndexesAreInts
<1>2. 0 \in P
  BY <1>1
<1>3. ASSUME NEW k \in P PROVE k + 1 \in P
  <2> SUFFICES ASSUME a + k + 1 <= N PROVE log[a + k + 1].bar.i >= log[a].bar.i + (k + 1)
    OBVIOUS
  <2> PICK j : j = a + k + 1
    OBVIOUS
  <2>1. k \in Nat /\ j \in 1 .. N /\ j > 1 /\ j - 1 = a + k /\ a + k \in 1 .. N
    BY <1>1
  <2>2. log[a + k].bar.i >= log[a].bar.i + k
    BY <1>1, <2>1
  <2>3. log[j - 1].bar.i < log[j].bar.i
    BY <2>1 DEF Growing
  <2>4. log[j].bar.i \in Int /\ log[a].bar.i \in Int /\ log[a + k].bar.i \in Int
    BY <1>1, <2>1
  <2> HIDE DEF P
  <2> QED
    BY <2>1, <2>2, <2>3, <2>4
<1>4. n - a \in P
  <2>1. n - a \in Nat
    BY <1>1
  <2> HIDE DEF P
  <2>2. P \subseteq Nat
    BY DEF P
  <2> QED
    BY <1>2, <1>3, <2>1, <2>2, InductionOnNat
<1> QED
  BY <1>1, <1>4

\* Arithmetic of a run that starts after the history.
LEMMA Shifted ==
  \A x, y, h, c \in Int : x >= h /\ y >= x + (c - 1) => y >= h + c - 1
OBVIOUS

\* A trigger comes Late.
LEMMA TriggersComeLate ==
  ASSUME GraphInv, NEW n \in 1 .. Len(log), log[n].trigger
  PROVE  log[n].bar.i >= Late(gr)
<1> PICK N : N = Len(log)
  OBVIOUS
<1>1. Types /\ Growing /\ ReducersFollowHistory /\ WellBuilt(gr)
  BY GraphHere DEF GraphInv, Types
<1> PICK H : H = gr.history
  OBVIOUS
<1> PICK B : B = gr.bars
  OBVIOUS
<1>2. H \in Nat /\ B \in Nat /\ B >= 1
  BY <1>1 DEF WellBuilt
<1>3. N \in Nat /\ DOMAIN log = 1 .. N /\ \A j \in 1 .. N : log[j].bar.i \in Int
  BY <1>1, IndexesAreInts
<1>4. \A k \in 1 .. N : log[k].bar.cond # "unready" => log[k].bar.i >= H
  BY <1>1 DEF Growing, Warm
<1>5. n > 1 => n - 1 \in 1 .. N /\ log[n].bar.i >= log[n - 1].bar.i + 1
  <2> SUFFICES ASSUME n > 1 PROVE n - 1 \in 1 .. N /\ log[n].bar.i >= log[n - 1].bar.i + 1
    OBVIOUS
  <2>1. n - 1 \in 1 .. N
    BY <1>3
  <2>2. log[n - 1].bar.i < log[n].bar.i
    BY <1>1 DEF Growing
  <2> QED
    BY <1>3, <2>1, <2>2
<1>6. CASE gr.wiring = "cross"
  <2>1. Crosses(n)
    BY <1>1, <1>3, <1>6 DEF ReducersFollowHistory
  <2>2. n > 1 /\ Compare(log[n - 1].bar) = "false"
    BY <2>1 DEF Crosses
  <2>3. log[n - 1].bar.cond # "unready"
    BY <2>2 DEF Compare
  <2> QED
    BY <1>2, <1>3, <1>4, <1>5, <1>6, <2>2, <2>3 DEF Late
<1>7. CASE gr.wiring # "cross"
  <2>1. Rises(n)
    BY <1>1, <1>3, <1>7 DEF ReducersFollowHistory
  <2>2. n > 1 /\ Held(n) /\ Ready(n - 1)
    BY <2>1 DEF Rises, Follows
  <2>3. log[n].bar.i >= H + 1
    <3>1. log[n - 1].bar.i >= H
      BY <1>4, <1>5, <2>2 DEF Ready
    <3> QED
      BY <1>2, <1>3, <1>5, <2>2, <3>1
  <2>4. log[n].bar.i >= H + B - 1
    <3> PICK a : a = n - B + 1
      OBVIOUS
    <3>1. n >= B /\ \A k \in a .. n : log[k].bar.cond = "true"
      BY <2>2 DEF Held
    <3>2. a \in 1 .. N /\ n \in a .. N /\ a \in a .. n
      BY <1>2, <1>3, <3>1
    <3>3. log[a].bar.i >= H
      BY <1>4, <3>1, <3>2
    <3>4. log[n].bar.i >= log[a].bar.i + (n - a)
      BY <1>1, <3>2, IndexGrows
    <3>5. log[n].bar.i \in Int /\ log[a].bar.i \in Int /\ n - a = B - 1
      BY <1>2, <1>3, <3>2
    <3> PICK x : x = log[a].bar.i
      OBVIOUS
    <3> PICK y : y = log[n].bar.i
      OBVIOUS
    <3>6. x \in Int /\ y \in Int /\ x >= H /\ y >= x + (B - 1)
      BY <3>3, <3>4, <3>5
    <3>7. B \in Int /\ H \in Int
      BY <1>2
    <3>8. y >= H + B - 1
      BY <3>6, <3>7, Shifted
    <3> QED
      BY <3>8
  <2> QED
    BY <1>2, <1>7, <2>3, <2>4 DEF Late
<1> QED
  BY <1>6, <1>7

\* The invariant puts every trigger and opportunity after its reported bar.
LEMMA NothingBeforeReported ==
  ASSUME GraphInv
  PROVE  NeverBeforeReported
<1>1. Types /\ Growing /\ OpportunityExplained /\ WellBuilt(gr)
  BY GraphHere DEF GraphInv, Types
<1> PICK q : q = Graphs[name]
  OBVIOUS
<1> PICK L : L = Late(gr)
  OBVIOUS
<1>2. IsGraph(q)
  BY <1>1, GraphsAssumption DEF Types
<1>3. /\ gr.wiring = q.wiring /\ gr.bars = q.bars /\ gr.history = q.history
      /\ gr.conditions = ConditionReported(q) /\ gr.levels = LevelReported(q)
  BY <1>1, GraphHere DEF Types, Built
<1>4. Late(q) = L /\ HasLevel(q) = HasLevel(gr) /\ L \in Nat
  <2>1. Late(q) = Late(gr) /\ HasLevel(q) = HasLevel(gr)
    BY <1>3 DEF Late, HasLevel
  <2>2. gr.history \in Nat /\ gr.bars \in Nat /\ gr.bars >= 1
    BY <1>1 DEF WellBuilt
  <2>3. L \in Nat
    BY <2>2 DEF Late
  <2> QED
    BY <2>1, <2>3
<1>5. /\ DOMAIN log = 1 .. Len(log) /\ Len(log) \in Nat
      /\ \A j \in 1 .. Len(log) : log[j].bar.i \in Int
  BY <1>1, IndexesAreInts
<1>6. \A k \in 1 .. Len(log) : log[k].trigger => log[k].bar.i >= L
  BY TriggersComeLate
<1>7. /\ gr.wiring # "cross" => gr.conditions["edge"].true = L
      /\ gr.wiring = "cross" => gr.conditions["cross"].true = L
      /\ HasLevel(gr) => gr.levels["level"].opportunity = (IF L >= 1 THEN L ELSE 1) + 1
  BY <1>2, <1>3, <1>4, LevelsAre
<1>8. ASSUME NEW n \in 1 .. Len(log), log[n].event
      PROVE  log[n].bar.i >= gr.levels["level"].opportunity
  <2>1. HasLevel(gr)
    BY <1>1, <1>8 DEF Growing
  <2>2. PICK a \in 1 .. n - 1 : ArmedAt(a)
    BY <1>1, <1>5, <1>8, <2>1 DEF OpportunityExplained
  <2>3. a \in 1 .. Len(log) /\ n \in a .. Len(log) /\ n - a >= 1
    BY <1>5
  <2>4. log[a].trigger
    BY <1>1, <1>5, <2>1, <2>2, <2>3 DEF OpportunityExplained
  <2>5. log[a].bar.i >= L /\ log[a].bar.i >= 1
    BY <1>1, <1>6, <2>3, <2>4 DEF Growing
  <2>6. log[n].bar.i >= log[a].bar.i + (n - a)
    BY <1>1, <2>3, IndexGrows
  <2>7. log[n].bar.i >= (IF L >= 1 THEN L ELSE 1) + 1
    BY <1>4, <1>5, <2>3, <2>5, <2>6
  <2> QED
    BY <1>7, <2>1, <2>7
<1>9. \A n \in 1 .. Len(log) : log[n].event => log[n].bar.i >= gr.levels["level"].opportunity
  BY <1>8
<1> QED
  BY <1>5, <1>6, <1>7, <1>9 DEF NeverBeforeReported

\* No trigger and no opportunity comes before the bar that the requirements name
\* (graph/condition_history.py, graph/levels.py).
THEOREM RequirementsHold == Spec => []NeverBeforeReported
<1>1. GraphInv => NeverBeforeReported
  BY NothingBeforeReported
<1> QED
  BY <1>1, GraphInvariant, PTL
=============================================================================
