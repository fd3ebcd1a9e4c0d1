-------------------------- MODULE AttackPathsProofs ---------------------------
(***************************************************************************)
(* Proofs about AttackPaths, for every set of findings and assets.         *)
(*                                                                         *)
(* That the paths found are real follows from what is known of the paths   *)
(* still in the queue: they are real too, except that they may be the      *)
(* entry point alone, they are below the cap and their nodes are visited,  *)
(* so that a node not visited yet repeats none of them.                    *)
(*                                                                         *)
(* That they are shortest follows from the order of the queue: it is       *)
(* sorted by length and no path is longer by more than one node than one   *)
(* that is still to be extended.  That the cap cuts nothing off is a fact  *)
(* about the graph: five steps lead to whatever an entry point leads to.   *)
(* The composite severities then compare because the worst finding of any  *)
(* attack path is the end of a path that is found.                         *)
(***************************************************************************)
EXTENDS AttackPaths, FiniteSetTheorems, TLAPS

\* A path from an entry point along edges that repeats no node.
Chain(p) ==
    /\ p \in Seq(Nodes)
    /\ p[1] \in EntryPoints
    /\ \A i \in 1 .. Len(p) - 1 : Edge(p[i], p[i + 1])
    /\ \A i, j \in 1 .. Len(p) : p[i] = p[j] => i = j

\* A path that is still to be extended.
Open(p) ==
    /\ Chain(p)
    /\ Len(p) \in 1 .. MaxDepth - 1
    /\ \A i \in 1 .. Len(p) : p[i] \in visited

QueueInv == queue \in Seq(Seq(Nodes)) /\ \A k \in 1 .. Len(queue) : Open(queue[k])

PathInv == todo # {} => Open(path) /\ todo \subseteq Neighbors(path[Len(path)])

PathsInv == \A p \in paths : Chain(p) /\ Len(p) \in 2 .. MaxDepth

IInv == TypeOK /\ QueueInv /\ PathInv /\ PathsInv

-----------------------------------------------------------------------------
(* Sequences *)

LEMMA AppendProps ==
    ASSUME NEW S, NEW s \in Seq(S), NEW e \in S
    PROVE  /\ Append(s, e) \in Seq(S)
           /\ Len(Append(s, e)) = Len(s) + 1
           /\ \A i \in 1 .. Len(s) : Append(s, e)[i] = s[i]
           /\ Append(s, e)[Len(s) + 1] = e
  OBVIOUS

LEMMA TailProps ==
    ASSUME NEW S, NEW s \in Seq(S), s # <<>>
    PROVE  /\ Head(s) = s[1] /\ Head(s) \in S
           /\ Len(s) \in Nat \ {0}
           /\ Tail(s) \in Seq(S)
           /\ Len(Tail(s)) = Len(s) - 1
           /\ \A i \in 1 .. Len(s) - 1 : Tail(s)[i] = s[i + 1]
  OBVIOUS

LEMMA InToSet ==
    ASSUME NEW S, NEW s \in Seq(S)
    PROVE  /\ \A x \in ToSet(s) : \E i \in 1 .. Len(s) : x = s[i]
           /\ ToSet(s) \subseteq S
  BY DEF ToSet

-----------------------------------------------------------------------------
(* Induction and recursion over the naturals, with sets in place of predicates *)

\* What holds of 0 and is inherited by each successor holds of every natural.
LEMMA NatSetInduction ==
    ASSUME NEW S, 0 \in S, \A n \in Nat : n \in S => n + 1 \in S
    PROVE  \A n \in Nat : n \in S
  <1>. DEFINE R == OpToRel(<, Nat)
              T == Nat \ S
  <1>. SUFFICES ASSUME T # {} PROVE FALSE
    OBVIOUS
  <1>1. PICK x \in T : \A y \in T : ~(<<y, x>> \in R)
    <2>1. IsWellFoundedOn(R, Nat)
      BY NatLessThanWellFounded, Zenon
    <2>2. T \subseteq Nat
      OBVIOUS
    <2>. HIDE DEF R, T
    <2>. QED
      BY <2>1, <2>2, WFMin
  <1>2. x - 1 \in T /\ x - 1 < x
    OBVIOUS
  <1>3. <<x - 1, x>> \in R
    BY <1>2 DEF OpToRel
  <1>. QED
    BY <1>1, <1>2, <1>3

\* A nonempty bounded set of naturals has a greatest member.
LEMMA MaxOf ==
    ASSUME NEW T, T \subseteq Nat, T # {}, NEW b \in Nat, \A t \in T : t <= b
    PROVE  \E m \in T : \A t \in T : t <= m
  <1>. SUFFICES ASSUME \A m \in T : \E t \in T : t > m PROVE FALSE
    OBVIOUS
  <1>. DEFINE S == {n \in Nat : \E t \in T : t >= n}
  <1>1. 0 \in S
    <2>. PICK t \in T : TRUE
      OBVIOUS
    <2>1. t >= 0
      OBVIOUS
    <2>. QED
      BY <2>1
  <1>2. \A n \in Nat : n \in S => n + 1 \in S
    <2>. SUFFICES ASSUME NEW n \in Nat, n \in S PROVE n + 1 \in S
      OBVIOUS
    <2>1. PICK t \in T : t >= n
      OBVIOUS
    <2>2. PICK u \in T : u > t
      OBVIOUS
    <2>. QED
      BY <2>1, <2>2
  <1>. HIDE DEF S
  <1>3. b + 1 \in S
    BY <1>1, <1>2, NatSetInduction
  <1>. QED
    BY <1>3 DEF S

\* A function on the naturals may be defined by recursion.
LEMMA Recursion ==
    ASSUME NEW D, NEW x \in D, NEW G \in [D -> D], NEW b \in Nat
    PROVE  \E f \in [Nat -> D] : f = [n \in Nat |-> IF n <= b THEN x ELSE G[f[n - 1]]]
  <1>. DEFINE Follows(g, n) == \A i \in 0 .. n : g[i] = IF i <= b THEN x ELSE G[g[i - 1]]
              Start(n) == {g \in [0 .. n -> D] : Follows(g, n)}
              S == {n \in Nat : Start(n) # {}}
  <1>1. 0 \in S
    <2>1. [i \in 0 .. 0 |-> x] \in Start(0)
      OBVIOUS
    <2>. QED
      BY <2>1
  <1>2. ASSUME NEW n \in Nat, n \in S PROVE n + 1 \in S
    <2>1. PICK g \in [0 .. n -> D] : Follows(g, n)
      BY <1>2
    <2>2. PICK v \in D : v = IF n + 1 <= b THEN x ELSE G[g[n]]
      OBVIOUS
    <2>. DEFINE h == [i \in 0 .. n + 1 |-> IF i = n + 1 THEN v ELSE g[i]]
    <2>3. h \in [0 .. n + 1 -> D] /\ h[n + 1] = v
      OBVIOUS
    <2>4. \A i \in 0 .. n : h[i] = g[i]
      OBVIOUS
    <2>. HIDE DEF h
    <2>5. ASSUME NEW i \in 0 .. n + 1 PROVE h[i] = IF i <= b THEN x ELSE G[h[i - 1]]
      <3>1. CASE i = n + 1
        BY <3>1, <2>2, <2>3, <2>4
      <3>2. CASE i = 0
        BY <3>2, <2>1, <2>4
      <3>3. CASE i \in 1 .. n
        <4>1. i - 1 \in 0 .. n /\ i \in 0 .. n
          BY <3>3
        <4>. QED
          BY <4>1, <2>1, <2>4
      <3>. QED
        BY <3>1, <3>2, <3>3
    <2>6. h \in Start(n + 1)
      BY <2>3, <2>5
    <2>. QED
      BY <2>6
  <1>3. \A n \in Nat : n \in S
    <2>. HIDE DEF S
    <2>. QED
      BY <1>1, <1>2, NatSetInduction
  <1>4. ASSUME NEW n \in Nat, NEW m \in Nat, NEW g \in Start(n), NEW h \in Start(m)
        PROVE  \A i \in Nat : i <= n /\ i <= m => g[i] = h[i]
    <2>. DEFINE U == {i \in Nat : i <= n /\ i <= m => g[i] = h[i]}
    <2>1. 0 \in U
      OBVIOUS
    <2>2. ASSUME NEW i \in Nat, i \in U PROVE i + 1 \in U
      <3>. SUFFICES ASSUME i + 1 <= n, i + 1 <= m PROVE g[i + 1] = h[i + 1]
        OBVIOUS
      <3>1. g[i] = h[i] /\ i + 1 \in 0 .. n /\ i + 1 \in 0 .. m /\ (i + 1) - 1 = i
        BY <2>2
      <3>. QED
        BY <3>1
    <2>3. \A i \in Nat : i \in U
      <3>. HIDE DEF U
      <3>. QED
        BY <2>1, <2>2, NatSetInduction
    <2>. QED
      BY <2>3
  <1>. DEFINE A == [n \in Nat |-> CHOOSE g \in Start(n) : TRUE]
              f == [n \in Nat |-> A[n][n]]
  <1>5. \A n \in Nat : A[n] \in Start(n)
    BY <1>3
  <1>. HIDE DEF A
  <1>6. ASSUME NEW n \in Nat PROVE f[n] \in D /\ f[n] = IF n <= b THEN x ELSE G[f[n - 1]]
    <2>1. A[n] \in [0 .. n -> D] /\ n \in 0 .. n
          /\ A[n][n] = IF n <= b THEN x ELSE G[A[n][n - 1]]
      BY <1>5
    <2>2. CASE n <= b
      BY <2>1, <2>2
    <2>3. CASE ~(n <= b)
      <3>1. n - 1 \in Nat /\ n - 1 <= n
        BY <2>3
      <3>2. A[n - 1][n - 1] = A[n][n - 1]
        <4>. HIDE DEF Start
        <4>. QED
          BY <3>1, <1>4, <1>5
      <3>. QED
        BY <2>1, <2>3, <3>1, <3>2
    <2>. QED
      BY <2>2, <2>3
  <1>7. f \in [Nat -> D]
    BY <1>6
  <1>8. f = [n \in Nat |-> IF n <= b THEN x ELSE G[f[n - 1]]]
    <2>. DEFINE h == [n \in Nat |-> IF n <= b THEN x ELSE G[f[n - 1]]]
    <2>1. \A n \in Nat : f[n] = h[n]
      BY <1>6
    <2>. QED
      BY <2>1
  <1>. QED
    BY <1>7, <1>8

-----------------------------------------------------------------------------
(* The graph stays as it is, and with it what a chain is. *)

LEMMA SameGraph ==
    ASSUME UNCHANGED graph
    PROVE  /\ UNCHANGED <<finding, asset, runtime, Nodes, EntryPoints>>
           /\ \A m, n : Edge(m, n)' <=> Edge(m, n)
           /\ \A p : Chain(p)' <=> Chain(p)
  <1>1. UNCHANGED <<finding, asset, runtime>>
    BY DEF graph
  <1>2. UNCHANGED <<Nodes, EntryPoints>>
    BY <1>1 DEF Nodes, EntryPoints, Severity
  <1>3. \A m, n : Edge(m, n)' <=> Edge(m, n)
    BY <1>1 DEF Edge, AssetEdge, Exposes, ChainsTo
  <1>. QED
    BY <1>1, <1>2, <1>3 DEF Chain

\* A chain goes on to a neighbour of its last node that it has not met yet.
LEMMA ChainGrows ==
    ASSUME NEW p, Chain(p), Len(p) # 0,
           NEW n \in Neighbors(p[Len(p)]),
           \A i \in 1 .. Len(p) : p[i] # n
    PROVE  Chain(Append(p, n))
  <1>. DEFINE q == Append(p, n)
  <1>1. p \in Seq(Nodes) /\ Len(p) \in Nat \ {0} /\ n \in Nodes /\ Edge(p[Len(p)], n)
    BY DEF Chain, Neighbors
  <1>2. /\ q \in Seq(Nodes)
        /\ Len(q) = Len(p) + 1
        /\ \A i \in 1 .. Len(p) : q[i] = p[i]
        /\ q[Len(p) + 1] = n
    BY <1>1, AppendProps
  <1>3. q[1] \in EntryPoints
    BY <1>1, <1>2 DEF Chain
  <1>4. ASSUME NEW i \in 1 .. Len(q) - 1
        PROVE  Edge(q[i], q[i + 1])
    <2>1. i \in 1 .. Len(p)
      BY <1>1, <1>2
    <2>2. CASE i = Len(p)
      BY <2>2, <1>1, <1>2
    <2>3. CASE i # Len(p)
      <3>1. i \in 1 .. Len(p) - 1 /\ i + 1 \in 1 .. Len(p)
        BY <2>1, <2>3, <1>1
      <3>. QED
        BY <3>1, <2>1, <1>2 DEF Chain
    <2>. QED
      BY <2>2, <2>3
  <1>5. ASSUME NEW i \in 1 .. Len(q), NEW j \in 1 .. Len(q), q[i] = q[j]
        PROVE  i = j
    <2>1. i \in 1 .. Len(p) \/ i = Len(p) + 1
      BY <1>1, <1>2
    <2>2. j \in 1 .. Len(p) \/ j = Len(p) + 1
      BY <1>1, <1>2
    <2>. QED
      BY <2>1, <2>2, <1>2, <1>5 DEF Chain
  <1>. HIDE DEF q
  <1>6. Chain(q)
    BY <1>2, <1>3, <1>4, <1>5 DEF Chain
  <1>. QED
    BY <1>6 DEF q

\* Below the cap it stays within it.
LEMMA OpenGrows ==
    ASSUME NEW p, Chain(p), Len(p) \in 1 .. MaxDepth - 1,
           NEW n \in Neighbors(p[Len(p)]),
           \A i \in 1 .. Len(p) : p[i] # n
    PROVE  Chain(Append(p, n)) /\ Len(Append(p, n)) \in 2 .. MaxDepth
  <1>1. Len(p) \in 1 .. 7
    BY DEF MaxDepth
  <1>2. \A k \in 1 .. 7 : k # 0 /\ k + 1 \in 2 .. 8
    OBVIOUS
  <1>3. Len(p) # 0 /\ Len(p) + 1 \in 2 .. 8
    BY <1>1, <1>2
  <1>4. Len(Append(p, n)) = Len(p) + 1
    BY AppendProps DEF Chain, Neighbors
  <1>. QED
    BY <1>3, <1>4, ChainGrows DEF MaxDepth

-----------------------------------------------------------------------------
(* The steps *)

LEMMA Initially == Init => IInv
  <1>. SUFFICES ASSUME Init PROVE IInv
    OBVIOUS
  <1>1. <<>> \in Seq(Nodes) /\ <<>> \in Seq(Seq(Nodes)) /\ Len(<<>>) = 0
    OBVIOUS
  <1>2. ToSet(queue) = {}
    BY DEF Init, ToSet
  <1>3. runtime \in DOMAIN asset \cup {"none"}
    BY DEF Init
  <1>4. TypeOK
    BY <1>1, <1>2, <1>3 DEF Init, TypeOK
  <1>. QED
    BY <1>1, <1>4 DEF Init, IInv, QueueInv, PathInv, PathsInv

\* TypeOK follows from the rest for every step that leaves the graph alone.
LEMMA TypeFollows ==
    ASSUME TypeOK, UNCHANGED graph,
           entries' \subseteq entries, visited' \subseteq Nodes, todo' \subseteq Nodes,
           QueueInv', path' \in Seq(Nodes), PathsInv'
    PROVE  TypeOK'
  <1>1. UNCHANGED <<finding, asset, runtime, Nodes, EntryPoints>>
    BY SameGraph
  <1>2. \A p \in ToSet(queue)' : p \in Seq(Nodes)
    <2>1. queue' \in Seq(Seq(Nodes))
      BY <1>1 DEF QueueInv
    <2>2. ToSet(queue') \subseteq Seq(Nodes)
      BY <2>1, InToSet
    <2>. QED
      BY <2>2
  <1>3. \A p \in paths' : p \in Seq(Nodes)
    BY <1>1 DEF PathsInv, Chain
  <1>. QED
    BY <1>1, <1>2, <1>3 DEF TypeOK

LEMMA StartEntryStep == IInv /\ StartEntry => IInv'
  <1>. SUFFICES ASSUME IInv, StartEntry PROVE IInv'
    OBVIOUS
  <1>0. UNCHANGED graph /\ UNCHANGED <<Nodes, EntryPoints>> /\ \A p : Chain(p)' <=> Chain(p)
    BY SameGraph DEF StartEntry
  <1>1. PICK start \in entries : /\ entries' = entries \ {start}
                                 /\ queue' = <<<<start>>>>
                                 /\ visited' = {start}
    BY DEF StartEntry
  <1>2. start \in EntryPoints /\ start \in Nodes
    BY DEF IInv, TypeOK, EntryPoints, Nodes
  <1>3. <<start>> \in Seq(Nodes) /\ Len(<<start>>) = 1 /\ <<start>>[1] = start
    BY <1>2
  <1>4. Open(<<start>>)'
    BY <1>0, <1>1, <1>2, <1>3 DEF Open, Chain, MaxDepth
  <1>5. QueueInv'
    <2>1. queue' \in Seq(Seq(Nodes)) /\ Len(queue') = 1 /\ queue'[1] = <<start>>
      BY <1>1, <1>3
    <2>. QED
      BY <2>1, <1>0, <1>4 DEF QueueInv
  <1>6. PathInv' /\ PathsInv'
    BY <1>0 DEF StartEntry, PathInv, PathsInv, IInv
  <1>7. TypeOK'
    BY <1>0, <1>1, <1>2, <1>5, <1>6, TypeFollows DEF StartEntry, IInv, TypeOK
  <1>. QED
    BY <1>5, <1>6, <1>7 DEF IInv

LEMMA DequeueStep == IInv /\ Dequeue => IInv'
  <1>. SUFFICES ASSUME IInv, Dequeue PROVE IInv'
    OBVIOUS
  <1>0. UNCHANGED graph /\ UNCHANGED <<Nodes, EntryPoints, visited>>
        /\ (\A p : Chain(p)' <=> Chain(p)) /\ \A m, n : Edge(m, n)' <=> Edge(m, n)
    BY SameGraph DEF Dequeue
  <1>1. \A p : Open(p) => Open(p)'
    BY <1>0 DEF Open
  <1>2. /\ path' = queue[1]
        /\ queue' \in Seq(Seq(Nodes))
        /\ Len(queue) \in Nat \ {0}
        /\ Len(queue') = Len(queue) - 1
        /\ \A i \in 1 .. Len(queue) - 1 : queue'[i] = queue[i + 1]
    BY TailProps DEF Dequeue, IInv, QueueInv
  <1>3. Open(path') /\ path' \in Seq(Nodes)
    <2>1. Open(queue[1])
      BY <1>2 DEF IInv, QueueInv
    <2>2. Len(path') \in 1 .. 7 /\ path' \in Seq(Nodes)
      BY <2>1, <1>2 DEF Open, Chain, MaxDepth
    <2>. QED
      BY <2>1, <2>2, <1>2
  <1>4. QueueInv'
    <2>1. ASSUME NEW k \in 1 .. Len(queue') PROVE Open(queue'[k])
      <3>1. k \in 1 .. Len(queue) - 1 /\ k + 1 \in 1 .. Len(queue)
        BY <1>2
      <3>. QED
        BY <3>1, <1>2 DEF IInv, QueueInv
    <2>. QED
      BY <2>1, <1>0, <1>1, <1>2 DEF QueueInv
  <1>5. PathInv'
    <2>1. todo' = Neighbors(path'[Len(path')])
      BY DEF Dequeue, Last
    <2>2. todo' \subseteq Neighbors(path[Len(path)])'
      BY <2>1, <1>0 DEF Neighbors
    <2>3. Open(path)'
      BY <1>0, <1>3 DEF Open
    <2>. QED
      BY <2>2, <2>3 DEF PathInv
  <1>6. PathsInv'
    BY <1>0 DEF Dequeue, PathsInv, IInv
  <1>7. TypeOK'
    <2>1. todo' \subseteq Nodes
      BY DEF Dequeue, Neighbors
    <2>. QED
      BY <1>0, <1>3, <1>4, <1>6, <2>1, TypeFollows DEF Dequeue, IInv, TypeOK
  <1>. QED
    BY <1>4, <1>5, <1>6, <1>7 DEF IInv

LEMMA VisitStep == ASSUME IInv, NEW n \in todo, Visit(n) PROVE IInv'
  <1>0. UNCHANGED graph /\ UNCHANGED <<Nodes, EntryPoints, path, entries>>
        /\ (\A p : Chain(p)' <=> Chain(p)) /\ \A l, m : Edge(l, m)' <=> Edge(l, m)
    BY SameGraph DEF Visit
  <1>1. n \in Nodes /\ Open(path) /\ n \in Neighbors(path[Len(path)])
    BY DEF IInv, TypeOK, PathInv
  <1>2. visited \subseteq visited' /\ visited' \subseteq Nodes /\ todo' \subseteq todo
    BY <1>1 DEF Visit, IInv, TypeOK
  <1>3. \A p : Open(p) => Open(p)'
    BY <1>0, <1>2 DEF Open
  <1>4. PathInv'
    <2>1. Neighbors(path[Len(path)])' = Neighbors(path[Len(path)])
      BY <1>0 DEF Neighbors
    <2>2. Open(path)'
      BY <1>0, <1>1, <1>3 DEF Open
    <2>. QED
      BY <1>2, <2>1, <2>2 DEF IInv, PathInv
  <1>5. QueueInv' /\ PathsInv'
    <2>1. CASE n \in visited
      BY <2>1, <1>0, <1>3 DEF Visit, IInv, QueueInv, PathsInv
    <2>2. CASE n \notin visited
      <3>. PICK newPath : newPath = Append(path, n)
        OBVIOUS
      <3>1. /\ visited' = visited \cup {n}
            /\ queue' = IF Len(newPath) < MaxDepth THEN Append(queue, newPath) ELSE queue
            /\ paths' = paths \cup {newPath}
        BY <2>2 DEF Visit
      <3>2. path \in Seq(Nodes) /\ Chain(path) /\ Len(path) \in 1 .. MaxDepth - 1
        BY <1>1 DEF Open, Chain
      <3>3. \A i \in 1 .. Len(path) : path[i] \in visited
        BY <1>1 DEF Open
      <3>4. Chain(newPath) /\ Len(newPath) \in 2 .. MaxDepth
        BY <3>2, <3>3, <2>2, <1>1, OpenGrows
      <3>5. /\ Len(newPath) = Len(path) + 1
            /\ \A i \in 1 .. Len(path) : newPath[i] = path[i]
            /\ newPath[Len(path) + 1] = n
        BY <3>2, <1>1, AppendProps
      <3>6. \A i \in 1 .. Len(newPath) : newPath[i] \in visited'
        BY <3>1, <3>2, <3>3, <3>5
      <3>7. PathsInv'
        BY <3>1, <3>4, <1>0 DEF IInv, PathsInv
      <3>8. QueueInv'
        <4>1. CASE Len(newPath) < MaxDepth
          <5>1. queue' = Append(queue, newPath) /\ queue \in Seq(Seq(Nodes)) /\ newPath \in Seq(Nodes)
            BY <3>1, <3>4, <4>1 DEF IInv, QueueInv, Chain
          <5>2. /\ queue' \in Seq(Seq(Nodes))
                /\ Len(queue') = Len(queue) + 1
                /\ \A i \in 1 .. Len(queue) : queue'[i] = queue[i]
                /\ queue'[Len(queue) + 1] = newPath
            BY <5>1, AppendProps
          <5>3. Open(newPath)'
            <6>1. Len(newPath) \in 2 .. 8 /\ Len(newPath) < 8
              BY <3>4, <4>1 DEF MaxDepth
            <6>2. Len(newPath) \in 1 .. MaxDepth - 1
              BY <6>1 DEF MaxDepth
            <6>3. Chain(newPath)' /\ \A i \in 1 .. Len(newPath) : newPath[i] \in visited'
              BY <3>4, <3>6, <1>0
            <6>. QED
              BY <6>2, <6>3 DEF Open
          <5>4. ASSUME NEW k \in 1 .. Len(queue') PROVE Open(queue[k])'
            <6>1. k \in 1 .. Len(queue) \/ k = Len(queue) + 1
              BY <5>1, <5>2
            <6>2. CASE k \in 1 .. Len(queue)
              BY <6>2, <5>2, <1>3 DEF IInv, QueueInv
            <6>3. CASE k = Len(queue) + 1
              BY <6>3, <5>2, <5>3
            <6>. QED
              BY <6>1, <6>2, <6>3
          <5>. QED
            BY <5>2, <5>4, <1>0 DEF QueueInv
        <4>2. CASE ~(Len(newPath) < MaxDepth)
          BY <4>2, <3>1, <1>0, <1>3 DEF IInv, QueueInv
        <4>. QED
          BY <4>1, <4>2
      <3>. QED
        BY <3>7, <3>8
    <2>. QED
      BY <2>1, <2>2
  <1>6. TypeOK'
    BY <1>0, <1>2, <1>5, TypeFollows DEF IInv, TypeOK
  <1>. QED
    BY <1>4, <1>5, <1>6 DEF IInv

LEMMA Stutters == IInv /\ UNCHANGED vars => IInv'
  <1>. SUFFICES ASSUME IInv, UNCHANGED vars PROVE IInv'
    OBVIOUS
  <1>0. UNCHANGED graph /\ UNCHANGED <<Nodes, EntryPoints, visited, queue, path, todo, paths, entries>>
        /\ (\A p : Chain(p)' <=> Chain(p)) /\ \A l, m : Edge(l, m)' <=> Edge(l, m)
    BY SameGraph DEF vars, graph
  <1>1. \A p : Open(p)' <=> Open(p)
    BY <1>0 DEF Open
  <1>2. QueueInv' /\ PathsInv'
    BY <1>0, <1>1 DEF IInv, QueueInv, PathsInv
  <1>3. PathInv'
    BY <1>0, <1>1 DEF IInv, PathInv, Neighbors
  <1>4. TypeOK'
    BY <1>0, <1>2, TypeFollows DEF IInv, TypeOK
  <1>. QED
    BY <1>2, <1>3, <1>4 DEF IInv

LEMMA IInvHolds == Spec => []IInv
  <1>1. IInv /\ [Next]_vars => IInv'
    <2>. SUFFICES ASSUME IInv, [Next]_vars PROVE IInv'
      OBVIOUS
    <2>1. CASE StartEntry
      BY <2>1, StartEntryStep
    <2>2. CASE Dequeue
      BY <2>2, DequeueStep
    <2>3. ASSUME NEW n \in todo, Visit(n) PROVE IInv'
      BY <2>3, VisitStep
    <2>4. CASE UNCHANGED vars
      BY <2>4, Stutters
    <2>. QED
      BY <2>1, <2>2, <2>3, <2>4 DEF Next
  <1>. QED
    BY Initially, <1>1, PTL DEF Spec

-----------------------------------------------------------------------------
(* Completeness: a node that was met is still in the queue, at the end of a    *)
(* path that reached the cap, or all its neighbours are visited or about to be. *)

Queued(m) == \E k \in 1 .. Len(queue) : queue[k][Len(queue[k])] = m

AtCap(m) == \E p \in paths : p[Len(p)] = m /\ Len(p) = MaxDepth

Covered(m) == Queued(m) \/ AtCap(m) \/ Neighbors(m) \subseteq visited \cup todo

CoverInv == \A m \in visited : Covered(m)

LEMMA StartEntryCovers == IInv /\ CoverInv /\ StartEntry => CoverInv'
  <1>. SUFFICES ASSUME StartEntry PROVE CoverInv'
    OBVIOUS
  <1>1. PICK start : queue' = <<<<start>>>> /\ visited' = {start}
    BY DEF StartEntry
  <1>2. Queued(start)'
    BY <1>1 DEF Queued
  <1>. QED
    BY <1>1, <1>2 DEF CoverInv, Covered

LEMMA DequeueCovers == IInv /\ CoverInv /\ Dequeue => CoverInv'
  <1>. SUFFICES ASSUME IInv, CoverInv, Dequeue PROVE CoverInv'
    OBVIOUS
  <1>1. UNCHANGED <<visited, paths>> /\ todo = {} /\ \A m : Neighbors(m)' = Neighbors(m)
    BY SameGraph DEF Dequeue, Neighbors
  <1>2. /\ path' = queue[1]
        /\ Len(queue) \in Nat \ {0}
        /\ Len(queue') = Len(queue) - 1
        /\ \A i \in 1 .. Len(queue) - 1 : queue'[i] = queue[i + 1]
    BY TailProps DEF Dequeue, IInv, QueueInv
  <1>3. ASSUME NEW m \in visited PROVE Covered(m)'
    <2>1. CASE Neighbors(m) \subseteq visited \cup todo
      BY <2>1, <1>1 DEF Covered
    <2>2. CASE AtCap(m)
      BY <2>2, <1>1 DEF Covered, AtCap
    <2>3. CASE Queued(m)
      <3>1. PICK k \in 1 .. Len(queue) : queue[k][Len(queue[k])] = m
        BY <2>3 DEF Queued
      <3>2. CASE k = 1
        <4>1. todo' = Neighbors(m)
          BY <3>1, <3>2, <1>1, <1>2 DEF Dequeue, Last
        <4>. QED
          BY <4>1, <1>1 DEF Covered
      <3>3. CASE k # 1
        <4>1. k - 1 \in 1 .. Len(queue) - 1 /\ queue'[k - 1] = queue[k]
          BY <3>3, <1>2
        <4>2. Queued(m)'
          BY <4>1, <3>1, <1>2 DEF Queued
        <4>. QED
          BY <4>2 DEF Covered
      <3>. QED
        BY <3>2, <3>3
    <2>. QED
      BY <2>1, <2>2, <2>3 DEF CoverInv, Covered
  <1>. QED
    BY <1>1, <1>3 DEF CoverInv

LEMMA VisitCovers ==
    ASSUME IInv, CoverInv, NEW n \in todo, Visit(n)
    PROVE  CoverInv'
  <1>1. \A m : Neighbors(m)' = Neighbors(m)
    BY SameGraph DEF Visit, Neighbors
  <1>2. visited \cup todo \subseteq visited' \cup todo'
    BY DEF Visit
  <1>3. CASE n \in visited
    BY <1>3, <1>1, <1>2 DEF Visit, CoverInv, Covered, Queued, AtCap
  <1>4. CASE n \notin visited
    <2>. PICK newPath : newPath = Append(path, n)
      OBVIOUS
    <2>1. /\ visited' = visited \cup {n}
          /\ queue' = IF Len(newPath) < MaxDepth THEN Append(queue, newPath) ELSE queue
          /\ paths' = paths \cup {newPath}
      BY <1>4 DEF Visit
    <2>2. /\ path \in Seq(Nodes) /\ Len(path) \in 1 .. 7 /\ n \in Nodes
          /\ queue \in Seq(Seq(Nodes))
      BY DEF IInv, TypeOK, PathInv, QueueInv, Open, Chain, MaxDepth
    <2>3. newPath \in Seq(Nodes) /\ Len(newPath) \in 2 .. 8 /\ newPath[Len(newPath)] = n
      <3>1. /\ newPath \in Seq(Nodes)
            /\ Len(newPath) = Len(path) + 1
            /\ newPath[Len(path) + 1] = n
        BY <2>2, AppendProps
      <3>2. Len(newPath) \in 2 .. 8
        <4>1. \A l \in 1 .. 7 : l + 1 \in 2 .. 8
          OBVIOUS
        <4>. QED
          BY <4>1, <3>1, <2>2, Zenon
      <3>3. newPath[Len(newPath)] = n
        BY <3>1
      <3>. QED
        BY <3>1, <3>2, <3>3
    <2>4. \A m : AtCap(m) => AtCap(m)'
      BY <2>1 DEF AtCap
    <2>5. CASE Len(newPath) < MaxDepth
      <3>1. /\ Len(queue') = Len(queue) + 1 /\ Len(queue) \in Nat
            /\ \A i \in 1 .. Len(queue) : queue'[i] = queue[i]
            /\ queue'[Len(queue) + 1] = newPath
        BY <2>1, <2>2, <2>3, <2>5, AppendProps
      <3>2. \A m : Queued(m) => Queued(m)'
        BY <3>1 DEF Queued
      <3>3. Queued(n)'
        BY <3>1, <2>3 DEF Queued
      <3>. QED
        BY <3>2, <3>3, <2>1, <2>4, <1>1, <1>2 DEF CoverInv, Covered
    <2>6. CASE ~(Len(newPath) < MaxDepth)
      <3>1. AtCap(n)'
        <4>1. Len(newPath) = MaxDepth
          BY <2>3, <2>6 DEF MaxDepth
        <4>. QED
          BY <4>1, <2>1, <2>3 DEF AtCap
      <3>2. \A m : Queued(m) => Queued(m)'
        BY <2>1, <2>6 DEF Queued
      <3>. QED
        BY <3>1, <3>2, <2>1, <2>4, <1>1, <1>2 DEF CoverInv, Covered
    <2>. QED
      BY <2>5, <2>6
  <1>. QED
    BY <1>3, <1>4

LEMMA CoverInvHolds == Spec => []CoverInv
  <1>1. Init => CoverInv
    BY DEF Init, CoverInv
  <1>2. IInv /\ CoverInv /\ [Next]_vars => CoverInv'
    <2>. SUFFICES ASSUME IInv, CoverInv, [Next]_vars PROVE CoverInv'
      OBVIOUS
    <2>1. CASE StartEntry
      BY <2>1, StartEntryCovers
    <2>2. CASE Dequeue
      BY <2>2, DequeueCovers
    <2>3. ASSUME NEW n \in todo, Visit(n) PROVE CoverInv'
      BY <2>3, VisitCovers
    <2>4. CASE UNCHANGED vars
      <3>1. \A m : Neighbors(m)' = Neighbors(m)
        BY <2>4, SameGraph DEF vars, graph, Neighbors
      <3>. QED
        BY <2>4, <3>1 DEF vars, CoverInv, Covered, Queued, AtCap
    <2>. QED
      BY <2>1, <2>2, <2>3, <2>4 DEF Next
  <1>. QED
    BY IInvHolds, <1>1, <1>2, PTL DEF Spec

-----------------------------------------------------------------------------
(* Breadth first: what is known of the order of the queue.                     *)

\* The entry points that were searched from, or are being searched from.
Searched == EntryPoints \ entries

\* All that was ever in the queue, and the paths that were not put in it.
Trails == paths \cup {<<e>> : e \in Searched}

Near(e, n, l) == n = e \/ \E q \in paths : q[1] = e /\ q[Len(q)] = n /\ Len(q) <= l

Met(e, n) == n = e \/ \E q \in paths : q[1] = e /\ q[Len(q)] = n

InQueue(p) == \E k \in 1 .. Len(queue) : queue[k] = p

TrailsInv ==
    /\ \A p \in paths : p[1] \in Searched
    /\ \A k \in 1 .. Len(queue) : queue[k] \in Trails
    /\ todo # {} => path \in Trails

\* One search at a time, and what it visited it met.
OneSearchInv ==
    /\ \A j, k \in 1 .. Len(queue) : queue[j][1] = queue[k][1]
    /\ todo # {} => \A k \in 1 .. Len(queue) : queue[k][1] = path[1]
    /\ \A m \in visited :
          /\ todo # {} => Met(path[1], m)
          /\ \A k \in 1 .. Len(queue) : Met(queue[k][1], m)

\* The queue is ordered by length, and no path is longer by more than one node
\* than one that is still to be extended.
OrderInv ==
    /\ \A j, k \in 1 .. Len(queue) : j <= k => Len(queue[j]) <= Len(queue[k])
    /\ \A k \in 1 .. Len(queue) : \A p \in paths :
          p[1] = queue[k][1] => Len(p) <= Len(queue[k]) + 1
    /\ todo # {} =>
          /\ \A k \in 1 .. Len(queue) : Len(path) <= Len(queue[k])
          /\ \A p \in paths : p[1] = path[1] => Len(p) <= Len(path) + 1

Grown(p) ==
    \A n \in Neighbors(p[Len(p)]) : (p = path /\ n \in todo) \/ Near(p[1], n, Len(p) + 1)

\* A path below the cap is still in the queue, or every neighbour of its last node
\* has a path that is at most one node longer, unless its turn is yet to come.
GrownInv == \A p \in Trails : Len(p) < MaxDepth => InQueue(p) \/ Grown(p)

SearchInv == TrailsInv /\ OneSearchInv /\ OrderInv /\ GrownInv

LEMMA TrailsAreChains ==
    ASSUME IInv
    PROVE  /\ \A p \in Trails : p \in Seq(Nodes) /\ Len(p) \in Nat \ {0} /\ p[1] \in EntryPoints
           /\ \A k \in 1 .. Len(queue) : queue[k] \in Seq(Nodes) /\ Len(queue[k]) \in Nat \ {0}
           /\ \A p \in paths : p \in Seq(Nodes) /\ Len(p) \in Nat \ {0}
           /\ todo # {} => path \in Seq(Nodes) /\ Len(path) \in Nat \ {0}
  <1>1. ASSUME NEW p, Chain(p), Len(p) \in 1 .. MaxDepth
        PROVE  p \in Seq(Nodes) /\ Len(p) \in Nat \ {0} /\ p[1] \in EntryPoints
    BY <1>1 DEF Chain, MaxDepth
  <1>2. \A p \in paths : p \in Seq(Nodes) /\ Len(p) \in Nat \ {0} /\ p[1] \in EntryPoints
    BY <1>1 DEF IInv, PathsInv, MaxDepth
  <1>3. ASSUME NEW e \in Searched
        PROVE  <<e>> \in Seq(Nodes) /\ Len(<<e>>) = 1 /\ <<e>>[1] \in EntryPoints
    BY DEF Searched, EntryPoints, Nodes
  <1>4. \A p : Open(p) => p \in Seq(Nodes) /\ Len(p) \in Nat \ {0}
    BY <1>1 DEF Open, MaxDepth
  <1>5. \A p \in Trails : p \in Seq(Nodes) /\ Len(p) \in Nat \ {0} /\ p[1] \in EntryPoints
    BY <1>2, <1>3 DEF Trails
  <1>6. \A k \in 1 .. Len(queue) : queue[k] \in Seq(Nodes) /\ Len(queue[k]) \in Nat \ {0}
    BY <1>4 DEF IInv, QueueInv
  <1>7. todo # {} => path \in Seq(Nodes) /\ Len(path) \in Nat \ {0}
    BY <1>4 DEF IInv, PathInv
  <1>. QED
    BY <1>2, <1>5, <1>6, <1>7

LEMMA StartEntrySearches == IInv /\ SearchInv /\ StartEntry => SearchInv'
  <1>. SUFFICES ASSUME IInv, SearchInv, StartEntry PROVE SearchInv'
    OBVIOUS
  <1>1. UNCHANGED <<EntryPoints, path, todo, paths>> /\ todo = {} /\ queue = <<>>
        /\ \A m : Neighbors(m)' = Neighbors(m)
    BY SameGraph DEF StartEntry, Neighbors
  <1>2. PICK start \in entries : /\ entries' = entries \ {start}
                                 /\ queue' = <<<<start>>>>
                                 /\ visited' = {start}
    BY DEF StartEntry
  <1>3. /\ Len(queue') = 1 /\ queue'[1] = <<start>>
        /\ Len(<<start>>) = 1 /\ <<start>>[1] = start
    BY <1>2
  <1>4. start \in EntryPoints /\ Searched' = Searched \cup {start} /\ start \notin Searched
    BY <1>1, <1>2 DEF Searched, IInv, TypeOK
  <1>5. Trails' = Trails \cup {<<start>>}
    BY <1>1, <1>4 DEF Trails
  <1>6. TrailsInv'
    <2>1. \A k \in 1 .. Len(queue') : queue'[k] = <<start>>
      BY <1>3
    <2>. QED
      BY <2>1, <1>1, <1>4, <1>5 DEF TrailsInv, SearchInv
  <1>7. OneSearchInv'
    BY <1>1, <1>2, <1>3 DEF OneSearchInv, Met
  <1>8. OrderInv'
    <2>1. \A p \in paths' : p[1] # start
      BY <1>1, <1>4 DEF SearchInv, TrailsInv
    <2>. QED
      BY <2>1, <1>1, <1>3 DEF OrderInv
  <1>9. GrownInv'
    <2>1. InQueue(<<start>>)'
      BY <1>3 DEF InQueue
    <2>2. \A p : ~InQueue(p)
      <3>1. Len(queue) = 0
        BY <1>1
      <3>. QED
        BY <3>1 DEF InQueue
    <2>3. \A p : Grown(p) => Grown(p)'
      BY <1>1 DEF Grown, Near
    <2>. QED
      BY <2>1, <2>2, <2>3, <1>5 DEF GrownInv, SearchInv
  <1>. QED
    BY <1>6, <1>7, <1>8, <1>9 DEF SearchInv

LEMMA DequeueSearches == IInv /\ SearchInv /\ Dequeue => SearchInv'
  <1>. SUFFICES ASSUME IInv, SearchInv, Dequeue PROVE SearchInv'
    OBVIOUS
  <1>1. UNCHANGED <<EntryPoints, entries, visited, paths>> /\ todo = {}
        /\ \A m : Neighbors(m)' = Neighbors(m)
    BY SameGraph DEF Dequeue, Neighbors
  <1>2. /\ path' = queue[1]
        /\ Len(queue) \in Nat \ {0}
        /\ Len(queue') = Len(queue) - 1
        /\ \A i \in 1 .. Len(queue) - 1 : queue'[i] = queue[i + 1]
    BY TailProps DEF Dequeue, IInv, QueueInv
  <1>3. \A i \in 1 .. Len(queue') : i + 1 \in 1 .. Len(queue) /\ queue'[i] = queue[i + 1]
    BY <1>2
  <1>4. 1 \in 1 .. Len(queue)
    BY <1>2
  <1>5. Trails' = Trails /\ Searched' = Searched
    BY <1>1 DEF Trails, Searched
  <1>6. TrailsInv'
    BY <1>1, <1>2, <1>3, <1>4, <1>5 DEF TrailsInv, SearchInv
  <1>7. OneSearchInv'
    <2>1. \A e, m : Met(e, m)' <=> Met(e, m)
      BY <1>1 DEF Met
    <2>2. \A j, k \in 1 .. Len(queue') : queue'[j][1] = queue'[k][1]
      BY <1>3 DEF OneSearchInv, SearchInv
    <2>3. \A k \in 1 .. Len(queue') : queue'[k][1] = path'[1]
      BY <1>2, <1>3, <1>4 DEF OneSearchInv, SearchInv
    <2>4. \A m \in visited : Met(path'[1], m) /\ \A k \in 1 .. Len(queue') : Met(queue'[k][1], m)
      BY <1>2, <1>3, <1>4 DEF OneSearchInv, SearchInv
    <2>. QED
      BY <2>1, <2>2, <2>3, <2>4, <1>1 DEF OneSearchInv
  <1>8. OrderInv'
    <2>1. \A i, j \in 1 .. Len(queue') : i <= j => Len(queue'[i]) <= Len(queue'[j])
      <3>1. \A i, j \in 1 .. Len(queue') : i <= j => i + 1 <= j + 1
        BY <1>2
      <3>. QED
        BY <3>1, <1>3 DEF OrderInv, SearchInv
    <2>2. \A i \in 1 .. Len(queue') : 1 <= i + 1
      BY <1>2
    <2>. QED
      BY <2>1, <2>2, <1>1, <1>2, <1>3, <1>4 DEF OrderInv, SearchInv
  <1>9. GrownInv'
    <2>. SUFFICES ASSUME NEW p \in Trails, Len(p) < MaxDepth
                  PROVE  InQueue(p)' \/ Grown(p)'
      BY <1>5 DEF GrownInv
    <2>1. CASE Grown(p)
      BY <2>1, <1>1 DEF Grown, Near
    <2>2. CASE InQueue(p)
      <3>1. PICK k \in 1 .. Len(queue) : queue[k] = p
        BY <2>2 DEF InQueue
      <3>2. CASE k = 1
        <4>1. path' = p
          BY <3>1, <3>2, <1>2
        <4>2. todo' = Neighbors(p[Len(p)])
          BY <4>1 DEF Dequeue, Last
        <4>. QED
          BY <4>1, <4>2, <1>1 DEF Grown
      <3>3. CASE k # 1
        <4>1. k - 1 \in 1 .. Len(queue') /\ queue'[k - 1] = queue[k]
          BY <3>3, <1>2
        <4>. QED
          BY <4>1, <3>1 DEF InQueue
      <3>. QED
        BY <3>2, <3>3
    <2>. QED
      BY <2>1, <2>2 DEF GrownInv, SearchInv
  <1>. QED
    BY <1>6, <1>7, <1>8, <1>9 DEF SearchInv

\* A neighbour that is visited already: nothing but todo changes.
LEMMA VisitAgainSearches ==
    ASSUME IInv, SearchInv, NEW n \in todo, Visit(n), n \in visited
    PROVE  SearchInv'
  <1>1. UNCHANGED <<EntryPoints, entries, visited, queue, path, paths>> /\ todo' = todo \ {n}
        /\ \A m : Neighbors(m)' = Neighbors(m)
    BY SameGraph DEF Visit, Neighbors
  <1>2. Trails' = Trails /\ Searched' = Searched
    BY <1>1 DEF Trails, Searched
  <1>3. \A e, m : Met(e, m)' <=> Met(e, m)
    BY <1>1 DEF Met
  <1>4. TrailsInv'
    BY <1>1, <1>2 DEF TrailsInv, SearchInv
  <1>5. OneSearchInv'
    BY <1>1, <1>3 DEF OneSearchInv, SearchInv
  <1>6. OrderInv'
    BY <1>1 DEF OrderInv, SearchInv
  <1>7. Near(path[1], n, Len(path) + 1)
    <2>1. Met(path[1], n)
      BY DEF SearchInv, OneSearchInv
    <2>. QED
      BY <2>1 DEF Met, Near, SearchInv, OrderInv
  <1>8. \A e, m, l : Near(e, m, l)' <=> Near(e, m, l)
    BY <1>1 DEF Near
  <1>9. \A p : Grown(p) => Grown(p)'
    BY <1>1, <1>7, <1>8 DEF Grown
  <1>10. GrownInv'
    BY <1>1, <1>2, <1>9 DEF GrownInv, SearchInv, InQueue
  <1>. QED
    BY <1>4, <1>5, <1>6, <1>10 DEF SearchInv

\* A neighbour that is new.
LEMMA VisitFirstSearches ==
    ASSUME IInv, SearchInv, NEW n \in todo, Visit(n), n \notin visited
    PROVE  SearchInv'
  <1>. PICK newPath : newPath = Append(path, n)
    OBVIOUS
  <1>1. /\ UNCHANGED <<EntryPoints, entries, path>> /\ todo' = todo \ {n}
        /\ visited' = visited \cup {n}
        /\ queue' = IF Len(newPath) < MaxDepth THEN Append(queue, newPath) ELSE queue
        /\ paths' = paths \cup {newPath}
        /\ \A m : Neighbors(m)' = Neighbors(m)
    BY SameGraph DEF Visit, Neighbors
  <1>2. /\ path \in Seq(Nodes) /\ Len(path) \in Nat \ {0} /\ path \in Trails
        /\ n \in Nodes /\ queue \in Seq(Seq(Nodes))
    BY TrailsAreChains DEF IInv, TypeOK, QueueInv, SearchInv, TrailsInv
  <1>3. /\ newPath \in Seq(Nodes)
        /\ Len(newPath) = Len(path) + 1
        /\ newPath[1] = path[1] /\ newPath[Len(newPath)] = n
    BY <1>2, AppendProps
  <1>4. Searched' = Searched /\ Trails' = Trails \cup {newPath}
    BY <1>1 DEF Trails, Searched
  <1>5. path[1] \in Searched
    <2>1. \A e : <<e>>[1] = e
      OBVIOUS
    <2>. QED
      BY <2>1, <1>2 DEF Trails, SearchInv, TrailsInv
  <1>6. \A k \in 1 .. Len(queue') :
           \/ k \in 1 .. Len(queue) /\ queue'[k] = queue[k]
           \/ k = Len(queue) + 1 /\ queue'[k] = newPath /\ Len(newPath) < MaxDepth
    BY <1>1, <1>2, <1>3, AppendProps
  <1>7. /\ \A p : InQueue(p) => InQueue(p)'
        /\ Len(newPath) < MaxDepth => InQueue(newPath)'
    <2>1. CASE Len(newPath) < MaxDepth
      <3>1. /\ Len(queue') = Len(queue) + 1 /\ Len(queue) \in Nat
            /\ \A i \in 1 .. Len(queue) : queue'[i] = queue[i]
            /\ queue'[Len(queue) + 1] = newPath
        BY <1>1, <1>2, <1>3, <2>1, AppendProps
      <3>. QED
        BY <3>1 DEF InQueue
    <2>2. CASE ~(Len(newPath) < MaxDepth)
      BY <2>2, <1>1 DEF InQueue
    <2>. QED
      BY <2>1, <2>2
  <1>8. TrailsInv'
    BY <1>1, <1>3, <1>4, <1>5, <1>6 DEF TrailsInv, SearchInv
  <1>9. \A e, m : Met(e, m) => Met(e, m)'
    BY <1>1 DEF Met
  <1>10. Met(path[1], n)'
    BY <1>1, <1>3 DEF Met
  <1>11. \A k \in 1 .. Len(queue') : queue'[k][1] = path[1]
    BY <1>3, <1>6 DEF SearchInv, OneSearchInv
  <1>12. OneSearchInv'
    <2>1. \A m \in visited' : Met(path[1], m)'
      BY <1>1, <1>9, <1>10 DEF SearchInv, OneSearchInv
    <2>. QED
      BY <2>1, <1>1, <1>11 DEF OneSearchInv
  <1>13. OrderInv'
    <2>1. \A p \in paths : Len(p) \in Nat
      BY TrailsAreChains
    <2>2. \A k \in 1 .. Len(queue) : Len(queue[k]) \in Nat /\ Len(queue[k]) <= Len(newPath)
                                     /\ Len(path) <= Len(queue[k])
      <3>. SUFFICES ASSUME NEW k \in 1 .. Len(queue)
                    PROVE  Len(queue[k]) \in Nat /\ Len(queue[k]) <= Len(newPath)
                           /\ Len(path) <= Len(queue[k])
        OBVIOUS
      <3>1. Len(queue[k]) \in Nat /\ queue[k] \in Trails /\ queue[k][1] = path[1]
            /\ Len(path) <= Len(queue[k])
        BY TrailsAreChains DEF SearchInv, TrailsInv, OneSearchInv, OrderInv
      <3>2. CASE queue[k] \in paths
        BY <3>1, <3>2, <1>3 DEF SearchInv, OrderInv
      <3>3. CASE queue[k] \notin paths
        <4>1. Len(queue[k]) = 1
          BY <3>1, <3>3 DEF Trails
        <4>. QED
          BY <4>1, <3>1, <1>2, <1>3
      <3>. QED
        BY <3>2, <3>3
    <2>3. \A k \in 1 .. Len(queue') : /\ Len(queue'[k]) \in Nat /\ Len(path) <= Len(queue'[k])
                                      /\ Len(queue'[k]) <= Len(newPath)
      <3>. SUFFICES ASSUME NEW k \in 1 .. Len(queue')
                    PROVE  /\ Len(queue'[k]) \in Nat /\ Len(path) <= Len(queue'[k])
                           /\ Len(queue'[k]) <= Len(newPath)
        OBVIOUS
      <3>1. CASE k \in 1 .. Len(queue) /\ queue'[k] = queue[k]
        BY <3>1, <2>2
      <3>2. CASE queue'[k] = newPath
        BY <3>2, <1>2, <1>3
      <3>. QED
        BY <3>1, <3>2, <1>6
    <2>4. \A p \in paths' : p[1] = path[1] => Len(p) \in Nat /\ Len(p) <= Len(path) + 1
      BY <2>1, <1>1, <1>2, <1>3 DEF SearchInv, OrderInv
    <2>5. ASSUME NEW j \in 1 .. Len(queue'), NEW k \in 1 .. Len(queue'), j <= k
          PROVE  Len(queue'[j]) <= Len(queue'[k])
      <3>1. CASE k = Len(queue) + 1
        BY <3>1, <2>3, <1>2, <1>6
      <3>2. CASE k \in 1 .. Len(queue)
        <4>1. j \in 1 .. Len(queue)
          BY <3>2, <2>5, <1>2
        <4>2. queue'[j] = queue[j] /\ queue'[k] = queue[k]
          BY <4>1, <3>2, <1>2, <1>6
        <4>. QED
          BY <4>1, <4>2, <3>2, <2>5 DEF SearchInv, OrderInv
      <3>. QED
        BY <3>1, <3>2, <1>6
    <2>6. \A k \in 1 .. Len(queue') : \A p \in paths' :
             p[1] = queue'[k][1] => Len(p) <= Len(queue'[k]) + 1
      <3>. SUFFICES ASSUME NEW k \in 1 .. Len(queue'), NEW p \in paths',
                           p[1] = queue'[k][1]
                    PROVE  Len(p) <= Len(queue'[k]) + 1
        OBVIOUS
      <3>1. Len(p) \in Nat /\ Len(p) <= Len(path) + 1
        BY <2>4, <1>11
      <3>2. Len(queue'[k]) \in Nat /\ Len(path) <= Len(queue'[k]) /\ Len(path) \in Nat
        BY <2>3, <1>2
      <3>. QED
        BY <3>1, <3>2
    <2>. QED
      BY <2>3, <2>4, <2>5, <2>6, <1>1 DEF OrderInv
  <1>14. GrownInv'
    <2>1. \A e, m, l : Near(e, m, l) => Near(e, m, l)'
      BY <1>1 DEF Near
    <2>2. Near(path[1], n, Len(path) + 1)'
      BY <1>1, <1>2, <1>3 DEF Near
    <2>3. \A p : Grown(p) => Grown(p)'
      BY <2>1, <2>2, <1>1 DEF Grown
    <2>. QED
      BY <2>3, <1>4, <1>7 DEF GrownInv, SearchInv
  <1>. QED
    BY <1>8, <1>12, <1>13, <1>14 DEF SearchInv

LEMMA SearchInvHolds == Spec => []SearchInv
  <1>1. Init => SearchInv
    <2>. SUFFICES ASSUME Init PROVE SearchInv
      OBVIOUS
    <2>1. paths = {} /\ Len(queue) = 0 /\ todo = {} /\ visited = {} /\ Searched = {}
      BY DEF Init, Searched
    <2>. QED
      BY <2>1 DEF SearchInv, TrailsInv, OneSearchInv, OrderInv, GrownInv, Trails
  <1>2. IInv /\ SearchInv /\ [Next]_vars => SearchInv'
    <2>. SUFFICES ASSUME IInv, SearchInv, [Next]_vars PROVE SearchInv'
      OBVIOUS
    <2>1. CASE StartEntry
      BY <2>1, StartEntrySearches
    <2>2. CASE Dequeue
      BY <2>2, DequeueSearches
    <2>3. ASSUME NEW n \in todo, Visit(n) PROVE SearchInv'
      BY <2>3, VisitAgainSearches, VisitFirstSearches
    <2>4. CASE UNCHANGED vars
      <3>1. UNCHANGED <<EntryPoints, Trails, Searched, visited, queue, path, todo, paths>>
            /\ \A m : Neighbors(m)' = Neighbors(m)
        BY <2>4, SameGraph DEF vars, graph, Neighbors, Trails, Searched
      <3>2. TrailsInv' /\ OneSearchInv' /\ OrderInv'
        BY <3>1 DEF SearchInv, TrailsInv, OneSearchInv, OrderInv, Met
      <3>3. GrownInv'
        BY <3>1 DEF SearchInv, GrownInv, Grown, InQueue, Near
      <3>. QED
        BY <3>2, <3>3 DEF SearchInv
    <2>. QED
      BY <2>1, <2>2, <2>3, <2>4 DEF Next
  <1>. QED
    BY IInvHolds, <1>1, <1>2, PTL DEF Spec

-----------------------------------------------------------------------------
(* The walks of the graph, and how far they lead.                              *)

LEMMA NodesAreFinite == TypeOK => IsFiniteSet(Nodes) /\ IsFiniteSet(DOMAIN finding)
  <1>. SUFFICES ASSUME TypeOK PROVE IsFiniteSet(Nodes) /\ IsFiniteSet(DOMAIN finding)
    OBVIOUS
  <1>1. DOMAIN finding \in SUBSET FindingIds /\ DOMAIN asset \in SUBSET AssetIds
    BY DEF TypeOK
  <1>2. IsFiniteSet(DOMAIN finding) /\ IsFiniteSet(DOMAIN asset)
    BY <1>1, FiniteAssumption, FS_Subset DEF FiniteAssumption
  <1>. QED
    BY <1>2, FS_Union DEF Nodes

LEMMA WithinEquations ==
    ASSUME NEW e \in Nodes
    PROVE  /\ Within(e)[0] = {e}
           /\ \A n \in Nat : Within(e)[n + 1] =
                 Within(e)[n] \cup UNION {Neighbors(m) : m \in Within(e)[n]}
  <1>. DEFINE G == [s \in SUBSET Nodes |-> s \cup UNION {Neighbors(m) : m \in s}]
              Eq(f) == f = [n \in Nat |-> IF n = 0 THEN {e}
                                          ELSE f[n - 1] \cup UNION {Neighbors(m) : m \in f[n - 1]}]
  <1>1. G \in [SUBSET Nodes -> SUBSET Nodes] /\ {e} \in SUBSET Nodes
    BY DEF Neighbors
  <1>2. PICK f \in [Nat -> SUBSET Nodes] : f = [n \in Nat |-> IF n <= 0 THEN {e} ELSE G[f[n - 1]]]
    <2>. DEFINE D == SUBSET Nodes
                x == {e}
    <2>1. x \in D /\ G \in [D -> D] /\ 0 \in Nat
      BY <1>1
    <2>. HIDE DEF G, D, x
    <2>2. \E f \in [Nat -> D] : f = [n \in Nat |-> IF n <= 0 THEN x ELSE G[f[n - 1]]]
      BY <2>1, Recursion
    <2>. QED
      BY <2>2 DEF D, x
  <1>3. Eq(f)
    <2>. DEFINE g == [n \in Nat |-> IF n = 0 THEN {e}
                                    ELSE f[n - 1] \cup UNION {Neighbors(m) : m \in f[n - 1]}]
    <2>1. ASSUME NEW n \in Nat PROVE f[n] = g[n]
      <3>1. CASE n = 0
        BY <3>1, <1>2
      <3>2. CASE n # 0
        <4>1. n - 1 \in Nat /\ f[n - 1] \in SUBSET Nodes
          BY <3>2
        <4>2. f[n] = G[f[n - 1]]
          <5>. HIDE DEF G
          <5>. QED
            BY <3>2, <1>2
        <4>. QED
          BY <4>1, <4>2, <3>2
      <3>. QED
        BY <3>1, <3>2
    <2>. QED
      BY <2>1, <1>2
  <1>4. Within(e) = CHOOSE w : Eq(w)
    BY DEF Within
  <1>5. Eq(Within(e))
    <2>. HIDE DEF Eq
    <2>. QED
      BY <1>3, <1>4
  <1>6. \A n \in Nat : n + 1 # 0 /\ n + 1 - 1 = n /\ n + 1 \in Nat
    OBVIOUS
  <1>. QED
    BY <1>5, <1>6

LEMMA WithinGrows ==
    ASSUME NEW e \in Nodes, NEW m \in Nat, NEW n \in Nat, m <= n
    PROVE  Within(e)[m] \subseteq Within(e)[n]
  <1>. DEFINE S == {k \in Nat : Within(e)[m] \subseteq Within(e)[m + k]}
  <1>1. 0 \in S
    OBVIOUS
  <1>2. ASSUME NEW k \in Nat, k \in S PROVE k + 1 \in S
    <2>1. m + k \in Nat /\ m + (k + 1) = (m + k) + 1
      OBVIOUS
    <2>2. Within(e)[m + k] \subseteq Within(e)[m + (k + 1)]
      BY <2>1, WithinEquations
    <2>. QED
      BY <2>2, <1>2
  <1>3. n - m \in S
    <2>. HIDE DEF S
    <2>1. n - m \in Nat
      OBVIOUS
    <2>. QED
      BY <1>1, <1>2, <2>1, NatSetInduction
  <1>4. m + (n - m) = n
    OBVIOUS
  <1>. QED
    BY <1>3, <1>4

\* i - 1 steps lead to the node at position i of a walk.
LEMMA WalksStayWithin ==
    ASSUME NEW p \in Seq(Nodes), Len(p) # 0,
           \A i \in 1 .. Len(p) - 1 : Edge(p[i], p[i + 1])
    PROVE  \A i \in 1 .. Len(p) : p[i] \in Within(p[1])[i - 1]
  <1>. DEFINE S == {k \in Nat : k + 1 <= Len(p) => p[k + 1] \in Within(p[1])[k]}
  <1>0. p[1] \in Nodes /\ Len(p) \in Nat
    OBVIOUS
  <1>1. 0 \in S
    BY <1>0, WithinEquations
  <1>2. ASSUME NEW k \in Nat, k \in S PROVE k + 1 \in S
    <2>. SUFFICES ASSUME k + 1 + 1 <= Len(p) PROVE p[k + 1 + 1] \in Within(p[1])[k + 1]
      OBVIOUS
    <2>1. p[k + 1] \in Within(p[1])[k]
      BY <1>0, <1>2
    <2>2. Edge(p[k + 1], p[k + 1 + 1]) /\ p[k + 1 + 1] \in Nodes
      BY <1>0
    <2>3. p[k + 1 + 1] \in Neighbors(p[k + 1])
      BY <2>2 DEF Neighbors
    <2>4. Within(p[1])[k + 1] =
             Within(p[1])[k] \cup UNION {Neighbors(m) : m \in Within(p[1])[k]}
      BY <1>0, WithinEquations
    <2>. QED
      BY <2>1, <2>3, <2>4
  <1>3. \A k \in Nat : k \in S
    <2>. HIDE DEF S
    <2>. QED
      BY <1>1, <1>2, NatSetInduction
  <1>4. \A i \in 1 .. Len(p) : i - 1 \in Nat /\ (i - 1) + 1 = i
    BY <1>0
  <1>. QED
    BY <1>3, <1>4, <1>0

\* When the search is over, what d < 8 steps lead to has a path of d + 1 nodes.
LEMMA SearchReaches ==
    ASSUME IInv, SearchInv, Done, NEW e \in EntryPoints, NEW d \in 0 .. 7
    PROVE  \A n \in Within(e)[d] : Near(e, n, d + 1)
  <1>0. e \in Nodes /\ e \in Searched
    BY DEF EntryPoints, Nodes, Searched, Done
  <1>. DEFINE S == {k \in Nat : k <= 7 => \A n \in Within(e)[k] : Near(e, n, k + 1)}
  <1>1. 0 \in S
    <2>1. \A n \in Within(e)[0] : n = e
      BY <1>0, WithinEquations
    <2>. QED
      BY <2>1 DEF Near
  <1>2. ASSUME NEW k \in Nat, k \in S PROVE k + 1 \in S
    <2>. SUFFICES ASSUME k + 1 <= 7, NEW n \in Within(e)[k + 1]
                  PROVE  Near(e, n, k + 1 + 1)
      OBVIOUS
    <2>1. k <= 7 /\ \A m \in Within(e)[k] : Near(e, m, k + 1)
      BY <1>2
    <2>2. ASSUME NEW m, NEW l \in Nat, l <= k + 1, Near(e, m, l) PROVE Near(e, m, k + 1 + 1)
      <3>1. \A q \in paths : Len(q) \in Nat
        BY TrailsAreChains
      <3>. QED
        BY <3>1, <2>2 DEF Near
    <2>3. CASE n \in Within(e)[k]
      BY <2>1, <2>2, <2>3
    <2>4. CASE n \notin Within(e)[k]
      <3>1. PICK m \in Within(e)[k] : n \in Neighbors(m)
        BY <2>4, <1>0, WithinEquations
      <3>2. PICK p \in Trails : p[1] = e /\ p[Len(p)] = m /\ Len(p) \in Nat /\ Len(p) <= k + 1
        <4>1. CASE m = e
          <5>1. PICK p : p = <<e>>
            OBVIOUS
          <5>2. p \in Trails /\ p[1] = e /\ p[Len(p)] = e /\ Len(p) = 1
            BY <5>1, <1>0 DEF Trails
          <5>3. p[Len(p)] = m /\ Len(p) \in Nat /\ Len(p) <= k + 1
            BY <5>2, <4>1
          <5>. QED
            BY <5>2, <5>3
        <4>2. CASE m # e
          BY <4>2, <2>1, TrailsAreChains DEF Near, Trails
        <4>. QED
          BY <4>1, <4>2
      <3>3. Len(p) < MaxDepth
        BY <3>2 DEF MaxDepth
      <3>4. ~InQueue(p)
        <4>1. Len(queue) = 0
          BY DEF Done
        <4>. QED
          BY <4>1 DEF InQueue
      <3>5. Grown(p)
        BY <3>3, <3>4 DEF SearchInv, GrownInv
      <3>6. Near(e, n, Len(p) + 1)
        BY <3>1, <3>2, <3>5 DEF Grown, Done
      <3>7. \A q \in paths : Len(q) \in Nat
        BY TrailsAreChains
      <3>. QED
        BY <3>2, <3>6, <3>7 DEF Near
    <2>. QED
      BY <2>3, <2>4
  <1>3. d \in S
    <2>. HIDE DEF S
    <2>. QED
      BY <1>1, <1>2, NatSetInduction
  <1>. QED
    BY <1>3

LEMMA PathsAreShortest == IInv /\ SearchInv => ShortestPaths
  <1>. SUFFICES ASSUME IInv, SearchInv, Done, NEW e \in EntryPoints, NEW d \in 1 .. MaxDepth - 1,
                       NEW n \in Within(e)[d] \ Within(e)[d - 1]
                PROVE  \E p \in paths : p[1] = e /\ Last(p) = n /\ Len(p) = d + 1
    BY DEF ShortestPaths
  <1>1. d \in 1 .. 7 /\ d \in 0 .. 7 /\ d \in Nat /\ d - 1 \in Nat /\ e \in Nodes
    BY DEF MaxDepth, EntryPoints, Nodes
  <1>2. n # e
    <2>1. e \in Within(e)[0]
      BY <1>1, WithinEquations
    <2>2. e \in Within(e)[d - 1]
      BY <2>1, <1>1, WithinGrows
    <2>. QED
      BY <2>2
  <1>3. PICK p \in paths : p[1] = e /\ p[Len(p)] = n /\ Len(p) <= d + 1
    BY <1>1, <1>2, SearchReaches DEF Near
  <1>4. p \in Seq(Nodes) /\ Len(p) \in Nat \ {0} /\ \A i \in 1 .. Len(p) - 1 : Edge(p[i], p[i + 1])
    BY TrailsAreChains DEF IInv, PathsInv, Chain
  <1>5. n \in Within(e)[Len(p) - 1]
    BY <1>3, <1>4, WalksStayWithin
  <1>6. Len(p) = d + 1
    <2>. SUFFICES ASSUME Len(p) # d + 1 PROVE FALSE
      OBVIOUS
    <2>1. Len(p) - 1 \in Nat /\ Len(p) - 1 <= d - 1
      BY <1>1, <1>3, <1>4
    <2>. QED
      BY <2>1, <1>1, <1>5, WithinGrows
  <1>. QED
    BY <1>3, <1>6 DEF Last

-----------------------------------------------------------------------------
(* Every attack path there is, and why the cap cuts none of them off.          *)

LEMMA SimplePathsEquations ==
    ASSUME NEW e \in Nodes
    PROVE  \E S : /\ SimplePaths(e) = S[Cardinality(Nodes)]
                  /\ S[0] = {<<e>>}
                  /\ \A n \in Nat : S[n + 1] = S[n] \/ S[n + 1] =
                        S[n] \cup UNION {{Append(p, x) : x \in Neighbors(Last(p)) \ ToSet(p)}
                                         : p \in S[n]}
  <1>. DEFINE Ext(p) == {Append(p, n) : n \in Neighbors(Last(p)) \ ToSet(p)}
              C == {p \in Seq(Nodes) : p # <<>>}
              G == [s \in SUBSET C |-> s \cup UNION {Ext(p) : p \in s}]
              Eq(f) == f = [n \in Nat |-> IF n <= 1 THEN {<<e>>}
                                          ELSE f[n - 1] \cup UNION {Ext(p) : p \in f[n - 1]}]
  <1>1. G \in [SUBSET C -> SUBSET C] /\ {<<e>>} \in SUBSET C
    <2>1. <<e>> \in C
      OBVIOUS
    <2>2. ASSUME NEW p \in C, NEW x \in Nodes PROVE Append(p, x) \in C
      <3>1. Append(p, x) \in Seq(Nodes) /\ Len(Append(p, x)) = Len(p) + 1 /\ Len(p) \in Nat
        BY AppendProps
      <3>2. Len(<<>>) = 0
        OBVIOUS
      <3>. QED
        BY <3>1, <3>2
    <2>3. ASSUME NEW p \in C PROVE Ext(p) \subseteq C
      BY <2>2 DEF Neighbors
    <2>. HIDE DEF C, Ext
    <2>. QED
      BY <2>1, <2>3
  <1>2. PICK f \in [Nat -> SUBSET C] :
           f = [n \in Nat |-> IF n <= 1 THEN {<<e>>} ELSE G[f[n - 1]]]
    <2>. DEFINE D == SUBSET C
                x == {<<e>>}
    <2>1. x \in D /\ G \in [D -> D] /\ 1 \in Nat
      BY <1>1
    <2>. HIDE DEF G, D, x
    <2>2. \E f \in [Nat -> D] : f = [n \in Nat |-> IF n <= 1 THEN x ELSE G[f[n - 1]]]
      BY <2>1, Recursion
    <2>. QED
      BY <2>2 DEF D, x
  <1>3. Eq(f)
    <2>. HIDE DEF C, Ext
    <2>. DEFINE g == [n \in Nat |-> IF n <= 1 THEN {<<e>>}
                                    ELSE f[n - 1] \cup UNION {Ext(p) : p \in f[n - 1]}]
    <2>1. ASSUME NEW n \in Nat PROVE f[n] = g[n]
      <3>1. CASE n <= 1
        BY <3>1, <1>2
      <3>2. CASE ~(n <= 1)
        <4>1. n - 1 \in Nat /\ f[n - 1] \in SUBSET C
          BY <3>2
        <4>2. f[n] = G[f[n - 1]]
          <5>. HIDE DEF G
          <5>. QED
            BY <3>2, <1>2
        <4>. QED
          BY <4>1, <4>2, <3>2
      <3>. QED
        BY <3>1, <3>2
    <2>. QED
      BY <2>1, <1>2
  <1>4. SimplePaths(e) = (CHOOSE s : Eq(s))[Cardinality(Nodes)]
    BY DEF SimplePaths
  <1>5. PICK S : SimplePaths(e) = S[Cardinality(Nodes)] /\ Eq(S)
    <2>. HIDE DEF Eq
    <2>. QED
      BY <1>3, <1>4
  <1>6. S[0] = {<<e>>} /\ S[1] = {<<e>>}
    BY <1>5
  <1>7. ASSUME NEW n \in Nat
        PROVE  S[n + 1] = S[n] \/ S[n + 1] = S[n] \cup UNION {Ext(p) : p \in S[n]}
    <2>1. CASE n = 0
      BY <2>1, <1>6
    <2>2. CASE n # 0
      <3>1. n + 1 \in Nat /\ ~(n + 1 <= 1) /\ n + 1 - 1 = n
        BY <2>2
      <3>. HIDE DEF Ext
      <3>. QED
        BY <3>1, <1>5
    <2>. QED
      BY <2>1, <2>2
  <1>. QED
    BY <1>5, <1>6, <1>7

LEMMA SimplePathsAreChains ==
    ASSUME TypeOK, NEW e \in EntryPoints, NEW p \in SimplePaths(e)
    PROVE  Chain(p) /\ p[1] = e /\ Len(p) \in Nat \ {0}
  <1>. DEFINE C == {q \in Seq(Nodes) : Chain(q) /\ q[1] = e /\ Len(q) # 0}
  <1>0. e \in Nodes
    BY DEF EntryPoints, Nodes
  <1>1. PICK S : /\ SimplePaths(e) = S[Cardinality(Nodes)]
                 /\ S[0] = {<<e>>}
                 /\ \A n \in Nat : S[n + 1] = S[n] \/ S[n + 1] =
                       S[n] \cup UNION {{Append(q, x) : x \in Neighbors(Last(q)) \ ToSet(q)}
                                        : q \in S[n]}
    BY <1>0, SimplePathsEquations
  <1>. DEFINE T == {n \in Nat : S[n] \subseteq C}
  <1>2. 0 \in T
    <2>1. <<e>> \in Seq(Nodes) /\ Len(<<e>>) = 1 /\ <<e>>[1] = e
      BY <1>0
    <2>2. Chain(<<e>>)
      BY <2>1 DEF Chain
    <2>3. <<e>> \in C
      BY <2>1, <2>2
    <2>. QED
      BY <2>3, <1>1
  <1>3. ASSUME NEW n \in Nat, n \in T PROVE n + 1 \in T
    <2>1. ASSUME NEW q \in C, NEW x \in Neighbors(Last(q)) \ ToSet(q)
          PROVE  Append(q, x) \in C
      <3>1. q \in Seq(Nodes) /\ Len(q) \in Nat \ {0} /\ x \in Nodes /\ x \in Neighbors(q[Len(q)])
        BY DEF Last, Neighbors
      <3>2. \A i \in 1 .. Len(q) : q[i] # x
        BY <3>1 DEF ToSet
      <3>3. Chain(Append(q, x))
        BY <3>1, <3>2, ChainGrows
      <3>4. /\ Append(q, x) \in Seq(Nodes)
            /\ Len(Append(q, x)) = Len(q) + 1
            /\ Append(q, x)[1] = q[1]
        BY <3>1, AppendProps
      <3>5. Len(Append(q, x)) # 0 /\ Append(q, x)[1] = e
        BY <3>1, <3>4
      <3>. QED
        BY <3>3, <3>4, <3>5
    <2>. HIDE DEF C
    <2>2. S[n] \subseteq C
      BY <1>3
    <2>3. UNION {{Append(q, x) : x \in Neighbors(Last(q)) \ ToSet(q)} : q \in S[n]} \subseteq C
      <3>1. \A q \in S[n] : {Append(q, x) : x \in Neighbors(Last(q)) \ ToSet(q)} \subseteq C
        BY <2>1, <2>2
      <3>. QED
        BY <3>1
    <2>4. S[n + 1] \subseteq C
      BY <2>2, <2>3, <1>1
    <2>. QED
      BY <2>4
  <1>4. \A n \in Nat : n \in T
    <2>. HIDE DEF T
    <2>. QED
      BY <1>2, <1>3, NatSetInduction
  <1>5. Cardinality(Nodes) \in Nat
    BY NodesAreFinite, FS_CardinalityType
  <1>6. p \in C
    BY <1>1, <1>4, <1>5
  <1>. QED
    BY <1>6

\* The runtime that prompts lead to is one.
RuntimeInv == runtime \in DOMAIN asset => asset[runtime] = "ai_runtime"

LEMMA RuntimeInvHolds == Spec => []RuntimeInv
  <1>1. Init => RuntimeInv
    <2>. SUFFICES ASSUME Init, runtime \in DOMAIN asset PROVE asset[runtime] = "ai_runtime"
      BY DEF RuntimeInv
    <2>1. runtime # "none"
      BY IdsAssumption DEF Init, IdsAssumption
    <2>. QED
      BY <2>1 DEF Init
  <1>2. RuntimeInv /\ [Next]_vars => RuntimeInv'
    <2>. SUFFICES ASSUME [Next]_vars PROVE UNCHANGED <<asset, runtime>>
      BY DEF RuntimeInv
    <2>. QED
      BY DEF Next, StartEntry, Dequeue, Visit, vars, graph
  <1>. QED
    BY <1>1, <1>2, PTL DEF Spec

\* A chain of findings can be cut short to two steps: a step within a category is
\* one to a lower score, so that two of them are one and one next to a step between
\* categories can be left out; and no three steps between categories follow each
\* other.
LEMMA FindingChains ==
    ASSUME TypeOK,
           NEW e \in DOMAIN finding, NEW f \in DOMAIN finding,
           NEW g \in DOMAIN finding, NEW h \in DOMAIN finding,
           ChainsTo(e, f), ChainsTo(f, g), ChainsTo(g, h)
    PROVE  \E k \in DOMAIN finding : ChainsTo(e, k) /\ ChainsTo(k, h)
  <1>. DEFINE Lower(m, n) == finding[m].category = finding[n].category
                             /\ finding[m].score > finding[n].score
              Cross(m, n) == <<finding[m].category, finding[n].category>> \in crossChains
  <1>1. \A n \in DOMAIN finding : finding[n].score \in Nat
    BY ScoresAssumption DEF TypeOK, ScoresAssumption
  <1>2. \A m, n : ChainsTo(m, n) <=> Lower(m, n) \/ Cross(m, n)
    BY DEF ChainsTo
  <1>3. \A l, m, n \in DOMAIN finding : Lower(l, m) /\ Lower(m, n) => Lower(l, n)
    BY <1>1
  <1>4. \A l, m, n : Lower(l, m) /\ Cross(m, n) => Cross(l, n)
    OBVIOUS
  <1>5. \A l, m, n : Cross(l, m) /\ Lower(m, n) => Cross(l, n)
    OBVIOUS
  <1>6. ~(Cross(e, f) /\ Cross(f, g) /\ Cross(g, h))
    BY DEF crossChains
  <1>. HIDE DEF Lower, Cross
  <1>7. CASE Lower(e, f) /\ Lower(f, g)
    BY <1>7, <1>2, <1>3
  <1>8. CASE Lower(f, g) /\ Lower(g, h)
    BY <1>8, <1>2, <1>3
  <1>9. CASE Lower(e, f) /\ Cross(f, g)
    BY <1>9, <1>2, <1>4
  <1>10. CASE Cross(e, f) /\ Lower(f, g)
    BY <1>10, <1>2, <1>5
  <1>11. CASE Cross(f, g) /\ Lower(g, h)
    BY <1>11, <1>2, <1>5
  <1>. QED
    BY <1>2, <1>6, <1>7, <1>8, <1>9, <1>10, <1>11

\* Assets lead to the host or to the runtime, and the runtime to the host.
LEMMA AssetChains ==
    ASSUME RuntimeInv, NEW a \in DOMAIN asset, NEW b \in DOMAIN asset, NEW c \in DOMAIN asset,
           NEW d, AssetEdge(a, b), AssetEdge(b, c)
    PROVE  ~AssetEdge(c, d)
  <1>1. asset[b] = "host" \/ asset[b] = "ai_runtime"
    BY DEF AssetEdge, RuntimeInv
  <1>2. "host" \notin AttachedTypes /\ "host" \notin PromptTypes /\ "ai_runtime" \notin PromptTypes
    BY DEF AttachedTypes, PromptTypes
  <1>3. asset[c] = "host"
    BY <1>1, <1>2 DEF AssetEdge
  <1>. QED
    BY <1>2, <1>3 DEF AssetEdge

LEMMA StepWithin ==
    ASSUME NEW e \in Nodes, NEW k \in Nat, NEW m \in Within(e)[k], NEW n \in Neighbors(m)
    PROVE  n \in Within(e)[k + 1]
  <1>1. Within(e)[k + 1] = Within(e)[k] \cup UNION {Neighbors(l) : l \in Within(e)[k]}
    BY WithinEquations
  <1>. QED
    BY <1>1

\* Whatever an entry point leads to, five steps lead to: two from finding to
\* finding, one to an asset and two from asset to asset.
LEMMA FiveStepsSuffice ==
    ASSUME TypeOK, RuntimeInv, NEW p, Chain(p), Len(p) \in Nat \ {0}
    PROVE  \A i \in 1 .. Len(p) : p[i] \in Within(p[1])[5]
  <1>. DEFINE e == p[1]
              F0 == {f \in DOMAIN finding : f = e \/ ChainsTo(e, f)}
              F == {f \in DOMAIN finding : \E g \in F0 : f = g \/ ChainsTo(g, f)}
              A1 == {a \in DOMAIN asset : \E f \in F : Exposes(f, a)}
              A2 == {b \in DOMAIN asset : \E a \in A1 : AssetEdge(a, b)}
              A3 == {c \in DOMAIN asset : \E b \in A2 : AssetEdge(b, c)}
              R == F \cup A1 \cup A2 \cup A3
  <1>0. e \in DOMAIN finding /\ e \in Nodes /\ p \in Seq(Nodes)
    BY DEF Chain, EntryPoints, Nodes
  <1>1. DOMAIN finding \cap DOMAIN asset = {}
    BY IdsAssumption DEF TypeOK, IdsAssumption
  <1>2. ASSUME NEW m \in R, NEW n \in Nodes, Edge(m, n) PROVE n \in R
    <2>1. CASE m \in DOMAIN finding /\ n \in DOMAIN finding
      <3>1. m \in F /\ ChainsTo(m, n)
        BY <2>1, <1>1, <1>2 DEF Edge
      <3>2. PICK g \in F0 : m = g \/ ChainsTo(g, m)
        BY <3>1
      <3>3. CASE m = g
        BY <3>1, <3>3, <2>1
      <3>4. CASE g = e /\ ChainsTo(g, m)
        BY <3>1, <3>4, <2>1
      <3>5. CASE ChainsTo(e, g) /\ ChainsTo(g, m)
        <4>1. \E k \in DOMAIN finding : ChainsTo(e, k) /\ ChainsTo(k, n)
          BY <3>1, <3>5, <2>1, <1>0, FindingChains
        <4>. QED
          BY <4>1, <2>1
      <3>. QED
        BY <3>2, <3>3, <3>4, <3>5
    <2>2. CASE m \in DOMAIN finding /\ n \in DOMAIN asset
      <3>1. m \in F /\ Exposes(m, n)
        BY <2>2, <1>1, <1>2 DEF Edge
      <3>. QED
        BY <3>1, <2>2
    <2>3. CASE m \in DOMAIN asset
      <3>1. n \in DOMAIN asset /\ AssetEdge(m, n) /\ m \in A1 \cup A2 \cup A3
        BY <2>3, <1>1, <1>2 DEF Edge
      <3>2. m \notin A3
        BY <3>1, AssetChains
      <3>. QED
        BY <3>1, <3>2
    <2>. QED
      BY <1>2, <2>1, <2>2, <2>3 DEF Edge
  <1>3. ASSUME NEW m \in Nodes, NEW n \in Nodes, NEW k \in Nat, m \in Within(e)[k], Edge(m, n)
        PROVE  n \in Within(e)[k + 1]
    BY <1>3, <1>0, StepWithin DEF Neighbors
  <1>4. R \subseteq Within(e)[5]
    <2>1. e \in Within(e)[0]
      BY <1>0, WithinEquations
    <2>2. \A k \in Nat : Within(e)[k] \subseteq Within(e)[k + 1]
      BY <1>0, WithinEquations
    <2>3. \A f, g \in DOMAIN finding : ChainsTo(f, g) => f \in Nodes /\ g \in Nodes /\ Edge(f, g)
      BY DEF Nodes, Edge
    <2>4. \A f \in DOMAIN finding, a \in DOMAIN asset :
             Exposes(f, a) => f \in Nodes /\ a \in Nodes /\ Edge(f, a)
      BY DEF Nodes, Edge
    <2>5. \A a, b \in DOMAIN asset : AssetEdge(a, b) => a \in Nodes /\ b \in Nodes /\ Edge(a, b)
      BY DEF Nodes, Edge
    <2>. HIDE DEF e
    <2>6. F0 \subseteq Within(e)[1]
      BY <2>1, <2>2, <2>3, <1>0, <1>3
    <2>7. F \subseteq Within(e)[2]
      BY <2>2, <2>3, <2>6, <1>3
    <2>8. A1 \subseteq Within(e)[3]
      BY <2>4, <2>7, <1>3
    <2>9. A2 \subseteq Within(e)[4]
      BY <2>5, <2>8, <1>3
    <2>10. A3 \subseteq Within(e)[5]
      BY <2>5, <2>9, <1>3
    <2>. HIDE DEF F0, F, A1, A2, A3
    <2>11. F \subseteq Within(e)[5] /\ A1 \subseteq Within(e)[5] /\ A2 \subseteq Within(e)[5]
      BY <2>7, <2>8, <2>9, <1>0, WithinGrows
    <2>. QED
      BY <2>10, <2>11
  <1>. DEFINE T == {k \in Nat : k + 1 <= Len(p) => p[k + 1] \in R}
  <1>5. 0 \in T
    BY <1>0
  <1>. HIDE DEF R
  <1>6. ASSUME NEW k \in Nat, k \in T PROVE k + 1 \in T
    <2>. SUFFICES ASSUME k + 1 + 1 <= Len(p) PROVE p[k + 1 + 1] \in R
      OBVIOUS
    <2>1. k + 1 <= Len(p) /\ k + 1 \in 1 .. Len(p) - 1 /\ k + 1 + 1 \in 1 .. Len(p)
      OBVIOUS
    <2>2. p[k + 1] \in R /\ Edge(p[k + 1], p[k + 1 + 1]) /\ p[k + 1 + 1] \in Nodes
      BY <2>1, <1>0, <1>6 DEF Chain
    <2>. QED
      BY <2>2, <1>2
  <1>7. \A k \in Nat : k \in T
    <2>. HIDE DEF T
    <2>. QED
      BY <1>5, <1>6, NatSetInduction
  <1>8. \A i \in 1 .. Len(p) : i - 1 \in Nat /\ (i - 1) + 1 = i /\ i <= Len(p)
    OBVIOUS
  <1>. QED
    BY <1>4, <1>7, <1>8

LEMMA NoPathIsCutOff == IInv /\ SearchInv /\ RuntimeInv => NothingIsCutOff
  <1>. SUFFICES ASSUME IInv, SearchInv, RuntimeInv, Done,
                       NEW e \in EntryPoints, NEW p \in SimplePaths(e), NEW i \in 2 .. Len(p)
                PROVE  \E q \in paths : q[1] = e /\ Last(q) = p[i]
    BY DEF NothingIsCutOff
  <1>1. Chain(p) /\ p[1] = e /\ Len(p) \in Nat \ {0}
    BY SimplePathsAreChains DEF IInv
  <1>2. i \in 1 .. Len(p) /\ 1 \in 1 .. Len(p) /\ i # 1
    BY <1>1
  <1>3. p[i] \in Within(e)[5] /\ p[i] # e
    BY <1>1, <1>2, FiveStepsSuffice DEF IInv, Chain
  <1>4. Near(e, p[i], 6)
    BY <1>3, SearchReaches
  <1>. QED
    BY <1>3, <1>4 DEF Near, Last

-----------------------------------------------------------------------------
(* The composite severities                                                    *)

LEMMA WeightType == ASSUME NEW s \in Nat PROVE Weight(s) \in 1 .. 5
  <1>. DEFINE L == {1, 40, 70, 90}
  <1>1. IsFiniteSet(L) /\ Cardinality(L) <= 4
    <2>1. IsFiniteSet({1}) /\ Cardinality({1}) = 1
      BY FS_Singleton
    <2>2. IsFiniteSet({1} \cup {40}) /\ Cardinality({1} \cup {40}) = 2
      BY <2>1, FS_AddElement
    <2>3. IsFiniteSet({1} \cup {40} \cup {70}) /\ Cardinality({1} \cup {40} \cup {70}) = 3
      BY <2>2, FS_AddElement
    <2>4. IsFiniteSet({1} \cup {40} \cup {70} \cup {90})
          /\ Cardinality({1} \cup {40} \cup {70} \cup {90}) = 4
      BY <2>3, FS_AddElement
    <2>5. L = {1} \cup {40} \cup {70} \cup {90}
      OBVIOUS
    <2>. QED
      BY <2>4, <2>5
  <1>2. {least \in L : s >= least} \in SUBSET L
    OBVIOUS
  <1>. DEFINE K == Cardinality({least \in L : s >= least})
  <1>3. K \in Nat /\ K <= 4
    <2>1. IsFiniteSet({least \in L : s >= least})
          /\ Cardinality({least \in L : s >= least}) <= Cardinality(L)
      BY <1>1, <1>2, FS_Subset
    <2>2. Cardinality(L) \in Nat /\ K \in Nat
      BY <1>1, <2>1, FS_CardinalityType
    <2>. QED
      BY <1>1, <2>1, <2>2
  <1>4. Weight(s) = 1 + K
    BY DEF Weight
  <1>. HIDE DEF K
  <1>. QED
    BY <1>3, <1>4

LEMMA FindingsOnPath ==
    ASSUME TypeOK, NEW p \in Seq(Nodes)
    PROVE  /\ IsFiniteSet(FindingsOn(p))
           /\ \A f \in FindingsOn(p) : Severity(f) \in 1 .. 5
           /\ \A f : f \in FindingsOn(p) <=>
                 f \in DOMAIN finding /\ \E i \in 1 .. Len(p) : f = p[i]
  <1>1. FindingsOn(p) \in SUBSET (DOMAIN finding)
    BY DEF FindingsOn
  <1>2. IsFiniteSet(FindingsOn(p))
    BY <1>1, NodesAreFinite, FS_Subset
  <1>3. \A f \in DOMAIN finding : finding[f].score \in Nat
    BY ScoresAssumption DEF TypeOK, ScoresAssumption
  <1>4. \A f \in FindingsOn(p) : Severity(f) \in 1 .. 5
    BY <1>1, <1>3, WeightType DEF Severity
  <1>5. \A f : f \in FindingsOn(p) <=> f \in DOMAIN finding /\ \E i \in 1 .. Len(p) : f = p[i]
    BY DEF FindingsOn, ToSet
  <1>. QED
    BY <1>2, <1>4, <1>5

\* The composite severity of a path with a finding of weight 3 or more is that of its
\* worst finding, one higher (at most 5) if there is another finding.
LEMMA CompositeOf ==
    ASSUME TypeOK, NEW p \in Seq(Nodes), NEW e \in FindingsOn(p), Severity(e) >= 3
    PROVE  \E w \in FindingsOn(p) :
              /\ \A f \in FindingsOn(p) : Severity(f) <= Severity(w)
              /\ Composite(p) = IF \E f \in FindingsOn(p) : f # e
                                THEN IF Severity(w) = 3 THEN 4 ELSE 5
                                ELSE Severity(w)
  <1>. DEFINE W == {Severity(f) : f \in FindingsOn(p)}
              max == CHOOSE m \in W : \A v \in W : v <= m
              c == Cardinality(FindingsOn(p))
  <1>1. /\ IsFiniteSet(FindingsOn(p))
        /\ \A f \in FindingsOn(p) : Severity(f) \in 1 .. 5
    BY FindingsOnPath
  <1>2. W \subseteq Nat /\ W # {} /\ \A v \in W : v <= 5
    BY <1>1
  <1>3. \E m \in W : \A v \in W : v <= m
    <2>. HIDE DEF W
    <2>. QED
      BY <1>2, MaxOf
  <1>4. max \in W /\ \A v \in W : v <= max
    <2>. HIDE DEF W
    <2>. QED
      BY <1>3
  <1>5. PICK w \in FindingsOn(p) : max = Severity(w)
    BY <1>4
  <1>6. max \in 3 .. 5 /\ \A f \in FindingsOn(p) : Severity(f) <= max
    <2>. HIDE DEF max
    <2>1. \A f \in FindingsOn(p) : Severity(f) \in W
      OBVIOUS
    <2>2. \A f \in FindingsOn(p) : Severity(f) <= max
      BY <2>1, <1>4
    <2>3. max \in 1 .. 5
      BY <1>1, <1>5
    <2>4. max >= 3
      BY <2>2, <2>3, <1>1
    <2>. QED
      BY <2>2, <2>3, <2>4
  <1>7. c \in Nat /\ (c >= 2 <=> \E f \in FindingsOn(p) : f # e)
    <2>1. c \in Nat
      BY <1>1, FS_CardinalityType
    <2>2. CASE \E f \in FindingsOn(p) : f # e
      <3>1. PICK f \in FindingsOn(p) : f # e
        BY <2>2
      <3>2. IsFiniteSet({e}) /\ Cardinality({e}) = 1
        BY FS_Singleton
      <3>3. Cardinality({e} \cup {f}) = 2
        <4>1. f \notin {e}
          BY <3>1
        <4>2. Cardinality({e} \cup {f}) = Cardinality({e}) + 1
          BY <4>1, <3>2, FS_AddElement
        <4>. QED
          BY <4>2, <3>2
      <3>4. {e} \cup {f} \in SUBSET FindingsOn(p)
        BY <3>1
      <3>5. Cardinality({e} \cup {f}) <= c
        BY <3>4, <1>1, FS_Subset
      <3>. QED
        BY <2>1, <2>2, <3>3, <3>5
    <2>3. CASE ~(\E f \in FindingsOn(p) : f # e)
      <3>1. FindingsOn(p) = {e}
        BY <2>3
      <3>2. c = 1
        BY <3>1, FS_Singleton
      <3>. QED
        BY <2>3, <3>2
    <2>. QED
      BY <2>2, <2>3
  <1>8. Composite(p) = CASE c >= 2 /\ max >= 4 -> 5
                         [] c >= 2 /\ max = 3 -> 4
                         [] c >= 3 /\ max = 2 -> 3
                         [] OTHER -> max
    BY DEF Composite
  <1>. HIDE DEF c, max
  <1>9. Composite(p) = IF c >= 2 THEN IF max = 3 THEN 4 ELSE 5 ELSE max
    <2>1. CASE c >= 2 /\ max = 3
      BY <2>1, <1>8, <1>7
    <2>2. CASE c >= 2 /\ max # 3
      <3>1. max >= 4 /\ max # 2
        BY <2>2, <1>6
      <3>. QED
        BY <3>1, <2>2, <1>8, <1>7
    <2>3. CASE ~(c >= 2)
      <3>1. ~(c >= 3)
        BY <2>3, <1>7
      <3>. QED
        BY <3>1, <2>3, <1>8
    <2>. QED
      BY <2>1, <2>2, <2>3
  <1>. QED
    BY <1>5, <1>6, <1>7, <1>9

\* A path that shares the entry point, has the worst finding of the other one or a
\* finding as bad, and a second finding if the other one has, is as severe.
LEMMA CompositeCompares ==
    ASSUME TypeOK, NEW p \in Seq(Nodes), NEW q \in Seq(Nodes), NEW e,
           e \in FindingsOn(p), e \in FindingsOn(q), Severity(e) >= 3,
           NEW g \in FindingsOn(q), \A f \in FindingsOn(p) : Severity(f) <= Severity(g),
           (\E f \in FindingsOn(p) : f # e) => \E f \in FindingsOn(q) : f # e
    PROVE  Composite(q) \in Nat /\ Composite(p) \in Nat /\ Composite(q) >= Composite(p)
  <1>1. /\ \A f \in FindingsOn(p) : Severity(f) \in 1 .. 5
        /\ \A f \in FindingsOn(q) : Severity(f) \in 1 .. 5
    BY FindingsOnPath
  <1>2. PICK v \in FindingsOn(p) :
           Composite(p) = IF \E f \in FindingsOn(p) : f # e
                          THEN IF Severity(v) = 3 THEN 4 ELSE 5 ELSE Severity(v)
    BY CompositeOf
  <1>3. PICK w \in FindingsOn(q) :
           /\ \A f \in FindingsOn(q) : Severity(f) <= Severity(w)
           /\ Composite(q) = IF \E f \in FindingsOn(q) : f # e
                             THEN IF Severity(w) = 3 THEN 4 ELSE 5 ELSE Severity(w)
    BY CompositeOf
  <1>4. /\ Severity(v) \in 1 .. 5 /\ Severity(w) \in 1 .. 5 /\ Severity(g) \in 1 .. 5
        /\ Severity(v) <= Severity(g) /\ Severity(g) <= Severity(w)
        /\ Severity(e) \in 1 .. 5 /\ Severity(e) <= Severity(w)
    BY <1>1, <1>2, <1>3
  <1>5. CASE \E f \in FindingsOn(p) : f # e
    <2>2. Composite(q) = (IF Severity(w) = 3 THEN 4 ELSE 5)
      BY <1>5, <1>3
    <2>4. PICK u \in FindingsOn(p) :
             /\ \A f \in FindingsOn(p) : Severity(f) <= Severity(u)
             /\ Composite(p) = IF Severity(u) = 3 THEN 4 ELSE 5
      BY <1>5, CompositeOf
    <2>5. Severity(u) \in 1 .. 5 /\ Severity(e) <= Severity(u) /\ Severity(u) <= Severity(g)
      BY <2>4, <1>1
    <2>. QED
      BY <2>2, <2>4, <2>5, <1>4
  <1>6. CASE ~(\E f \in FindingsOn(p) : f # e)
    <2>1. Composite(p) = Severity(v)
      BY <1>6, <1>2
    <2>2. \/ Composite(q) = Severity(w)
          \/ Composite(q) = 4 /\ Severity(w) = 3
          \/ Composite(q) = 5
      <3>1. CASE \E f \in FindingsOn(q) : f # e
        <4>1. Composite(q) = (IF Severity(w) = 3 THEN 4 ELSE 5)
          BY <3>1, <1>3
        <4>. QED
          BY <4>1
      <3>2. CASE ~(\E f \in FindingsOn(q) : f # e)
        <4>1. Composite(q) = Severity(w)
          BY <3>2, <1>3
        <4>. QED
          BY <4>1
      <3>. QED
        BY <3>1, <3>2
    <2>. QED
      BY <2>1, <2>2, <1>4
  <1>. QED
    BY <1>5, <1>6

\* Of the paths from an entry point with the same severity a deepest one is kept.
LEMMA OneIsKept ==
    ASSUME IInv, NEW q \in paths
    PROVE  \E k \in Kept : k[1] = q[1] /\ Composite(k) = Composite(q)
  <1>. DEFINE L == {Len(r) : r \in {s \in paths : s[1] = q[1] /\ Composite(s) = Composite(q)}}
  <1>1. \A r \in paths : Len(r) \in Nat /\ Len(r) <= 8
    <2>1. \A l \in 2 .. 8 : l \in Nat /\ l <= 8
      OBVIOUS
    <2>2. \A r \in paths : Len(r) \in 2 .. 8
      BY DEF IInv, PathsInv, MaxDepth
    <2>. QED
      BY <2>1, <2>2
  <1>2. L \subseteq Nat /\ L # {} /\ \A l \in L : l <= 8
    BY <1>1
  <1>3. PICK m \in L : \A l \in L : l <= m
    <2>. HIDE DEF L
    <2>. QED
      BY <1>2, MaxOf
  <1>4. PICK k \in paths : k[1] = q[1] /\ Composite(k) = Composite(q) /\ Len(k) = m
    BY <1>3
  <1>5. k \in Kept
    BY <1>3, <1>4 DEF Kept
  <1>. QED
    BY <1>4, <1>5

LEMMA NoWorseIsMissed == IInv /\ NothingIsCutOff => NothingWorseIsMissed
  <1>. SUFFICES ASSUME IInv, NothingIsCutOff, Done,
                       NEW e \in EntryPoints, NEW p \in SimplePaths(e), Len(p) >= 2
                PROVE  \E q \in Kept : q[1] = e /\ Composite(q) >= Composite(p)
    BY DEF NothingWorseIsMissed
  <1>1. /\ TypeOK /\ e \in DOMAIN finding /\ Severity(e) >= 3
        /\ p \in Seq(Nodes) /\ p[1] = e /\ Len(p) \in Nat
    BY SimplePathsAreChains DEF IInv, EntryPoints, Chain
  <1>2. \A i \in 2 .. Len(p) : \E q \in paths : q[1] = e /\ q[Len(q)] = p[i]
    BY DEF NothingIsCutOff, Last
  <1>3. ASSUME NEW q \in paths, q[1] = e
        PROVE  q \in Seq(Nodes) /\ Len(q) \in Nat /\ Len(q) >= 2 /\ e \in FindingsOn(q)
    <2>1. q \in Seq(Nodes) /\ Len(q) \in Nat /\ Len(q) >= 2
      BY <1>3 DEF IInv, PathsInv, Chain, MaxDepth
    <2>. QED
      BY <2>1, <1>1, <1>3, FindingsOnPath
  <1>4. e \in FindingsOn(p)
    BY <1>1, FindingsOnPath
  <1>5. PICK w \in FindingsOn(p) : \A f \in FindingsOn(p) : Severity(f) <= Severity(w)
    BY <1>1, <1>4, CompositeOf
  \* A finding to end the path at: the worst one or, where that is the entry point,
  \* another one.
  <1>6. \E q \in paths : /\ q[1] = e
                         /\ \E g \in FindingsOn(q) : \A f \in FindingsOn(p) : Severity(f) <= Severity(g)
                         /\ (\E f \in FindingsOn(p) : f # e) => \E f \in FindingsOn(q) : f # e
    <2>1. ASSUME NEW h \in FindingsOn(p), h # e
          PROVE  \E q \in paths : q[1] = e /\ h \in FindingsOn(q)
      <3>1. PICK i \in 1 .. Len(p) : h = p[i]
        BY <1>1, FindingsOnPath
      <3>2. i \in 2 .. Len(p)
        BY <3>1, <2>1, <1>1
      <3>3. PICK q \in paths : q[1] = e /\ q[Len(q)] = h
        BY <3>1, <3>2, <1>2
      <3>4. h \in DOMAIN finding
        BY <1>1, FindingsOnPath
      <3>5. h \in FindingsOn(q)
        BY <3>3, <3>4, <1>1, <1>3, FindingsOnPath
      <3>. QED
        BY <3>3, <3>5
    <2>2. CASE w # e
      BY <2>1, <2>2, <1>5
    <2>3. CASE w = e /\ \E f \in FindingsOn(p) : f # e
      <3>1. PICK h \in FindingsOn(p) : h # e
        BY <2>3
      <3>2. PICK q \in paths : q[1] = e /\ h \in FindingsOn(q)
        BY <3>1, <2>1
      <3>. QED
        BY <3>1, <3>2, <2>3, <1>3, <1>5
    <2>4. CASE w = e /\ ~(\E f \in FindingsOn(p) : f # e)
      <3>1. PICK q \in paths : q[1] = e
        BY <1>1, <1>2
      <3>. QED
        BY <3>1, <2>4, <1>3, <1>5
    <2>. QED
      BY <2>2, <2>3, <2>4
  <1>7. PICK q \in paths : q[1] = e /\ Composite(q) >= Composite(p)
    BY <1>1, <1>3, <1>4, <1>6, CompositeCompares
  <1>. QED
    BY <1>7, OneIsKept

-----------------------------------------------------------------------------
(* Theorems *)

\* The search keeps its types: it never meets a node that is not in the graph
\* (adjacency holds ids of nodes only).
THEOREM TypeCorrect == Spec => []TypeOK
  <1>1. IInv => TypeOK
    BY DEF IInv
  <1>. QED
    BY <1>1, IInvHolds, PTL

\* Every path that findAttackPaths records leads from a finding of medium
\* severity or above along edges of the graph, repeats no node and has two to
\* eight nodes.
THEOREM PathsFoundAreReal == Spec => []PathsAreReal
  <1>1. IInv => PathsAreReal
    BY DEF IInv, PathsInv, Chain, PathsAreReal
  <1>. QED
    BY <1>1, IInvHolds, PTL

\* When the search from an entry point ends it has met every neighbour of every
\* node it met, except of nodes at the end of a path of eight nodes.
THEOREM SearchesAreComplete == Spec => []SearchIsComplete
  <1>1. CoverInv => SearchIsComplete
    <2>. SUFFICES ASSUME CoverInv, todo = {}, queue = <<>>, NEW m \in visited
                  PROVE  \/ Neighbors(m) \subseteq visited
                         \/ \E p \in paths : Last(p) = m /\ Len(p) = MaxDepth
      BY DEF SearchIsComplete
    <2>1. ~Queued(m)
      <3>1. Len(queue) = 0
        OBVIOUS
      <3>. QED
        BY <3>1 DEF Queued
    <2>2. AtCap(m) \/ Neighbors(m) \subseteq visited
      BY <2>1 DEF CoverInv, Covered
    <2>. QED
      BY <2>2 DEF AtCap, Last
  <1>. QED
    BY <1>1, CoverInvHolds, PTL

\* When the search is over, every node that one to seven steps lead to from an entry
\* point has a path, and that path is a shortest one.
THEOREM PathsFoundAreShortest == Spec => []ShortestPaths
  BY PathsAreShortest, IInvHolds, SearchInvHolds, PTL

\* The cap of eight nodes cuts nothing off: every node of every attack path there is,
\* however long the path, is the end of a path that findAttackPaths records.  It holds
\* because of the tables of graph.js, which let five steps lead to whatever an entry
\* point leads to.
THEOREM TheCapCutsNothingOff == Spec => []NothingIsCutOff
  BY NoPathIsCutOff, IInvHolds, SearchInvHolds, RuntimeInvHolds, PTL

\* One path per node and entry point is enough for the severities: no attack path from
\* an entry point has a higher composite severity than one that is reported for it.
THEOREM TheWorstIsReported == Spec => []NothingWorseIsMissed
  <1>1. IInv /\ SearchInv /\ RuntimeInv => NothingWorseIsMissed
    BY NoPathIsCutOff, NoWorseIsMissed
  <1>. QED
    BY <1>1, IInvHolds, SearchInvHolds, RuntimeInvHolds, PTL
=============================================================================
