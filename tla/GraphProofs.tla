----------------------------- MODULE GraphProofs -----------------------------
(***************************************************************************)
(* For every set of nodes, every number of connections and every order of  *)
(* nodes and connections: the order of computeExecutionOrder() is          *)
(* topological, and complete exactly when the graph has no cycle; the      *)
(* parallel groups are the levels of the graph; and hasCycle() and         *)
(* wouldCreateCycle() answer exactly.                                      *)
(***************************************************************************)
EXTENDS ExecutionSorter, FeedbackLoopDetector, FiniteSetTheorems, WellFoundedInduction, TLAPS

Queued == Range(queue)

Distinct(s) == \A i, j \in DOMAIN s : i # j => s[i] # s[j]

(* The connections into n whose source is not in the order yet.               *)
Left(n) == {c \in connections : c.dst = n /\ c.src \notin Done}

GraphInv == GraphTypeOK /\ NoDanglingConnection /\ IsFiniteSet(connections)

Degrees == inDegree = [n \in nodes |-> Cardinality(Left(n))]

QueueIsReady == Distinct(queue) /\ Queued = {n \in nodes \ Done : Left(n) = {}}

(* No set of nodes of the order is fed from within: no cycle there.           *)
DoneAcyclic == \A S \in SUBSET Done : S # {} => \E n \in S : ~Fed(n, S)

Working == sorting => Degrees /\ QueueIsReady /\ DoneAcyclic /\ Len(result) = Cardinality(Done)

Resting == ~sorting => Nothing

Sequences == queue \in Seq(nodes) /\ result \in Seq(nodes) /\ sorting \in BOOLEAN

IInv == GraphInv /\ Sequences /\ OrderRespectsConnections /\ Working /\ Resting

-----------------------------------------------------------------------------
(* Sequences without repetition                                               *)

LEMMA Listing ==
  ASSUME NEW S, IsFiniteSet(S), NEW s \in SetToSeqs(S)
  PROVE  s \in Seq(S) /\ Distinct(s) /\ Range(s) = S
<1>1. Cardinality(S) \in Nat /\ IsFiniteSet(1..Cardinality(S)) /\ Cardinality(1..Cardinality(S)) = Cardinality(S)
  BY FS_CardinalityType, FS_Interval
<1>2. /\ s \in [1..Cardinality(S) -> S]
      /\ \A i, j \in 1..Cardinality(S) : i # j => s[i] # s[j]
  BY DEF SetToSeqs
<1>3. s \in Injection(1..Cardinality(S), S)
  BY <1>2 DEF Injection, IsInjective
<1>4. s \in Surjection(1..Cardinality(S), S)
  BY <1>1, <1>3, FS_Injection
<1>5. s \in Seq(S)
  BY <1>1, <1>2
<1>6. Range(s) = S
  BY <1>2, <1>4 DEF Surjection, Range
<1> QED
  BY <1>2, <1>5, <1>6 DEF Distinct

LEMMA RangeOfTail ==
  ASSUME NEW S, NEW s \in Seq(S), s # <<>>, Distinct(s)
  PROVE  /\ Tail(s) \in Seq(S) /\ Distinct(Tail(s))
         /\ Head(s) \in Range(s) /\ Head(s) \in S
         /\ Range(Tail(s)) = Range(s) \ {Head(s)}
<1>1. /\ Len(s) \in Nat \ {0} /\ DOMAIN s = 1..Len(s)
      /\ Tail(s) \in Seq(S) /\ Head(s) = s[1] /\ DOMAIN Tail(s) = 1..(Len(s) - 1)
      /\ \A i \in 1..(Len(s) - 1) : Tail(s)[i] = s[i + 1]
  OBVIOUS
<1>2. Distinct(Tail(s))
  BY <1>1 DEF Distinct
<1>3. Head(s) \in Range(s) /\ Head(s) \in S
  BY <1>1 DEF Range
<1>4. ASSUME NEW x \in Range(Tail(s)) PROVE x \in Range(s) \ {Head(s)}
  BY <1>1 DEF Range, Distinct
<1>5. ASSUME NEW x \in Range(s) \ {Head(s)} PROVE x \in Range(Tail(s))
  <2>1. PICK i \in 1..Len(s) : x = s[i]
    BY <1>1 DEF Range
  <2>2. i - 1 \in 1..(Len(s) - 1) /\ Tail(s)[i - 1] = x
    BY <1>1, <2>1
  <2> QED
    BY <1>1, <2>2 DEF Range
<1> QED
  BY <1>1, <1>2, <1>3, <1>4, <1>5

LEMMA HeadAndTail ==
  ASSUME NEW S, NEW s \in Seq(S), s # <<>>
  PROVE  Range(s) = {Head(s)} \union Range(Tail(s))
<1>1. /\ Len(s) \in Nat \ {0} /\ DOMAIN s = 1..Len(s) /\ Head(s) = s[1]
      /\ DOMAIN Tail(s) = 1..(Len(s) - 1)
      /\ \A i \in 1..(Len(s) - 1) : Tail(s)[i] = s[i + 1]
  OBVIOUS
<1>2. ASSUME NEW x \in Range(s) PROVE x \in {Head(s)} \union Range(Tail(s))
  <2>1. PICK i \in 1..Len(s) : x = s[i]
    BY <1>1 DEF Range
  <2>2. CASE i # 1
    <3>1. i - 1 \in 1..(Len(s) - 1) /\ Tail(s)[i - 1] = x
      BY <1>1, <2>1, <2>2
    <3> QED
      BY <1>1, <3>1 DEF Range
  <2> QED
    BY <1>1, <2>1, <2>2
<1>3. Head(s) \in Range(s) /\ Range(Tail(s)) \subseteq Range(s)
  BY <1>1 DEF Range
<1> QED
  BY <1>2, <1>3

LEMMA RangeOfJoin ==
  ASSUME NEW S, NEW s \in Seq(S), NEW t \in Seq(S)
  PROVE  /\ s \o t \in Seq(S) /\ Len(s \o t) = Len(s) + Len(t)
         /\ Range(s \o t) = Range(s) \union Range(t)
<1>1. /\ s \o t \in Seq(S) /\ DOMAIN (s \o t) = 1..(Len(s) + Len(t)) /\ Len(s \o t) = Len(s) + Len(t)
      /\ Len(s) \in Nat /\ Len(t) \in Nat /\ DOMAIN s = 1..Len(s) /\ DOMAIN t = 1..Len(t)
      /\ \A i \in 1..Len(s) : (s \o t)[i] = s[i]
      /\ \A i \in (Len(s) + 1)..(Len(s) + Len(t)) : (s \o t)[i] = t[i - Len(s)]
  OBVIOUS
<1>2. ASSUME NEW x \in Range(s \o t) PROVE x \in Range(s) \union Range(t)
  <2>1. PICK i \in DOMAIN (s \o t) : x = (s \o t)[i]
    BY DEF Range
  <2>2. \/ i \in DOMAIN s
        \/ i - Len(s) \in DOMAIN t /\ i \in (Len(s) + 1)..(Len(s) + Len(t))
    BY <1>1
  <2> QED
    BY <1>1, <2>1, <2>2 DEF Range
<1>3. \A i \in DOMAIN s : s[i] \in Range(s \o t)
  <2>1. \A i \in DOMAIN s : i \in DOMAIN (s \o t)
    BY <1>1
  <2> QED
    BY <1>1, <2>1 DEF Range
<1>4. \A i \in DOMAIN t : t[i] \in Range(s \o t)
  <2>1. \A i \in DOMAIN t : i + Len(s) \in DOMAIN (s \o t) /\ (s \o t)[i + Len(s)] = t[i]
    BY <1>1
  <2> QED
    BY <2>1 DEF Range
<1>5. Range(s) \union Range(t) \subseteq Range(s \o t)
  BY <1>3, <1>4 DEF Range
<1> QED
  BY <1>1, <1>2, <1>5

LEMMA Joined ==
  ASSUME NEW S, NEW s \in Seq(S), NEW t \in Seq(S), Distinct(s), Distinct(t),
         Range(s) \intersect Range(t) = {}
  PROVE  /\ s \o t \in Seq(S) /\ Distinct(s \o t)
         /\ Range(s \o t) = Range(s) \union Range(t)
<1>1. /\ s \o t \in Seq(S) /\ DOMAIN (s \o t) = 1..(Len(s) + Len(t))
      /\ Len(s) \in Nat /\ Len(t) \in Nat /\ DOMAIN s = 1..Len(s) /\ DOMAIN t = 1..Len(t)
      /\ \A i \in 1..Len(s) : (s \o t)[i] = s[i]
      /\ \A i \in (Len(s) + 1)..(Len(s) + Len(t)) : (s \o t)[i] = t[i - Len(s)]
  OBVIOUS
<1>2. \A i \in DOMAIN (s \o t) : \/ i \in DOMAIN s
                                 \/ i - Len(s) \in DOMAIN t /\ i \in (Len(s) + 1)..(Len(s) + Len(t))
  BY <1>1
<1>3. \A i \in DOMAIN s : i \in DOMAIN (s \o t)
  BY <1>1
<1>4. \A i \in DOMAIN t : i + Len(s) \in DOMAIN (s \o t) /\ (s \o t)[i + Len(s)] = t[i]
  BY <1>1
<1>5. \A i \in DOMAIN s, j \in DOMAIN t : s[i] # t[j]
  BY DEF Range
<1>6. ASSUME NEW i \in DOMAIN (s \o t), NEW j \in DOMAIN (s \o t), i # j
      PROVE  (s \o t)[i] # (s \o t)[j]
  <2>1. CASE i \in DOMAIN s /\ j \in DOMAIN s
    BY <1>1, <1>6, <2>1 DEF Distinct
  <2>2. CASE i \in DOMAIN s /\ j \notin DOMAIN s
    BY <1>1, <1>2, <1>5, <2>2
  <2>3. CASE i \notin DOMAIN s /\ j \in DOMAIN s
    BY <1>1, <1>2, <1>5, <2>3
  <2>4. CASE i \notin DOMAIN s /\ j \notin DOMAIN s
    <3>1. i - Len(s) # j - Len(s)
      BY <1>1, <1>6
    <3> QED
      BY <1>1, <1>2, <2>4, <3>1 DEF Distinct
  <2> QED
    BY <2>1, <2>2, <2>3, <2>4
<1>7. Range(s \o t) = Range(s) \union Range(t)
  BY RangeOfJoin
<1> QED
  BY <1>1, <1>6, <1>7 DEF Distinct

LEMMA Pushed ==
  ASSUME NEW S, NEW s \in Seq(S), NEW x \in S
  PROVE  /\ <<x>> \o s \in Seq(S) /\ Len(<<x>> \o s) = Len(s) + 1 /\ (<<x>> \o s)[1] = x
         /\ \A i \in 2..(Len(s) + 1) : (<<x>> \o s)[i] = s[i - 1]
OBVIOUS

LEMMA ListingLength ==
  ASSUME NEW S, IsFiniteSet(S), NEW s \in SetToSeqs(S)
  PROVE  Len(s) = Cardinality(S)
<1>1. s \in [1..Cardinality(S) -> S] /\ Cardinality(S) \in Nat
  BY FS_CardinalityType DEF SetToSeqs
<1> QED
  BY <1>1

LEMMA RangeOfAppend ==
  ASSUME NEW S, NEW s \in Seq(S), NEW x \in S
  PROVE  /\ Append(s, x) \in Seq(S) /\ Len(Append(s, x)) = Len(s) + 1
         /\ Range(Append(s, x)) = Range(s) \union {x}
<1>1. /\ Append(s, x) \in Seq(S) /\ Len(s) \in Nat /\ Len(Append(s, x)) = Len(s) + 1
      /\ DOMAIN s = 1..Len(s) /\ DOMAIN Append(s, x) = 1..(Len(s) + 1)
      /\ \A i \in 1..Len(s) : Append(s, x)[i] = s[i]
      /\ Append(s, x)[Len(s) + 1] = x
  OBVIOUS
<1>2. ASSUME NEW y \in Range(Append(s, x)) PROVE y \in Range(s) \union {x}
  <2>1. PICK i \in 1..(Len(s) + 1) : y = Append(s, x)[i]
    BY <1>1 DEF Range
  <2>2. i \in 1..Len(s) \/ i = Len(s) + 1
    BY <1>1
  <2> QED
    BY <1>1, <2>1, <2>2 DEF Range
<1>3. ASSUME NEW y \in Range(s) \union {x} PROVE y \in Range(Append(s, x))
  <2>1. 1..Len(s) \subseteq 1..(Len(s) + 1) /\ Len(s) + 1 \in 1..(Len(s) + 1)
    BY <1>1
  <2> QED
    BY <1>1, <2>1 DEF Range
<1> QED
  BY <1>1, <1>2, <1>3

-----------------------------------------------------------------------------
(* Where the order is                                                         *)

LEMMA LeftFinite ==
  ASSUME GraphInv, NEW n
  PROVE  IsFiniteSet(Left(n)) /\ Cardinality(Left(n)) \in Nat /\ ((Cardinality(Left(n)) = 0) <=> (Left(n) = {}))
<1>1. Left(n) \subseteq connections /\ IsFiniteSet(connections)
  BY DEF Left, GraphInv
<1> QED
  BY <1>1, FS_Subset, FS_CardinalityType, FS_EmptySet

(* A node of the order, and one of the queue, is fed by the order only.       *)
LEMMA FedByDone ==
  ASSUME IInv, sorting
  PROVE  \A n \in Done \union Queued : Left(n) = {}
<1>1. \A n \in Queued : Left(n) = {}
  BY DEF IInv, Working, QueueIsReady
<1>2. ASSUME NEW n \in Done, NEW c \in connections, c.dst = n PROVE c.src \in Done
  <2>1. PICK i \in DOMAIN result : n = result[i]
    BY <1>2 DEF Done, Range
  <2>2. PICK j \in 1..(i - 1) : result[j] = c.src
    BY <1>2, <2>1 DEF IInv, OrderRespectsConnections
  <2>3. j \in DOMAIN result
    BY <2>1, <2>2 DEF IInv, Sequences
  <2> QED
    BY <2>2, <2>3 DEF Done, Range
<1> QED
  BY <1>1, <1>2 DEF Left

(* TypeOK is a part of the invariant that needs the degrees to be numbers.    *)
LEMMA Typed == ASSUME IInv PROVE TypeOK
<1>1. CASE sorting
  <2>1. inDegree \in [nodes -> Nat]
    BY <1>1, LeftFinite DEF IInv, Working, Degrees
  <2> QED
    BY <1>1, <2>1 DEF IInv, GraphInv, Sequences, TypeOK
<1>2. CASE ~sorting
  <2>1. inDegree \in [{} -> Nat]
    BY <1>2 DEF IInv, Resting, Nothing
  <2> QED
    BY <1>2, <2>1 DEF IInv, GraphInv, Sequences, TypeOK
<1> QED
  BY <1>1, <1>2

LEMMA InitEstablishes == Init => IInv
<1> SUFFICES ASSUME Init PROVE IInv
  OBVIOUS
<1>1. GraphInv
  BY FS_EmptySet DEF Init, GraphInit, GraphInv, GraphTypeOK, NoDanglingConnection
<1>2. Sequences /\ OrderRespectsConnections
  <2>1. queue = <<>> /\ result = <<>>
    BY DEF Init, Nothing
  <2>2. sorting \in BOOLEAN
    BY DEF Init
  <2> QED
    BY <2>1, <2>2 DEF Sequences, OrderRespectsConnections
<1>3. Working /\ Resting
  BY DEF Init, Working, Resting
<1> QED
  BY <1>1, <1>2, <1>3 DEF IInv

(* An edit of the graph leaves the graph sound, and a sort has no locals then.*)
LEMMA EditsAreSound ==
  ASSUME GraphInv, GraphNext
  PROVE  GraphInv'
<1> USE DEF GraphInv, GraphTypeOK, NoDanglingConnection
<1>1. ASSUME NEW n \in NodeIds, AddNode(n) PROVE GraphInv'
  BY <1>1 DEF AddNode
<1>2. ASSUME NEW n \in NodeIds, RemoveNode(n) PROVE GraphInv'
  <2>1. connections' \subseteq connections
    BY <1>2 DEF RemoveNode
  <2>2. IsFiniteSet(connections')
    BY <2>1, FS_Subset
  <2> QED
    BY <1>2, <2>1, <2>2 DEF RemoveNode, ConnectionsOf
<1>3. ASSUME NEW c \in Connection, Connect(c) PROVE GraphInv'
  BY <1>3, FS_AddElement DEF Connect
<1>4. ASSUME NEW c \in Connection, Disconnect(c) PROVE GraphInv'
  BY <1>4, FS_RemoveElement DEF Disconnect
<1>5. ASSUME ProcessBlock PROVE GraphInv'
  BY <1>5 DEF ProcessBlock
<1> QED
  BY <1>1, <1>2, <1>3, <1>4, <1>5 DEF GraphNext

LEMMA GraphStays ==
  ASSUME GraphInv, UNCHANGED graph
  PROVE  GraphInv'
BY DEF graph, GraphInv, GraphTypeOK, NoDanglingConnection

LEMMA EditKeeps ==
  ASSUME IInv, Edit
  PROVE  IInv'
<1>1. ~sorting /\ UNCHANGED sorter /\ Nothing
  BY DEF Edit, IInv, Resting
<1>2. (Sequences /\ OrderRespectsConnections /\ Working /\ Resting)'
  BY <1>1 DEF sorter, Nothing, Sequences, OrderRespectsConnections, Working, Resting, IInv
<1>3. GraphInv'
  BY EditsAreSound DEF Edit, IInv
<1> QED
  BY <1>2, <1>3 DEF IInv

LEMMA SortBeginKeeps ==
  ASSUME IInv, SortBegin
  PROVE  IInv'
<1>1. result = <<>> /\ result' = <<>> /\ sorting' /\ nodes' = nodes /\ connections' = connections
  BY DEF SortBegin, IInv, Resting, Nothing, graph
<1>2. Done' = {}
  BY <1>1 DEF Done, Range
<1>3. \A n : Left(n)' = {c \in connections : c.dst = n}
  BY <1>1, <1>2 DEF Left
<1>4. GraphInv'
  BY <1>1 DEF IInv, GraphInv, GraphTypeOK, NoDanglingConnection, SortBegin, graph
<1>5. Degrees'
  BY <1>1, <1>3 DEF SortBegin, InDegree, Degrees
<1>6. {n \in nodes : InDegree(n) = 0} = {n \in nodes : Left(n)' = {}}
  <2>1. \A n : (InDegree(n) = 0) <=> (Left(n)' = {})
    <3> TAKE n
    <3>1. {c \in connections : c.dst = n} \subseteq connections /\ IsFiniteSet(connections)
      BY DEF IInv, GraphInv
    <3> QED
      BY <1>3, <3>1, FS_Subset, FS_EmptySet DEF InDegree
  <2> QED
    BY <2>1
<1>7. IsFiniteSet({n \in nodes : InDegree(n) = 0})
  BY FS_Subset, GraphAssumption DEF IInv, GraphInv, GraphTypeOK
<1>8. queue' \in Seq(nodes) /\ QueueIsReady'
  BY <1>1, <1>2, <1>6, <1>7, Listing DEF SortBegin, QueueIsReady, Queued
<1>9. DoneAcyclic' /\ (Len(result) = Cardinality(Done))' /\ OrderRespectsConnections'
  BY <1>1, <1>2, FS_EmptySet DEF DoneAcyclic, OrderRespectsConnections
<1> QED
  BY <1>1, <1>4, <1>5, <1>8, <1>9 DEF IInv, Sequences, Working, Resting

(* One node moves from the queue to the order.                                *)
LEMMA HeadMoves ==
  ASSUME IInv, SortStep
  PROVE  LET h == Head(queue) IN
         /\ h \in nodes /\ h \in Queued /\ h \notin Done /\ Left(h) = {}
         /\ Done' = Done \union {h} /\ result' = Append(result, h) /\ result' \in Seq(nodes)
         /\ Tail(queue) \in Seq(nodes) /\ Distinct(Tail(queue))
         /\ Range(Tail(queue)) = Queued \ {h}
         /\ sorting /\ sorting' /\ nodes' = nodes /\ connections' = connections
<1>1. sorting /\ QueueIsReady /\ queue \in Seq(nodes) /\ queue # <<>> /\ result \in Seq(nodes)
  BY DEF SortStep, IInv, Working, Sequences
<1>2. /\ Tail(queue) \in Seq(nodes) /\ Distinct(Tail(queue)) /\ Head(queue) \in Queued
      /\ Head(queue) \in nodes /\ Range(Tail(queue)) = Queued \ {Head(queue)}
  BY <1>1, RangeOfTail DEF QueueIsReady, Queued
<1>3. Head(queue) \notin Done /\ Left(Head(queue)) = {}
  BY <1>1, <1>2 DEF QueueIsReady
<1>4. result' = Append(result, Head(queue)) /\ sorting' = sorting /\ nodes' = nodes /\ connections' = connections
  BY DEF SortStep, graph
<1>5. Range(result') = Range(result) \union {Head(queue)} /\ result' \in Seq(nodes)
  BY <1>1, <1>2, <1>4, RangeOfAppend
<1> QED
  BY <1>1, <1>2, <1>3, <1>4, <1>5 DEF Done

(* The decrements keep the map equal to what is left.                         *)
LEMMA DegreesAfter ==
  ASSUME IInv, SortStep
  PROVE  /\ Degrees'
         /\ \A n \in nodes :
              /\ inDegree'[n] \in Nat /\ inDegree[n] \in Nat /\ inDegree'[n] <= inDegree[n]
              /\ (inDegree[n] = 0) <=> (Left(n) = {})
              /\ (inDegree'[n] = 0) <=> (Left(n)' = {})
<1> DEFINE h == Head(queue)
           Edge(n) == {c \in connections : c.src = h /\ c.dst = n}
<1>1. GraphInv /\ IsFiniteSet(connections)
  BY DEF IInv, GraphInv
<1>2. ASSUME NEW n \in nodes
      PROVE  /\ IsFiniteSet(Left(n)') /\ Cardinality(Left(n)') = Cardinality(Left(n)) - Edges(h, n)
             /\ Edges(h, n) \in Nat /\ Cardinality(Left(n)) \in Nat /\ Cardinality(Left(n)') \in Nat
             /\ (Cardinality(Left(n)) = 0) <=> (Left(n) = {})
             /\ (Cardinality(Left(n)') = 0) <=> (Left(n)' = {})
  <2>1. Left(n)' = Left(n) \ Edge(n) /\ Left(n) \intersect Edge(n) = Edge(n)
    BY HeadMoves DEF Left
  <2>2. IsFiniteSet(Left(n)) /\ Cardinality(Left(n)) \in Nat /\ ((Cardinality(Left(n)) = 0) <=> (Left(n) = {}))
    BY <1>1, LeftFinite
  <2>3. IsFiniteSet(Left(n) \ Edge(n)) /\ Cardinality(Left(n) \ Edge(n)) = Cardinality(Left(n)) - Cardinality(Edge(n))
    BY <2>1, <2>2, FS_Difference
  <2>4. Cardinality(Left(n) \ Edge(n)) \in Nat /\ ((Cardinality(Left(n) \ Edge(n)) = 0) <=> (Left(n) \ Edge(n) = {}))
    BY <2>3, FS_CardinalityType, FS_EmptySet
  <2>5. IsFiniteSet(Edge(n)) /\ Cardinality(Edge(n)) \in Nat
    BY <1>1, FS_Subset, FS_CardinalityType
  <2> QED
    BY <2>1, <2>2, <2>3, <2>4, <2>5 DEF Edges
<1>3. inDegree = [n \in nodes |-> Cardinality(Left(n))]
  BY HeadMoves DEF IInv, Working, Degrees
<1>4. inDegree' = [n \in nodes |-> inDegree[n] - Edges(h, n)]
  BY DEF SortStep
<1>5. \A n \in nodes : inDegree[n] = Cardinality(Left(n)) /\ inDegree'[n] = Cardinality(Left(n)')
  BY <1>2, <1>3, <1>4
<1>6. Degrees'
  BY <1>4, <1>5, HeadMoves DEF Degrees
<1> QED
  BY <1>2, <1>4, <1>5, <1>6

(* The queue keeps exactly the nodes that are fed by the order and not in it. *)
LEMMA QueueAfter ==
  ASSUME IInv, SortStep
  PROVE  queue' \in Seq(nodes) /\ QueueIsReady'
<1> DEFINE h == Head(queue)
           new == Ready(inDegree, inDegree')
<1>1. PICK ready \in SetToSeqs(new) : queue' = Tail(queue) \o ready
  BY DEF SortStep
<1>2. new \subseteq nodes /\ IsFiniteSet(new)
  BY FS_Subset, GraphAssumption DEF IInv, GraphInv, GraphTypeOK, Ready
<1>3. ready \in Seq(nodes) /\ Distinct(ready) /\ Range(ready) = new
  <2>1. ready \in Seq(new) /\ Distinct(ready) /\ Range(ready) = new
    BY <1>2, Listing
  <2> QED
    BY <1>2, <2>1
<1>4. new = {n \in nodes : Left(n) # {} /\ Left(n)' = {}}
  BY DegreesAfter DEF Ready
<1>5. Range(Tail(queue)) = {n \in nodes \ Done : Left(n) = {}} \ {h}
  BY HeadMoves DEF IInv, Working, QueueIsReady
<1>6. Range(Tail(queue)) \intersect Range(ready) = {}
  BY <1>3, <1>4, <1>5
<1>7. /\ queue' \in Seq(nodes) /\ Distinct(queue')
      /\ Range(queue') = Range(Tail(queue)) \union new
  <2>1. Tail(queue) \in Seq(nodes) /\ Distinct(Tail(queue))
    BY HeadMoves
  <2>2. /\ Tail(queue) \o ready \in Seq(nodes) /\ Distinct(Tail(queue) \o ready)
        /\ Range(Tail(queue) \o ready) = Range(Tail(queue)) \union Range(ready)
    <3> DEFINE t == Tail(queue)
    <3>1. t \in Seq(nodes) /\ ready \in Seq(nodes) /\ Distinct(t) /\ Distinct(ready) /\ Range(t) \intersect Range(ready) = {}
      BY <1>3, <1>6, <2>1
    <3> HIDE DEF t
    <3>2. t \o ready \in Seq(nodes) /\ Distinct(t \o ready) /\ Range(t \o ready) = Range(t) \union Range(ready)
      BY <3>1, Joined
    <3> QED
      BY <3>2 DEF t
  <2> QED
    BY <1>1, <1>3, <2>2, Zenon
<1>8. \A n : Left(n)' \subseteq Left(n)
  BY HeadMoves DEF Left
<1>9. \A n \in Done \union {h} : Left(n) = {}
  BY HeadMoves, FedByDone
<1>10. Range(Tail(queue)) \union new = {n \in nodes \ (Done \union {h}) : Left(n)' = {}}
  BY <1>4, <1>5, <1>8, <1>9
<1> QED
  BY <1>7, <1>10, HeadMoves DEF QueueIsReady, Queued

(* The node just placed closes no cycle: nothing it could feed is placed.     *)
LEMMA PlacedAcyclic ==
  ASSUME IInv, SortStep
  PROVE  DoneAcyclic'
<1> DEFINE h == Head(queue)
<1>1. DoneAcyclic /\ Done' = Done \union {h} /\ connections' = connections /\ h \notin Done
  BY HeadMoves DEF IInv, Working
<1>2. \A n \in Done \union {h} : \A c \in connections : c.dst = n => c.src \in Done
  BY HeadMoves, FedByDone DEF Left
<1>3. ASSUME NEW S \in SUBSET (Done \union {h}), S # {} PROVE \E n \in S : ~Fed(n, S)
  <2>1. CASE S \intersect Done = {}
    <3>1. S = {h}
      BY <1>3, <2>1
    <3> QED
      BY <1>1, <1>2, <3>1 DEF Fed
  <2>2. CASE S \intersect Done # {}
    <3>1. PICK n \in S \intersect Done : ~Fed(n, S \intersect Done)
      BY <1>1, <2>2 DEF DoneAcyclic
    <3> QED
      BY <1>2, <3>1 DEF Fed
  <2> QED
    BY <2>1, <2>2
<1> QED
  BY <1>1, <1>3 DEF DoneAcyclic, Fed

LEMMA OrderAfter ==
  ASSUME IInv, SortStep
  PROVE  OrderRespectsConnections'
<1> DEFINE h == Head(queue)
<1>1. /\ result \in Seq(nodes) /\ result' = Append(result, h) /\ connections' = connections /\ h \in nodes
      /\ h \notin Done /\ Left(h) = {}
  BY HeadMoves DEF IInv, Sequences
<1>2. /\ Len(result) \in Nat /\ DOMAIN result = 1..Len(result) /\ DOMAIN result' = 1..(Len(result) + 1)
      /\ \A i \in 1..Len(result) : result'[i] = result[i]
      /\ result'[Len(result) + 1] = h
  BY <1>1
<1>3. ASSUME NEW i \in 1..Len(result)
      PROVE  /\ \A j \in 1..(i - 1) : result'[j] # result'[i]
             /\ \A c \in connections : c.dst = result'[i] => \E j \in 1..(i - 1) : result'[j] = c.src
  <2>1. 1..(i - 1) \subseteq 1..Len(result)
    BY <1>2
  <2> QED
    BY <1>2, <2>1 DEF IInv, OrderRespectsConnections
<1>4. \A j \in 1..Len(result) : result'[j] # h
  BY <1>1, <1>2 DEF Done, Range
<1>5. ASSUME NEW c \in connections, c.dst = h PROVE \E j \in 1..Len(result) : result'[j] = c.src
  BY <1>1, <1>2, <1>5 DEF Left, Done, Range
<1>6. ASSUME NEW i \in DOMAIN result'
      PROVE  /\ \A j \in 1..(i - 1) : result'[j] # result'[i]
             /\ \A c \in connections : c.dst = result'[i] => \E j \in 1..(i - 1) : result'[j] = c.src
  <2>1. i \in 1..Len(result) \/ (i = Len(result) + 1 /\ i - 1 = Len(result))
    BY <1>2
  <2> QED
    BY <1>2, <1>3, <1>4, <1>5, <2>1
<1> QED
  BY <1>1, <1>6 DEF OrderRespectsConnections

LEMMA SortStepKeeps ==
  ASSUME IInv, SortStep
  PROVE  IInv'
<1>1. GraphInv'
  BY DEF IInv, GraphInv, GraphTypeOK, NoDanglingConnection, SortStep, graph
<1>2. (Len(result) = Cardinality(Done))'
  <2>1. Done \subseteq nodes /\ Len(result) = Cardinality(Done) /\ result \in Seq(nodes)
    BY HeadMoves DEF IInv, Working, Sequences, Done, Range
  <2>2. IsFiniteSet(Done)
    BY <2>1, FS_Subset, GraphAssumption DEF IInv, GraphInv, GraphTypeOK
  <2>3. Cardinality(Done \union {Head(queue)}) = Cardinality(Done) + 1
    BY <2>2, HeadMoves, FS_AddElement
  <2>4. Len(result') = Len(result) + 1
    BY <2>1, HeadMoves
  <2> QED
    BY <2>1, <2>3, <2>4, HeadMoves
<1>3. (Sequences /\ Working /\ Resting)'
  BY <1>2, HeadMoves, DegreesAfter, QueueAfter, PlacedAcyclic DEF Sequences, Working, Resting
<1> QED
  BY <1>1, <1>3, OrderAfter DEF IInv

LEMMA SortReturnKeeps ==
  ASSUME IInv, SortReturn
  PROVE  IInv'
<1>1. ~sorting' /\ Nothing' /\ nodes' = nodes /\ connections' = connections
  BY DEF SortReturn, Nothing, graph
<1>2. GraphInv'
  BY DEF IInv, GraphInv, GraphTypeOK, NoDanglingConnection, SortReturn, graph
<1>3. Sequences' /\ OrderRespectsConnections'
  <2>1. queue' = <<>> /\ result' = <<>>
    BY <1>1 DEF Nothing
  <2>2. sorting' \in BOOLEAN
    BY DEF SortReturn
  <2> QED
    BY <2>1, <2>2 DEF Sequences, OrderRespectsConnections
<1>4. Working' /\ Resting'
  BY <1>1 DEF Working, Resting
<1> QED
  BY <1>2, <1>3, <1>4 DEF IInv

-----------------------------------------------------------------------------
(* What follows                                                               *)

LEMMA NextKeeps == IInv /\ [Next]_vars => IInv'
<1> SUFFICES ASSUME IInv, [Next]_vars PROVE IInv'
  OBVIOUS
<1>1. CASE UNCHANGED vars
  <2>1. UNCHANGED <<nodes, connections, needsRebuild, sorting, queue, inDegree, result>>
    BY <1>1 DEF vars, graph, sorter
  <2>2. GraphInv' /\ Sequences' /\ OrderRespectsConnections' /\ Resting'
    BY <2>1 DEF IInv, GraphInv, GraphTypeOK, NoDanglingConnection, Sequences,
                OrderRespectsConnections, Resting, Nothing
  <2>3. Working'
    BY <2>1 DEF IInv, Working, Degrees, QueueIsReady, DoneAcyclic, Queued, Done, Left, Fed
  <2> QED
    BY <2>2, <2>3 DEF IInv
<1> QED
  BY <1>1, EditKeeps, SortBeginKeeps, SortStepKeeps, SortReturnKeeps DEF Next

(* The strengthening holds in every reachable state.                          *)
THEOREM Invariance == Spec => []IInv
  BY InitEstablishes, NextKeeps, PTL DEF Spec

(* The sorter's locals are what their types say, for every graph.             *)
THEOREM TypeCorrect == Spec => []TypeOK
  BY Invariance, Typed, PTL

(* removeNode() leaves no connection of its node behind.                      *)
THEOREM ConnectionsInside == Spec => []NoDanglingConnection
<1>1. IInv => NoDanglingConnection
  BY DEF IInv, GraphInv
<1> QED
  BY <1>1, Invariance, PTL

(* Every prefix of the order is topological.                                  *)
THEOREM Topological == Spec => []OrderRespectsConnections
<1>1. IInv => OrderRespectsConnections
  BY DEF IInv
<1> QED
  BY <1>1, Invariance, PTL

(* hasValidOrder() is true exactly of the graphs without a cycle.             *)
THEOREM CompleteIffAcyclic == Spec => []OrderCompleteIffAcyclic
<1>1. ASSUME IInv, sorting, queue = <<>> PROVE HasValidOrder <=> Acyclic
  <2>1. Done \subseteq nodes /\ IsFiniteSet(nodes) /\ Len(result) = Cardinality(Done)
    <3>1. Done \subseteq nodes
      BY <1>1 DEF IInv, Sequences, Done, Range
    <3> QED
      BY <1>1, <3>1, FS_Subset, GraphAssumption DEF IInv, Working, GraphInv, GraphTypeOK
  <2>2. HasValidOrder <=> (Done = nodes)
    BY <2>1, FS_Subset DEF HasValidOrder
  <2>3. ASSUME NEW n \in nodes \ Done PROVE Fed(n, nodes \ Done)
    <3>1. Queued = {}
      BY <1>1 DEF Queued, Range
    <3>2. Left(n) # {}
      BY <1>1, <2>3, <3>1 DEF IInv, Working, QueueIsReady
    <3> QED
      BY <1>1, <3>2 DEF Left, Fed, IInv, GraphInv, NoDanglingConnection
  <2>4. Acyclic => Done = nodes
    <3>1. ASSUME nodes \ Done # {} PROVE ~Acyclic
      BY <2>3, <3>1 DEF Acyclic
    <3> QED
      BY <2>1, <3>1
  <2>5. Done = nodes => Acyclic
    BY <1>1 DEF IInv, Working, DoneAcyclic, Acyclic
  <2> QED
    BY <2>2, <2>4, <2>5
<1>2. IInv => OrderCompleteIffAcyclic
  BY <1>1 DEF OrderCompleteIffAcyclic
<1> QED
  BY <1>2, Invariance, PTL

(* Both at once: the order that is returned, and what is said of it.          *)
THEOREM OrderAlways == Spec => []OrderExact
<1>1. OrderRespectsConnections /\ OrderCompleteIffAcyclic => OrderExact
  BY DEF OrderExact
<1> QED
  BY <1>1, Topological, CompleteIffAcyclic, PTL

-----------------------------------------------------------------------------
(* The parallel groups.  A non-empty set of naturals has a least element:     *)
(* what holds of 0 and passes from k to k + 1 has no least exception.         *)
LEMMA LeastNatural ==
  ASSUME NEW T, T \subseteq Nat, T # {}
  PROVE  \E n \in T : \A m \in T : n <= m
<1>1. PICK n \in T : \A m \in T : <<m, n>> \notin OpToRel(<, Nat)
  BY WFMin, NatLessThanWellFounded, Zenon
<1>2. \A m \in T : ~(m < n)
  BY <1>1, Zenon DEF OpToRel
<1> QED
  BY <1>2

LEMMA NoLeastException ==
  ASSUME NEW T, NEW N \in Nat, 0 \notin T, \A k \in 0..(N - 1) : k \notin T => k + 1 \notin T
  PROVE  \A k \in 0..N : k \notin T
<1> SUFFICES ASSUME T \intersect (0..N) # {} PROVE FALSE
  OBVIOUS
<1>1. PICK n \in T \intersect (0..N) : \A m \in T \intersect (0..N) : n <= m
  <2> DEFINE exceptions == T \intersect (0..N)
  <2>1. exceptions \subseteq Nat /\ exceptions # {}
    OBVIOUS
  <2> HIDE DEF exceptions
  <2>2. \E n \in exceptions : \A m \in exceptions : n <= m
    BY <2>1, LeastNatural
  <2> QED
    BY <2>2 DEF exceptions
<1>2. n # 0 /\ n - 1 \in 0..(N - 1) /\ n - 1 \in 0..N /\ (n - 1) + 1 = n
  BY <1>1
<1>3. n - 1 \notin T
  BY <1>1, <1>2
<1> QED
  BY <1>1, <1>2, <1>3

(* The loop of computeParallelGroups(): what it starts from, and one turn.    *)
LoopStart == [degree |-> [n \in nodes |-> InDegree(n)], placed |-> {}, groups |-> <<>>]

Spent(group, m) == Cardinality({c \in connections : c.src \in group /\ c.dst = m})

Turn(last) ==
  LET group == NextGroup(last.degree, last.placed)
  IN  IF group = {} THEN last
      ELSE [degree |-> [m \in nodes |-> last.degree[m] - Spent(group, m)],
            placed |-> last.placed \union group,
            groups |-> Append(last.groups, group)]

Turns == Cardinality(NodeIds)

(* The loop's states up to a turn exist, so that Grouping is what it says.    *)
LEMMA GroupingTurns ==
  /\ Turns \in Nat
  /\ Grouping[0] = LoopStart
  /\ \A k \in 0..(Turns - 1) : Grouping[k + 1] = Turn(Grouping[k])
<1>1. Turns \in Nat
  BY GraphAssumption, FS_CardinalityType DEF Turns
<1> DEFINE Loop(g, k) == g = [i \in 0..k |-> IF i = 0 THEN LoopStart ELSE Turn(g[i - 1])]
           T == {k \in 0..Turns : ~(\E g : Loop(g, k))}
<1>2. 0 \notin T
  <2>1. Loop([i \in 0..0 |-> LoopStart], 0)
    OBVIOUS
  <2> QED
    BY <2>1
<1>3. ASSUME NEW k \in 0..(Turns - 1), k \notin T
      PROVE  k + 1 \notin T
  <2>1. PICK g : Loop(g, k)
    BY <1>1, <1>3
  <2> DEFINE h == [i \in 0..(k + 1) |-> IF i = k + 1 THEN Turn(g[k]) ELSE g[i]]
  <2>2. ASSUME NEW i \in 0..(k + 1)
        PROVE  h[i] = IF i = 0 THEN LoopStart ELSE Turn(h[i - 1])
    <3>1. CASE i = k + 1
      <4>1. i # 0 /\ i - 1 = k /\ k \in 0..(k + 1) /\ k # k + 1
        BY <3>1
      <4> QED
        BY <3>1, <4>1
    <3>2. CASE i # k + 1
      <4>1. i \in 0..k /\ h[i] = g[i]
        BY <3>2
      <4>2. g[i] = IF i = 0 THEN LoopStart ELSE Turn(g[i - 1])
        BY <2>1, <4>1
      <4>3. i # 0 => i - 1 \in 0..(k + 1) /\ i - 1 # k + 1
        BY <4>1
      <4> QED
        BY <4>1, <4>2, <4>3
    <3> QED
      BY <3>1, <3>2
  <2>3. Loop(h, k + 1)
    BY <2>2
  <2> QED
    BY <2>3
<1> HIDE DEF T
<1>4. Turns \notin T
  BY <1>1, <1>2, <1>3, NoLeastException
<1>5. \E g : Loop(g, Turns)
  BY <1>1, <1>4 DEF T
<1>6. Loop(Grouping, Turns)
  BY <1>5 DEF Grouping, LoopStart, Turn, Spent, Turns
<1> QED
  BY <1>1, <1>6

(* What a turn leaves: the degrees count the connections from nodes not yet   *)
(* placed, each group holds exactly what the groups before it leave fed, and  *)
(* every turn adds a group until nothing is ready.                            *)
Waiting(n, placed) == {c \in connections : c.dst = n /\ c.src \notin placed}

Before(s, i) == UNION {s[j] : j \in 1..(i - 1)}

FedBy(S) == {n \in nodes \ S : \A c \in connections : c.dst = n => c.src \in S}

LoopOK(k, g) ==
  /\ g.placed \subseteq nodes
  /\ g.degree = [n \in nodes |-> Cardinality(Waiting(n, g.placed))]
  /\ g.groups \in Seq(SUBSET nodes)
  /\ g.placed = Before(g.groups, Len(g.groups) + 1)
  /\ \A i \in 1..Len(g.groups) : g.groups[i] = FedBy(Before(g.groups, i)) /\ g.groups[i] # {}
  /\ \A S \in SUBSET nodes : (\A n \in S : Fed(n, S)) => S \intersect g.placed = {}
  /\ k <= Cardinality(g.placed) \/ FedBy(g.placed) = {}

LEMMA WaitingFinite ==
  ASSUME GraphInv, NEW n, NEW S
  PROVE  /\ IsFiniteSet(Waiting(n, S)) /\ Cardinality(Waiting(n, S)) \in Nat
         /\ Cardinality(Waiting(n, S)) = 0 <=> Waiting(n, S) = {}
<1>1. Waiting(n, S) \in SUBSET connections /\ IsFiniteSet(connections)
  BY DEF Waiting, GraphInv
<1>2. IsFiniteSet(Waiting(n, S))
  BY <1>1, FS_Subset
<1> HIDE DEF Waiting
<1> QED
  BY <1>2, FS_CardinalityType, FS_EmptySet

(* The group a turn takes is what the placed nodes leave fed.                 *)
LEMMA GroupIsFed ==
  ASSUME GraphInv, NEW k, NEW g, LoopOK(k, g)
  PROVE  NextGroup(g.degree, g.placed) = FedBy(g.placed)
<1>1. \A n \in nodes : g.degree[n] = Cardinality(Waiting(n, g.placed))
  BY DEF LoopOK
<1>2. \A n \in nodes : g.degree[n] = 0 <=> Waiting(n, g.placed) = {}
  BY <1>1, WaitingFinite
<1> QED
  BY <1>2 DEF NextGroup, FedBy, Waiting

LEMMA StartOK ==
  ASSUME GraphInv
  PROVE  LoopOK(0, LoopStart)
<1>1. /\ LoopStart.degree = [n \in nodes |-> InDegree(n)]
      /\ LoopStart.placed = {} /\ LoopStart.groups = <<>>
  BY DEF LoopStart
<1>2. \A n \in nodes : InDegree(n) = Cardinality(Waiting(n, {}))
  BY DEF InDegree, Waiting
<1>3. <<>> \in Seq(SUBSET nodes) /\ Len(<<>>) = 0
  OBVIOUS
<1>4. Before(<<>>, 0 + 1) = {}
  BY DEF Before
<1>5. Cardinality({}) = 0
  BY FS_EmptySet
<1> QED
  BY <1>1, <1>2, <1>3, <1>4, <1>5 DEF LoopOK

LEMMA SpentCounts ==
  ASSUME GraphInv, NEW P \in SUBSET nodes, NEW G, G \intersect P = {}, NEW m
  PROVE  Cardinality(Waiting(m, P)) - Spent(G, m) = Cardinality(Waiting(m, P \union G))
<1> DEFINE E == {c \in connections : c.src \in G /\ c.dst = m}
<1>1. Waiting(m, P \union G) = Waiting(m, P) \ E /\ Waiting(m, P) \intersect E = E
  BY DEF Waiting
<1>2. IsFiniteSet(Waiting(m, P))
  BY WaitingFinite
<1> HIDE DEF E
<1>3. Cardinality(Waiting(m, P) \ E) = Cardinality(Waiting(m, P)) - Cardinality(Waiting(m, P) \intersect E)
  BY <1>2, FS_Difference
<1> QED
  BY <1>1, <1>3 DEF Spent, E

(* A group behind the others.                                                 *)
LEMMA BeforeAppend ==
  ASSUME NEW T, NEW s \in Seq(T), NEW x \in T
  PROVE  LET t == Append(s, x) IN
         /\ t \in Seq(T) /\ Len(t) = Len(s) + 1 /\ t[Len(s) + 1] = x
         /\ \A i \in 1..Len(s) : t[i] = s[i]
         /\ \A i \in 1..(Len(s) + 1) : Before(t, i) = Before(s, i)
         /\ Before(t, Len(s) + 2) = Before(s, Len(s) + 1) \union x
<1> DEFINE t == Append(s, x)
           n == Len(s)
<1>1. /\ t \in Seq(T) /\ Len(t) = n + 1 /\ t[n + 1] = x /\ n \in Nat
      /\ \A i \in 1..n : t[i] = s[i]
  OBVIOUS
<1> HIDE DEF t, n
<1>2. ASSUME NEW i \in 1..(n + 1) PROVE Before(t, i) = Before(s, i)
  <2>1. \A j \in 1..(i - 1) : j \in 1..n
    BY <1>1
  <2>2. {t[j] : j \in 1..(i - 1)} = {s[j] : j \in 1..(i - 1)}
    BY <1>1, <2>1
  <2> QED
    BY <2>2 DEF Before
<1>3. Before(t, n + 2) = Before(s, n + 1) \union x
  <2>1. (n + 2) - 1 = n + 1 /\ (n + 1) - 1 = n /\ 1..(n + 1) = (1..n) \union {n + 1}
    BY <1>1
  <2>2. {t[j] : j \in 1..(n + 1)} = {s[j] : j \in 1..n} \union {x}
    BY <1>1, <2>1
  <2> QED
    BY <2>1, <2>2 DEF Before
<1> QED
  BY <1>1, <1>2, <1>3 DEF t, n

(* One turn keeps it.                                                         *)
LEMMA TurnOK ==
  ASSUME GraphInv, NEW k \in Nat, NEW g, LoopOK(k, g)
  PROVE  LoopOK(k + 1, Turn(g))
<1> DEFINE group == FedBy(g.placed)
           s == g.groups
           n == Len(g.groups)
<1>1. NextGroup(g.degree, g.placed) = group
  BY GroupIsFed
<1>2. CASE group = {}
  <2>1. Turn(g) = g
    BY <1>1, <1>2 DEF Turn
  <2> QED
    BY <1>2, <2>1 DEF LoopOK
<1>3. CASE group # {}
  <2> DEFINE t == Append(s, group)
             placed == g.placed \union group
  <2>1. /\ Turn(g).degree = [m \in nodes |-> g.degree[m] - Spent(group, m)]
        /\ Turn(g).placed = placed /\ Turn(g).groups = t
    BY <1>1, <1>3 DEF Turn
  <2>2. /\ g.placed \subseteq nodes /\ s \in Seq(SUBSET nodes) /\ n \in Nat
        /\ g.degree = [m \in nodes |-> Cardinality(Waiting(m, g.placed))]
        /\ g.placed = Before(s, n + 1)
        /\ \A i \in 1..n : s[i] = FedBy(Before(s, i)) /\ s[i] # {}
        /\ \A S \in SUBSET nodes : (\A m \in S : Fed(m, S)) => S \intersect g.placed = {}
    BY DEF LoopOK
  <2>3. group \in SUBSET nodes /\ group \intersect g.placed = {}
    BY DEF FedBy
  <2>4. placed \subseteq nodes
    BY <2>2, <2>3
  <2>5. Turn(g).degree = [m \in nodes |-> Cardinality(Waiting(m, placed))]
    <3>1. \A m \in nodes : g.degree[m] - Spent(group, m) = Cardinality(Waiting(m, placed))
      BY <2>2, <2>3, SpentCounts
    <3> QED
      BY <2>1, <3>1
  <2>6. /\ t \in Seq(SUBSET nodes) /\ Len(t) = n + 1 /\ t[n + 1] = group
        /\ \A i \in 1..n : t[i] = s[i]
        /\ \A i \in 1..(n + 1) : Before(t, i) = Before(s, i)
        /\ Before(t, n + 2) = Before(s, n + 1) \union group
    BY <2>2, <2>3, BeforeAppend
  <2> HIDE DEF t, n, s, group
  <2>7. placed = Before(t, Len(t) + 1)
    <3>1. (n + 1) + 1 = n + 2
      BY <2>2
    <3> QED
      BY <2>2, <2>6, <3>1
  <2>8. ASSUME NEW i \in 1..(n + 1) PROVE t[i] = FedBy(Before(t, i)) /\ t[i] # {}
    <3>1. CASE i = n + 1
      BY <1>3, <2>2, <2>6, <3>1 DEF group
    <3>2. CASE i # n + 1
      <4>1. i \in 1..n
        BY <2>2, <3>2
      <4> QED
        BY <2>2, <2>6, <4>1
    <3> QED
      BY <3>1, <3>2
  <2>9. ASSUME NEW S \in SUBSET nodes, \A m \in S : Fed(m, S) PROVE S \intersect placed = {}
    <3>1. S \intersect g.placed = {}
      BY <2>2, <2>9
    <3>2. ASSUME NEW m \in S, m \in group PROVE FALSE
      <4>1. PICK c \in connections : c.dst = m /\ c.src \in S
        BY <2>9, <3>2 DEF Fed
      <4>2. c.src \in g.placed
        BY <3>2, <4>1 DEF group, FedBy
      <4> QED
        BY <3>1, <4>1, <4>2
    <3> QED
      BY <3>1, <3>2
  <2>10. k + 1 <= Cardinality(placed) \/ FedBy(placed) = {}
    <3>1. k <= Cardinality(g.placed)
      BY <1>3 DEF LoopOK, group
    <3>2. PICK m \in group : m \notin g.placed
      BY <1>3, <2>3
    <3>3. IsFiniteSet(nodes) /\ IsFiniteSet(placed) /\ IsFiniteSet(g.placed)
      BY <2>2, <2>4, GraphAssumption, FS_Subset DEF GraphInv, GraphTypeOK
    <3>4. g.placed \union {m} \in SUBSET placed /\ Cardinality(g.placed \union {m}) = Cardinality(g.placed) + 1
      BY <3>2, <3>3, FS_AddElement
    <3>5. Cardinality(g.placed \union {m}) <= Cardinality(placed)
      BY <3>3, <3>4, FS_Subset
    <3>6. Cardinality(g.placed) \in Nat /\ Cardinality(placed) \in Nat
      BY <3>3, FS_CardinalityType
    <3> QED
      BY <3>1, <3>4, <3>5, <3>6
  <2> HIDE DEF placed
  <2> QED
    BY <2>1, <2>4, <2>5, <2>6, <2>7, <2>8, <2>9, <2>10 DEF LoopOK
<1> QED
  BY <1>2, <1>3

LEMMA GroupingOK ==
  ASSUME GraphInv
  PROVE  \A k \in 0..Turns : LoopOK(k, Grouping[k])
<1> DEFINE T == {k \in 0..Turns : ~LoopOK(k, Grouping[k])}
<1>1. 0 \notin T
  BY StartOK, GroupingTurns
<1>2. ASSUME NEW k \in 0..(Turns - 1), k \notin T PROVE k + 1 \notin T
  <2>1. k \in Nat /\ k \in 0..Turns
    BY GroupingTurns
  <2>2. LoopOK(k, Grouping[k])
    BY <1>2, <2>1
  <2>3. LoopOK(k + 1, Turn(Grouping[k]))
    BY <2>1, <2>2, TurnOK
  <2>4. Grouping[k + 1] = Turn(Grouping[k])
    BY GroupingTurns
  <2> QED
    BY <2>3, <2>4
<1> HIDE DEF T
<1>3. \A k \in 0..Turns : k \notin T
  BY <1>1, <1>2, GroupingTurns, NoLeastException
<1> QED
  BY <1>3 DEF T

(* The groups that are returned: nothing is left that could be placed.        *)
LEMMA GroupsReturned ==
  ASSUME GraphInv
  PROVE  LET s == ParallelGroups
             placed == UNION Range(s) IN
         /\ s \in Seq(SUBSET nodes) /\ placed \subseteq nodes
         /\ placed = Before(s, Len(s) + 1)
         /\ \A i \in 1..Len(s) : s[i] = FedBy(Before(s, i))
         /\ \A S \in SUBSET nodes : (\A n \in S : Fed(n, S)) => S \intersect placed = {}
         /\ \A n \in nodes \ placed : Fed(n, nodes \ placed)
<1> DEFINE N == Cardinality(nodes)
           g == Grouping[N]
           s == g.groups
<1>1. IsFiniteSet(nodes) /\ N \in Nat /\ N \in 0..Turns
  <2>1. IsFiniteSet(NodeIds) /\ nodes \in SUBSET NodeIds
    BY GraphAssumption DEF GraphInv, GraphTypeOK
  <2>2. IsFiniteSet(nodes) /\ N <= Cardinality(NodeIds)
    BY <2>1, FS_Subset
  <2>3. N \in Nat
    BY <2>2, FS_CardinalityType
  <2> QED
    BY <2>2, <2>3, GroupingTurns DEF Turns
<1> HIDE DEF N
<1>2. LoopOK(N, g)
  BY <1>1, GroupingOK
<1> HIDE DEF g
<1>3. /\ g.placed \subseteq nodes /\ s \in Seq(SUBSET nodes)
      /\ g.placed = Before(s, Len(s) + 1)
      /\ \A i \in 1..Len(s) : s[i] = FedBy(Before(s, i))
      /\ \A S \in SUBSET nodes : (\A n \in S : Fed(n, S)) => S \intersect g.placed = {}
      /\ N <= Cardinality(g.placed) \/ FedBy(g.placed) = {}
  BY <1>2 DEF LoopOK
<1> HIDE DEF s
<1>4. UNION Range(s) = g.placed
  <2>1. (Len(s) + 1) - 1 = Len(s) /\ DOMAIN s = 1..Len(s)
    BY <1>3
  <2>2. Range(s) = {s[j] : j \in 1..((Len(s) + 1) - 1)}
    BY <2>1 DEF Range
  <2> QED
    BY <1>3, <2>2 DEF Before
<1>5. FedBy(g.placed) = {}
  <2>1. CASE N <= Cardinality(g.placed)
    <3>1. Cardinality(g.placed) <= N /\ Cardinality(g.placed) \in Nat
      <4>1. g.placed \in SUBSET nodes
        BY <1>3
      <4>2. IsFiniteSet(g.placed) /\ Cardinality(g.placed) <= Cardinality(nodes)
        BY <1>1, <4>1, FS_Subset
      <4> QED
        BY <4>2, FS_CardinalityType DEF N
    <3>2. Cardinality(g.placed) = Cardinality(nodes)
      BY <1>1, <2>1, <3>1 DEF N
    <3>3. g.placed = nodes
      BY <1>1, <1>3, <3>2, FS_Subset
    <3> QED
      BY <3>3 DEF FedBy
  <2> QED
    BY <1>3, <2>1
<1>6. ASSUME NEW n \in nodes \ g.placed PROVE Fed(n, nodes \ g.placed)
  <2>1. PICK c \in connections : c.dst = n /\ c.src \notin g.placed
    BY <1>5, <1>6 DEF FedBy
  <2>2. c.src \in nodes
    BY DEF GraphInv, NoDanglingConnection
  <2> QED
    BY <2>1, <2>2 DEF Fed
<1>7. ParallelGroups = s
  BY DEF ParallelGroups, s, g, N
<1> QED
  BY <1>3, <1>4, <1>6, <1>7

-----------------------------------------------------------------------------
(* The depth of a node.                                                       *)
Feeding(n) == {c.src : c \in {d \in connections : d.dst = n}}

DepthFrom(f, n) == IF Feeding(n) = {} THEN 0 ELSE Max({f[m] : m \in Feeding(n)}) + 1

InGroup(n, i) == i \in 1..Len(ParallelGroups) /\ n \in ParallelGroups[i]

(* Without a cycle each node is in one group; what feeds it is in groups      *)
(* before, and something in the one just before.                              *)
LEMMA OneGroup ==
  ASSUME GraphInv, Acyclic
  PROVE  /\ Len(ParallelGroups) \in Nat
         /\ \A n \in nodes : \E i \in 1..Len(ParallelGroups) : InGroup(n, i)
         /\ \A n, i : InGroup(n, i) => n \in nodes
         /\ \A n, i, j : InGroup(n, i) /\ InGroup(n, j) => i = j
         /\ \A n, i : InGroup(n, i) =>
              /\ \A m \in Feeding(n) : \E j \in 1..(i - 1) : InGroup(m, j)
              /\ i = 1 => Feeding(n) = {}
              /\ i # 1 => \E m \in Feeding(n) : InGroup(m, i - 1)
<1> DEFINE s == ParallelGroups
           placed == UNION Range(s)
<1>1. /\ s \in Seq(SUBSET nodes) /\ placed \subseteq nodes /\ Len(s) \in Nat
      /\ placed = Before(s, Len(s) + 1)
      /\ \A i \in 1..Len(s) : s[i] = FedBy(Before(s, i))
      /\ \A n \in nodes \ placed : Fed(n, nodes \ placed)
  <2>1. s \in Seq(SUBSET nodes) /\ placed \subseteq nodes
    BY GroupsReturned
  <2>2. placed = Before(s, Len(s) + 1)
    BY GroupsReturned
  <2>3. \A i \in 1..Len(s) : s[i] = FedBy(Before(s, i))
    BY GroupsReturned
  <2>4. \A n \in nodes \ placed : Fed(n, nodes \ placed)
    BY GroupsReturned
  <2>5. Len(s) \in Nat
    BY <2>1
  <2> QED
    BY <2>1, <2>2, <2>3, <2>4, <2>5
<1>2. placed = nodes
  <2>1. nodes \ placed \in SUBSET nodes
    OBVIOUS
  <2> HIDE DEF placed
  <2>2. ~(nodes \ placed # {})
    BY <1>1, <2>1 DEF Acyclic
  <2> QED
    BY <1>1, <2>2
<1> HIDE DEF placed, s
<1>3. ASSUME NEW i \in 1..(Len(s) + 1), NEW n
      PROVE  n \in Before(s, i) <=> \E j \in 1..(i - 1) : j \in 1..Len(s) /\ n \in s[j]
  <2>1. \A j \in 1..(i - 1) : j \in 1..Len(s)
    BY <1>1
  <2> QED
    BY <2>1 DEF Before
<1>4. ASSUME NEW n, NEW i \in 1..Len(s), n \in s[i]
      PROVE  /\ n \in nodes
             /\ \A j \in 1..(i - 1) : n \notin s[j]
             /\ \A m \in Feeding(n) : \E j \in 1..(i - 1) : j \in 1..Len(s) /\ m \in s[j]
             /\ i = 1 => Feeding(n) = {}
             /\ i # 1 => \E m \in Feeding(n) : m \in s[i - 1]
  <2>1. n \in FedBy(Before(s, i)) /\ i \in 1..(Len(s) + 1)
    BY <1>1, <1>4
  <2>2. n \in nodes /\ n \notin Before(s, i) /\ \A m \in Feeding(n) : m \in Before(s, i)
    BY <2>1 DEF FedBy, Feeding
  <2>3. \A j \in 1..(i - 1) : n \notin s[j]
    <3>1. \A j \in 1..(i - 1) : j \in 1..Len(s)
      BY <1>1
    <3> QED
      BY <1>3, <2>1, <2>2, <3>1
  <2>4. \A m \in Feeding(n) : \E j \in 1..(i - 1) : j \in 1..Len(s) /\ m \in s[j]
    BY <1>3, <2>1, <2>2
  <2>5. i = 1 => Feeding(n) = {}
    BY <2>4
  <2>6. ASSUME i # 1, \A m \in Feeding(n) : m \notin s[i - 1] PROVE FALSE
    <3>1. i - 1 \in 1..Len(s) /\ i - 1 \in 1..(i - 1) /\ i - 1 \in 1..(Len(s) + 1)
      BY <1>1, <2>6
    <3>2. \A m \in Feeding(n) : \E j \in 1..((i - 1) - 1) : j \in 1..Len(s) /\ m \in s[j]
      <4>1. \A j \in 1..(i - 1) : j # i - 1 => j \in 1..((i - 1) - 1)
        BY <1>1
      <4> QED
        BY <2>4, <2>6, <4>1
    <3>3. \A m \in Feeding(n) : m \in Before(s, i - 1)
      BY <1>3, <3>1, <3>2
    <3>4. n \notin Before(s, i - 1)
      <4>1. \A j \in 1..((i - 1) - 1) : j \in 1..(i - 1)
        BY <1>1
      <4> QED
        BY <1>3, <2>3, <3>1, <4>1
    <3>5. n \in FedBy(Before(s, i - 1))
      BY <2>2, <3>3, <3>4 DEF FedBy, Feeding
    <3> QED
      BY <1>1, <2>3, <3>1, <3>5
  <2> QED
    BY <2>2, <2>3, <2>4, <2>5, <2>6
<1>5. ASSUME NEW n \in nodes PROVE \E i \in 1..Len(s) : n \in s[i]
  <2>1. Len(s) + 1 \in 1..(Len(s) + 1)
    BY <1>1
  <2>2. n \in Before(s, Len(s) + 1)
    BY <1>1, <1>2
  <2> QED
    BY <1>3, <2>1, <2>2
<1>6. ASSUME NEW n, NEW i \in 1..Len(s), NEW j \in 1..Len(s), n \in s[i], n \in s[j] PROVE i = j
  <2>1. ~(i < j) /\ ~(j < i)
    BY <1>1, <1>4, <1>6
  <2> QED
    BY <2>1
<1>7. \A i \in 1..Len(s) : i # 1 => i - 1 \in 1..Len(s)
  BY <1>1
<1> QED
  BY <1>1, <1>4, <1>5, <1>6, <1>7 DEF InGroup, s

(* The depth of a node whose feeders have the depths of their groups.         *)
LEMMA DepthOfGroup ==
  ASSUME GraphInv, Acyclic, NEW f, NEW n, NEW i, InGroup(n, i),
         \A m \in Feeding(n), j \in 1..(i - 1) : InGroup(m, j) => f[m] = j - 1
  PROVE  DepthFrom(f, n) = i - 1
<1>1. /\ i \in 1..Len(ParallelGroups) /\ Len(ParallelGroups) \in Nat
      /\ \A m \in Feeding(n) : \E j \in 1..(i - 1) : InGroup(m, j)
      /\ i = 1 => Feeding(n) = {}
      /\ i # 1 => \E m \in Feeding(n) : InGroup(m, i - 1)
  <2>1. i \in 1..Len(ParallelGroups)
    BY DEF InGroup
  <2> QED
    BY <2>1, OneGroup
<1>2. CASE i = 1
  BY <1>1, <1>2 DEF DepthFrom
<1>3. CASE i # 1
  <2> DEFINE D == {f[m] : m \in Feeding(n)}
  <2>1. \A x \in D : x \in Int /\ x <= i - 2
    BY <1>1
  <2>2. i - 2 \in D
    <3>1. PICK m \in Feeding(n) : InGroup(m, i - 1)
      BY <1>1, <1>3
    <3>2. i - 1 \in 1..(i - 1) /\ (i - 1) - 1 = i - 2
      BY <1>1, <1>3
    <3>3. f[m] = (i - 1) - 1
      BY <3>1, <3>2
    <3> QED
      BY <3>2, <3>3
  <2> HIDE DEF D
  <2>3. Max(D) \in D /\ \A x \in D : Max(D) >= x
    <3>1. i - 2 \in Int
      BY <1>1
    <3>2. \E x \in D : \A y \in D : x >= y
      BY <2>1, <2>2, <3>1
    <3> QED
      BY <3>2 DEF Max
  <2>4. Max(D) = i - 2
    BY <1>1, <2>1, <2>2, <2>3
  <2>5. Feeding(n) # {}
    BY <1>1, <1>3
  <2>6. DepthFrom(f, n) = Max(D) + 1
    BY <2>5 DEF DepthFrom, D
  <2> QED
    BY <1>1, <2>4, <2>6
<1> QED
  BY <1>2, <1>3

(* Without a cycle there is a depth for every node, so that NodeDepth is what *)
(* it says.                                                                   *)
LEMMA DepthExists ==
  ASSUME GraphInv, Acyclic
  PROVE  NodeDepth = [n \in NodeIds |-> DepthFrom(NodeDepth, n)]
<1> DEFINE d == [n \in NodeIds |-> IF n \in nodes THEN (CHOOSE i : InGroup(n, i)) - 1 ELSE 0]
<1>1. ASSUME NEW n, NEW i, InGroup(n, i) PROVE d[n] = i - 1
  <2>1. n \in nodes /\ n \in NodeIds
    BY <1>1, OneGroup DEF GraphInv, GraphTypeOK
  <2>2. InGroup(n, CHOOSE j : InGroup(n, j))
    BY <1>1
  <2>3. (CHOOSE j : InGroup(n, j)) = i
    BY <1>1, <2>2, OneGroup
  <2> QED
    BY <2>1, <2>3
<1>2. ASSUME NEW n \in NodeIds, n \notin nodes PROVE d[n] = 0 /\ Feeding(n) = {}
  BY <1>2 DEF Feeding, GraphInv, NoDanglingConnection
<1> HIDE DEF d
<1>3. ASSUME NEW n \in NodeIds PROVE d[n] = DepthFrom(d, n)
  <2>1. CASE n \in nodes
    <3>1. PICK i : InGroup(n, i)
      BY <2>1, OneGroup
    <3>2. \A m \in Feeding(n), j \in 1..(i - 1) : InGroup(m, j) => d[m] = j - 1
      BY <1>1
    <3>3. DepthFrom(d, n) = i - 1
      BY <3>1, <3>2, DepthOfGroup
    <3> QED
      BY <1>1, <3>1, <3>3
  <2>2. CASE n \notin nodes
    BY <1>2, <2>2 DEF DepthFrom
  <2> QED
    BY <2>1, <2>2
<1>4. d = [n \in NodeIds |-> DepthFrom(d, n)]
  BY <1>3 DEF d
<1>5. \E g : g = [n \in NodeIds |-> DepthFrom(g, n)]
  BY <1>4
<1> QED
  BY <1>5 DEF NodeDepth, DepthFrom, Feeding

(* By the groups in their order: a node's depth is that of its group.         *)
LEMMA DepthIsGroup ==
  ASSUME GraphInv, Acyclic
  PROVE  \A n, i : InGroup(n, i) => NodeDepth[n] = i - 1
<1> DEFINE L == Len(ParallelGroups)
           T == {k \in 0..L : \E n : \E i \in 1..k : InGroup(n, i) /\ NodeDepth[n] # i - 1}
<1>1. L \in Nat
  BY OneGroup
<1> HIDE DEF L
<1>2. 0 \notin T
  OBVIOUS
<1>3. ASSUME NEW k \in 0..(L - 1), k \notin T PROVE k + 1 \notin T
  <2>1. SUFFICES ASSUME NEW n, NEW i \in 1..(k + 1), InGroup(n, i)
                 PROVE  NodeDepth[n] = i - 1
    OBVIOUS
  <2>2. k \in 0..L
    BY <1>1
  <2>3. \A m, j : j \in 1..k /\ InGroup(m, j) => NodeDepth[m] = j - 1
    BY <1>3, <2>2
  <2>4. \A m \in Feeding(n), j \in 1..(i - 1) : InGroup(m, j) => NodeDepth[m] = j - 1
    <3>1. \A j \in 1..(i - 1) : j \in 1..k
      BY <2>2
    <3> QED
      BY <2>3, <3>1
  <2>5. DepthFrom(NodeDepth, n) = i - 1
    BY <2>1, <2>4, DepthOfGroup
  <2>6. n \in NodeIds
    BY <2>1, OneGroup DEF GraphInv, GraphTypeOK
  <2>7. NodeDepth[n] = DepthFrom(NodeDepth, n)
    BY <2>6, DepthExists
  <2> QED
    BY <2>5, <2>7
<1> HIDE DEF T
<1>4. L \notin T
  BY <1>1, <1>2, <1>3, NoLeastException
<1>5. L \in 0..L
  BY <1>1
<1> QED
  BY <1>4, <1>5 DEF T, InGroup, L

(* The groups are the levels of the graph, and what a cycle feeds is in none, *)
(* for any nodes and connections.                                             *)
THEOREM GroupsProved == Spec => []GroupsByDepth
<1>1. IInv => GroupsByDepth
  <2> SUFFICES ASSUME GraphInv PROVE GroupsByDepth
    BY DEF IInv
  <2> DEFINE s == ParallelGroups
             placed == UNION Range(s)
  <2>1. \A S \in SUBSET nodes : (\A n \in S : Fed(n, S)) => S \intersect placed = {}
    BY GroupsReturned
  <2>2. \A n \in nodes \ placed : Fed(n, nodes \ placed)
    BY GroupsReturned
  <2>3. ASSUME Acyclic, NEW i \in DOMAIN s PROVE s[i] = {n \in nodes : NodeDepth[n] = i - 1}
    <3>1. s \in Seq(SUBSET nodes)
      BY GroupsReturned
    <3>2. DOMAIN s = 1..Len(s)
      BY <3>1
    <3>3. ASSUME NEW n \in s[i] PROVE n \in nodes /\ NodeDepth[n] = i - 1
      <4>1. InGroup(n, i)
        BY <2>3, <3>2 DEF InGroup
      <4> QED
        BY <2>3, <4>1, OneGroup, DepthIsGroup
    <3>4. ASSUME NEW n \in nodes, NodeDepth[n] = i - 1 PROVE n \in s[i]
      <4>1. PICK j \in 1..Len(s) : InGroup(n, j)
        BY <2>3, OneGroup
      <4>2. NodeDepth[n] = j - 1
        BY <2>3, <4>1, DepthIsGroup
      <4>3. i \in Int /\ j \in Int
        BY <2>3, <3>2
      <4>4. i = j
        BY <3>4, <4>2, <4>3
      <4> QED
        BY <4>1, <4>4 DEF InGroup
    <3> QED
      BY <3>3, <3>4
  <2> QED
    BY <2>1, <2>2, <2>3 DEF GroupsByDepth
<1> QED
  BY <1>1, Invariance, PTL

-----------------------------------------------------------------------------
(* FeedbackLoopDetector                                                       *)

(* A method that is not under way has no locals.                              *)
DetectorResting ==
  /\ search \in {"none", "hasCycle", "wouldCreateCycle"} /\ answer \in {"open", "yes", "no"}
  /\ search = "none" => answer = "open"
  /\ search # "hasCycle" => colors = <<>> /\ waiting = {} /\ calls = <<>>
  /\ search # "wouldCreateCycle" => asked = <<>> /\ stack = <<>> /\ visited = {}

(* The calls under way are a path, the innermost at its end, and a node is    *)
(* gray exactly while it is on the path.                                      *)
Frame == [node : nodes, left : SUBSET connections]

CallsOK ==
  /\ calls \in Seq(Frame)
  /\ \A i \in DOMAIN calls : calls[i].left \subseteq Outgoing(calls[i].node)
  /\ \A i, j \in DOMAIN calls : i # j => calls[i].node # calls[j].node
  /\ \A i \in DOMAIN calls : i > 1 =>
       \E c \in connections : c.src = calls[i].node /\ c.dst = calls[i - 1].node

OnPath(n) == \E i \in DOMAIN calls : calls[i].node = n

(* What a call has looked at is black, or the call it is waiting for.         *)
LookedAt ==
  \A i \in DOMAIN calls : \A c \in Outgoing(calls[i].node) \ calls[i].left :
    colors[c.dst] = "black" \/ (i > 1 /\ c.dst = calls[i - 1].node)

Black == {n \in nodes : colors[n] = "black"}

(* What is black leads to black nodes only, and holds no cycle.               *)
BlackOK ==
  /\ \A c \in connections : c.src \in Black => c.dst \in Black
  /\ \A S \in SUBSET Black : S # {} => \E n \in S : ~Fed(n, S)

ColorsOK ==
  /\ colors \in [nodes -> {"white", "gray", "black"}]
  /\ \A n \in nodes : colors[n] = "gray" <=> OnPath(n)
  /\ waiting \subseteq nodes /\ \A n \in nodes \ waiting : colors[n] # "white"

ColoringOK ==
  search = "hasCycle" =>
    /\ CallsOK /\ ColorsOK /\ LookedAt /\ BlackOK
    /\ answer = "yes" => ~Acyclic
    /\ answer = "no" => calls = <<>> /\ waiting = {}

(* The connections that were followed, and what they led to.                  *)
Followed == {c \in connections : c.src \in visited}

Found == visited \union Range(stack)

ReachingOK ==
  search = "wouldCreateCycle" =>
    /\ asked \in nodes \X nodes /\ stack \in Seq(nodes) /\ visited \subseteq nodes
    /\ \A n \in Found : Reached(asked[2], n)
    /\ asked[2] \in Found /\ asked[1] \notin visited
    /\ \A c \in Followed : c.dst \in Found
    /\ Len(stack) <= Cardinality(Followed) + 1
    /\ answer = "yes" => Reached(asked[2], asked[1])
    /\ answer = "no" => stack = <<>>

DetectorInv == GraphInv /\ DetectorResting /\ ColoringOK /\ ReachingOK

(* No method under way: the locals are gone, whatever the graph is.           *)
LEMMA DetectorRests ==
  ASSUME GraphInv, NoSearch
  PROVE  DetectorInv
BY DEF NoSearch, DetectorInv, DetectorResting, ColoringOK, ReachingOK

LEMMA DetectorInitEstablishes == DetectorInit => DetectorInv
<1> SUFFICES ASSUME DetectorInit PROVE DetectorInv
  OBVIOUS
<1>1. GraphInv
  BY FS_EmptySet DEF DetectorInit, GraphInit, GraphInv, GraphTypeOK, NoDanglingConnection
<1> QED
  BY <1>1, DetectorRests DEF DetectorInit

LEMMA EditBetweenKeeps == ASSUME DetectorInv, EditBetween PROVE DetectorInv'
<1>1. GraphInv'
  BY EditsAreSound DEF DetectorInv, EditBetween
<1>2. NoSearch'
  BY DEF DetectorInv, DetectorResting, EditBetween, detector, coloring, reaching, NoSearch
<1> QED
  BY <1>1, <1>2 DEF NoSearch, DetectorInv, DetectorResting, ColoringOK, ReachingOK

LEMMA ReturnKeeps == ASSUME DetectorInv, Return PROVE DetectorInv'
<1>1. GraphInv'
  BY GraphStays DEF DetectorInv, Return
<1> QED
  BY <1>1 DEF Return, DetectorInv, DetectorResting, ColoringOK, ReachingOK

-----------------------------------------------------------------------------
(* wouldCreateCycle()                                                         *)

LEMMA FollowedFinite ==
  ASSUME GraphInv, NEW S
  PROVE  /\ IsFiniteSet({c \in connections : c.src \in S})
         /\ Cardinality({c \in connections : c.src \in S}) \in Nat
         /\ Cardinality({c \in connections : c.src \in S}) <= Cardinality(connections)
<1>1. {c \in connections : c.src \in S} \subseteq connections /\ IsFiniteSet(connections)
  BY DEF GraphInv
<1> QED
  BY <1>1, FS_Subset, FS_CardinalityType

LEMMA WouldCreateCycleKeeps ==
  ASSUME DetectorInv, NEW src \in nodes, NEW dst \in nodes, WouldCreateCycle(src, dst)
  PROVE  DetectorInv'
<1>1. /\ search' = "wouldCreateCycle" /\ asked' = <<src, dst>> /\ stack' = <<dst>>
      /\ nodes' = nodes /\ connections' = connections /\ answer' = "open" /\ visited' = {}
      /\ colors' = <<>> /\ waiting' = {} /\ calls' = <<>>
  BY DEF WouldCreateCycle, graph, coloring, DetectorInv, DetectorResting
<1>2. GraphInv'
  BY GraphStays DEF WouldCreateCycle, DetectorInv
<1>3. DetectorResting' /\ ColoringOK'
  BY <1>1 DEF DetectorResting, ColoringOK
<1>4. Found' = {dst}
  BY <1>1 DEF Found, Range
<1>5. Reached(dst, dst)'
  BY DEF Reached
<1>6. stack' \in Seq(nodes) /\ Len(stack') = 1
  BY <1>1
<1>7. Followed' = {} /\ Cardinality({}) = 0
  BY <1>1, FS_EmptySet DEF Followed
<1>8. \A c \in Followed' : FALSE
  BY <1>7
<1>9. ReachingOK'
  <2>1. asked'[1] = src /\ asked'[2] = dst
    BY <1>1
  <2>2. Len(stack') <= Cardinality(Followed)' + 1
    BY <1>6, <1>7
  <2>3. \A n \in Found' : Reached(asked[2], n)'
    BY <1>4, <1>5, <2>1
  <2> QED
    BY <1>1, <1>4, <1>6, <1>8, <2>1, <2>2, <2>3 DEF ReachingOK
<1> QED
  BY <1>2, <1>3, <1>9 DEF DetectorInv

(* The target of a connection out of a node that is reached is reached.       *)
LEMMA ReachedNext ==
  ASSUME NEW a, NEW c \in connections, Reached(a, c.src)
  PROVE  Reached(a, c.dst)
BY DEF Reached

LEMMA PopKeeps ==
  ASSUME DetectorInv, Pop
  PROVE  DetectorInv'
<1> DEFINE top == Head(stack)
<1>1. /\ search = "wouldCreateCycle" /\ search' = search /\ answer = "open" /\ answer' = "open"
      /\ nodes' = nodes /\ connections' = connections /\ asked' = asked
      /\ colors' = <<>> /\ waiting' = {} /\ calls' = <<>> /\ stack # <<>> /\ top # asked[1]
  BY DEF Pop, Reaching, graph, coloring, DetectorInv, DetectorResting
<1>2. GraphInv'
  BY GraphStays DEF Pop, DetectorInv
<1>3. DetectorResting' /\ ColoringOK'
  BY <1>1 DEF DetectorResting, ColoringOK
<1>4. /\ asked \in nodes \X nodes /\ stack \in Seq(nodes) /\ visited \subseteq nodes
      /\ \A n \in Found : Reached(asked[2], n)
      /\ asked[2] \in Found /\ asked[1] \notin visited
      /\ \A c \in Followed : c.dst \in Found
      /\ Len(stack) <= Cardinality(Followed) + 1
  BY <1>1 DEF DetectorInv, ReachingOK
<1>5. /\ Len(stack) \in Nat \ {0} /\ Tail(stack) \in Seq(nodes) /\ Len(Tail(stack)) = Len(stack) - 1
      /\ top \in nodes
  BY <1>1, <1>4
<1>6. Range(stack) = {top} \union Range(Tail(stack))
  BY <1>1, <1>4, HeadAndTail
<1>7. \A a, n : Reached(a, n)' <=> Reached(a, n)
  BY <1>1 DEF Reached
<1>8. SUFFICES ReachingOK'
  BY <1>2, <1>3 DEF DetectorInv
<1>9. Cardinality(Followed) \in Nat
  BY FollowedFinite DEF DetectorInv, Followed
<1>10. CASE top \in visited
  <2>1. stack' = Tail(stack) /\ visited' = visited
    BY <1>10 DEF Pop
  <2>2. Found' = Found /\ Followed' = Followed
    BY <1>1, <1>6, <1>10, <2>1 DEF Found, Followed
  <2>3. Len(stack') <= Cardinality(Followed)' + 1
    BY <1>4, <1>5, <1>9, <2>1, <2>2
  <2> QED
    BY <1>1, <1>4, <1>5, <1>7, <2>1, <2>2, <2>3 DEF ReachingOK
<1>11. CASE top \notin visited
  <2>1. visited' = visited \union {top}
    BY <1>11 DEF Pop, Visited
  <2>2. PICK out \in SetToSeqs(Outgoing(top)) :
          stack' = [i \in DOMAIN out |-> out[i].dst] \o Tail(stack)
    BY <1>11 DEF Pop
  <2> DEFINE pushed == [i \in DOMAIN out |-> out[i].dst]
  <2>18. stack' = pushed \o Tail(stack)
    BY <2>2
  <2>3. Outgoing(top) \subseteq connections /\ IsFiniteSet(Outgoing(top))
    BY FS_Subset DEF Outgoing, DetectorInv, GraphInv
  <2>4. out \in Seq(Outgoing(top)) /\ Range(out) = Outgoing(top) /\ Len(out) = Cardinality(Outgoing(top))
    BY <2>3, Listing, ListingLength
  <2>5. \A c \in Outgoing(top) : c.dst \in nodes
    BY <2>3 DEF DetectorInv, GraphInv, NoDanglingConnection
  <2>6. pushed \in Seq(nodes) /\ Len(pushed) = Len(out)
    BY <2>4, <2>5
  <2>7. Range(pushed) = {c.dst : c \in Outgoing(top)}
    BY <2>4 DEF Range
  <2> HIDE DEF pushed
  <2>8. stack' \in Seq(nodes) /\ Len(stack') = Len(pushed) + Len(Tail(stack))
        /\ Range(stack') = Range(pushed) \union Range(Tail(stack))
    <3> DEFINE rest == Tail(stack)
    <3>1. rest \in Seq(nodes)
      BY <1>5
    <3> HIDE DEF rest
    <3>2. /\ pushed \o rest \in Seq(nodes) /\ Len(pushed \o rest) = Len(pushed) + Len(rest)
          /\ Range(pushed \o rest) = Range(pushed) \union Range(rest)
      BY <2>6, <3>1, RangeOfJoin
    <3> QED
      BY <2>18, <3>2 DEF rest
  <2>9. Found' = Found \union {c.dst : c \in Outgoing(top)}
    BY <1>6, <2>1, <2>7, <2>8 DEF Found
  <2>10. Followed' = Followed \union Outgoing(top)
    BY <1>1, <2>1 DEF Followed, Outgoing
  <2>11. Followed \intersect Outgoing(top) = {}
    BY <1>11 DEF Followed, Outgoing
  <2>12. Cardinality(Followed') = Cardinality(Followed) + Cardinality(Outgoing(top))
    <3>1. IsFiniteSet(Followed)
      BY FollowedFinite DEF DetectorInv, Followed
    <3>2. Cardinality(Followed \union Outgoing(top)) = Cardinality(Followed) + Cardinality(Outgoing(top)) - 0
      BY <2>3, <2>11, <3>1, FS_Union, FS_EmptySet
    <3>3. Cardinality(Outgoing(top)) \in Nat
      BY <2>3, FS_CardinalityType
    <3> QED
      BY <1>9, <2>10, <3>2, <3>3
  <2>13. Len(stack') <= Cardinality(Followed') + 1
    <3>1. Cardinality(Outgoing(top)) \in Nat
      BY <2>3, FS_CardinalityType
    <3> QED
      BY <1>4, <1>5, <1>9, <2>4, <2>6, <2>8, <2>12, <3>1
  <2>14. top \in Found
    BY <1>6 DEF Found
  <2>15. \A n \in Found' : Reached(asked[2], n)
    BY <1>4, <2>3, <2>9, <2>14, ReachedNext DEF Outgoing
  <2>16. \A c \in Followed' : c.dst \in Found'
    BY <1>4, <2>9, <2>10
  <2>17. visited' \subseteq nodes /\ asked[2] \in Found' /\ asked[1] \notin visited'
    BY <1>1, <1>4, <1>5, <2>1, <2>9
  <2> QED
    BY <1>1, <1>4, <1>7, <2>8, <2>13, <2>15, <2>16, <2>17 DEF ReachingOK
<1> QED
  BY <1>10, <1>11

LEMMA PathFoundKeeps ==
  ASSUME DetectorInv, PathFound
  PROVE  DetectorInv'
<1>1. /\ search = "wouldCreateCycle" /\ search' = search /\ answer' = "yes" /\ Head(stack) = asked[1]
      /\ UNCHANGED <<nodes, connections, asked, stack, visited, colors, waiting, calls>> /\ stack # <<>>
  BY DEF PathFound, Reaching, Answer, graph, coloring, reaching
<1>2. GraphInv'
  BY GraphStays DEF PathFound, Answer, DetectorInv
<1>3. DetectorResting' /\ ColoringOK'
  BY <1>1 DEF DetectorInv, DetectorResting, ColoringOK
<1>4. /\ asked \in nodes \X nodes /\ stack \in Seq(nodes) /\ visited \subseteq nodes
      /\ \A n \in Found : Reached(asked[2], n)
      /\ asked[2] \in Found /\ asked[1] \notin visited
      /\ \A c \in Followed : c.dst \in Found
      /\ Len(stack) <= Cardinality(Followed) + 1
  BY <1>1 DEF DetectorInv, ReachingOK
<1>5. Found' = Found /\ Followed' = Followed /\ \A a, n : Reached(a, n)' <=> Reached(a, n)
  BY <1>1 DEF Found, Followed, Reached
<1>6. asked[1] \in Found
  BY <1>1, <1>4, HeadAndTail DEF Found
<1>7. ReachingOK'
  BY <1>1, <1>4, <1>5, <1>6 DEF ReachingOK
<1> QED
  BY <1>2, <1>3, <1>7 DEF DetectorInv

LEMMA NoPathKeeps ==
  ASSUME DetectorInv, NoPath
  PROVE  DetectorInv'
<1>1. /\ search = "wouldCreateCycle" /\ search' = search /\ answer' = "no" /\ stack = <<>>
      /\ UNCHANGED <<nodes, connections, asked, stack, visited, colors, waiting, calls>>
  BY DEF NoPath, Reaching, Answer, graph, coloring, reaching
<1>2. GraphInv'
  BY GraphStays DEF NoPath, Answer, DetectorInv
<1>3. DetectorResting' /\ ColoringOK'
  BY <1>1 DEF DetectorInv, DetectorResting, ColoringOK
<1>4. /\ asked \in nodes \X nodes /\ stack \in Seq(nodes) /\ visited \subseteq nodes
      /\ \A n \in Found : Reached(asked[2], n)
      /\ asked[2] \in Found /\ asked[1] \notin visited
      /\ \A c \in Followed : c.dst \in Found
      /\ Len(stack) <= Cardinality(Followed) + 1
  BY <1>1 DEF DetectorInv, ReachingOK
<1>5. Found' = Found /\ Followed' = Followed /\ \A a, n : Reached(a, n)' <=> Reached(a, n)
  BY <1>1 DEF Found, Followed, Reached
<1>6. ReachingOK'
  BY <1>1, <1>4, <1>5 DEF ReachingOK
<1> QED
  BY <1>2, <1>3, <1>6 DEF DetectorInv

-----------------------------------------------------------------------------
(* hasCycle()                                                                 *)

(* A step of hasCycle() leaves the rest of the invariant alone.               *)
LEMMA RestKept ==
  ASSUME DetectorInv, search # "wouldCreateCycle", search' = "hasCycle",
         answer' \in {"open", "yes", "no"}, UNCHANGED <<graph, reaching>>,
         ColoringOK'
  PROVE  DetectorInv'
<1>1. GraphInv'
  BY GraphStays DEF DetectorInv
<1>2. DetectorResting' /\ ReachingOK'
  BY DEF DetectorInv, DetectorResting, ReachingOK, reaching
<1> QED
  BY <1>1, <1>2 DEF DetectorInv

LEMMA HasCycleKeeps ==
  ASSUME DetectorInv, HasCycle
  PROVE  DetectorInv'
<1>1. /\ search = "none" /\ search' = "hasCycle" /\ answer' = "open" /\ calls' = <<>>
      /\ colors' = [n \in nodes |-> "white"] /\ waiting' = nodes
      /\ nodes' = nodes /\ connections' = connections /\ UNCHANGED <<graph, reaching>>
  BY DEF HasCycle, graph, DetectorInv, DetectorResting
<1>2. CallsOK' /\ LookedAt' /\ ~\E i \in DOMAIN calls' : TRUE
  BY <1>1 DEF CallsOK, LookedAt
<1>3. Black' = {}
  BY <1>1 DEF Black
<1>4. BlackOK'
  BY <1>3 DEF BlackOK
<1>5. ColorsOK'
  BY <1>1, <1>2 DEF ColorsOK, OnPath
<1>6. ColoringOK'
  BY <1>1, <1>2, <1>4, <1>5 DEF ColoringOK
<1> QED
  BY <1>1, <1>6, RestKept

LEMMA NextNodeKeeps ==
  ASSUME DetectorInv, NEW n \in waiting, NextNode(n)
  PROVE  DetectorInv'
<1>1. /\ search = "hasCycle" /\ search' = search /\ answer = "open" /\ answer' = "open" /\ calls = <<>>
      /\ waiting' = waiting \ {n}
      /\ nodes' = nodes /\ connections' = connections /\ UNCHANGED <<graph, reaching>>
  BY DEF NextNode, Coloring, graph
<1>2. CallsOK /\ ColorsOK /\ LookedAt /\ BlackOK /\ n \in nodes
  BY <1>1 DEF DetectorInv, ColoringOK, ColorsOK
<1>3. \A m : ~OnPath(m)
  BY <1>1 DEF OnPath
<1>4. CASE colors[n] = "white"
  <2>1. colors' = [colors EXCEPT ![n] = "gray"] /\ calls' = <<[node |-> n, left |-> Outgoing(n)]>>
    BY <1>4 DEF NextNode, Enter, Call
  <2>2. DOMAIN calls' = {1} /\ calls'[1].node = n /\ calls'[1].left = Outgoing(n)
    BY <2>1
  <2>3. CallsOK'
    <3>1. [node |-> n, left |-> Outgoing(n)] \in Frame
      BY <1>2 DEF Frame, Outgoing
    <3>2. calls' \in Seq(Frame)
      BY <2>1, <3>1
    <3>3. Frame' = Frame /\ \A m : Outgoing(m)' = Outgoing(m)
      BY <1>1 DEF Frame, Outgoing
    <3> QED
      BY <2>2, <3>2, <3>3 DEF CallsOK
  <2>4. LookedAt'
    BY <1>1, <2>2 DEF LookedAt, Outgoing
  <2>5. \A m \in nodes : OnPath(m)' <=> m = n
    BY <2>2 DEF OnPath
  <2>6. ColorsOK'
    BY <1>1, <1>2, <1>3, <2>1, <2>5 DEF ColorsOK
  <2>7. Black' = Black
    BY <1>1, <1>2, <1>4, <2>1 DEF Black, ColorsOK
  <2>8. BlackOK'
    BY <1>1, <1>2, <2>7 DEF BlackOK, Fed
  <2> QED
    BY <1>1, <2>3, <2>4, <2>6, <2>8, RestKept DEF ColoringOK
<1>5. CASE colors[n] # "white"
  <2>1. colors' = colors /\ calls' = calls
    BY <1>5 DEF NextNode
  <2>2. CallsOK' /\ LookedAt'
    BY <1>1, <1>2, <2>1 DEF CallsOK, LookedAt
  <2>3. ColorsOK'
    BY <1>1, <1>2, <1>5, <2>1 DEF ColorsOK, OnPath
  <2>4. BlackOK'
    BY <1>1, <1>2, <2>1 DEF BlackOK, Black, Fed
  <2> QED
    BY <1>1, <2>2, <2>3, <2>4, RestKept DEF ColoringOK
<1> QED
  BY <1>4, <1>5

(* The innermost call, and what is left of it once it has looked at c.        *)
LEMMA Innermost ==
  ASSUME DetectorInv, Coloring, calls # <<>>
  PROVE  /\ CallsOK /\ ColorsOK /\ LookedAt /\ BlackOK
         /\ Len(calls) \in Nat \ {0} /\ DOMAIN calls = 1..Len(calls) /\ 1 \in DOMAIN calls
         /\ Head(calls) = calls[1] /\ Ahead = calls[1].left
         /\ \A i \in DOMAIN calls : calls[i] \in Frame /\ calls[i].node \in nodes
<1>1. CallsOK /\ ColorsOK /\ LookedAt /\ BlackOK
  BY DEF DetectorInv, ColoringOK, Coloring
<1>2. calls \in Seq(Frame)
  BY <1>1 DEF CallsOK
<1>3. /\ Len(calls) \in Nat \ {0} /\ DOMAIN calls = 1..Len(calls) /\ 1 \in DOMAIN calls
      /\ Head(calls) = calls[1] /\ \A i \in DOMAIN calls : calls[i] \in Frame
  BY <1>2
<1>4. Ahead = calls[1].left
  BY <1>3 DEF Ahead
<1> QED
  BY <1>1, <1>3, <1>4 DEF Frame

LEMMA WithoutShape ==
  ASSUME DetectorInv, Coloring, calls # <<>>, NEW c \in Ahead
  PROVE  /\ Without(c) \in Seq(Frame) /\ Len(Without(c)) = Len(calls)
         /\ \A i \in DOMAIN calls :
              /\ Without(c)[i].node = calls[i].node
              /\ Without(c)[i].left = IF i = 1 THEN calls[1].left \ {c} ELSE calls[i].left
<1> DEFINE f == [Head(calls) EXCEPT !.left = @ \ {c}]
<1>1. /\ calls \in Seq(Frame) /\ Len(calls) \in Nat \ {0} /\ DOMAIN calls = 1..Len(calls)
      /\ Head(calls) = calls[1] /\ calls[1] \in Frame
  BY Innermost DEF CallsOK
<1>2. f \in Frame /\ f.node = calls[1].node /\ f.left = calls[1].left \ {c}
  BY <1>1 DEF Frame
<1> HIDE DEF f
<1>3. /\ <<f>> \o Tail(calls) \in Seq(Frame) /\ Len(<<f>> \o Tail(calls)) = Len(calls)
      /\ (<<f>> \o Tail(calls))[1] = f
      /\ \A i \in 2..Len(calls) : (<<f>> \o Tail(calls))[i] = calls[i]
  BY <1>1, <1>2
<1>4. Without(c) = <<f>> \o Tail(calls)
  BY DEF Without, f
<1>5. \A i \in 1..Len(calls) : i = 1 \/ i \in 2..Len(calls)
  BY <1>1
<1> QED
  BY <1>1, <1>2, <1>3, <1>4, <1>5

LEMMA ColoringUnmoved ==
  ASSUME CallsOK, ColorsOK, LookedAt, BlackOK, UNCHANGED <<nodes, connections, colors, waiting, calls>>
  PROVE  CallsOK' /\ ColorsOK' /\ LookedAt' /\ BlackOK'
<1>1. CallsOK'
  BY DEF CallsOK, Frame, Outgoing
<1>2. ColorsOK'
  BY DEF ColorsOK, OnPath
<1>3. LookedAt'
  BY DEF LookedAt, Outgoing
<1>4. BlackOK'
  BY DEF BlackOK, Black, Fed
<1> QED
  BY <1>1, <1>2, <1>3, <1>4

LEMMA CloseCycleKeeps ==
  ASSUME DetectorInv, NEW c \in Ahead, CloseCycle(c)
  PROVE  DetectorInv'
<1>1. /\ Coloring /\ calls # <<>> /\ c \in Ahead
      /\ search = "hasCycle" /\ search' = search /\ answer' = "yes" /\ colors[c.dst] = "gray"
      /\ UNCHANGED <<nodes, connections, graph, colors, waiting, calls, reaching>>
  BY DEF CloseCycle, Answer, Ahead, Coloring, graph, coloring
<1>2. /\ CallsOK /\ ColorsOK /\ LookedAt /\ BlackOK
      /\ Len(calls) \in Nat \ {0} /\ DOMAIN calls = 1..Len(calls) /\ 1 \in DOMAIN calls
      /\ c \in calls[1].left
      /\ \A i \in DOMAIN calls : calls[i] \in Frame /\ calls[i].node \in nodes
  BY <1>1, Innermost
<1>3. c \in connections /\ c.src = calls[1].node
  BY <1>2 DEF CallsOK, Outgoing
<1>4. PICK k \in DOMAIN calls : calls[k].node = c.dst
  <2>1. c.dst \in nodes
    BY <1>3 DEF DetectorInv, GraphInv, NoDanglingConnection
  <2> QED
    BY <1>1, <1>2, <2>1 DEF ColorsOK, OnPath
<1> DEFINE S == {calls[i].node : i \in 1..k}
<1>5. S \subseteq nodes /\ calls[1].node \in S
  BY <1>2
<1>6. ASSUME NEW i \in 1..k PROVE Fed(calls[i].node, S)
  <2>1. CASE i = k
    BY <1>3, <1>4, <1>5, <2>1 DEF Fed
  <2>2. CASE i # k
    <3>1. i + 1 \in DOMAIN calls /\ i + 1 \in 1..k /\ i + 1 > 1 /\ (i + 1) - 1 = i
      BY <1>2, <2>2
    <3>2. PICK d \in connections : d.src = calls[i + 1].node /\ d.dst = calls[(i + 1) - 1].node
      BY <1>2, <3>1 DEF CallsOK
    <3>3. d.src \in S
      BY <3>1, <3>2
    <3> QED
      BY <3>1, <3>2, <3>3 DEF Fed
  <2> QED
    BY <2>1, <2>2
<1>7. ~Acyclic
  BY <1>5, <1>6 DEF Acyclic
<1>8. CallsOK' /\ ColorsOK' /\ LookedAt' /\ BlackOK'
  BY <1>1, <1>2, ColoringUnmoved
<1>9. ~Acyclic'
  BY <1>1, <1>7 DEF Acyclic, Fed
<1> QED
  BY <1>1, <1>8, <1>9, RestKept DEF ColoringOK

LEMMA NoCycleKeeps ==
  ASSUME DetectorInv, NoCycle
  PROVE  DetectorInv'
<1>1. /\ search = "hasCycle" /\ search' = search /\ answer' = "no" /\ answer = "open"
      /\ calls = <<>> /\ waiting = {}
      /\ UNCHANGED <<nodes, connections, graph, colors, waiting, calls, reaching>>
  BY DEF NoCycle, Answer, Coloring, graph, coloring
<1>2. CallsOK /\ ColorsOK /\ LookedAt /\ BlackOK
  BY <1>1 DEF DetectorInv, ColoringOK
<1>3. CallsOK' /\ ColorsOK' /\ LookedAt' /\ BlackOK'
  BY <1>1, <1>2, ColoringUnmoved
<1> QED
  BY <1>1, <1>3, RestKept DEF ColoringOK

LEMMA LookAtKeeps ==
  ASSUME DetectorInv, NEW c \in Ahead, LookAt(c)
  PROVE  DetectorInv'
<1> DEFINE w == Without(c)
           L == Len(calls)
<1>1. /\ Coloring /\ calls # <<>> /\ search = "hasCycle" /\ search' = search
      /\ answer = "open" /\ answer' = "open" /\ colors[c.dst] # "gray"
      /\ UNCHANGED <<nodes, connections, graph, waiting, reaching>>
  BY DEF LookAt, Ahead, Coloring, graph
<1>2. /\ CallsOK /\ ColorsOK /\ LookedAt /\ BlackOK
      /\ L \in Nat \ {0} /\ DOMAIN calls = 1..L /\ 1 \in DOMAIN calls
      /\ c \in calls[1].left
      /\ \A i \in DOMAIN calls : calls[i].node \in nodes
  BY <1>1, Innermost
<1>3. c \in connections /\ c.src = calls[1].node /\ c \in Outgoing(calls[1].node)
  BY <1>2 DEF CallsOK, Outgoing
<1>4. c.dst \in nodes
  BY <1>3 DEF DetectorInv, GraphInv, NoDanglingConnection
<1>5. /\ w \in Seq(Frame) /\ Len(w) = L
      /\ \A i \in DOMAIN calls :
           /\ w[i].node = calls[i].node
           /\ w[i].left = IF i = 1 THEN calls[1].left \ {c} ELSE calls[i].left
  BY <1>1, WithoutShape
<1>6. DOMAIN w = 1..L
  BY <1>5
<1>7. Frame' = Frame /\ \A n : Outgoing(n)' = Outgoing(n)
  BY <1>1 DEF Frame, Outgoing
<1>8. \A n : OnPath(n) => colors[n] = "gray"
  BY <1>2 DEF OnPath, ColorsOK
<1> HIDE DEF w, L
<1>9. CASE colors[c.dst] # "white"
  <2>1. colors' = colors /\ calls' = w
    BY <1>9 DEF LookAt, w
  <2>2. colors[c.dst] = "black"
    BY <1>1, <1>2, <1>4, <1>9 DEF ColorsOK
  <2>3. CallsOK'
    BY <1>1, <1>2, <1>5, <1>6, <1>7, <2>1 DEF CallsOK
  <2>4. LookedAt'
    BY <1>1, <1>2, <1>5, <1>6, <1>7, <2>1, <2>2 DEF LookedAt
  <2>5. \A n : OnPath(n)' <=> OnPath(n)
    BY <1>2, <1>5, <1>6, <2>1 DEF OnPath
  <2>6. ColorsOK'
    BY <1>1, <1>2, <2>1, <2>5 DEF ColorsOK
  <2>7. BlackOK'
    BY <1>1, <1>2, <2>1 DEF BlackOK, Black, Fed
  <2> QED
    BY <1>1, <2>3, <2>4, <2>6, <2>7, RestKept DEF ColoringOK
<1>10. CASE colors[c.dst] = "white"
  <2> DEFINE f == [node |-> c.dst, left |-> Outgoing(c.dst)]
  <2>1. /\ colors' = [colors EXCEPT ![c.dst] = "gray"] /\ calls' = <<f>> \o w
    BY <1>10 DEF LookAt, Enter, Call, w
  <2>2. f \in Frame /\ f.node = c.dst /\ f.left = Outgoing(c.dst)
    BY <1>4 DEF Frame, Outgoing
  <2> HIDE DEF f
  <2>3. /\ calls' \in Seq(Frame) /\ Len(calls') = L + 1 /\ calls'[1] = f
        /\ \A i \in 2..(L + 1) : calls'[i] = w[i - 1]
    BY <1>5, <2>1, <2>2, Pushed
  <2>4. DOMAIN calls' = 1..(L + 1)
    BY <2>3
  <2>5. \A i \in 1..(L + 1) : i = 1 \/ (i \in 2..(L + 1) /\ i - 1 \in 1..L)
    BY <1>2
  <2>6. \A i \in 2..(L + 1) : calls'[i].node = calls[i - 1].node
    BY <1>2, <1>5, <2>3, <2>5
  <2>7. \A i \in 2..(L + 1) : calls'[i].left = IF i = 2 THEN calls[1].left \ {c} ELSE calls[i - 1].left
    <3> TAKE i \in 2..(L + 1)
    <3>1. calls'[i].left = w[i - 1].left /\ i - 1 \in 1..L /\ (i - 1 = 1 <=> i = 2)
      BY <1>2, <2>3
    <3> QED
      BY <1>2, <1>5, <3>1
  <2>8. \A i \in 1..L : calls[i].node # c.dst
    BY <1>2, <1>8, <1>10 DEF OnPath
  <2>9. CallsOK'
    <3>1. ASSUME NEW i \in DOMAIN calls' PROVE calls'[i].left \subseteq Outgoing(calls'[i].node)
      <4>1. CASE i = 1
        BY <2>2, <2>3, <4>1
      <4>2. CASE i # 1
        <5>1. i \in 2..(L + 1) /\ i - 1 \in DOMAIN calls
          BY <1>2, <2>4, <2>5, <4>2
        <5>2. calls[i - 1].left \subseteq Outgoing(calls[i - 1].node)
          BY <1>2, <5>1 DEF CallsOK
        <5>3. i = 2 => i - 1 = 1
          OBVIOUS
        <5>4. calls'[i].left \subseteq calls[i - 1].left
          BY <2>7, <5>1, <5>3
        <5> QED
          BY <2>6, <5>1, <5>2, <5>4
      <4> QED
        BY <4>1, <4>2
    <3>2. ASSUME NEW i \in DOMAIN calls', NEW j \in DOMAIN calls', i # j
          PROVE  calls'[i].node # calls'[j].node
      <4>1. CASE i = 1 \/ j = 1
        BY <2>2, <2>3, <2>4, <2>5, <2>6, <2>8, <3>2, <4>1
      <4>2. CASE i # 1 /\ j # 1
        <5>1. /\ i \in 2..(L + 1) /\ i - 1 \in DOMAIN calls
              /\ j \in 2..(L + 1) /\ j - 1 \in DOMAIN calls /\ i - 1 # j - 1
          BY <1>2, <2>4, <2>5, <3>2, <4>2
        <5>2. calls[i - 1].node # calls[j - 1].node
          BY <1>2, <5>1 DEF CallsOK
        <5> QED
          BY <2>6, <5>1, <5>2
      <4> QED
        BY <4>1, <4>2
    <3>3. ASSUME NEW i \in DOMAIN calls', i > 1
          PROVE  \E d \in connections : d.src = calls'[i].node /\ d.dst = calls'[i - 1].node
      <4>1. CASE i = 2
        BY <1>3, <1>2, <2>2, <2>3, <2>4, <2>5, <2>6, <4>1
      <4>2. CASE i # 2
        <5>1. i - 1 \in 2..(L + 1) /\ i - 1 \in DOMAIN calls /\ i - 1 > 1 /\ i \in 2..(L + 1)
          BY <1>2, <2>4, <3>3, <4>2
        <5> QED
          BY <1>2, <2>6, <5>1 DEF CallsOK
      <4> QED
        BY <4>1, <4>2
    <3> QED
      BY <1>1, <1>7, <2>3, <3>1, <3>2, <3>3 DEF CallsOK
  <2>10. LookedAt'
    <3> SUFFICES ASSUME NEW i \in DOMAIN calls', NEW d \in Outgoing(calls'[i].node) \ calls'[i].left
                 PROVE  colors'[d.dst] = "black" \/ (i > 1 /\ d.dst = calls'[i - 1].node)
      BY <1>7 DEF LookedAt
    <3>1. d.dst \in nodes
      BY DEF Outgoing, DetectorInv, GraphInv, NoDanglingConnection
    <3>2. colors[d.dst] = "black" => colors'[d.dst] = "black"
      BY <1>2, <1>10, <2>1, <3>1 DEF ColorsOK
    <3>3. CASE i = 1
      BY <2>2, <2>3, <3>3
    <3>4. CASE i = 2
      <4>1. d \in Outgoing(calls[1].node) \ (calls[1].left \ {c})
        BY <1>2, <2>4, <2>6, <2>7, <3>4
      <4>2. CASE d = c
        BY <2>2, <2>3, <3>4, <4>2
      <4>3. CASE d # c
        BY <1>2, <3>2, <4>1, <4>3 DEF LookedAt
      <4> QED
        BY <4>2, <4>3
    <3>5. CASE i # 1 /\ i # 2
      <4>1. i - 1 \in 2..(L + 1) /\ i - 1 \in DOMAIN calls /\ i - 1 > 1 /\ i \in 2..(L + 1)
        BY <1>2, <2>4, <3>5
      <4>2. d \in Outgoing(calls[i - 1].node) \ calls[i - 1].left
        BY <2>6, <2>7, <3>5, <4>1
      <4>3. colors[d.dst] = "black" \/ d.dst = calls[(i - 1) - 1].node
        BY <1>2, <4>1, <4>2 DEF LookedAt
      <4>4. calls'[i - 1].node = calls[(i - 1) - 1].node
        BY <2>6, <4>1
      <4> QED
        BY <2>4, <3>2, <4>1, <4>3, <4>4
    <3> QED
      BY <3>3, <3>4, <3>5
  <2>11. \A n \in nodes : OnPath(n)' <=> (OnPath(n) \/ n = c.dst)
    <3> TAKE n \in nodes
    <3>1. ASSUME NEW i \in DOMAIN calls', calls'[i].node = n PROVE OnPath(n) \/ n = c.dst
      <4>1. CASE i = 1
        BY <2>2, <2>3, <3>1, <4>1
      <4>2. CASE i # 1
        <5>1. i \in 2..(L + 1) /\ i - 1 \in DOMAIN calls
          BY <1>2, <2>4, <2>5, <4>2
        <5> QED
          BY <2>6, <3>1, <5>1 DEF OnPath
      <4> QED
        BY <4>1, <4>2
    <3>2. ASSUME NEW i \in DOMAIN calls, calls[i].node = n PROVE OnPath(n)'
      <4>1. i + 1 \in 2..(L + 1) /\ i + 1 \in DOMAIN calls' /\ (i + 1) - 1 = i
        BY <1>2, <2>4
      <4>2. calls'[i + 1].node = n
        BY <2>6, <3>2, <4>1
      <4> QED
        BY <4>1, <4>2 DEF OnPath
    <3>3. n = c.dst => OnPath(n)'
      <4>1. 1 \in DOMAIN calls' /\ calls'[1].node = c.dst
        BY <1>2, <2>2, <2>3, <2>4
      <4> QED
        BY <4>1 DEF OnPath
    <3> QED
      BY <3>1, <3>2, <3>3 DEF OnPath
  <2>12. ColorsOK'
    BY <1>1, <1>2, <1>4, <1>8, <1>10, <2>1, <2>11 DEF ColorsOK
  <2>13. Black' = Black
    BY <1>1, <1>2, <1>10, <2>1 DEF Black, ColorsOK
  <2>14. BlackOK'
    BY <1>1, <1>2, <2>13 DEF BlackOK, Fed
  <2> QED
    BY <1>1, <2>9, <2>10, <2>12, <2>14, RestKept DEF ColoringOK
<1> QED
  BY <1>9, <1>10

LEMMA LeaveKeeps ==
  ASSUME DetectorInv, Leave
  PROVE  DetectorInv'
<1> DEFINE L == Len(calls)
           h == calls[1].node
<1>1. /\ Coloring /\ calls # <<>> /\ search = "hasCycle" /\ search' = search
      /\ answer = "open" /\ answer' = "open" /\ Ahead = {}
      /\ UNCHANGED <<nodes, connections, graph, waiting, reaching>>
  BY DEF Leave, Ahead, Coloring, graph
<1>2. /\ CallsOK /\ ColorsOK /\ LookedAt /\ BlackOK
      /\ L \in Nat \ {0} /\ DOMAIN calls = 1..L /\ 1 \in DOMAIN calls
      /\ calls[1].left = {}
      /\ \A i \in DOMAIN calls : calls[i].node \in nodes
  BY <1>1, Innermost
<1>3. colors' = [colors EXCEPT ![h] = "black"] /\ calls' = Tail(calls)
  BY <1>1, Innermost DEF Leave, Finished
<1>4. /\ calls' \in Seq(Frame) /\ DOMAIN calls' = 1..(L - 1)
      /\ \A i \in 1..(L - 1) : calls'[i] = calls[i + 1]
  BY <1>2, <1>3 DEF CallsOK
<1>5. \A i \in 1..(L - 1) : i + 1 \in DOMAIN calls /\ i + 1 > 1
  BY <1>2
<1>6. Frame' = Frame /\ \A n : Outgoing(n)' = Outgoing(n)
  BY <1>1 DEF Frame, Outgoing
<1>7. h \in nodes /\ colors[h] = "gray"
  BY <1>2 DEF ColorsOK, OnPath
<1>8. \A i \in 2..L : calls[i].node # h
  BY <1>2 DEF CallsOK
<1> HIDE DEF L, h
<1>9. CallsOK'
  <2>1. \A i \in DOMAIN calls' : calls'[i].left \subseteq Outgoing(calls'[i].node)
    BY <1>2, <1>4, <1>5 DEF CallsOK
  <2>2. ASSUME NEW i \in DOMAIN calls', NEW j \in DOMAIN calls', i # j
        PROVE  calls'[i].node # calls'[j].node
    <3>1. i + 1 # j + 1 /\ i + 1 \in DOMAIN calls /\ j + 1 \in DOMAIN calls
      BY <1>4, <1>5, <2>2
    <3>2. calls[i + 1].node # calls[j + 1].node
      BY <1>2, <3>1 DEF CallsOK
    <3> QED
      BY <1>4, <3>2
  <2>3. ASSUME NEW i \in DOMAIN calls', i > 1
        PROVE  \E d \in connections : d.src = calls'[i].node /\ d.dst = calls'[i - 1].node
    <3>1. i - 1 \in 1..(L - 1) /\ (i - 1) + 1 = i /\ (i + 1) - 1 = i /\ i + 1 > 1 /\ i + 1 \in DOMAIN calls
      BY <1>2, <1>4, <1>5, <2>3
    <3>2. PICK d \in connections : d.src = calls[i + 1].node /\ d.dst = calls[(i + 1) - 1].node
      BY <1>2, <3>1 DEF CallsOK
    <3>3. calls'[i] = calls[i + 1] /\ calls'[i - 1] = calls[i]
      BY <1>4, <3>1
    <3> QED
      BY <3>1, <3>2, <3>3
  <2> QED
    BY <1>1, <1>4, <1>6, <2>1, <2>2, <2>3 DEF CallsOK
<1>10. LookedAt'
  <2> SUFFICES ASSUME NEW i \in DOMAIN calls', NEW d \in Outgoing(calls'[i].node) \ calls'[i].left
               PROVE  colors'[d.dst] = "black" \/ (i > 1 /\ d.dst = calls'[i - 1].node)
    BY <1>6 DEF LookedAt
  <2>1. d.dst \in nodes
    BY DEF Outgoing, DetectorInv, GraphInv, NoDanglingConnection
  <2>2. colors'[h] = "black" /\ (colors[d.dst] = "black" => colors'[d.dst] = "black")
    BY <1>2, <1>3, <1>7, <2>1 DEF ColorsOK
  <2>3. (i + 1) - 1 = i /\ i + 1 \in DOMAIN calls
    BY <1>4, <1>5
  <2>4. colors[d.dst] = "black" \/ d.dst = calls[i].node
    BY <1>2, <1>4, <2>3 DEF LookedAt
  <2>5. CASE i = 1
    BY <2>2, <2>4, <2>5 DEF h
  <2>6. CASE i # 1
    <3>1. i - 1 \in 1..(L - 1) /\ (i - 1) + 1 = i /\ i > 1
      BY <1>2, <1>4, <2>6
    <3> QED
      BY <1>4, <2>2, <2>4, <3>1
  <2> QED
    BY <2>5, <2>6
<1>11. \A n \in nodes : OnPath(n)' <=> (OnPath(n) /\ n # h)
  <2> TAKE n \in nodes
  <2>1. ASSUME NEW i \in DOMAIN calls', calls'[i].node = n PROVE OnPath(n) /\ n # h
    <3>1. i + 1 \in DOMAIN calls /\ calls[i + 1].node = n /\ i + 1 \in 2..L
      BY <1>2, <1>4, <1>5, <2>1
    <3> QED
      BY <1>8, <3>1 DEF OnPath
  <2>2. ASSUME NEW i \in DOMAIN calls, calls[i].node = n, n # h PROVE OnPath(n)'
    <3>1. i # 1
      BY <2>2 DEF h
    <3>2. i - 1 \in DOMAIN calls' /\ (i - 1) + 1 = i
      BY <1>2, <1>4, <3>1
    <3>3. calls'[i - 1].node = n
      BY <1>4, <2>2, <3>2
    <3> QED
      BY <3>2, <3>3 DEF OnPath
  <2> QED
    BY <2>1, <2>2 DEF OnPath
<1>12. ColorsOK'
  BY <1>1, <1>2, <1>3, <1>7, <1>11 DEF ColorsOK
<1>13. Black' = Black \union {h} /\ h \notin Black
  BY <1>1, <1>2, <1>3, <1>7 DEF Black, ColorsOK
<1>14. BlackOK'
  <2>1. \A c \in connections : c.src = h => c.dst \in Black
    <3> SUFFICES ASSUME NEW c \in connections, c.src = h PROVE c.dst \in Black
      OBVIOUS
    <3>1. c \in Outgoing(calls[1].node) \ calls[1].left
      BY <1>2 DEF Outgoing, h
    <3>2. c.dst \in nodes
      BY DEF DetectorInv, GraphInv, NoDanglingConnection
    <3> QED
      BY <1>2, <3>1, <3>2 DEF LookedAt, Black
  <2>2. \A c \in connections : c.src \in Black' => c.dst \in Black'
    BY <1>2, <1>13, <2>1 DEF BlackOK
  <2>3. ASSUME NEW S \in SUBSET Black', S # {} PROVE \E n \in S : ~Fed(n, S)
    <3>1. CASE h \notin S
      BY <1>2, <1>13, <2>3, <3>1 DEF BlackOK
    <3>2. CASE h \in S
      BY <1>2, <1>13, <2>1, <3>2 DEF BlackOK, Fed
    <3> QED
      BY <3>1, <3>2
  <2> QED
    BY <1>1, <2>2, <2>3 DEF BlackOK, Fed
<1> QED
  BY <1>1, <1>9, <1>10, <1>12, <1>14, RestKept DEF ColoringOK

(* The detector is at work or at rest; no step of it breaks the invariant.    *)
LEMMA DetectorNextKeeps == DetectorInv /\ [DetectorNext]_detectorVars => DetectorInv'
<1> SUFFICES ASSUME DetectorInv, [DetectorNext]_detectorVars PROVE DetectorInv'
  OBVIOUS
<1>1. CASE EditBetween
  BY <1>1, EditBetweenKeeps
<1>2. CASE HasCycle
  BY <1>2, HasCycleKeeps
<1>3. ASSUME NEW src \in nodes, NEW dst \in nodes, WouldCreateCycle(src, dst) PROVE DetectorInv'
  BY <1>3, WouldCreateCycleKeeps
<1>4. ASSUME NEW n \in waiting, NextNode(n) PROVE DetectorInv'
  BY <1>4, NextNodeKeeps
<1>5. ASSUME NEW c \in Ahead, CloseCycle(c) PROVE DetectorInv'
  BY <1>5, CloseCycleKeeps
<1>6. ASSUME NEW c \in Ahead, LookAt(c) PROVE DetectorInv'
  BY <1>6, LookAtKeeps
<1>7. CASE Leave \/ NoCycle
  BY <1>7, LeaveKeeps, NoCycleKeeps
<1>8. CASE PathFound \/ NoPath \/ Pop
  BY <1>8, PathFoundKeeps, NoPathKeeps, PopKeeps
<1>9. CASE Return
  BY <1>9, ReturnKeeps
<1>10. CASE UNCHANGED detectorVars
  <2>1. /\ UNCHANGED <<graph, nodes, connections, search, answer, colors, waiting, calls, reaching>>
        /\ UNCHANGED <<asked, stack, visited>>
    BY <1>10 DEF detectorVars, detector, graph, coloring, reaching
  <2>2. GraphInv' /\ DetectorResting'
    BY <2>1, GraphStays DEF DetectorInv, DetectorResting
  <2>3. ColoringOK'
    <3>1. ASSUME search = "hasCycle" PROVE CallsOK' /\ ColorsOK' /\ LookedAt' /\ BlackOK'
      BY <2>1, <3>1, ColoringUnmoved DEF DetectorInv, ColoringOK
    <3>2. Acyclic' <=> Acyclic
      BY <2>1 DEF Acyclic, Fed
    <3> QED
      BY <2>1, <3>1, <3>2 DEF DetectorInv, ColoringOK
  <2>4. ReachingOK'
    <3>1. Found' = Found /\ Followed' = Followed /\ \A a, n : Reached(a, n)' <=> Reached(a, n)
      BY <2>1 DEF Found, Followed, Reached
    <3> QED
      BY <2>1, <3>1 DEF DetectorInv, ReachingOK
  <2> QED
    BY <2>2, <2>3, <2>4 DEF DetectorInv
<1> QED
  BY <1>1, <1>2, <1>3, <1>4, <1>5, <1>6, <1>7, <1>8, <1>9, <1>10 DEF DetectorNext, SearchStep

THEOREM DetectorInvariance == DetectorSpec => []DetectorInv
<1> QED
  BY DetectorInitEstablishes, DetectorNextKeeps, PTL DEF DetectorSpec

(* The answers are exact and the depth bounded, for any nodes and any number  *)
(* of connections.                                                            *)
THEOREM DetectorAlways == DetectorSpec => []DetectorExact
<1>1. ASSUME DetectorInv, search = "hasCycle", answer # "open"
      PROVE  answer = "yes" <=> ~Acyclic
  <2>1. ColorsOK /\ BlackOK /\ (answer = "yes" => ~Acyclic)
        /\ (answer = "no" => calls = <<>> /\ waiting = {}) /\ answer \in {"yes", "no"}
    BY <1>1 DEF DetectorInv, ColoringOK, DetectorResting
  <2>2. CASE answer = "no"
    <3>1. nodes = Black
      BY <2>1, <2>2 DEF ColorsOK, OnPath, Black
    <3>2. Acyclic
      BY <2>1, <3>1 DEF BlackOK, Acyclic
    <3> QED
      BY <2>2, <3>2
  <2> QED
    BY <2>1, <2>2
<1>2. ASSUME DetectorInv, search = "wouldCreateCycle", answer # "open"
      PROVE  answer = "yes" <=> Reached(asked[2], asked[1])
  <2>1. /\ visited \subseteq nodes /\ asked[2] \in Found /\ asked[1] \notin visited
        /\ \A c \in Followed : c.dst \in Found
        /\ answer = "yes" => Reached(asked[2], asked[1])
        /\ answer = "no" => stack = <<>>
        /\ answer \in {"yes", "no"}
    BY <1>2 DEF DetectorInv, ReachingOK, DetectorResting
  <2>2. CASE answer = "no"
    <3>1. Found = visited
      BY <2>1, <2>2 DEF Found, Range
    <3>2. ~Reached(asked[2], asked[1])
      BY <2>1, <3>1 DEF Reached, Followed
    <3> QED
      BY <2>2, <3>2
  <2> QED
    BY <2>1, <2>2
<1>3. ASSUME DetectorInv PROVE Len(calls) <= Cardinality(nodes)
  <2>1. IsFiniteSet(nodes) /\ Cardinality(nodes) \in Nat
    BY <1>3, GraphAssumption, FS_Subset, FS_CardinalityType DEF DetectorInv, GraphInv, GraphTypeOK
  <2>2. CASE search = "hasCycle"
    <3>1. CallsOK
      BY <1>3, <2>2 DEF DetectorInv, ColoringOK
    <3>2. calls \in Seq(Frame) /\ Len(calls) \in Nat /\ DOMAIN calls = 1..Len(calls)
      BY <3>1 DEF CallsOK
    <3> DEFINE f == [i \in 1..Len(calls) |-> calls[i].node]
    <3>3. \A i \in 1..Len(calls) : f[i] = calls[i].node /\ f[i] \in nodes
      <4>1. \A i \in 1..Len(calls) : calls[i] \in Frame
        BY <3>2
      <4> QED
        BY <4>1 DEF Frame
    <3>5. \A i, j \in 1..Len(calls) : i # j => f[i] # f[j]
      BY <3>1, <3>2, <3>3 DEF CallsOK
    <3>6. f \in [1..Len(calls) -> nodes]
      BY <3>3
    <3>7. f \in Injection(1..Len(calls), nodes)
      BY <3>5, <3>6 DEF Injection, IsInjective
    <3>4. Cardinality(1..Len(calls)) = Len(calls)
      BY <3>2, FS_Interval
    <3> HIDE DEF f
    <3> QED
      BY <2>1, <3>4, <3>7, FS_Injection
  <2>3. CASE search # "hasCycle"
    <3>1. calls = <<>>
      BY <1>3, <2>3 DEF DetectorInv, DetectorResting
    <3> QED
      BY <2>1, <3>1
  <2> QED
    BY <2>2, <2>3
<1>4. ASSUME DetectorInv PROVE Len(stack) <= Cardinality(connections) + 1
  <2>1. Cardinality(connections) \in Nat
    BY <1>4, FS_CardinalityType DEF DetectorInv, GraphInv
  <2>2. CASE search = "wouldCreateCycle"
    <3>1. stack \in Seq(nodes) /\ Len(stack) <= Cardinality(Followed) + 1
      BY <1>4, <2>2 DEF DetectorInv, ReachingOK
    <3>2. Cardinality(Followed) \in Nat /\ Cardinality(Followed) <= Cardinality(connections)
      BY <1>4, FollowedFinite DEF DetectorInv, Followed
    <3> QED
      BY <2>1, <3>1, <3>2
  <2>3. CASE search # "wouldCreateCycle"
    <3>1. stack = <<>>
      BY <1>4, <2>3 DEF DetectorInv, DetectorResting
    <3> QED
      BY <2>1, <3>1
  <2> QED
    BY <2>2, <2>3
<1>5. DetectorInv => DetectorExact
  BY <1>1, <1>2, <1>3, <1>4 DEF DetectorExact
<1> QED
  BY <1>5, DetectorInvariance, PTL
=============================================================================
