--------------------------- MODULE ExecutionSorter ---------------------------
(***************************************************************************)
(* nap::ExecutionSorter (src/src/core/graph/ExecutionSorter.cpp) at work   *)
(* on the graph of AudioGraph.  computeExecutionOrder() is a machine: one  *)
(* step per node taken from its queue.  std::unordered_map fixes no order, *)
(* so nodes that become ready together are queued in any order.  The other *)
(* methods are operators on the graph.                                     *)
(***************************************************************************)
EXTENDS AudioGraph, Sequences, SequencesExt

VARIABLES
  sorting,   (* computeExecutionOrder() is under way                          *)
  queue,     (* its queue of ready nodes                                      *)
  inDegree,  (* its map of in-degrees                                         *)
  result     (* the order so far                                              *)

sorter == <<sorting, queue, inDegree, result>>
vars == <<graph, sorter>>

Done == Range(result)

TypeOK ==
  /\ GraphTypeOK
  /\ sorting \in BOOLEAN
  /\ queue \in Seq(nodes) /\ result \in Seq(nodes)
  /\ inDegree \in [IF sorting THEN nodes ELSE {} -> Nat]

Nothing == queue = <<>> /\ inDegree = <<>> /\ result = <<>>

Init == GraphInit /\ sorting = FALSE /\ Nothing

-----------------------------------------------------------------------------
(* Faulty variants of definitions below, used by no action.                   *)
SourcesOf(n) == Cardinality({c.src : c \in {d \in connections : d.dst = n}})
OncePerNeighbour(n, m) ==
  Cardinality({c.dst : c \in {d \in connections : d.src = n /\ d.dst = m}})
AsSoonAsFed(degree, placed) == {n \in nodes \ placed : degree[n] <= 1}

(* computeInDegrees(): connections that end at n, parallel ones included.     *)
InDegree(n) == Cardinality({c \in connections : c.dst = n})

(* How often m stands in the adjacency list of n.                             *)
Edges(n, m) == Cardinality({c \in connections : c.src = n /\ c.dst = m})

(* The neighbours whose in-degree the decrements brought to zero.             *)
Ready(old, new) == {m \in nodes : new[m] < old[m] /\ new[m] = 0}

SortBegin ==
  /\ ~sorting
  /\ sorting' = TRUE
  /\ inDegree' = [n \in nodes |-> InDegree(n)]
  /\ queue' \in SetToSeqs({n \in nodes : InDegree(n) = 0})
  /\ UNCHANGED <<graph, result>>

SortStep ==
  /\ sorting /\ queue # <<>>
  /\ result' = Append(result, Head(queue))
  /\ inDegree' = [m \in nodes |-> inDegree[m] - Edges(Head(queue), m)]
  /\ \E ready \in SetToSeqs(Ready(inDegree, inDegree')) :
       queue' = Tail(queue) \o ready
  /\ UNCHANGED <<graph, sorting>>

(* The result is returned and the locals are gone.                            *)
SortReturn ==
  /\ sorting /\ queue = <<>>
  /\ sorting' = FALSE
  /\ inDegree' = <<>> /\ result' = <<>>
  /\ UNCHANGED <<graph, queue>>

(* The caller changes the graph between two sorts.                            *)
Edit == ~sorting /\ GraphNext /\ UNCHANGED sorter

Next == Edit \/ SortBegin \/ SortStep \/ SortReturn

Spec == Init /\ [][Next]_vars

(* hasValidOrder(), once the order is there.                                  *)
HasValidOrder == Len(result) = Cardinality(nodes)

(* computeParallelGroups(): the loop's next group, from the in-degrees left   *)
(* and the nodes placed so far ...                                            *)
NextGroup(degree, placed) == {n \in nodes \ placed : degree[n] = 0}

(* ... and what the loop has after at most k turns.                           *)
Grouping[k \in 0..Cardinality(NodeIds)] ==
  IF k = 0
  THEN [degree |-> [n \in nodes |-> InDegree(n)], placed |-> {}, groups |-> <<>>]
  ELSE LET last == Grouping[k - 1]
           group == NextGroup(last.degree, last.placed)
           spent(m) == Cardinality({c \in connections : c.src \in group /\ c.dst = m})
       IN  IF group = {} THEN last
           ELSE [degree |-> [m \in nodes |-> last.degree[m] - spent(m)],
                 placed |-> last.placed \union group,
                 groups |-> Append(last.groups, group)]

ParallelGroups == Grouping[Cardinality(nodes)].groups

(* getNodeDepth(); it does not return on a graph with a cycle.                *)
NodeDepth[n \in NodeIds] ==
  LET feeding == {c.src : c \in {d \in connections : d.dst = n}}
  IN  IF feeding = {} THEN 0 ELSE Max({NodeDepth[m] : m \in feeding}) + 1

-----------------------------------------------------------------------------
(* Every node comes once, and after everything that feeds it, whichever order *)
(* ready nodes are taken in and however many channels connect two nodes.      *)
OrderRespectsConnections ==
  \A i \in DOMAIN result :
    /\ \A j \in 1..(i - 1) : result[j] # result[i]
    /\ \A c \in connections : c.dst = result[i] => \E j \in 1..(i - 1) : result[j] = c.src

(* The order that is returned is complete exactly when the graph has no       *)
(* cycle: this is what hasValidOrder() tells its caller.                      *)
OrderCompleteIffAcyclic == sorting /\ queue = <<>> => (HasValidOrder <=> Acyclic)

(* sort() gives each node its place after what feeds it, and says of no cycle *)
(* that it has an order and of no order that it has a cycle.                  *)
OrderExact == OrderRespectsConnections /\ OrderCompleteIffAcyclic

(* The groups are the levels of the graph: a node is in the group its depth   *)
(* says, so nodes of a group do not depend on each other and no group could   *)
(* have come earlier.  With a cycle, exactly the nodes a cycle feeds (the     *)
(* largest set of nodes that is fed from within) are in no group.             *)
GroupsByDepth ==
  LET placed == UNION Range(ParallelGroups) IN
  /\ \A S \in SUBSET nodes : (\A n \in S : Fed(n, S)) => S \intersect placed = {}
  /\ \A n \in nodes \ placed : Fed(n, nodes \ placed)
  /\ Acyclic => \A i \in DOMAIN ParallelGroups :
       ParallelGroups[i] = {n \in nodes : NodeDepth[n] = i - 1}
=============================================================================
