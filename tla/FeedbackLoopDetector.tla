------------------------ MODULE FeedbackLoopDetector ------------------------
(***************************************************************************)
(* nap::FeedbackLoopDetector (src/src/core/graph/FeedbackLoopDetector.cpp) *)
(* on the graph of AudioGraph: hasCycle(), a coloured depth-first search,  *)
(* and wouldCreateCycle(), a search from a stack, as machines with one     *)
(* step per node or connection looked at.  Nodes come in any order, and so *)
(* do the connections of one.                                              *)
(***************************************************************************)
EXTENDS AudioGraph, Sequences, SequencesExt

VARIABLES
  search, answer,    (* the method under way, and what it returns            *)
  colors, waiting,   (* hasCycle(): its colors, the nodes its loop has left, *)
  calls,             (* and the calls of dfsHasCycle(), innermost first      *)
  asked,             (* wouldCreateCycle(): its parameters,                  *)
  stack, visited     (* its locals                                           *)

coloring == <<colors, waiting, calls>>
reaching == <<asked, stack, visited>>
detector == <<search, answer, coloring, reaching>>
detectorVars == <<graph, detector>>

NoSearch ==
  /\ search = "none" /\ answer = "open"
  /\ colors = <<>> /\ waiting = {} /\ calls = <<>>
  /\ asked = <<>> /\ stack = <<>> /\ visited = {}

DetectorInit == GraphInit /\ NoSearch

-----------------------------------------------------------------------------
(* Faulty variants of definitions below, used by no action.                   *)
StillGray(n) == colors
NeverVisited(n) == visited

(* A node's part of the adjacency list, parallel connections included.        *)
Outgoing(n) == {c \in connections : c.src = n}

Answer(it) == answer' = it /\ UNCHANGED <<graph, search, coloring, reaching>>

HasCycle ==
  /\ search = "none" /\ search' = "hasCycle"
  /\ colors' = [n \in nodes |-> "white"] /\ waiting' = nodes
  /\ UNCHANGED <<graph, answer, calls, reaching>>

Coloring == search = "hasCycle" /\ answer = "open"

(* A node is gray while dfsHasCycle() is in it, black once that is through.   *)
Enter(n) == colors' = [colors EXCEPT ![n] = "gray"]
Call(n) == [node |-> n, left |-> Outgoing(n)]
Finished(n) == [colors EXCEPT ![n] = "black"]

NextNode(n) ==
  /\ Coloring /\ calls = <<>> /\ n \in waiting
  /\ waiting' = waiting \ {n}
  /\ IF colors[n] = "white" THEN Enter(n) /\ calls' = <<Call(n)>> ELSE UNCHANGED <<colors, calls>>
  /\ UNCHANGED <<graph, search, answer, reaching>>

(* The connections the innermost call has still to look at.                   *)
Ahead == IF Coloring /\ calls # <<>> THEN Head(calls).left ELSE {}
Without(c) == <<[Head(calls) EXCEPT !.left = @ \ {c}]>> \o Tail(calls)

CloseCycle(c) == c \in Ahead /\ colors[c.dst] = "gray" /\ Answer("yes")

LookAt(c) ==
  /\ c \in Ahead /\ colors[c.dst] # "gray"
  /\ IF colors[c.dst] = "white" THEN Enter(c.dst) /\ calls' = <<Call(c.dst)>> \o Without(c)
     ELSE calls' = Without(c) /\ UNCHANGED colors
  /\ UNCHANGED <<graph, search, answer, waiting, reaching>>

Leave ==
  /\ Coloring /\ calls # <<>> /\ Ahead = {}
  /\ colors' = Finished(Head(calls).node)
  /\ calls' = Tail(calls)
  /\ UNCHANGED <<graph, search, answer, waiting, reaching>>

NoCycle == Coloring /\ calls = <<>> /\ waiting = {} /\ Answer("no")

-----------------------------------------------------------------------------
WouldCreateCycle(src, dst) ==
  /\ search = "none" /\ search' = "wouldCreateCycle"
  /\ asked' = <<src, dst>> /\ stack' = <<dst>>
  /\ UNCHANGED <<graph, answer, coloring, visited>>

Reaching == search = "wouldCreateCycle" /\ answer = "open"

PathFound == Reaching /\ stack # <<>> /\ Head(stack) = asked[1] /\ Answer("yes")

NoPath == Reaching /\ stack = <<>> /\ Answer("no")

Visited(n) == visited \union {n}

(* The stack's top: already visited, or visited now and followed.             *)
Pop ==
  /\ Reaching /\ stack # <<>> /\ Head(stack) # asked[1]
  /\ IF Head(stack) \in visited THEN stack' = Tail(stack) /\ UNCHANGED visited
     ELSE /\ visited' = Visited(Head(stack))
          /\ \E out \in SetToSeqs(Outgoing(Head(stack))) :
               stack' = [i \in DOMAIN out |-> out[i].dst] \o Tail(stack)
  /\ UNCHANGED <<graph, search, answer, coloring, asked>>

(* The method returns and its locals are gone.                                *)
Return ==
  /\ answer # "open"
  /\ UNCHANGED graph /\ search' = "none" /\ answer' = "open"
  /\ colors' = <<>> /\ waiting' = {} /\ calls' = <<>>
  /\ asked' = <<>> /\ stack' = <<>> /\ visited' = {}

(* The graph changes between two calls.                                       *)
EditBetween == search = "none" /\ GraphNext /\ UNCHANGED detector

SearchStep ==
  \/ \E n \in waiting : NextNode(n)
  \/ \E c \in Ahead : CloseCycle(c) \/ LookAt(c)
  \/ Leave \/ NoCycle
  \/ PathFound \/ NoPath \/ Pop
  \/ Return

DetectorNext ==
  \/ EditBetween \/ HasCycle
  \/ \E src, dst \in nodes : WouldCreateCycle(src, dst)
  \/ SearchStep

DetectorSpec == DetectorInit /\ [][DetectorNext]_detectorVars

-----------------------------------------------------------------------------
(* b is reached from a: it is in every set of nodes that holds a and whatever *)
(* the set feeds.                                                             *)
Reached(a, b) ==
  \A S \in SUBSET nodes :
    a \in S /\ (\A c \in connections : c.src \in S => c.dst \in S) => b \in S

(* hasCycle() is true exactly on a graph with a cycle (a diamond or parallel  *)
(* connections are none), and wouldCreateCycle(a, b) exactly when the new     *)
(* connection a -> b would close a path, its own loop included, also when the *)
(* graph has cycles already.  The calls of dfsHasCycle() are no deeper than   *)
(* there are nodes, and the stack, with every connection pushed once at most, *)
(* is no longer than there are connections.                                   *)
DetectorExact ==
  /\ search = "hasCycle" /\ answer # "open" => (answer = "yes" <=> ~Acyclic)
  /\ search = "wouldCreateCycle" /\ answer # "open" =>
       (answer = "yes" <=> Reached(asked[2], asked[1]))
  /\ Len(calls) <= Cardinality(nodes)
  /\ Len(stack) <= Cardinality(connections) + 1
=============================================================================
