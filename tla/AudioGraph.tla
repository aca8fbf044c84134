----------------------------- MODULE AudioGraph -----------------------------
(***************************************************************************)
(* nap::AudioGraph with its ConnectionManager (src/src/core/graph): a set  *)
(* of nodes and the connections between their channels.  The graph belongs *)
(* to one thread; every method is one action.  Node names are values of    *)
(* NodeIds.  ConnectionManager refuses a connection it already holds, so   *)
(* its vector is a set here (nothing depends on the vector's order).       *)
(***************************************************************************)
EXTENDS Integers, FiniteSets

CONSTANTS
  NodeIds,         (* the names nodes can have                                *)
  SourceChannels,  (* output channels that are used                           *)
  DestChannels,    (* input channels that are used                            *)
  MaxConnections   (* bound: connections held at the same time                *)

ASSUME GraphAssumption == IsFiniteSet(NodeIds) /\ MaxConnections \in Nat

VARIABLES
  nodes,         (* the keys of Impl::nodes                                   *)
  connections,   (* ConnectionManager::Impl::connections                      *)
  needsRebuild   (* Impl::needsRebuild                                        *)

graph == <<nodes, connections, needsRebuild>>

Connection ==
  [src : NodeIds, srcChannel : SourceChannels, dst : NodeIds, dstChannel : DestChannels]

GraphTypeOK ==
  /\ nodes \subseteq NodeIds
  /\ connections \subseteq Connection
  /\ needsRebuild \in BOOLEAN

GraphInit == nodes = {} /\ connections = {} /\ needsRebuild = TRUE

-----------------------------------------------------------------------------
(* Faulty variants of definitions below, used by no action.                   *)
OutgoingOf(n) == {c \in connections : c.src = n}

(* What removeAllConnectionsForNode() erases.                                 *)
ConnectionsOf(n) == {c \in connections : c.src = n \/ c.dst = n}

(* A node already there, an unknown node, a connection held or not held:      *)
(* the method returns false and nothing changes.                              *)
AddNode(n) ==
  /\ n \notin nodes
  /\ nodes' = nodes \union {n}
  /\ needsRebuild' = TRUE
  /\ UNCHANGED connections

RemoveNode(n) ==
  /\ n \in nodes
  /\ nodes' = nodes \ {n}
  /\ connections' = connections \ ConnectionsOf(n)
  /\ needsRebuild' = TRUE

(* connect() asks for both nodes, but not whether a cycle would arise.        *)
Connect(c) ==
  /\ c.src \in nodes /\ c.dst \in nodes
  /\ c \notin connections
  /\ Cardinality(connections) < MaxConnections
  /\ connections' = connections \union {c}
  /\ needsRebuild' = TRUE
  /\ UNCHANGED nodes

Disconnect(c) ==
  /\ c \in connections
  /\ connections' = connections \ {c}
  /\ needsRebuild' = TRUE
  /\ UNCHANGED nodes

(* processBlock() rebuilds the processing order when it has to; for now that  *)
(* clears the flag and computes nothing.                                      *)
ProcessBlock ==
  /\ needsRebuild
  /\ needsRebuild' = FALSE
  /\ UNCHANGED <<nodes, connections>>

GraphNext ==
  \/ \E n \in NodeIds : AddNode(n) \/ RemoveNode(n)
  \/ \E c \in Connection : Connect(c) \/ Disconnect(c)
  \/ ProcessBlock

GraphSpec == GraphInit /\ [][GraphNext]_graph

-----------------------------------------------------------------------------
(* The graph has no cycle when every set of nodes has one that nothing in the *)
(* set feeds.                                                                 *)
Fed(n, S) == \E c \in connections : c.dst = n /\ c.src \in S

Acyclic == \A S \in SUBSET nodes : S # {} => \E n \in S : ~Fed(n, S)

(* A connection never outlives its nodes: whatever was connected, removed and *)
(* added again, both ends of every connection are in the graph.               *)
NoDanglingConnection ==
  \A c \in connections : c.src \in nodes /\ c.dst \in nodes
=============================================================================
