---------------------------- MODULE MCAudioGraph ----------------------------
(* The sorter and the detector on the same graph, one method at a time.  Five *)
(* connections between four nodes hold two parallel ones beside a third, and  *)
(* a cycle that feeds other nodes; the four the detector is asked about, a    *)
(* diamond, every cycle up to four nodes and one behind visited nodes.        *)
EXTENDS ExecutionSorter, FeedbackLoopDetector

CONSTANT MaxSearched   (* bound: connections of a graph that is searched      *)

MCInit == Init /\ NoSearch

MCNext ==
  \/ search = "none" /\ Next /\ UNCHANGED detector
  \/ /\ ~sorting /\ Cardinality(connections) <= MaxSearched
     /\ DetectorNext /\ UNCHANGED sorter

MCSpec == MCInit /\ [][MCNext]_<<vars, detector>>

(* The nodes are interchangeable.                                             *)
Symmetry == Permutations(NodeIds)
=============================================================================
