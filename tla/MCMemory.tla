------------------------------- MODULE MCMemory -------------------------------
(* The ring and the block allocators, one per behaviour: "which" says of      *)
(* which, and the other keeps its first state.  Two audio allocators have     *)
(* scoped blocks that are assigned to each other, two pools are handed each   *)
(* other's blocks.                                                            *)
EXTENDS CircularBuffer, BlockAllocators

VARIABLE which

MemoryInit ==
  /\ which \in {"ring", "allocators"}
  /\ Init /\ AllocatorsInit
  /\ which = "ring" => memory = Allocators

RingStep == which = "ring" /\ Next /\ UNCHANGED <<which, allocatorVars>>
AllocatorStep == which = "allocators" /\ AllocatorsNext /\ UNCHANGED <<which, vars>>

MemorySpec == MemoryInit /\ [][RingStep \/ AllocatorStep]_<<which, vars, allocatorVars>>

(* The allocators, scoped blocks and pointers of one kind are interchangeable. *)
Symmetry == Permutations(AudioAllocators) \union Permutations(Pools) \union
            Permutations(Scopes) \union Permutations(Pointers)
=============================================================================
