-------------------------- MODULE BlockAllocators --------------------------
(***************************************************************************)
(* nap::AudioBlockAllocator with ScopedAudioBlock, and nap::PoolAllocator  *)
(* (src/src/core/memory): fixed blocks behind a stack of free ones.  Both  *)
(* belong to one thread.  A block is named by its allocator and its index; *)
(* what is in it is left out.                                              *)
(***************************************************************************)
EXTENDS Integers, FiniteSets, Sequences, SequencesExt

CONSTANTS
  AudioAllocators,  (* AudioBlockAllocator objects                            *)
  Pools,            (* PoolAllocator objects                                  *)
  NumBlocks,        (* numBlocks of each                                      *)
  Scopes,           (* ScopedAudioBlock variables of the application          *)
  Pointers,         (* its raw pointers to blocks                             *)
  Null,             (* nullptr                                                *)
  Gone              (* a ScopedAudioBlock that does not exist                 *)

Allocators == AudioAllocators \union Pools
Block == [home : Allocators, index : 1..NumBlocks]

ASSUME BlocksAssumption ==
  /\ IsFiniteSet(Scopes) /\ IsFiniteSet(Pointers) /\ NumBlocks \in Nat
  /\ AudioAllocators \intersect Pools = {}
  /\ Null \notin Block \union Allocators
  /\ Gone \notin [allocator : AudioAllocators \union {Null}, block : Block \union {Null}]

VARIABLES
  memory,      (* the allocators that got their memory                        *)
  freeBlocks,  (* Impl::freeBlocks, the top of the stack last                 *)
  scope,       (* m_allocator and m_block of each ScopedAudioBlock            *)
  pointer,     (* the raw pointers                                            *)
  misused      (* history: reset() found a live ScopedAudioBlock              *)

allocatorVars == <<memory, freeBlocks, scope, pointer, misused>>

BlocksOf(a) == {b \in Block : b.home = a /\ a \in memory}
Empty == [allocator |-> Null, block |-> Null]

AllocatorsTypeOK ==
  /\ memory \subseteq Allocators
  /\ freeBlocks \in [Allocators -> Seq(Block)]
  /\ scope \in [Scopes -> {Gone, Empty} \union [allocator : AudioAllocators, block : Block \union {Null}]]
  /\ pointer \in [Pointers -> Block \union {Null}]
  /\ misused \subseteq AudioAllocators

-----------------------------------------------------------------------------
(* Faulty variants of definitions below, used by no action.                   *)
OwnsEverything(p, b) == b # Null
RefilledOnTop(a) ==
  freeBlocks[a] \o [i \in 1..(IF a \in memory THEN NumBlocks ELSE 0) |-> [home |-> a, index |-> i]]

(* All blocks, pushed in their order.                                         *)
Full(a) == [i \in 1..(IF a \in memory THEN NumBlocks ELSE 0) |-> [home |-> a, index |-> i]]

(* What allocate() answers, and what it leaves on the stack.                  *)
Top(a) == IF freeBlocks[a] = <<>> THEN Null ELSE Last(freeBlocks[a])
Popped(a) == [freeBlocks EXCEPT ![a] = IF @ = <<>> THEN @ ELSE Front(@)]

(* The stacks once a ScopedAudioBlock has given back what it holds.           *)
Released(o) ==
  IF o.block = Null \/ o.allocator = Null THEN freeBlocks
  ELSE [freeBlocks EXCEPT ![o.allocator] = Append(@, o.block)]

(* owns(): inside the pool's memory.                                          *)
Owns(p, b) == b \in BlocksOf(p)

(* What a move leaves in the object it moved from.                            *)
MovedFrom(o) == Empty

(* reset() empties the stack and fills it again.                              *)
Refill(a) == Full(a)

(* A pool whose memory was refused has no blocks; a vector would throw.       *)
AllocatorsInit ==
  /\ memory \in {AudioAllocators \union P : P \in SUBSET Pools}
  /\ freeBlocks = [a \in Allocators |-> Full(a)]
  /\ scope = [s \in Scopes |-> Gone] /\ pointer = [x \in Pointers |-> Null]
  /\ misused = {}

Allocate(x, a) ==
  /\ pointer[x] = Null
  /\ pointer' = [pointer EXCEPT ![x] = Top(a)] /\ freeBlocks' = Popped(a)
  /\ UNCHANGED <<memory, scope, misused>>

(* AudioBlockAllocator::deallocate() takes any pointer: its caller brings it  *)
(* to the right allocator.                                                    *)
DeallocateAudio(x) ==
  /\ pointer[x] # Null /\ pointer[x].home \in AudioAllocators
  /\ freeBlocks' = [freeBlocks EXCEPT ![pointer[x].home] = Append(@, pointer[x])]
  /\ pointer' = [pointer EXCEPT ![x] = Null]
  /\ UNCHANGED <<memory, scope, misused>>

(* PoolAllocator::deallocate() ignores what is not its own: then nothing      *)
(* changes, and the caller still has the block.                               *)
DeallocatePool(x, p) ==
  /\ Owns(p, pointer[x])
  /\ freeBlocks' = [freeBlocks EXCEPT ![p] = Append(@, pointer[x])]
  /\ pointer' = [pointer EXCEPT ![x] = Null]
  /\ UNCHANGED <<memory, scope, misused>>

Construct(s, a) ==
  /\ scope[s] = Gone
  /\ scope' = [scope EXCEPT ![s] = [allocator |-> a, block |-> Top(a)]]
  /\ freeBlocks' = Popped(a)
  /\ UNCHANGED <<memory, pointer, misused>>

Destroy(s) ==
  /\ scope[s] # Gone
  /\ freeBlocks' = Released(scope[s])
  /\ scope' = [scope EXCEPT ![s] = Gone]
  /\ UNCHANGED <<memory, pointer, misused>>

MoveConstruct(s, t) ==
  /\ scope[s] = Gone /\ scope[t] # Gone
  /\ scope' = [scope EXCEPT ![s] = scope[t], ![t] = MovedFrom(scope[t])]
  /\ UNCHANGED <<memory, freeBlocks, pointer, misused>>

(* Assigning an object to itself does nothing.                                *)
MoveAssign(s, t) ==
  /\ s # t /\ scope[s] # Gone /\ scope[t] # Gone
  /\ freeBlocks' = Released(scope[s])
  /\ scope' = [scope EXCEPT ![s] = scope[t], ![t] = MovedFrom(scope[t])]
  /\ UNCHANGED <<memory, pointer, misused>>

(* The application forgets its raw pointers into what it resets; it cannot    *)
(* keep a ScopedAudioBlock from giving its block back later.                  *)
Live(a) == {s \in Scopes : scope[s] # Gone /\ scope[s].block \in BlocksOf(a)}

Reset(a) ==
  /\ freeBlocks' = [freeBlocks EXCEPT ![a] = Refill(a)]
  /\ pointer' = [x \in Pointers |-> IF pointer[x] \in BlocksOf(a) THEN Null ELSE pointer[x]]
  /\ misused' = IF Live(a) = {} THEN misused \ {a} ELSE misused \union {a}
  /\ UNCHANGED <<memory, scope>>

AllocatorsNext ==
  \/ \E x \in Pointers, a \in Allocators : Allocate(x, a)
  \/ \E x \in Pointers : DeallocateAudio(x)
  \/ \E x \in Pointers, p \in Pools : DeallocatePool(x, p)
  \/ \E s \in Scopes, a \in AudioAllocators : Construct(s, a)
  \/ \E s \in Scopes : Destroy(s)
  \/ \E s, t \in Scopes : MoveConstruct(s, t) \/ MoveAssign(s, t)
  \/ \E a \in Allocators : Reset(a)

AllocatorsSpec == AllocatorsInit /\ [][AllocatorsNext]_allocatorVars

-----------------------------------------------------------------------------
Times(b, s) == Cardinality({i \in DOMAIN s : s[i] = b})

Places(b) ==
  Times(b, freeBlocks[b.home])
  + Cardinality({s \in Scopes : scope[s] # Gone /\ scope[s].block = b})
  + Cardinality({x \in Pointers : pointer[x] = b})

(* A block has one place, on the stack or with one owner: none is lost or     *)
(* given out twice, through moves, exhaustion and resets.  The exception is   *)
(* an allocator that was reset under a live ScopedAudioBlock, and it ends     *)
(* with the next reset that finds none.                                       *)
OnePlace == \A a \in Allocators \ misused : \A b \in BlocksOf(a) : Places(b) = 1

(* A block comes back to the allocator it came from, whatever the application *)
(* assigns to what, and also after a reset under owners.                      *)
ComesHome ==
  /\ \A a \in Allocators : Range(freeBlocks[a]) \subseteq BlocksOf(a)
  /\ \A s \in Scopes : scope[s] # Gone /\ scope[s].block # Null =>
       scope[s].block \in BlocksOf(scope[s].allocator)

(* Every block has one place, and that place is its own allocator's.          *)
BlocksAccounted == OnePlace /\ ComesHome
=============================================================================
