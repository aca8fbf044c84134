\* A ring of three slots and calls of up to two samples: every wrap-around,
\* a full ring, an empty ring, calls that ask for more than there is, and
\* clear() in either thread at any moment.  Two allocators of each kind with
\* two blocks, two scoped blocks and two raw pointers.
CONSTANTS
  Capacity = 3
  zero = zero
  one = one
  Zero = zero
  Samples = {zero, one}
  MaxBatch = 2
  a1 = a1
  a2 = a2
  p1 = p1
  p2 = p2
  s1 = s1
  s2 = s2
  x1 = x1
  x2 = x2
  Null = Null
  Gone = Gone
  AudioAllocators = {a1, a2}
  Pools = {p1, p2}
  NumBlocks = 2
  Scopes = {s1, s2}
  Pointers = {x1, x2}
SPECIFICATION MemorySpec
SYMMETRY Symmetry
INVARIANTS
  NoDataRace
  BlocksAccounted
PROPERTY
  IsFifo
