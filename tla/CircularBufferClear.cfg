\* clear() in the consumer while a write() is under way in the producer.
CONSTANTS
  Capacity = 3
  zero = zero
  one = one
  Zero = zero
  Samples = {zero, one}
  MaxBatch = 2
SPECIFICATION Spec
PROPERTY ClearedForGood
