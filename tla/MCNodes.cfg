SPECIFICATION Spec
CONSTANTS
  MaxTime = 5
  SampleRates = {1, 2}
  Rates = {1, 2}
  Lengths = {1, 2, 3}
  MaxFrequency = 3
  Ramp = 2
  MaxWrites = 2
  Channels = {0, 9, 15, 16}
  Sevens = {0, 1, 127, 128}
  Fourteens = {0, 1, 127, 128, 8192, 16383, 16384}
  DataBytes = {0, 2, 127}
  ManufacturerIds = {0, 65, 126, 127, 200, 8457, 255}
  MaxContent = 3
  Levels = {1, 2}
  BufferSizes = {1, 2, 3}
  Windows = {1, 3}
  Intervals = {0, 1, 3}
  Factors = {1, 2, 3}
  MaxAge = 4
  Inputs = {0, 1}
  Cutoffs = {2, 8}
  ChannelCounts = {1, 2}
  MaxHeard = 4
  Sizes = {0, 1, 3, 4, 7}
  Samples = {0, 1}
  MaxLength = 5
  Steps = {1, 2, 3, 5}
  MaxInput = 3
  Rooms = {1, 4, 8}
  MaxStream = 6
  MaxPhase = 8
  Frequencies <- MCFrequencies
  Phases <- MCPhases
  Bends <- MCBends
INVARIANTS
  HalvesMatch
  PastIsExact
  ResultsExact
  SamplesInPlace
  SpectrumExact
PROPERTY
  FilterSettles
CHECK_DEADLOCK FALSE
