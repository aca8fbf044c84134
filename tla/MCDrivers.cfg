\* Two callbacks that replace each other in each kind of driver.  The drivers
\* with a thread begin in both families; the null driver changes its mode
\* between two starts.
CONSTANTS
  f = f
  g = g
  Callbacks = {f, g}
  NoCallback = NoCallback
  Modes = {"native", "realtime"}
  c1 = c1
  c2 = c2
  NoAsioCallback = NoAsioCallback
  AsioCallbacks = {c1, c2}
  MaxSwitches = 3
  p1 = p1
  p2 = p2
  Ports = {p1, p2}
  Sizes = {1, 2}
  FirstSize = 1
  MaxPortEntries = 3
  NoClient = NoClient
  MaxFrames = 3
  PortNames = {"USB MIDI Interface", "Synth"}
  MaxCreated = 3
  MaxConnected = 1
  FrameCounts = {1, 2}
  ChannelCounts = {0, 2}
  MaxBlocks = 2
SPECIFICATION DriversSpec
CHECK_DEADLOCK FALSE
INVARIANTS
  QuietAfterStop
  AsioCallsBounded
  StreamsFit
  PortsAgree
  SelectedDeviceAgrees
PROPERTIES
  StopReturns
  CallbackServed
  IsCallbackDriver
  ReturnsUnlessEmbraced
  AsioIsCallbackDriver
