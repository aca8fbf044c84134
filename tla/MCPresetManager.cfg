CONSTANTS
  n1 = n1
  n2 = n2
  v1 = v1
  v2 = v2
  d = d
  json = json
  napb = napb
  Unset = Unset
  NoPreset = NoPreset
  NoSerializer = NoSerializer
  Missing = Missing
  Broken = Broken
  Cut = Cut
  Dirs = {d, Unset}
  PresetNames = {n1, n2}
  Formats = {json, napb}
  Variants = {v1, v2}
  MaxFiles = 2
  MaxMeddling = 1
SPECIFICATION PresetSpec
SYMMETRY Symmetry
INVARIANTS
  OwnFile
PROPERTY
  IsPresetStore
