SPECIFICATION Spec
CONSTANTS
  Dacs = {d1, d2}
  SettingBits = 2
  Settings = {1, 2}
INVARIANTS TypeOK SetPointWasRequested
PROPERTY OneChipClocked
