SPECIFICATION Spec
CONSTANTS
  r1 = r1
  base = base
  f1 = f1
  Row = {r1}
  Name = {base}
  Fan = {f1}
  nameOf <- MCNameOf
  yamlFans <- MCYamlFans
  Setting <- MCSetting
  SensorSets <- MCSensorSets
  Overrides <- MCOverrides
  Readings <- MCReadings
  ForeignSets = {}
  InitLive = {r1}
  Edits = {"override", "dir"}
  Faults = {"commit", "refused", "session", "kill"}
  MaxEdits = 1
  MaxFaults = 2
INVARIANTS
  HolderSettled
  HolderReported
