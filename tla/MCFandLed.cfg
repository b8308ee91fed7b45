SPECIFICATION FairSpec
CONSTANTS
  r1 = r1
  r2 = r2
  r3 = r3
  r4 = r4
  base = base
  line = line
  last = last
  f1 = f1
  f2 = f2
  f3 = f3
  Row = {r1}
  Name = {base, line}
  Fan = {f1, f2}
  nameOf <- MCNameOf
  yamlFans <- MCYamlFans
  Setting <- MCSetting
  SensorSets <- MCSensorSets
  Overrides <- MCOverrides
  Readings <- MCReadings
  ForeignSets = {}
  InitLive = {r1}
  Edits = {"fan"}
  Faults = {}
  MaxEdits = 1
  MaxFaults = 0
PROPERTIES
  LedFollows
