SPECIFICATION FairSpec
CONSTANTS
  r1 = r1
  r2 = r2
  r3 = r3
  r4 = r4
  base = base
  line = line
  last = last
  f1 = f1
  f2 = f2
  f3 = f3
  Row = {r1, r2}
  Name = {base, line}
  Fan = {f1, f2}
  nameOf <- MCNameOf
  yamlFans <- MCYamlFans
  Setting <- MCSetting
  SensorSets <- MCSensorSets
  Overrides <- MCOverrides
  Readings <- MCReadings
  ForeignSets = {{f1}, {f2}}
  InitLive = {r1}
  Edits = {"sensors", "override", "fan", "dir", "delete", "insert", "foreign", "nodir"}
  Faults = {"commit", "refused", "session", "kill"}
  MaxEdits = 3
  MaxFaults = 1
PROPERTIES
  HardwareFollows
  StatusFollows
