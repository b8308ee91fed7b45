SPECIFICATION Spec
CONSTANTS
  r1 = r1
  r2 = r2
  Row = {r1, r2}
  place <- MCPlace
  Fan = {f1}
  Session = {s1, s2}
  Words = {"normal", "max"}
  Rest = {m1, m2}
  InitLive = {r1}
  MaxCommands = 3
  MaxChanges = 2
  MaxFailures = 1
INVARIANTS
  TypeOK
PROPERTIES
  SuccessMeansSet
  OthersKept
  ShowsWhatWasSet
