SPECIFICATION Spec
CONSTANTS
  u1 = u1
  u2 = u2
  f1 = f1
  f2 = f2
  f3 = f3
  Board = Board
  Fru = {u1, u2}
  Fan = {f1, f2, f3}
  fruOf <- MCFruOf
  Setting <- MCSetting
  Asked = {4}
  Descriptions <- MCDescriptions
  Byte = 2
  IntMax = 7
  InitThere <- MCInitThere
  Conditions <- MCConditions
  MaxChanges = 1
  MaxFailures = 1
INVARIANTS
  TypeOK
  ControlsFollow
  LedsShowWorst
PROPERTIES
  FaithfulRead
  NeverFalselyOk
