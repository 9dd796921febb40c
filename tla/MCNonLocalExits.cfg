\* Every program of up to five nested constructs, without the four shapes.
CONSTANTS
  CatchTags = {1}
  BlockNames = {2}
  TagbodyIds = {3}
  RestartTags = {4}
  Shapes = {}
  MaxDepth = 5
SPECIFICATION Spec
INVARIANTS
  StacksMatchProgram
  EnabledHandlers
  NoStrayTransfer
  RecordsMatchCleanups
PROPERTIES
  ExitDisciplineSpec
