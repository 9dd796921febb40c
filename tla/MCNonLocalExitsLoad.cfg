\* An UNWIND-PROTECT around LOAD, whose form signals an error from inside another one.
CONSTANTS
  CatchTags = {1}
  BlockNames = {}
  TagbodyIds = {}
  RestartTags = {}
  Shapes = {"protect"}
  MaxDepth = 5
SPECIFICATION Spec
PROPERTY ExitResumed
