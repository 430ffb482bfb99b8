SPECIFICATION Spec
CONSTANTS
  None = None
  Names <- MCNames
  ValidNames <- MCValid
  Normal <- MCNormal
  Tag <- MCTag
  Bodies = {"empty", "mine", "theirs", "long"}
  LongBodies = {"long"}
  Blank = "empty"
  StartName = "task"
  Edits <- MCEdits
  OthersTexts <- MCOthers
  MaxSections = 2
  MaxSteps = 4
CHECK_DEADLOCK FALSE
PROPERTY RestoreSparesEdits
