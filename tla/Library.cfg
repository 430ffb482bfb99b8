SPECIFICATION Spec
CHECK_DEADLOCK FALSE
CONSTANTS
  Ids <- MCIds
  Filed <- MCFiled
  Slots <- MCSlots
  Folders = {work, home}
  Names = {old, new}
  None = None
  MaxSteps = 3
INVARIANT PageInvariant
PROPERTIES UndoIsTrue DeletesEnd
