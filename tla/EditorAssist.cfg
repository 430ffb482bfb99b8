SPECIFICATION MCSpec
CONSTANTS
  None = None
  Vars = {"a", "b"}
  Words = {"w"}
  Bodies <- MCBodies
  Refined <- MCRefined
  Elsewhere <- MCElsewhere
  PasteTexts = {"p", "q"}
  Conversion <- MCConversion
  Extracted <- MCExtracted
  Histories <- MCHistories
  MaxEvidence = 1
  MaxSections = 2
  MaxSteps = 4
INVARIANT AssistInvariant
PROPERTIES
  AppliesOnlyFreshDraft
  UndoIsExact
  RefineEnds
CHECK_DEADLOCK FALSE
