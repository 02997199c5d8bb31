CONSTANTS
  Tags <- MCTags
  MaxPublished = 3
  None = None
SPECIFICATION Spec
INVARIANTS TypeOK StaysInStream HintIsFinal NoUpdateMissed
PROPERTY NeverBack
