CONSTANTS
  Tags <- MCTags
  MaxPublished = 3
  None = None
SPECIFICATION Spec
INVARIANT NoStreamJump
