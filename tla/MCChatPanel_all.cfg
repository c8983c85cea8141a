SPECIFICATION Spec
CONSTANTS
  MaxPrompts = 2
  MaxText = 1
  MaxCreated = 2
  MaxReloads = 1
  MaxFaults = 1
INVARIANT CancelReaches
INVARIANT AnswersInPlace
PROPERTY PromptOnce
PROPERTY InputUnlocks
CHECK_DEADLOCK FALSE
