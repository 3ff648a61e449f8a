SPECIFICATION LiveSpec
CONSTANTS
  Commands <- AllCommands
  LastPage = 3
  Impatient = FALSE
  Breaks = FALSE
  Unasked = FALSE
INVARIANTS NoCallbackDies
PROPERTIES CommandServed
