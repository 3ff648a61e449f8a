SPECIFICATION MainSpec
CONSTANTS
  Commands <- AllCommands
  LastPage = 3
  Impatient = TRUE
  Breaks = TRUE
  Unasked = TRUE
INVARIANTS TypeOK DoneMeansComplete PagesInOrder DiesOfTimeout
PROPERTIES MainEnds
