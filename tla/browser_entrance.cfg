CONSTANTS
  mine = mine
  other = other
  Tabs <- MCTabs
  MaxRegistrations = 2
  MaxRetiredTokens = 2
  MaxTokens = 6
  MaxSessions = 4
SPECIFICATION Spec
INVARIANTS TypeOK SessionsEndWithIt
PROPERTIES OnlyCopiesAreTaken
CHECK_DEADLOCK FALSE
