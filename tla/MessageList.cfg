SPECIFICATION FairSpec
CONSTANTS
  File = {1, 2, 3}
  Bad = {3}
  Unloadable = {}
  Ascending = TRUE
  MaxClicks = 1
  NULL = NULL
INVARIANTS TypeOK NothingIsForgotten DetailMatchesSelection
PROPERTIES ListedIsSelected NewMessageIsListed SelectionIsShown
CHECK_DEADLOCK FALSE
