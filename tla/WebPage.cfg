SPECIFICATION Spec
CONSTANTS
  NULL = NULL
  Message = {1, 2, 3}
  Dateless = {2}
  Broken = {}
  Nameless = {1}
  PageSizes = {1}
  DefaultSize = 1
  Event = {1, 2, 3}
  MaxStart = 1
  MaxLists = 2
  MaxDetails = 1
  MaxLost = 1
INVARIANTS TypeOK CacheIsRight SummaryAwaitsDetail LabelFollowsIndex EventsAddUp
PROPERTY PageCatchesUp
