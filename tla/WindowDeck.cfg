SPECIFICATION Spec
CONSTANTS
  NoStory = 0
  Stories = {1, 2, 3, 4, 5, 6, 7, 8, 9}
  Pools <- MCPools
  Windows = {"day", "week", "archive"}
  Archive = "archive"
  Width <- Days
  ViewSize = 2
  PerBadge = 1
  Margin = 2
  Horizon = 1
  MaxTime = 2
  MaxVotes = 1
INVARIANTS ServedOnce FarCardStays TopicKept
PROPERTIES DraftFair
CHECK_DEADLOCK FALSE
