\* Two feeds with a retry pass; tasks of two refreshes may meet in the queue.
\* The worker may be stopped or die, so it may stop: no deadlock check.
CONSTANTS
  Feeds = {f1, f2}
  Interval = 2
  FeedStride = 1
  PrewarmStride = 2
  WaitLimit = 2
  RetryDelay = 1
  MaxBackoff = 1
  MaxTasks = 4
SPECIFICATION Spec
INVARIANTS DrainedIsDone
PROPERTIES SpacingKept SubmitServed
CHECK_DEADLOCK FALSE
