SPECIFICATION FairCaptureSpec
CONSTANTS
  h1 = h1
  h2 = h2
  Handles = {h1, h2}
  Mapped <- MCMapped
CHECK_DEADLOCK FALSE
INVARIANTS CaptureTypeOK ResourceExclusive StreamerHasResource StoppedStreamLeavesNothing ClosedOwnsNothing OldestComesFirst
PROPERTY StreamOffReturns
