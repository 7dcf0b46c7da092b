SPECIFICATION FairSpec
CONSTANTS
  Jobs = {"monday", "manual"}
  Scheduled = {"monday"}
  Components = {"c-icap", "clamav"}
  Pinned = {"c-icap"}
  WithTags = {"c-icap"}
  Versions = {1, 2}
  OneSeries = {"c-icap"}
  Series = {1}
  EmptySum = 0
  MaxFaults = 3
INVARIANT PinsMatch
PROPERTIES EditsKept Follows PublishesMain
CHECK_DEADLOCK FALSE
