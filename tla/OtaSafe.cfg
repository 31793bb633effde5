SPECIFICATION FairSpec
CONSTANTS
  Recv = recv
  Workers = {w1}
  Blocks = 3
  FaultyBlocks = {1, 2}
  Md5 = FALSE
  Overlap = FALSE
  PushInWindow = FALSE
  MaxFailed = 3
  MaxAsks = 2
  MaxNet = 2
INVARIANT TypeOK
INVARIANT RunningIsComplete
INVARIANT CountedIsWritten
 
