\* One attempt with two tries of each request, or one lookup.
SPECIFICATION FairSpec
CONSTANTS
  o1 = o1
  o2 = o2
  l1 = l1
  Operation = {o1, o2}
  Lyric = {l1}
  MaxAttempts = 2
  Timeout = 4
  PollTimeout = 2
  Idle = 2
INVARIANT TypeOK
INVARIANT StreamIsGuarded
INVARIANT CutMeansSilence
 
PROPERTY AttemptEnds
