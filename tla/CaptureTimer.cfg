SPECIFICATION FairSpec
CONSTANTS
  Rates = {0, 1000, 2500, 20000}
  Huge = 12
INVARIANT
  JoinsSoon
PROPERTY FramesTaken
