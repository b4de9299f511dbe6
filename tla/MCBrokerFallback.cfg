CONSTANTS
  RetryFrames = 2
SPECIFICATION FairSpec
PROPERTIES FallsBack
