CONSTANTS
  RetryFrames = 2
SPECIFICATION FairSpec
INVARIANTS IInv AllOrNothing HeldWhileStreaming LabelTruthful NoOldPicture AtMostOneLate QuietExit CameraMatches
PROPERTIES ImplementsFeed Heartbeat GoesLive ExitReachesStop
