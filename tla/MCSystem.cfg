CONSTANTS
  RetryFrames = 1
  Streams = {s1}
SPECIFICATION SystemSpec
PROPERTIES ImplementsEndToEnd
