CONSTANTS
  Streams = {s1, s2}
SPECIFICATION FairSpec
INVARIANTS TypeOK NoStepBack
PROPERTIES Follows GoneShowsWaiting
