CONSTANTS
  Callers = {a, b}
  Nobody = Nobody
SPECIFICATION FairSpec
INVARIANTS StartDecides EventsAgree PatternReady OneByOneIsSafe NoMutualWait
PROPERTIES CallsReturn
