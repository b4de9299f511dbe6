CONSTANTS
  Keep = 2
  MaxLaunch = 4
  MaxTime = 3
SPECIFICATION Spec
INVARIANTS TypeOK CountBounded KeepsNewest
