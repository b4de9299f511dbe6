CONSTANTS
  Callers = {a, b}
  Nobody = Nobody
SPECIFICATION Spec
INVARIANTS RequestHasBoth
