CONSTANTS
  Callers = {a}
  Nobody = Nobody
SPECIFICATION Spec
INVARIANTS GuardSuffices
