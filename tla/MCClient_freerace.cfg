SPECIFICATION Spec
CONSTANTS
  Connectors = {c1}
  Stoppers = {s1}
  Readers = {}
  Nobody = Nobody
INVARIANTS NeverFreedUnderConnect
CHECK_DEADLOCK FALSE
