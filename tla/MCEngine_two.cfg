SPECIFICATION Spec
CONSTANTS
  Callers = {a1, a2}
  Keys = {k1, k2}
  NoKey = NoKey
  MaxSessions = 2
INVARIANTS OneSession
