SPECIFICATION FairSpec
CONSTANTS
  Connectors = {c1}
  Stoppers = {}
  Readers = {}
  Nobody = Nobody
PROPERTIES CancelReturns
CHECK_DEADLOCK FALSE
