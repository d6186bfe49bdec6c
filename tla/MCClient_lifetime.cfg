SPECIFICATION FairSpec
CONSTANTS
  Connectors = {c1, c2}
  Stoppers = {s1}
  Readers = {r1}
  Nobody = Nobody
INVARIANTS IndInv ReleasedOnce ConnectReleases NoUseAfterRelease
PROPERTIES ServesEngine AcceptedStopReturns ReleaseCompletes
\* New may fail, and then nothing is left to run.
CHECK_DEADLOCK FALSE
