SPECIFICATION Spec
CONSTANTS
  Jobs = {j1, j2, j3}
  NoJob = NoJob
  InitialFiles = {"stale"}
  MayFail = FALSE
INVARIANT AtMostOneFetch
