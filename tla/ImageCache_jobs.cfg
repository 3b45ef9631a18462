SPECIFICATION FairSpec
CONSTANTS
  Jobs = {j1, j2, j3}
  NoJob = NoJob
  InitialFiles = {"none", "good", "stale"}
  MayFail = TRUE
INVARIANTS TypeOK OneInside OnlyVerifiedContent FetchedOnce NoSpuriousFailure
PROPERTIES EveryJobEnds ImplementsSharedDownload
