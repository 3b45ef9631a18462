SPECIFICATION FairSpec
CONSTANTS
  MaxDevices = 3 NoDevice = NoDevice Shapes <- MCShapes
  InstIds = {i1, i2}
  Machines = {x1}
  Images = {g1}
  NoImage = NoImage
  Jobs = {j1}
  NoJob = NoJob
  Absent = Absent Off = Off Original = Original NoVolume = NoVolume NoDoc = NoDoc Failed = Failed
  Faults = {"connect", "find volume", "lookup", "look", "destroy", "delete", "tidy", "fetch", "create", "upload", "resize", "drop", "patch", "define", "clean", "redefine", "recheck", "boot"}
  MayCrash = TRUE
  GuestsAct = TRUE
  CallersWait = TRUE
INVARIANTS TypeOK ProvisionedRunsItsImage ReleasedIsOff
PROPERTIES NoForeignBoot ProvisionEnds 
