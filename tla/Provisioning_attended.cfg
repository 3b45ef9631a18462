SPECIFICATION Spec
CONSTANTS
  MaxDevices = 3 NoDevice = NoDevice Shapes <- MCShapes
  InstIds = {i1, i2}
  Machines = {x1}
  Images = {g1}
  NoImage = NoImage
  Jobs = {j1, j2}
  NoJob = NoJob
  Absent = Absent Off = Off Original = Original NoVolume = NoVolume NoDoc = NoDoc Failed = Failed
  Faults = {"connect", "find volume", "lookup", "look", "destroy", "delete", "tidy", "fetch", "create", "upload", "resize", "patch", "define", "clean", "redefine", "recheck", "boot"}
  MayCrash = FALSE
  GuestsAct = TRUE
  CallersWait = FALSE
INVARIANT HalfImageIsAttended
PROPERTY DataDisksKept
SYMMETRY Symmetry
VIEW Attended
