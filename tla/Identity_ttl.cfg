SPECIFICATION Spec
CONSTANTS
  Orgs = {o1, o2}
  SeedOrg = o1
  Keys = {k1, k2, k3}
  NoKey = NoKey
  Ttls = {1, 2}
  SeedTtl = 2
  Overlaps = {1, 2}
  MaxTime = 4
  Absent = Absent Never = Never
  KeyFaults = FALSE
  RotationsWait = TRUE
INVARIANT TokensVerify
SYMMETRY KeySymmetry
