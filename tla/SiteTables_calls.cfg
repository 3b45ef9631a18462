SPECIFICATION MCSpec
CONSTANTS
  d = d a = a b = b i1 = i1
  Ids = {d, a} DefaultId = d NoId = NoId Absent = Absent
  InstIds = {i1, EmptyId} EmptyId = EmptyId Names = {"n1", "n2"} NoName = NoName
  Space = 8 Cidrs <- MCCidrs BadCidr = BadCidr DefaultCidr <- MCDefault NoCidr = NoCidr
  Anywhere = Anywhere
  Sources = {"s1", "s2"} NoSource = NoSource
  UserData = {"u1"} NoData = NoData Keep = Keep
  ExpectedIds = {d, a, b} Macs = {"mac1", "mac2"} Hosts = {1, 2} NoHost = NoHost HostMacs <- MCHostMacs
  Seed <- MCSeed SeedLink <- MCSeedLink Serials = {"x1", "x2"} MaxBatch = 2
  Values = {"y1", "y2"} NoValue = NoValue
  NoFile = NoFile
CONSTRAINTS OneGroupAtATime LittleLost OneInstance
INVARIANTS TypeOK TablesSurvive PeeredOnce ImageHasOs NoneHidden HostsNotShared InventoryComplete
PROPERTIES UserDataKept HostAddressOnly
