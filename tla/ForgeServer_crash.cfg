SPECIFICATION Spec
CONSTANTS
  c1 = c1 c2 = c2 i1 = i1 i2 = i2 m1 = m1 m2 = m2
  Calls = {c1}
  Stopper = Stopper Free = Free
  InstIds = {i1}
  EmptyId = EmptyId
  Machines = {m1}
  InventoryMachines = {}
  Nets = {"n1", "n2"}
  Images = {"g1"}
  Types = {"t1"}
  DefaultTypes = {"t1"}
  NoType = NoType
  Nsgs = {"s1"}
  Absent = Absent NoFile = NoFile Torn = Torn
  MaxList = 2
INVARIANTS TypeOK  ToldIsAlwaysDurable  NetworkAligned
