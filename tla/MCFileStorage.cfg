SPECIFICATION Spec
CONSTANTS
  deep = deep
  shallow = shallow
  outer = outer
  inner = inner
  Keys = {deep, shallow}
  Values = {v1}
  Clients = {c1, c2}
  Passes = {p1, NoPass}
  NoPass = NoPass
  Dirs = {outer, inner}
  Root = Root
  DirOf <- MCDirOf
  Up <- MCUp
  Path <- MCPath
  Permits = 2
  MaxFaults = 1
  Empty = Empty
  Torn = Torn
  NoFile = NoFile
  NoCall = NoCall
  NotYet = NotYet
  Nobody = Nobody
SYMMETRY MCSymmetry
INVARIANTS
  DirectoriesStay
  Tidy
  HeldByWorkers
PROPERTY
  ImplementsAtomicMap
