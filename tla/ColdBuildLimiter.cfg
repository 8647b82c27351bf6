CONSTANTS
  i1 = i1
  i2 = i2
  m1 = m1
  s = s
  t = t
  u = u
  x = x
  Request = {i1, i2, m1, t, u}
  Blocking = {i1, i2, m1}
  Class <- MCClass
  Root = {x}
  RootOf <- MCRootOf
  NoRoot = NoRoot
  NoLease = NoLease
  Limit = 2
SPECIFICATION Spec
INVARIANTS TypeOK SlotsConserved OneLeasePerRoot NeverPassedTwice
