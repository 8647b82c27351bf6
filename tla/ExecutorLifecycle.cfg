CONSTANTS
  Actors <- OneRoot
  Jobs <- LifeJobs
  Info <- LifeInfo
  InitOrder <- OneOrder
  TotalWorkers = 4
  ReadCap = 1
  ActorCap = 1
  HeavyPermits = 1
  InteractiveReserve = 1
  MaintenanceCap = 1
  BindReserve = 1
  ProviderReserve = 1
  QueueCap = 2
  BatchCap = 2
  MayCancel = {}
  MayDetach = {}
  MayPanic = {}
  MayAge = {}
  MayStick = {}
  MayRecycle = {}
  MayPublish = {}
  MayUnbind <- OneRoot
  MayDelete <- OneRoot
  MayRemove = {}
  MaxGen = 1
  MaxInc = 2
  MaxPub = 1
SPECIFICATION Spec
CHECK_DEADLOCK FALSE
INVARIANTS QuietWhenUnbound SettledAnswered
PROPERTY KeepsPromises
