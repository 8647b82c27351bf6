CONSTANTS
  Actors <- OneRoot
  Jobs <- GateJobs
  Info <- GateInfo
  InitOrder <- OneOrder
  TotalWorkers = 4
  ReadCap = 1
  ActorCap = 2
  HeavyPermits = 1
  InteractiveReserve = 1
  MaintenanceCap = 2
  BindReserve = 1
  ProviderReserve = 0
  QueueCap = 2
  BatchCap = 2
  MayCancel <- GateCancel
  MayDetach = {}
  MayPanic <- GatePanic
  MayAge = {}
  MayStick = {}
  MayRecycle = {}
  MayPublish <- OneRoot
  MayUnbind = {}
  MayDelete = {}
  MayRemove = {}
  MaxGen = 1
  MaxInc = 1
  MaxPub = 1
SPECIFICATION Spec
CHECK_DEADLOCK FALSE
INVARIANTS CountersExact WriterAlone WriterDemandIsLive NothingLeftBehind CancelHonoured FatalDrained
PROPERTY KeepsPromises
