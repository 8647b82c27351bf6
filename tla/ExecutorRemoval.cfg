CONSTANTS
  pass1 = pass1
  pass2 = pass2
  edit = edit
  lsp = lsp
  Actors <- OneRoot
  Jobs <- RemovalJobs
  Info <- RemovalInfo
  InitOrder <- OneOrder
  TotalWorkers = 4
  ReadCap = 1
  ActorCap = 2
  HeavyPermits = 1
  InteractiveReserve = 1
  MaintenanceCap = 2
  BindReserve = 1
  ProviderReserve = 0
  QueueCap = 2
  BatchCap = 2
  MayCancel = {}
  MayDetach = {edit}
  MayPanic = {}
  MayAge = {edit}
  MayStick = {lsp}
  MayRecycle = {}
  MayPublish = {}
  MayUnbind = {}
  MayDelete = {}
  MayRemove <- OneRoot
  MaxGen = 1
  MaxInc = 2
  MaxPub = 1
SYMMETRY Passing
SPECIFICATION Spec
CHECK_DEADLOCK FALSE
INVARIANTS CountersExact SerialLanes NoDuplicateDrains NothingLeftBehind
