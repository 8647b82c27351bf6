CONSTANTS
  p = p
  q = q
  main = main
  clone = clone
  Context = {main, clone}
  Process = {p, q}
  Host = {"here", "there"}
  Checkout = {main, clone}
  ProcessOf <- MCProcessOf
  Placement <- MCPlacement
  CheckoutOf <- MCCheckoutOf
  GitOf <- MCGitOf
  NoGit = NoGit
  NoContext = NoContext
  NoFile = NoFile
  Partial = Partial
  MaxFaults = 2
SPECIFICATION LiveSpec
CHECK_DEADLOCK FALSE
INVARIANT TypeOK
PROPERTIES LivingNeverRemoved EveryClaimReturns RecordRestored
