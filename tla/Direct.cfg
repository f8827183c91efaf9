CONSTANTS
  alice = alice
  bob = bob
  lsig = lsig
  sink = sink
  NoAddr = NoAddr
  Addr <- MCAddr
  InitialAccounts <- MCInitialAccounts
  Funds <- MCSmallFunds
  AccountMin = 1
  AssetFee = 1
  Lsigs = {lsig}
  MaxAsset = 2
  MinFee = 1
  Groups <- MCMixedGroups
  Deployments <- MCDeployments
  OptIns <- MCOptIns
  ConfigAccounts = {bob}
  ConfigBalance = 1
SPECIFICATION Spec
INVARIANTS TypeOK LedgersSound ContextIsolated
