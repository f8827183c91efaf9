CONSTANTS
  alice = alice
  bob = bob
  lsig = lsig
  sink = sink
  NoAddr = NoAddr
  Addr <- MCAddr
  InitialAccounts <- MCInitialAccounts
  Funds <- MCFunds
  AccountMin = 1
  AssetFee = 1
  Lsigs = {lsig}
  MaxAsset = 2
  MinFee = 2
  Groups <- MCGroups
  Deployments = {}
  OptIns = {}
  ConfigAccounts = {}
  ConfigBalance = 0
SPECIFICATION TxSpec
INVARIANT Solvent
PROPERTIES Atomicity DebitsAreAuthorised
