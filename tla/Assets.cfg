CONSTANTS
  alice = alice
  bob = bob
  lsig = lsig
  sink = sink
  NoAddr = NoAddr
  Addr <- MCAddr
  InitialAccounts <- MCInitialAccounts
  Funds <- MCFunds
  AccountMin = 1
  AssetFee = 1
  Lsigs = {lsig}
  MaxAsset = 3
  MinFee = 0
  Groups <- MCAssetGroups
  Deployments = {}
  OptIns = {}
  ConfigAccounts = {}
  ConfigBalance = 0
SPECIFICATION TxSpec
INVARIANT AssetsConserved
PROPERTIES UnitsTakenByRight FrozenUnitsStay
