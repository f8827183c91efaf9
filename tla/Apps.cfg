CONSTANTS
  alice = alice
  bob = bob
  app1 = app1
  app2 = app2
  app3 = app3
  NoAddr = NoAddr
  Addr = {alice, bob, app1}
  MaxAsset = 0
  MinFee = 1
  AccountMin = 1
  AssetFee = 1
  MaxApp = 1
  AppAddress <- MCOneAddress
  Key = {"k", "l"}
  Name <- MCNames
  AppFee = 2
  KeyFee = 1
  InitialAccounts <- MCInitialAccounts
  Funds <- LifeFunds
  Body <- OneAppBody
  Groups <- LifeGroups
  DirectCalls <- NoDirectCalls
  MaxCost = 7
  MaxTxns = 4
  MaxDepth = 3
  MaxInnerGroups = 2
  MaxMin = 5
SPECIFICATION Spec
INVARIANTS StoreSound MinBalanceExact
PROPERTIES AlgosConserved ClearStateWorks
CHECK_DEADLOCK FALSE
