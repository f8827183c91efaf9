CONSTANTS
  alice = alice
  bob = bob
  app1 = app1
  app2 = app2
  app3 = app3
  NoAddr = NoAddr
  Addr = {alice, bob, app1, app2, app3}
  MaxAsset = 0
  MinFee = 1
  AccountMin = 1
  AssetFee = 1
  MaxApp = 3
  AppAddress <- MCAppAddress
  Key = {"k", "l"}
  Name <- MCNames
  AppFee = 2
  KeyFee = 1
  InitialAccounts <- MCInitialAccounts
  Funds <- MCFunds
  Body <- MCBody
  Groups <- CallGroups
  DirectCalls <- InnerDirectCalls
  MaxCost = 9
  MaxTxns = 4
  MaxDepth = 3
  MaxInnerGroups = 2
  MaxMin = 7
SPECIFICATION Spec
INVARIANTS TypeOK BudgetPooled FeesPaid
PROPERTIES OptInTakenBack Returns
CHECK_DEADLOCK FALSE
