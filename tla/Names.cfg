CONSTANTS
  main = main
  test = test
  A = A
  B = B
  C = C
  k = k
  v = v
  w = w
  NScript = 3
  Net = {main, test}
  Name = {A, B, C}
  Key = {k}
  Value = {v, w}
  Program <- SharedNames
  TaskLists <- AnyOrder
  Forces = {FALSE}
  RunScripts = {}
  Faults = {"network", "optin"}
  MaxFault = 2
  MaxChain = 4
SPECIFICATION Spec
INVARIANTS NamesUnambiguous AtMostOnce NothingOrphaned PrecedingOnly
