CONSTANTS
  main = main
  test = test
  A = A
  B = B
  C = C
  k = k
  v = v
  w = w
  NScript = 2
  Net = {main, test}
  Name = {A, B, C}
  Key = {k}
  Value = {v, w}
  Program <- TwoSteps
  TaskLists <- Sorted
  Forces = {FALSE}
  RunScripts = {}
  Faults = {"stop"}
  MaxFault = 3
  MaxChain = 9
SPECIFICATION FairSpec
PROPERTY Recovers
