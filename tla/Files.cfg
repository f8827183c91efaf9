CONSTANTS
  main = main
  test = test
  A = A
  B = B
  C = C
  k = k
  v = v
  w = w
  NScript = 3
  Net = {main, test}
  Name = {A, B, C}
  Key = {k}
  Value = {v, w}
  Program <- LaterWork
  TaskLists <- Repeated
  Forces = {TRUE, FALSE}
  RunScripts = {1, 2}
  Faults = {"stop", "network", "answer", "optin"}
  MaxFault = 2
  MaxChain = 2
SPECIFICATION Spec
INVARIANT CheckpointsFaithful
PROPERTIES OnlyOwnRecordsChange RecordsKept GapsOnlyByFailure
