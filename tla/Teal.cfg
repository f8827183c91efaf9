CONSTANTS
  ByteBits = 2
  WordBytes = 2
  StackCapacity = 5
  MaxConcat = 3
  MaxInput = 5
  MaxOutput = 5
  ExactSqrt = 32
  Digest <- MCDigest
  Text <- MCText
  Verifies <- MCVerifies
  Library <- MCLibrary
  Json <- MCJson
  ProofLength = 2
  KeyLength = 1
  PointLength = 2
  AddressLength = 2
  AppAddress <- MCAppAddress
  MaxString = 4
  MaxProgram = 6
  MaxTxnLife = 3
  GlobalValues <- MCGlobalValues
  AccountMin = 1
  MaxLogs = 2
  MaxLogBytes = 3
  MaxKeyBytes = 2
  MaxKeyVal = 3
  MaxAppArgs = 2
  MaxTxAccounts = 2
  MaxReferences = 4
  MaxInner = 3
  TypeNames <- MCTypeNames
  MaxDecimals = 2
  ExactLength <- MCExactLength
  MaxLength <- MCMaxLength
  Programs <- MCPrograms
  Slots = 2
  Budget = 60
  MaxAppCost = 60
  MaxLsigCost = 12
SPECIFICATION Spec
INVARIANTS TypeOK ResourcesHeld ComputesRight ReadsWithinReach
PROPERTIES ArraysStay JumpsLand OwnStateOnly Terminates
CHECK_DEADLOCK FALSE
