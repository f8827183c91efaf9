SPECIFICATION Spec
CONSTANTS
  None = None
  Blank = Blank
  ZeroAddress = ZeroAddress
  sara = sara
  bob = bob
  lsig = lsig
  msig = msig
  MinTxFee = 2
  Size = 3
  Radix = 2
  Decoded <- MCDecoded
  Asks <- MCAsks
  SDKAsks <- MCGiven
  WalletAccounts <- MCWalletAccounts
  AssetInfo <- MCAssetInfo
  MaxGroup = 3
  WaitRounds = 2
  Life = 4
  EarlyRounds = 2
INVARIANTS SentAsAsked ReceiptsTrue
PROPERTY Ends
