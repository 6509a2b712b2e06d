SPECIFICATION Spec
CONSTANTS
  P = 73
  ScalarMaxBits = 7
  SignBits = 4
  Precision = 2
  FloatBits = 3
  MAX_BALANCES = 3
  MAX_ORDERS = 2
  MAX_FEES = 1
  AmountBits = 4
  SizeBits = 4
  PROTOCOL_FEE = 1
  PROTOCOL_SETTLE_KEY = 0
  DEFAULT_ELGAMAL_GENERATOR = 5
  Owners = {1, 2}
  Mints = {1, 2, 3}
  Secrets <- MCSecrets
  Fees <- MCFees
  InitialRandomness <- MCInitialRandomness
  Transfers <- MCTransfers
  NewOrders <- MCNewOrders
  Cluster <- MCCluster
  ElGamalDraws <- MCElGamalDraws
  MaxUpdates = 2
INVARIANTS
  HonestProofsVerify
  
  EncumberedCanSettle
  
  MatchFair
CHECK_DEADLOCK FALSE

  
