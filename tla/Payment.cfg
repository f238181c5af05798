SPECIFICATION PaymentSpec
CONSTANTS
  Utxos = {u1, u2, u3}
  Amounts = {1, 2, 3, 5, 6, 7, 8, 9, 10, 11, 12, 14}
  Rates = {0, 1, 3, 9}
  ClientRate = 2
  MaxU64 = 36
  BaseMass = 1
  InputMass = 1
  OutputMass = 1
  CommitmentOutputMass = 2
  Burn = 4
  Dust = 3
  KeyLength = 2
  Native = 0
  Network = "mainnet"
  Commitment <- MCCommitment
  StampKey <- MCStampKey
  ReturnKey <- MCReturnKey
  StaleKey <- MCStaleKey
INVARIANTS Balanced AffordableIsBuilt FeeShortByOneOutput NodeTakesIt MoneyStaysHeld
CHECK_DEADLOCK FALSE
