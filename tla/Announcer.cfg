SPECIFICATION Spec
CONSTANTS
  Ttl = {3, 5, 8}
  MaxTtl = 8
  RenewalInterval = 3
  MaxJitter = 2
  ReceiptLag = 1
  MaxTime = 8
  MaxSigned = 3
  MaxRestarts = 2
CHECK_DEADLOCK FALSE
INVARIANTS
  TypeOK
  SequencesIncrease
  RenewsBeforeExpiry
