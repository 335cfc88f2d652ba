SPECIFICATION LiveSpec
CONSTANTS
  Account <- MCAccount
  Nobody = "nobody"
  Commit <- MCCommit
  Owner <- MCOwner
  Chain <- MCChain
  Tip <- MCTip
  Hash <- MCHash
  Header <- MCHeader
  Created <- MCCreated
  Utxo <- MCUtxo
  Work <- MCWork
  PageMax = 1
  OutputsChunk = 1
  ReorgDepth = 1
  ClientHeight = {0, 1, 4}
  Assumed = {}
INVARIANTS
  TypeOK
  Custody
  ProgressWithinCheckpoint
PROPERTIES
  AccountsCatchUp
  PhantomsHeal
  EveryTickEnds
