SPECIFICATION Spec
CONSTANTS
  Account <- MCAccount
  Nobody = "nobody"
  Commit <- MCCommit
  Owner <- MCOwner
  Chain <- MCChain
  Tip <- MCTip
  Hash <- MCHash
  Header <- MCHeader
  Created <- MCCreated
  Utxo <- MCUtxo
  Work <- MCWork
  PageMax = 2
  OutputsChunk = 1
  ReorgDepth = 3
  ClientHeight = {1, 2, 3}
  Assumed = {"QuietTicks", "SteadyRetries", "AtomicRollback", "RepairableReorgs", "UndoneSpendsKnown", "RescansBetweenTicks", "BackwardsRescans"}
INVARIANT
  BirthdayDiscovered
