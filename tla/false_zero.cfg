SPECIFICATION BalanceSpec
CONSTANTS
  Account <- MCAccount
  Nobody = "nobody"
  Commit <- MCCommit
  Owner <- MCOwner
  Chain <- MCChain
  Tip <- MCTip
  Hash <- MCHash
  Header <- MCHeader
  Created <- MCCreated
  Utxo <- MCUtxo
  Work <- MCWork
  PageMax = 2
  OutputsChunk = 1
  ReorgDepth = 2
  ClientHeight = {0}
  Assumed = {"QuietTicks", "SteadyRetries", "AtomicRollback", "RepairableReorgs", "UndoneSpendsKnown", "RescansBetweenTicks", "BackwardsRescans"}
  Coinbase <- MCCoinbase
  Maturity = 1
INVARIANT
  NoFalseZero
