SPECIFICATION Spec
CONSTANTS
  Base = 8
  SignBit = 2048
  Credential <- MCCredential
  Watched <- MCWatched
  Listed <- MCListed
INVARIANTS
  NothingForged
  NothingDropped
  KeyIsTheWallets
CHECK_DEADLOCK FALSE
