------------------------------ MODULE MCGrowth ------------------------------
(***************************************************************************)
(* A chain that only grows: no branch, so no reorganisation.  Each block   *)
(* above genesis pays one wallet.                                          *)
(***************************************************************************)
EXTENDS ScannerProperties

MCAccount == {"alice", "bob"}
MCOwner == [x |-> "alice", y |-> "bob", z |-> "alice"]
MCCommit == DOMAIN MCOwner

B(parent, work, outs, spends) ==
  [parent |-> parent, work |-> work, outs |-> outs, spends |-> spends]

MCBlock ==
  [g  |-> B("g",  0,  <<"other">>, {}),
   a1 |-> B("g",  10, <<"x">>,     {}),
   a2 |-> B("a1", 10, <<"y">>,     {}),
   a3 |-> B("a2", 10, <<"z">>,     {})]

T == INSTANCE BlockTree WITH Block <- MCBlock, Genesis <- "g"

MCChain == DOMAIN MCBlock
MCHash == DOMAIN MCBlock
MCTip == T!TreeTip
MCHeader == T!TreeHeader
MCCreated == T!TreeCreated
MCUtxo == T!TreeUtxo
MCWork == T!TreeWork
=============================================================================
