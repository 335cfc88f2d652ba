----------------------------- MODULE MCBalance ------------------------------
(***************************************************************************)
(* Two branches above a1.  z is a coinbase output of both, one block later *)
(* on branch b; a3 and b4 spend x.  b2 outweighs the longer a3.            *)
(***************************************************************************)
EXTENDS Balance

MCAccount == {"alice"}
MCOwner == [x |-> "alice", y |-> "nobody", z |-> "alice"]
MCCommit == DOMAIN MCOwner
MCCoinbase == {"z"}

B(parent, work, outs, spends) ==
  [parent |-> parent, work |-> work, outs |-> outs, spends |-> spends]

MCBlock ==
  [g  |-> B("g",  0,  <<"other">>,  {}),
   a1 |-> B("g",  10, <<"x">>,      {}),
   a2 |-> B("a1", 10, <<"z", "y">>, {}),
   a3 |-> B("a2", 10, <<"other">>,  {"x"}),
   b2 |-> B("a1", 25, <<"y">>,      {}),
   b3 |-> B("b2", 10, <<"z">>,      {}),
   b4 |-> B("b3", 10, <<"other">>,  {"x"})]

T == INSTANCE BlockTree WITH Block <- MCBlock, Genesis <- "g"

MCChain == DOMAIN MCBlock
MCHash == DOMAIN MCBlock
MCTip == T!TreeTip
MCHeader == T!TreeHeader
MCCreated == T!TreeCreated
MCUtxo == T!TreeUtxo
MCWork == T!TreeWork

ASSUME TreeAssumption == SpendsAreFinal /\ CommitsAreUnique /\ WorkGrows
=============================================================================
