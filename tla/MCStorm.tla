------------------------------ MODULE MCStorm -------------------------------
(***************************************************************************)
(* Two branches above genesis: a2 spends x, which b1 and b2 never create;  *)
(* b2 outweighs a2, and b1 the equally long a1.  y is mined on both        *)
(* branches, at different heights.  Small enough for an environment that   *)
(* nothing restrains, and for liveness.                                    *)
(***************************************************************************)
EXTENDS ScannerProperties

MCAccount == {"alice", "bob"}
MCOwner == [x |-> "alice", y |-> "bob", m |-> "nobody"]
MCCommit == DOMAIN MCOwner

B(parent, work, outs, spends) ==
  [parent |-> parent, work |-> work, outs |-> outs, spends |-> spends]

MCBlock ==
  [g  |-> B("g",  0,  <<"other">>, {}),
   a1 |-> B("g",  10, <<"x">>,     {}),
   a2 |-> B("a1", 10, <<"y">>,     {"x"}),
   b1 |-> B("g",  25, <<"y">>,     {}),
   b2 |-> B("b1", 10, <<"m">>,     {})]

T == INSTANCE BlockTree WITH Block <- MCBlock, Genesis <- "g"

MCChain == DOMAIN MCBlock
MCHash == DOMAIN MCBlock
MCTip == T!TreeTip
MCHeader == T!TreeHeader
MCCreated == T!TreeCreated
MCUtxo == T!TreeUtxo
MCWork == T!TreeWork
=============================================================================
