----------------------------- MODULE MCScanner ------------------------------
(***************************************************************************)
(* Two branches above a3, where x, y and the foreign m are unspent.        *)
(* Branch a spends x in a4, where it creates z, y in a5 and z in a6.       *)
(* Branch b creates z in b4 at another index, spends it in b6, and x and y *)
(* never.  The heads in order of work are a4, b4, a5, a6, b5, b6, b7: the  *)
(* head may move back and forth, and to b5, which is shorter than a6.      *)
(***************************************************************************)
EXTENDS ScannerProperties

MCAccount == {"alice", "bob"}
MCOwner == [x |-> "alice", y |-> "bob", z |-> "alice", m |-> "nobody"]
MCCommit == DOMAIN MCOwner

B(parent, work, outs, spends) ==
  [parent |-> parent, work |-> work, outs |-> outs, spends |-> spends]

MCBlock ==
  [g  |-> B("g",  0,  <<"other">>,      {}),
   a1 |-> B("g",  10, <<"x">>,          {}),
   a2 |-> B("a1", 10, <<"m", "y">>,     {}),
   a3 |-> B("a2", 10, <<"other">>,      {}),
   a4 |-> B("a3", 10, <<"z">>,          {"x"}),
   a5 |-> B("a4", 10, <<"other">>,      {"y"}),
   a6 |-> B("a5", 10, <<"other">>,      {"z"}),
   b4 |-> B("a3", 15, <<"other", "z">>, {}),
   b5 |-> B("b4", 20, <<"other">>,      {}),
   b6 |-> B("b5", 10, <<"other">>,      {"z"}),
   b7 |-> B("b6", 10, <<"other">>,      {})]

T == INSTANCE BlockTree WITH Block <- MCBlock, Genesis <- "g"

MCChain == DOMAIN MCBlock
MCHash == DOMAIN MCBlock
MCTip == T!TreeTip
MCHeader == T!TreeHeader
MCCreated == T!TreeCreated
MCUtxo == T!TreeUtxo
MCWork == T!TreeWork

ASSUME TreeAssumption == SpendsAreFinal /\ CommitsAreUnique /\ WorkGrows
=============================================================================
