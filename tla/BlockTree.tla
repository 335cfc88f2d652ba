----------------------------- MODULE BlockTree ------------------------------
(***************************************************************************)
(* Builds the constants of GrinNode from a small tree of blocks.           *)
(* Block[b] gives a block's parent, its work, the commitments its outputs  *)
(* carry in MMR order and the commitments its inputs spend; "other" stands *)
(* for an output that takes an index and is no longer live, and the root,  *)
(* genesis, holds one such output.  A chain is named by its tip block, and *)
(* a block's name is its hash.                                             *)
(***************************************************************************)
EXTENDS Integers, Sequences, SequencesExt

CONSTANTS Block, Genesis

Path[b \in DOMAIN Block] ==
  IF b = Genesis THEN <<b>> ELSE Append(Path[Block[b].parent], b)

TreeTip == [b \in DOMAIN Block |-> Len(Path[b]) - 1]

TreeWork == [b \in DOMAIN Block |->
               FoldSeq(LAMBDA a, sum : sum + Block[a].work, 0, Path[b])]

Outs(path) == FoldLeft(LAMBDA outs, a : outs \o Block[a].outs, <<>>, path)

TreeHeader ==
  [b \in DOMAIN Block |->
     [h \in 0 .. TreeTip[b] |->
        [hash |-> Path[b][h + 1], mmr |-> Len(Outs(SubSeq(Path[b], 1, h + 1)))]]]

TreeCreated ==
  [b \in DOMAIN Block |->
     UNION {LET below == Len(Outs(SubSeq(Path[b], 1, h)))
                outs  == Block[Path[b][h + 1]].outs
            IN  {[commit |-> outs[i], height |-> h, idx |-> below + i] :
                   i \in {i \in DOMAIN outs : outs[i] # "other"}} :
            h \in 1 .. TreeTip[b]}]

TreeUtxo ==
  [b \in DOMAIN Block |->
     {o \in TreeCreated[b] :
        \A h \in o.height .. TreeTip[b] :
          o.commit \notin Block[Path[b][h + 1]].spends}]
=============================================================================
