---------------------------- MODULE MCDerivation ----------------------------
(***************************************************************************)
(* Bytes of eight values.  Wallets use paths of boundary indexes: 0, two   *)
(* whose bytes all differ, the last index an i32 holds and the first it    *)
(* does not.  The node lists every message so made, messages broken in one *)
(* place, and good ones under bad entries.                                 *)
(***************************************************************************)
EXTENDS Derivation

MCCredential == {"alice", "bob", "mallory"}
MCWatched == {"alice", "bob"}

MCIndex == {0, 668, 2047, 2048}
MCIdentifier == [switch : 0 .. 1, depth : 1 .. 4, path : [1 .. 4 -> MCIndex]]
Sample == [switch |-> 1, depth |-> 3, path |-> <<668, 0, 2047, 2048>>]

P(owner, value, message) == [owner |-> owner, value |-> value, message |-> message]
Good(proof) == [spent |-> FALSE, proof |-> {proof}, block_height |-> {7}]

Made == {Good(P("alice", 60, Encode(id))) : id \in MCIdentifier}

(* One byte of the header at a time, of any value; too short and too long. *)
Broken == {[Encode(Sample) EXCEPT ![i] = b] : i \in 1 .. 4, b \in 0 .. 7}
          \cup {SubSeq(Encode(Sample), 1, 19), Append(Encode(Sample), 0), <<>>}

Others == {Good(P(owner, value, message)) :
             owner \in MCCredential, value \in {0, 1, 9, 10, 65535},
             message \in Broken \cup {Encode(Sample)}}

Unusable == {[spent |-> s, proof |-> p, block_height |-> h] :
               s \in BOOLEAN, p \in {{}, {P("bob", 5, Encode(Sample))}}, h \in {{}, {7}}}

MCListed == Made \cup Others \cup Unusable
=============================================================================
