------------------------------ MODULE GrinNode ------------------------------
(***************************************************************************)
(* The Grin node that grin-lws polls, seen through the JSON-RPC calls of   *)
(* grin.rs.  The node itself is external: it follows the chain of most     *)
(* work, so its head may jump to another branch, a shorter one included,   *)
(* between any two calls.  Nothing here is state of grin-lws.              *)
(*                                                                         *)
(* A chain is a path of the block tree from genesis; the constants give    *)
(* its headers, every output it created, and the ones still unspent at its *)
(* tip.  Output values, range proofs and keys are abstracted: all that     *)
(* rewinding a range proof tells the scanner is whose output it is.        *)
(***************************************************************************)
EXTENDS Integers, FiniteSets

CONSTANTS
  Account,      \* the rewind hashes (view credentials) of wallets
  Nobody,       \* "owner" of the outputs no registered credential rewinds
  Commit,       \* Pedersen commitments
  Owner,        \* Owner[k]: the wallet whose credential rewinds commitment k
  Chain,        \* the chains the node may follow
  Tip,          \* Tip[c]: height of the tip of c
  Hash,         \* block hashes
  Header,       \* Header[c][h]: hash and output-MMR size of c's block at h
  Created,      \* Created[c]: every output some block of c created
  Utxo,         \* Utxo[c]: the outputs unspent at the tip of c
  Work,         \* Work[c]: total difficulty of c
  PageMax,      \* most outputs in one page of get_unspent_outputs
  OutputsChunk  \* most commitments in one get_outputs request

VARIABLE head   \* the chain the node follows now

(* An output: commitment, creation height, insertion index in the MMR. *)
Output == [commit : Commit, height : Nat, idx : Nat]

ASSUME OwnerAssumption == /\ Owner \in [Commit -> Account \cup {Nobody}]
                          /\ Nobody \notin Account
ASSUME ChainAssumption ==
  /\ Tip \in [Chain -> Nat]
  /\ Work \in [Chain -> Nat]
  /\ \A c \in Chain :
       /\ Header[c] \in [0 .. Tip[c] -> [hash : Hash, mmr : Nat]]
       /\ Created[c] \subseteq Output
       /\ Utxo[c] \subseteq Created[c]
       /\ IsFiniteSet(Utxo[c])
ASSUME PagingAssumption == PageMax \in Nat \ {0} /\ OutputsChunk \in Nat \ {0}

(* Outputs sit in the MMR in the order of the blocks that created them. *)
ASSUME InsertionOrder ==
  \A c \in Chain :
    /\ \A g, h \in 0 .. Tip[c] : g <= h => Header[c][g].mmr <= Header[c][h].mmr
    /\ \A o \in Created[c] :
         /\ o.height \in 1 .. Tip[c]
         /\ Header[c][o.height - 1].mmr < o.idx
         /\ o.idx <= Header[c][o.height].mmr
    /\ \A o, p \in Created[c] : o.idx = p.idx => o = p

(* A block hash fixes everything below it: two chains with the same block  *)
(* at some height have the same headers, and created the same outputs, up  *)
(* to that height.                                                         *)
ASSUME HashesCommit ==
  \A c, d \in Chain : \A h \in 0 .. Tip[c] :
    (h <= Tip[d] /\ Header[c][h].hash = Header[d][h].hash) =>
      /\ \A g \in 0 .. h : Header[c][g] = Header[d][g]
      /\ \A o \in Created[c] : o.height <= h => o \in Created[d]
-----------------------------------------------------------------------------
(* Chain c has the block of the given hash at the given height. *)
Contains(c, height, hash) == height <= Tip[c] /\ Header[c][height].hash = hash

Extends(d, c) == Contains(d, Tip[c], Header[c][Tip[c]].hash)

(* get_tip: height and hash of the head, from one status response. *)
TipOf(c) == [height |-> Tip[c], hash |-> Header[c][Tip[c]].hash]

(* The outputs_present answer for one chunk of at most OutputsChunk. *)
Present(c, commits) == {o.commit : o \in {u \in Utxo[c] : u.commit \in commits}}

(* highest_index of a listing: the node's output MMR size. *)
HighestIndex(c) == Header[c][Tip[c]].mmr

(* start_index_for_height: the first index at or after block height.  The  *)
(* node only answers when it has the block before.                         *)
KnowsStart(c, height) == height <= Tip[c] + 1
StartIndex(c, height) == IF height = 0 THEN 1 ELSE Header[c][height - 1].mmr + 1

(* get_unspent_outputs(start, end, PAGE_MAX): the first PageMax live        *)
(* outputs of the range, in insertion order, and the last index looked at: *)
(* that of the last output of a full page, else the end of the range, or   *)
(* start - 1 when the range is empty.                                      *)
Live(c, start, end) == {o \in Utxo[c] : start <= o.idx /\ o.idx <= end}
Page(c, start, end) ==
  {o \in Live(c, start, end) :
     Cardinality({p \in Live(c, start, end) : p.idx <= o.idx}) <= PageMax}
LastRetrieved(c, start, end) ==
  IF Cardinality(Live(c, start, end)) >= PageMax
  THEN {i \in {o.idx : o \in Page(c, start, end)} :
          \A o \in Page(c, start, end) : o.idx <= i}
  ELSE {IF start <= end THEN end ELSE start - 1}
-----------------------------------------------------------------------------
(* What some results need of the chains: a commitment that has been spent  *)
(* is not created again further up; no two outputs of a chain have the     *)
(* same commitment; a chain has the work of its blocks.                    *)
SpendsAreFinal ==
  \A c, d \in Chain : Extends(d, c) =>
    \A o \in Created[c], p \in Utxo[d] :
      p.commit = o.commit => \E q \in Utxo[c] : q.commit = o.commit

CommitsAreUnique ==
  \A c \in Chain : \A o, p \in Created[c] : o.commit = p.commit => o = p

WorkGrows == \A c, d \in Chain : Extends(d, c) => Work[c] <= Work[d]

(* The node switches to a chain of more work. *)
NewHead(c) == Work[c] > Work[head] /\ head' = c
=============================================================================
