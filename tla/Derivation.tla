----------------------------- MODULE Derivation -----------------------------
(***************************************************************************)
(* The way of one output from the node's listing to the client: the entry  *)
(* is taken from the page (from_printable), its range proof is rewound     *)
(* against the watched credentials and the message inside it parsed        *)
(* (rewind_output, parse_v3_message), the match is stored (insert_output)  *)
(* and served again (row_to_output).  A client spends with the key_id it   *)
(* is served, so what arrives must be what the wallet put in.              *)
(*                                                                         *)
(* Rewinding itself is external: a proof yields its value and message to   *)
(* the one credential it was made for and nothing to any other.  Bytes are *)
(* digits in base Base, a path element is four of them, an i32 turns       *)
(* negative at SignBit; the program has 256 and 2^31.                      *)
(***************************************************************************)
EXTENDS Integers, Sequences

CONSTANTS
  Base,        \* values of a byte
  SignBit,     \* the first index that an i32 cannot hold
  Credential,  \* rewind hashes
  Watched,     \* those of the accounts the scan is for
  Listed       \* the entries the node may list

ASSUME WidthAssumption == /\ Base \in Nat /\ Base > 4
                          /\ SignBit \in Nat /\ SignBit > 0
                          /\ Base * Base * Base * Base = 2 * SignBit

Byte == 0 .. Base - 1
Index == 0 .. 2 * SignBit - 1      \* a path element, u32

(* A key identifier: how many of the four path elements count, and all of  *)
(* them; with it, how the commitment is switched.                          *)
Identifier == [switch : 0 .. 1, depth : 1 .. 4, path : [1 .. 4 -> Index]]

(* An entry of the listing.  What may be missing is a set of at most one   *)
(* element.                                                                *)
Proof == [owner : Credential, value : Nat, message : Seq(Byte)]
Entry == [spent : BOOLEAN, proof : SUBSET Proof, block_height : SUBSET Nat]

ASSUME ListedAssumption ==
  /\ Watched \subseteq Credential
  /\ Listed \subseteq Entry
  /\ \A e \in Listed : \A p, q \in e.proof : p = q

VARIABLES
  stage,      \* listed, chain, matched, stored, served or skipped
  wire,       \* the entry
  output,     \* the proof of the ChainOutput made from it
  recovered,  \* what rewind_output returned
  row,        \* the outputs row
  served      \* the UnspentOut

vars == <<stage, wire, output, recovered, row, served>>
-----------------------------------------------------------------------------
(* The message as the wallet's proof builder writes it. *)

BigEndian(n) ==
  LET n3 == n \div Base  n2 == n3 \div Base  n1 == n2 \div Base
  IN  <<n1, n2 % Base, n3 % Base, n % Base>>
Bytes(path) ==
  [j \in 1 .. 16 |-> BigEndian(path[(j + 3) \div 4])[((j + 3) % 4) + 1]]
Encode(id) == <<0, 0, id.switch, id.depth>> \o Bytes(id.path)

(* The identifier a message stands for, if a wallet wrote it. *)
from_be_bytes(b) == ((b[1] * Base + b[2]) * Base + b[3]) * Base + b[4]
Chunk(bytes, i) == SubSeq(bytes, 4 * i - 3, 4 * i)
Decode(message) ==
  [switch |-> message[3], depth |-> message[4],
   path |-> [i \in 1 .. 4 |-> from_be_bytes(Chunk(SubSeq(message, 5, 20), i))]]
Authored(message) ==
  Len(message) = 20 /\ Decode(message) \in Identifier /\ Encode(Decode(message)) = message
-----------------------------------------------------------------------------
(* parse_v3_message: nothing, or what the message says. *)

(* Wrong variants: any switch byte is taken; only the depths of the two    *)
(* wallets in the tests are.                                               *)
AnySwitch(value, message) ==
  /\ Len(message) = 20 /\ message[1] = 0 /\ message[2] = 0
  /\ message[4] \in 1 .. 4 /\ value # 0

TestedDepths(value, message) ==
  /\ Len(message) = 20 /\ message[1] = 0 /\ message[2] = 0
  /\ message[3] <= 1 /\ message[4] \in 3 .. 4 /\ value # 0

WellFormed(value, message) ==
  /\ Len(message) = 20
  /\ message[1] = 0 /\ message[2] = 0
  /\ message[3] <= 1
  /\ message[4] \in 1 .. 4
  /\ value # 0

(* A wrong variant: the path from one byte early. *)
ParsedOneByteEarly(value, message) ==
  LET path == SubSeq(message, 4, 19)
  IN  [value |-> value, key_id |-> <<message[4]>> \o path,
       n_child |-> from_be_bytes(Chunk(SubSeq(message, 5, 20), message[4]))]

Parsed(value, message) ==
  LET path == SubSeq(message, 5, 20)
  IN  [value |-> value, key_id |-> <<message[4]>> \o path,
       n_child |-> from_be_bytes(Chunk(path, message[4]))]

parse_v3_message(value, message) ==
  IF WellFormed(value, message) THEN {Parsed(value, message)} ELSE {}

(* rewind_output: nothing for another wallet's proof, or a garbled one.    *)
rewind_output(rewind_hash, proof) ==
  IF proof.owner = rewind_hash
  THEN parse_v3_message(proof.value, proof.message) ELSE {}
-----------------------------------------------------------------------------
(* What the database keeps of a match, and gives back. *)

Decimal[n \in Nat] ==              \* u64::to_string
  IF n < 10 THEN <<n>> ELSE Append(Decimal[n \div 10], n % 10)

(* str::parse::<u64>; the column holds what to_string wrote, digits alone, *)
(* so the unwrap_or(0) after it is never taken.                            *)
ParseDecimal(digits) ==
  LET read[i \in 0 .. Len(digits)] ==
        IF i = 0 THEN 0 ELSE 10 * read[i - 1] + digits[i]
  IN  read[Len(digits)]

as_i32(n) == IF n < SignBit THEN n ELSE n - 2 * SignBit

AtLeastZero(n) == IF n < 0 THEN 0 ELSE n

StoredRow(r) ==
  [value |-> Decimal[r.value], key_id |-> r.key_id, n_child |-> as_i32(r.n_child)]

ServedFrom(w) ==
  [value |-> ParseDecimal(w.value), key_id |-> w.key_id,
   n_child |-> AtLeastZero(w.n_child)]
-----------------------------------------------------------------------------
Init ==
  /\ stage = "listed"
  /\ wire \in Listed
  /\ output = {} /\ recovered = {} /\ row = {} /\ served = {}

Usable(e) == ~ e.spent /\ e.proof # {} /\ e.block_height # {}

FromPrintable ==
  /\ stage = "listed"
  /\ output' = IF Usable(wire) THEN wire.proof ELSE {}
  /\ stage' = IF Usable(wire) THEN "chain" ELSE "skipped"
  /\ UNCHANGED <<wire, recovered, row, served>>

Matches(rh) == UNION {rewind_output(rh, p) : p \in output}

StoreFirstMatch ==
  /\ stage = "chain"
  /\ \E rh \in Watched : Matches(rh) # {} /\ recovered' = Matches(rh)
  /\ stage' = "matched"
  /\ UNCHANGED <<wire, output, row, served>>

NoMatch ==
  /\ stage = "chain"
  /\ \A rh \in Watched : Matches(rh) = {}
  /\ stage' = "skipped"
  /\ UNCHANGED <<wire, output, recovered, row, served>>

InsertOutput ==
  /\ stage = "matched"
  /\ row' = {StoredRow(r) : r \in recovered}
  /\ stage' = "stored"
  /\ UNCHANGED <<wire, output, recovered, served>>

Serve ==
  /\ stage = "stored"
  /\ served' = {ServedFrom(w) : w \in row}
  /\ stage' = "served"
  /\ UNCHANGED <<wire, output, recovered, row>>

Next == FromPrintable \/ StoreFirstMatch \/ NoMatch \/ InsertOutput \/ Serve

Spec == Init /\ [][Next]_vars
-----------------------------------------------------------------------------
(* Only a message that a wallet can have written is taken for an output,   *)
(* whatever bytes a proof rewinds to (rewind.rs:26-28 "strict message      *)
(* sanity checks"), and never one of value 0.                              *)
NothingForged ==
  served # {} => \A p \in wire.proof : Authored(p.message) /\ p.value > 0

(* No output of a watched wallet is dropped on the way: of every depth and *)
(* switch grin knows, as long as the node lists it unspent with its proof  *)
(* and height (grin.rs:20-21, 262-264).                                    *)
NothingDropped ==
  stage = "skipped" =>
    \A p \in wire.proof :
      ~ (/\ ~ wire.spent /\ wire.block_height # {}
         /\ p.owner \in Watched /\ p.value > 0 /\ Authored(p.message))

(* The client re-derives its key from key_id (rewind.rs:22-25): read back, *)
(* it is the depth and path the wallet wrote, and the value is the one     *)
(* committed to, digit by digit.  n_child is the last path element that    *)
(* counts (rewind.rs:51) where the i32 column can hold it; nothing is      *)
(* claimed of larger ones, which are served as 0, the index of another key *)
(* (db.rs:177, 288-292).                                                   *)
KeyIsTheWallets ==
  \A u \in served : \A p \in wire.proof :
    LET id == Decode(p.message)
    IN  /\ u.value = p.value
        /\ u.key_id[1] = id.depth
        /\ \A i \in 1 .. 4 : from_be_bytes(Chunk(Tail(u.key_id), i)) = id.path[i]
        /\ id.path[id.depth] < SignBit => u.n_child = id.path[id.depth]
=============================================================================
