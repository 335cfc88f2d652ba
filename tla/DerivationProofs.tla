-------------------------- MODULE DerivationProofs --------------------------
(***************************************************************************)
(* What is proved of the way of one output, for every width of bytes and   *)
(* words, every set of credentials and whatever the node lists.            *)
(***************************************************************************)
EXTENDS Derivation, SequenceTheorems, WellFoundedInduction, TLAPS

(* Everything kept of an output is what its proof said, when it was well   *)
(* formed; and what is still on its way is the entry's own proof.          *)
Traced ==
  /\ wire \in Listed
  /\ output \subseteq wire.proof
  /\ stage = "chain" => output = wire.proof /\ Usable(wire)
  /\ \A r \in recovered : \E p \in wire.proof :
       WellFormed(p.value, p.message) /\ r = Parsed(p.value, p.message)
  /\ \A w \in row : \E p \in wire.proof :
       WellFormed(p.value, p.message) /\ w = StoredRow(Parsed(p.value, p.message))
  /\ \A u \in served : \E p \in wire.proof :
       /\ WellFormed(p.value, p.message)
       /\ u = ServedFrom(StoredRow(Parsed(p.value, p.message)))

LEMMA TracedInit == Init => Traced
BY DEF Init, Traced

LEMMA TracedNext == Traced /\ [Next]_vars => Traced'
<1> SUFFICES ASSUME Traced, [Next]_vars PROVE Traced'
  OBVIOUS
<1>1. CASE FromPrintable
  BY <1>1 DEF FromPrintable, Traced
<1>2. CASE StoreFirstMatch
  BY <1>2 DEF StoreFirstMatch, Matches, rewind_output, parse_v3_message, Traced
<1>3. CASE NoMatch
  BY <1>3 DEF NoMatch, Traced
<1>4. CASE InsertOutput
  BY <1>4 DEF InsertOutput, Traced
<1>5. CASE Serve
  BY <1>5 DEF Serve, Traced
<1>6. CASE UNCHANGED vars
  BY <1>6 DEF vars, Traced
<1> QED BY <1>1, <1>2, <1>3, <1>4, <1>5, <1>6 DEF Next
-----------------------------------------------------------------------------
(* Digits in base Base. *)

LEMMA Digit ==
  ASSUME NEW n \in Nat, NEW m \in Nat, n < m, NEW b \in Byte
  PROVE  /\ n * Base + b \in Nat
         /\ n * Base + b < m * Base
<1>1. /\ Base \in Nat /\ b \in Nat /\ b < Base
  BY WidthAssumption DEF Byte
<1>2. n * Base \in Nat /\ m * Base \in Nat /\ (n + 1) * Base \in Nat
  BY <1>1
<1>3. (n + 1) * Base <= m * Base
  BY <1>1
<1>4. (n + 1) * Base = n * Base + Base
  BY <1>1
<1> QED BY <1>1, <1>2, <1>3, <1>4

LEMMA WordInRange ==
  ASSUME NEW b, b[1] \in Byte, b[2] \in Byte, b[3] \in Byte, b[4] \in Byte
  PROVE  from_be_bytes(b) \in Index
<1> DEFINE n1 == b[1]
           n2 == n1 * Base + b[2]
           n3 == n2 * Base + b[3]
           n4 == n3 * Base + b[4]
           m2 == Base * Base
           m3 == m2 * Base
           m4 == m3 * Base
<1>1. n1 \in Nat /\ Base \in Nat /\ n1 < Base
  BY WidthAssumption DEF Byte
<1>2. m2 \in Nat /\ m3 \in Nat /\ m4 \in Nat
  BY <1>1
<1>3. n2 \in Nat /\ n2 < m2
  BY <1>1, <1>2, Digit
<1> HIDE DEF n2, m2
<1>4. n3 \in Nat /\ n3 < m3
  BY <1>1, <1>2, <1>3, Digit
<1> HIDE DEF n3, m3
<1>5. n4 \in Nat /\ n4 < m4
  BY <1>1, <1>2, <1>4, Digit
<1>6. m4 = 2 * SignBit
  BY WidthAssumption DEF m2, m3
<1>7. from_be_bytes(b) = n4
  BY DEF from_be_bytes, n2, n3
<1> QED BY <1>5, <1>6, <1>7, WidthAssumption DEF Index

(* What the last digit of a number is, and what is left without it. *)
LEMMA LastDigit ==
  ASSUME NEW n \in Nat, NEW b \in Byte
  PROVE  /\ (n * Base + b) \div Base = n
         /\ (n * Base + b) % Base = b
<1>1. Base \in Nat /\ Base > 0 /\ b \in Nat /\ b < Base
  BY WidthAssumption DEF Byte
<1> DEFINE x == n * Base + b
           q == x \div Base
           r == x % Base
<1>2. x \in Nat /\ q \in Nat /\ r \in 0 .. Base - 1
  BY <1>1
<1>3. x = q * Base + r
  BY <1>1, <1>2
<1>4. q = n
  <2>1. CASE q < n
    BY <1>1, <1>2, <1>3, <2>1
  <2>2. CASE q > n
    BY <1>1, <1>2, <1>3, <2>2
  <2> QED BY <1>2, <2>1, <2>2
<1> QED BY <1>1, <1>2, <1>3, <1>4

(* The i-th path element of a message, byte by byte. *)
LEMMA ChunkOf ==
  ASSUME NEW m \in Seq(Byte), Len(m) = 20, NEW i \in 1 .. 4
  PROVE  LET path == SubSeq(m, 5, 20)  c == Chunk(path, i)
         IN  /\ path \in Seq(Byte) /\ Len(path) = 16
             /\ \A k \in 1 .. 4 : c[k] = m[4 * i + k] /\ c[k] \in Byte
             /\ from_be_bytes(c) \in Index
<1> DEFINE path == SubSeq(m, 5, 20)
           c == Chunk(path, i)
<1>1. \A j \in 1 .. 20 : m[j] \in Byte
  BY ElementOfSeq
<1>2. /\ path \in Seq(Byte) /\ Len(path) = 16
      /\ \A j \in 1 .. 16 : path[j] = m[j + 4] /\ path[j] \in Byte
  BY <1>1, SubSeqProperties
<1>3. \A k \in 1 .. 4 : c[k] = path[4 * i - 4 + k]
  BY <1>2, SubSeqProperties DEF Chunk
<1> HIDE DEF path, c
<1>4. ASSUME NEW k \in 1 .. 4
      PROVE  c[k] = m[4 * i + k] /\ c[k] \in Byte
  <2>1. 4 * i - 4 + k \in 1 .. 16 /\ (4 * i - 4 + k) + 4 = 4 * i + k
    OBVIOUS
  <2> QED BY <1>2, <1>3, <2>1
<1>5. from_be_bytes(c) \in Index
  BY <1>4, WordInRange
<1> QED BY <1>2, <1>4, <1>5 DEF path, c

(* Writing a number big-endian undoes reading it. *)
LEMMA BigEndianInverse ==
  ASSUME NEW b, b[1] \in Byte, b[2] \in Byte, b[3] \in Byte, b[4] \in Byte
  PROVE  BigEndian(from_be_bytes(b)) = <<b[1], b[2], b[3], b[4]>>
<1> DEFINE n2 == b[1] * Base + b[2]
           n3 == n2 * Base + b[3]
           n4 == n3 * Base + b[4]
<1>1. /\ Base \in Nat /\ b[1] \in Nat /\ b[2] \in Nat
      /\ b[3] \in Nat /\ b[4] \in Nat
  BY WidthAssumption DEF Byte
<1>2. n2 \in Nat
  BY <1>1
<1>3. n2 \div Base = b[1] /\ n2 % Base = b[2]
  BY <1>1, LastDigit
<1> HIDE DEF n2
<1>4. n3 \in Nat
  BY <1>1, <1>2
<1>5. n3 \div Base = n2 /\ n3 % Base = b[3]
  BY <1>2, LastDigit
<1> HIDE DEF n3
<1>6. n4 \div Base = n3 /\ n4 % Base = b[4]
  BY <1>4, LastDigit
<1>7. from_be_bytes(b) = n4
  BY DEF from_be_bytes, n2, n3
<1> HIDE DEF n4
<1> QED BY <1>3, <1>5, <1>6, <1>7 DEF BigEndian

LEMMA Concatenated ==
  ASSUME NEW S, NEW h \in Seq(S), NEW p \in Seq(S)
  PROVE  \A j \in 1 .. Len(h) + Len(p) :
           (h \o p)[j] = IF j <= Len(h) THEN h[j] ELSE p[j - Len(h)]
BY ConcatProperties

(* Four header bytes and sixteen path bytes of m, put together, are m. *)
LEMMA HeaderAndPath ==
  ASSUME NEW S, NEW h \in Seq(S), NEW p \in Seq(S), NEW m \in Seq(S),
         Len(h) = 4, Len(p) = 16, Len(m) = 20,
         \A j \in 1 .. 4 : h[j] = m[j],
         \A j \in 1 .. 16 : p[j] = m[j + 4]
  PROVE  h \o p = m
<1> DEFINE whole == h \o p
<1>1. whole \in Seq(S)
  BY ConcatProperties
<1>2. Len(whole) = Len(h) + Len(p)
  BY ConcatProperties
<1>3. \A j \in 1 .. Len(h) + Len(p) :
        whole[j] = IF j <= Len(h) THEN h[j] ELSE p[j - Len(h)]
  BY Concatenated
<1> HIDE DEF whole
<1>4. Len(whole) = 20
  BY <1>2
<1>5. ASSUME NEW j \in 1 .. 20
      PROVE  whole[j] = m[j]
  <2>1. CASE j <= 4
    BY <1>3, <2>1
  <2>2. CASE ~ j <= 4
    <3>1. j - 4 \in 1 .. 16 /\ (j - 4) + 4 = j
      BY <2>2
    <3>2. p[j - 4] = m[j]
      BY <3>1
    <3>3. Len(h) + Len(p) = 20 /\ ~ j <= Len(h) /\ j - Len(h) = j - 4
      BY <2>2
    <3>4. whole[j] = p[j - Len(h)]
      BY <1>3, <3>3
    <3> QED BY <3>2, <3>3, <3>4
  <2> QED BY <2>1, <2>2
<1>6. whole = m
  BY <1>1, <1>4, <1>5, SeqEqual
<1> QED BY <1>6 DEF whole

(* What the parser accepts is what a wallet's proof builder writes. *)
LEMMA WellFormedIsAuthored ==
  ASSUME NEW m \in Seq(Byte), NEW v, WellFormed(v, m)
  PROVE  Authored(m)
<1> DEFINE id == Decode(m)
           c(i) == Chunk(SubSeq(m, 5, 20), i)
<1>1. /\ Len(m) = 20 /\ m[1] = 0 /\ m[2] = 0 /\ m[4] \in 1 .. 4
      /\ \A j \in 1 .. 20 : m[j] \in Byte
  BY ElementOfSeq DEF WellFormed
<1>2. m[3] \in 0 .. 1
  <2>1. m[3] \in Byte /\ m[3] <= 1
    BY <1>1 DEF WellFormed
  <2> QED BY <2>1, WidthAssumption DEF Byte
<1>3. id = [switch |-> m[3], depth |-> m[4],
            path |-> [i \in 1 .. 4 |-> from_be_bytes(c(i))]]
  BY DEF Decode
<1>4. \A i \in 1 .. 4 : /\ from_be_bytes(c(i)) \in Index
                        /\ \A k \in 1 .. 4 : /\ c(i)[k] = m[4 * i + k]
                                             /\ c(i)[k] \in Byte
  BY <1>1, ChunkOf
<1> HIDE DEF id, c
<1>5. id \in Identifier
  BY <1>1, <1>2, <1>3, <1>4 DEF Identifier
<1>6. ASSUME NEW i \in 1 .. 4
      PROVE  \A k \in 1 .. 4 : BigEndian(id.path[i])[k] = m[4 * i + k]
  <2>1. id.path[i] = from_be_bytes(c(i))
    BY <1>3
  <2>2. BigEndian(from_be_bytes(c(i))) = <<c(i)[1], c(i)[2], c(i)[3], c(i)[4]>>
    <3>1. \A k \in 1 .. 4 : c(i)[k] \in Byte
      BY <1>4, Zenon
    <3>2. 1 \in 1 .. 4 /\ 2 \in 1 .. 4 /\ 3 \in 1 .. 4 /\ 4 \in 1 .. 4
      OBVIOUS
    <3>3. c(i)[1] \in Byte /\ c(i)[2] \in Byte /\ c(i)[3] \in Byte /\ c(i)[4] \in Byte
      BY <3>1, <3>2, Zenon
    <3> QED BY <3>3, BigEndianInverse, Zenon
  <2>3. ASSUME NEW k \in 1 .. 4
        PROVE  BigEndian(from_be_bytes(c(i)))[k] = c(i)[k]
    <3>1. k = 1 \/ k = 2 \/ k = 3 \/ k = 4
      OBVIOUS
    <3> QED BY <2>2, <3>1
  <2>4. \A k \in 1 .. 4 : c(i)[k] = m[4 * i + k]
    BY <1>4
  <2> QED BY <2>1, <2>3, <2>4
<1>7. ASSUME NEW j \in 1 .. 16
      PROVE  Bytes(id.path)[j] = m[j + 4]
  <2> DEFINE i == (j + 3) \div 4
             k == ((j + 3) % 4) + 1
  <2>1. i \in 1 .. 4 /\ k \in 1 .. 4 /\ 4 * i + k = j + 4
    OBVIOUS
  <2>2. Bytes(id.path)[j] = BigEndian(id.path[i])[k]
    BY DEF Bytes
  <2> HIDE DEF i, k
  <2>3. BigEndian(id.path[i])[k] = m[4 * i + k]
    BY <1>6, <2>1
  <2> QED BY <2>1, <2>2, <2>3
<1>8. Bytes(id.path) \in Seq(Byte) /\ Len(Bytes(id.path)) = 16
  BY <1>1, <1>7 DEF Bytes
<1>9. <<0, 0, id.switch, id.depth>> = <<m[1], m[2], m[3], m[4]>>
  BY <1>1, <1>3
<1> DEFINE header == <<m[1], m[2], m[3], m[4]>>
<1>10. header \in Seq(Byte) /\ Len(header) = 4 /\ \A j \in 1 .. 4 : header[j] = m[j]
  BY <1>1
<1> HIDE DEF header
<1>11. Encode(id) = header \o Bytes(id.path)
  BY <1>9 DEF Encode, header
<1>12. Encode(id) = m
  BY <1>1, <1>7, <1>8, <1>10, <1>11, HeaderAndPath
<1> QED BY <1>1, <1>5, <1>12 DEF Authored, id
-----------------------------------------------------------------------------
(* An entry has one proof at most, so everything is about the same one.    *)

LEMMA TheProof ==
  ASSUME Traced, NEW p \in wire.proof
  PROVE  /\ p \in Proof /\ p.message \in Seq(Byte) /\ p.value \in Nat
         /\ \A q \in wire.proof : q = p
<1>1. wire \in Entry /\ \A q \in wire.proof : q = p
  BY ListedAssumption DEF Traced
<1>2. p \in Proof
  BY <1>1 DEF Entry
<1> QED BY <1>1, <1>2 DEF Proof

LEMMA TracedHolds == Spec => []Traced
BY TracedInit, TracedNext, PTL DEF Spec

(* No garbled, empty or foreign message is ever served as an output,       *)
(* whatever the node lists.                                                *)
THEOREM ForgedNever == Spec => []NothingForged
<1>1. Traced => NothingForged
  <2> SUFFICES ASSUME Traced, NEW u \in served, NEW p \in wire.proof
               PROVE  Authored(p.message) /\ p.value > 0
    BY DEF NothingForged
  <2>1. /\ WellFormed(p.value, p.message)
        /\ p.message \in Seq(Byte) /\ p.value \in Nat
    BY TheProof DEF Traced
  <2>2. Authored(p.message)
    BY <2>1, WellFormedIsAuthored
  <2>3. p.value > 0
    BY <2>1 DEF WellFormed
  <2> QED BY <2>2, <2>3
<1> QED BY <1>1, TracedHolds, PTL
-----------------------------------------------------------------------------
(* What a wallet's proof builder writes is accepted. *)

LEMMA HeaderOfEncoded ==
  ASSUME NEW s, NEW d, NEW path
  PROVE  LET e == <<0, 0, s, d>> \o Bytes(path) IN e[1] = 0 /\ e[2] = 0
<1> DEFINE b == Bytes(path)
           header == <<0, 0, s, d>>
           S == {0, s, d} \cup {b[j] : j \in 1 .. 16}
<1>1. header \in Seq(S) /\ Len(header) = 4 /\ header[1] = 0 /\ header[2] = 0
  OBVIOUS
<1>2. DOMAIN b = 1 .. 16 /\ b = [j \in 1 .. 16 |-> b[j]]
  BY DEF Bytes
<1> HIDE DEF b
<1>3. \A j \in 1 .. 16 : b[j] \in S
  OBVIOUS
<1> HIDE DEF S, header
<1>4. b \in Seq(S) /\ Len(b) = 16
  BY <1>2, <1>3
<1>5. \A j \in 1 .. Len(header) + Len(b) :
        (header \o b)[j] = IF j <= Len(header) THEN header[j] ELSE b[j - Len(header)]
  BY <1>1, <1>4, Concatenated
<1>6. (header \o b)[1] = header[1] /\ (header \o b)[2] = header[2]
  <2> DEFINE whole == header \o b
  <2>1. \A j \in 1 .. Len(header) + Len(b) :
          whole[j] = IF j <= Len(header) THEN header[j] ELSE b[j - Len(header)]
    BY <1>5
  <2> HIDE DEF whole
  <2>2. whole[1] = header[1] /\ whole[2] = header[2]
    BY <1>1, <1>4, <2>1
  <2> QED BY <2>2 DEF whole
<1> QED BY <1>1, <1>6 DEF header, b

LEMMA AuthoredIsWellFormed ==
  ASSUME NEW m, NEW v, v # 0, Authored(m)
  PROVE  WellFormed(v, m)
<1>1. Len(m) = 20 /\ Decode(m) \in Identifier /\ Encode(Decode(m)) = m
  BY DEF Authored
<1>2. m[1] = 0 /\ m[2] = 0
  BY <1>1, HeaderOfEncoded DEF Encode
<1>3. m[3] \in 0 .. 1 /\ m[4] \in 1 .. 4
  BY <1>1 DEF Decode, Identifier
<1> QED BY <1>1, <1>2, <1>3 DEF WellFormed

LEMMA DroppedNext == Traced /\ NothingDropped /\ [Next]_vars => NothingDropped'
<1> SUFFICES ASSUME Traced, NothingDropped, [Next]_vars,
                    stage' = "skipped", NEW p \in wire'.proof,
                    ~ wire'.spent, wire'.block_height # {},
                    p.owner \in Watched, p.value > 0, Authored(p.message)
             PROVE  FALSE
  BY DEF NothingDropped
<1>1. CASE FromPrintable
  BY <1>1 DEF FromPrintable, Usable
<1>2. CASE NoMatch
  <2>1. wire' = wire /\ output = wire.proof /\ p \in output
    BY <1>2 DEF NoMatch, Traced
  <2>2. p.value \in Nat /\ p.value # 0
    BY <2>1, TheProof
  <2>3. WellFormed(p.value, p.message)
    BY <2>2, AuthoredIsWellFormed
  <2>4. rewind_output(p.owner, p) # {}
    BY <2>3 DEF rewind_output, parse_v3_message
  <2>5. Matches(p.owner) # {}
    BY <2>1, <2>4 DEF Matches
  <2> QED BY <1>2, <2>5 DEF NoMatch
<1>3. CASE StoreFirstMatch \/ InsertOutput \/ Serve
  BY <1>3 DEF StoreFirstMatch, InsertOutput, Serve
<1>4. CASE UNCHANGED vars
  BY <1>4 DEF vars, NothingDropped
<1> QED BY <1>1, <1>2, <1>3, <1>4 DEF Next

(* Whatever depth, switch, path and value a watched wallet used, its       *)
(* output is not dropped.                                                  *)
THEOREM DroppedNever == Spec => []NothingDropped
<1>1. Init => Traced /\ NothingDropped
  BY TracedInit DEF Init, NothingDropped
<1>2. (Traced /\ NothingDropped) /\ [Next]_vars => (Traced /\ NothingDropped)'
  BY TracedNext, DroppedNext
<1> QED BY <1>1, <1>2, PTL DEF Spec
-----------------------------------------------------------------------------
(* Induction on the digits of a number: every set of naturals has a least  *)
(* element.                                                                *)
LEMMA Least ==
  ASSUME NEW S \in SUBSET Nat, S # {}
  PROVE  \E m \in S : \A j \in S : m <= j
<1> DEFINE R == OpToRel(<, Nat)
<1>1. IsWellFoundedOn(R, Nat)
  BY NatLessThanWellFounded
<1>2. \A i, j \in Nat : i < j => <<i, j>> \in R
  BY DEF OpToRel
<1> HIDE DEF R
<1>3. PICK m \in S : \A j \in S : <<j, m>> \notin R
  BY <1>1, WFMin
<1>4. ASSUME NEW j \in S PROVE m <= j
  <2>1. m \in Nat /\ j \in Nat /\ ~ j < m
    BY <1>2, <1>3
  <2> QED BY <2>1
<1> QED BY <1>4

(* What 0 has and each number hands to the next, every number has.         *)
LEMMA Ascending ==
  ASSUME NEW S, 0 \in S, \A n \in Nat : n \in S => n + 1 \in S
  PROVE  Nat \subseteq S
<1> SUFFICES ASSUME NEW x \in Nat, x \notin S PROVE FALSE
  OBVIOUS
<1> DEFINE T == Nat \ S
<1>1. T \in SUBSET Nat /\ T # {}
  OBVIOUS
<1>2. PICK m \in T : \A j \in T : m <= j
  BY <1>1, Least
<1>3. m # 0 /\ m - 1 \in Nat /\ m - 1 \notin T
  BY <1>2
<1> QED BY <1>3
-----------------------------------------------------------------------------
(* u64::to_string is defined for every number, by its equation.            *)
DigitsOf(f, n) == IF n < 10 THEN <<n>> ELSE Append(f[n \div 10], n % 10)

LEMMA DecimalUnfolds == \A n \in Nat : Decimal[n] = DigitsOf(Decimal, n)
<1> DEFINE Upto(k) == {g \in [0 .. k -> Seq(0 .. 9)] :
                         \A n \in 0 .. k : g[n] = DigitsOf(g, n)}
           S == {k \in Nat : Upto(k) # {}}
<1>0. \A n \in Nat : n >= 10 => n \div 10 \in 0 .. n - 1 /\ n % 10 \in 0 .. 9
  OBVIOUS
<1>1. 0 \in S
  <2>1. [n \in 0 .. 0 |-> <<n>>] \in Upto(0)
    BY DEF DigitsOf
  <2> QED BY <2>1
<1>2. ASSUME NEW k \in Nat, k \in S PROVE k + 1 \in S
  <2>1. PICK g \in [0 .. k -> Seq(0 .. 9)] : \A n \in 0 .. k : g[n] = DigitsOf(g, n)
    BY <1>2
  <2> DEFINE h == [n \in 0 .. k + 1 |-> DigitsOf(g, n)]
  <2>2. \A n \in 0 .. k : h[n] = g[n]
    BY <2>1
  <2>3. ASSUME NEW n \in 0 .. k + 1 PROVE h[n] \in Seq(0 .. 9) /\ h[n] = DigitsOf(h, n)
    <3>1. CASE n < 10
      <4>1. <<n>> \in Seq(0 .. 9)
        BY <3>1
      <4> QED BY <3>1, <4>1 DEF DigitsOf
    <3>2. CASE n >= 10
      <4>1. n \div 10 \in 0 .. k /\ n % 10 \in 0 .. 9
        BY <1>0, <3>2
      <4>2. h[n] = Append(g[n \div 10], n % 10)
        BY <3>2 DEF DigitsOf
      <4>3. g[n \div 10] \in Seq(0 .. 9) /\ h[n \div 10] = g[n \div 10]
        BY <2>2, <4>1
      <4> HIDE DEF h
      <4>4. h[n] \in Seq(0 .. 9)
        BY <4>1, <4>2, <4>3
      <4> QED BY <3>2, <4>2, <4>3, <4>4 DEF DigitsOf
    <3> QED BY <3>1, <3>2
  <2>4. h \in [0 .. k + 1 -> Seq(0 .. 9)]
    BY <2>3
  <2>5. h \in Upto(k + 1)
    <3> HIDE DEF h
    <3> QED BY <2>3, <2>4
  <2> HIDE DEF Upto
  <2> QED BY <2>5
<1>3. Nat \subseteq S
  <2> HIDE DEF S
  <2> QED BY <1>1, <1>2, Ascending
<1>4. ASSUME NEW j \in Nat, NEW k \in Nat, NEW f \in Upto(j), NEW g \in Upto(k)
      PROVE  \A n \in 0 .. j : n <= k => f[n] = g[n]
  <2> DEFINE T == {n \in 0 .. j : n <= k /\ f[n] # g[n]}
  <2> SUFFICES ASSUME T # {} PROVE FALSE
    OBVIOUS
  <2>0. T \in SUBSET Nat
    OBVIOUS
  <2>1. PICK m \in T : \A i \in T : m <= i
    <3> HIDE DEF T
    <3> QED BY <2>0, Least
  <2>2. m \in Nat /\ m <= j /\ m <= k /\ f[m] = DigitsOf(f, m) /\ g[m] = DigitsOf(g, m)
    OBVIOUS
  <2>3. CASE m < 10
    BY <2>2, <2>3 DEF DigitsOf
  <2>4. CASE m >= 10
    <3>1. m \div 10 \in 0 .. j /\ m \div 10 <= k /\ m \div 10 \notin T
      BY <1>0, <2>1, <2>2, <2>4
    <3>2. f[m \div 10] = g[m \div 10]
      BY <3>1
    <3> QED BY <2>2, <2>4, <3>2 DEF DigitsOf
  <2> QED BY <2>2, <2>3, <2>4
<1>5. \E a : \A k \in Nat : a[k] \in Upto(k)
  <2> DEFINE a == [k \in Nat |-> CHOOSE g : g \in Upto(k)]
  <2>1. ASSUME NEW k \in Nat PROVE a[k] \in Upto(k)
    <3>1. \E g : g \in Upto(k)
      <4> HIDE DEF Upto
      <4> QED BY <1>3
    <3> HIDE DEF Upto
    <3> QED BY <3>1
  <2> HIDE DEF a
  <2> QED BY <2>1
<1>6. PICK a : \A k \in Nat : a[k] \in Upto(k)
  BY <1>5
<1> DEFINE F == [n \in Nat |-> a[n][n]]
<1>7. ASSUME NEW n \in Nat PROVE F[n] = DigitsOf(F, n)
  <2>1. n \in 0 .. n /\ a[n] \in Upto(n)
    BY <1>6
  <2>2. F[n] = DigitsOf(a[n], n)
    BY <2>1
  <2>3. CASE n < 10
    BY <2>2, <2>3 DEF DigitsOf
  <2>4. CASE n >= 10
    <3>1. n \div 10 \in Nat /\ n \div 10 \in 0 .. n
      BY <1>0, <2>4
    <3>2. a[n \div 10] \in Upto(n \div 10) /\ n \div 10 \in 0 .. n \div 10
      BY <1>6, <3>1
    <3> DEFINE q == n \div 10
    <3>3. F[q] = a[q][q]
      BY <3>1
    <3> HIDE DEF F
    <3>4. DigitsOf(a[n], n) = Append(a[n][q], n % 10) /\ DigitsOf(F, n) = Append(F[q], n % 10)
      BY <2>4 DEF DigitsOf
    <3> HIDE DEF Upto, q
    <3>5. a[n][q] = a[q][q]
      BY <1>4, <2>1, <3>1, <3>2 DEF q
    <3> QED BY <2>2, <3>3, <3>4, <3>5
  <2> QED BY <2>3, <2>4
<1>8. F = [n \in Nat |-> DigitsOf(F, n)]
  <2>1. F = [n \in Nat |-> F[n]]
    OBVIOUS
  <2> HIDE DEF F
  <2> QED BY <1>7, <2>1
<1> HIDE DEF F
<1>9. Decimal = CHOOSE f : f = [n \in Nat |-> DigitsOf(f, n)]
  BY DEF Decimal, DigitsOf
<1>10. Decimal = [n \in Nat |-> DigitsOf(Decimal, n)]
  BY <1>8, <1>9
<1>11. ASSUME NEW n \in Nat PROVE Decimal[n] = DigitsOf(Decimal, n)
  BY <1>10
<1> QED BY <1>11
-----------------------------------------------------------------------------
(* So is the sum that str::parse builds up, digit by digit.                *)
Reading(digits) ==
  CHOOSE read : read = [i \in 0 .. Len(digits) |->
                          IF i = 0 THEN 0 ELSE 10 * read[i - 1] + digits[i]]

LEMMA ReadingUnfolds ==
  ASSUME NEW digits \in Seq(Nat)
  PROVE  /\ \A i \in 0 .. Len(digits) : Reading(digits)[i] \in Nat
         /\ Reading(digits)[0] = 0
         /\ \A i \in 1 .. Len(digits) :
              Reading(digits)[i] = 10 * Reading(digits)[i - 1] + digits[i]
<1> DEFINE Value(r, i) == IF i = 0 THEN 0 ELSE 10 * r[i - 1] + digits[i]
           N == Len(digits)
           Upto(k) == {r \in [0 .. k -> Nat] : \A i \in 0 .. k : r[i] = Value(r, i)}
           S == {k \in Nat : k <= N => Upto(k) # {}}
<1>0. N \in Nat /\ \A i \in 1 .. N : digits[i] \in Nat
  BY ElementOfSeq
<1> HIDE DEF N
<1>1. 0 \in S
  <2> DEFINE r == [i \in 0 .. 0 |-> 0]
  <2>1. r \in [0 .. 0 -> Nat] /\ \A i \in 0 .. 0 : r[i] = Value(r, i)
    OBVIOUS
  <2> QED BY <2>1
<1>2. ASSUME NEW k \in Nat, k \in S PROVE k + 1 \in S
  <2> SUFFICES ASSUME k + 1 <= N PROVE Upto(k + 1) # {}
    <3> HIDE DEF Upto
    <3> QED OBVIOUS
  <2>0. Upto(k) # {}
    <3> HIDE DEF Upto
    <3> QED BY <1>0, <1>2
  <2>1. PICK r \in [0 .. k -> Nat] : \A i \in 0 .. k : r[i] = Value(r, i)
    BY <2>0
  <2> DEFINE t == [i \in 0 .. k + 1 |-> Value(r, i)]
  <2>2. \A i \in 0 .. k : t[i] = r[i]
    BY <2>1
  <2>3. ASSUME NEW i \in 0 .. k + 1 PROVE t[i] \in Nat /\ t[i] = Value(t, i)
    <3>1. t[i] = Value(r, i)
      OBVIOUS
    <3>2. CASE i = 0
      BY <3>1, <3>2
    <3>3. CASE i # 0
      <4>1. i - 1 \in 0 .. k /\ digits[i] \in Nat
        BY <1>0, <3>3
      <4>2. r[i - 1] \in Nat /\ t[i - 1] = r[i - 1]
        BY <2>2, <4>1
      <4> HIDE DEF t
      <4> QED BY <3>1, <3>3, <4>1, <4>2
    <3> QED BY <3>2, <3>3
  <2>4. t \in [0 .. k + 1 -> Nat]
    BY <2>3
  <2> HIDE DEF t
  <2> QED BY <2>3, <2>4
<1>3. Nat \subseteq S
  <2> HIDE DEF S
  <2> QED BY <1>1, <1>2, Ascending
<1>4. PICK r \in [0 .. N -> Nat] : \A i \in 0 .. N : r[i] = Value(r, i)
  <2>1. Upto(N) # {}
    <3> HIDE DEF Upto
    <3> QED BY <1>0, <1>3
  <2> QED BY <2>1
<1>5. r = [i \in 0 .. N |-> Value(r, i)]
  <2>1. r = [i \in 0 .. N |-> r[i]]
    OBVIOUS
  <2> QED BY <1>4, <2>1
<1>6. Reading(digits) = [i \in 0 .. N |-> Value(Reading(digits), i)]
  BY <1>5 DEF Reading, N
<1> DEFINE f == Reading(digits)
<1>7. \A i \in 0 .. N : f[i] = Value(f, i)
  BY <1>6
<1> HIDE DEF f
<1>8. \A i \in 0 .. N : f[i] \in Nat
  <2> DEFINE T == {k \in Nat : k <= N => f[k] \in Nat}
  <2>1. 0 \in T
    BY <1>0, <1>7
  <2>2. ASSUME NEW k \in Nat, k \in T PROVE k + 1 \in T
    <3> SUFFICES ASSUME k + 1 <= N PROVE f[k + 1] \in Nat
      OBVIOUS
    <3>1. f[k] \in Nat /\ k + 1 \in 0 .. N /\ digits[k + 1] \in Nat
      BY <1>0, <2>2
    <3>2. f[k + 1] = 10 * f[k] + digits[k + 1]
      BY <1>7, <3>1
    <3> QED BY <3>1, <3>2
  <2>3. Nat \subseteq T
    <3> HIDE DEF T
    <3> QED BY <2>1, <2>2, Ascending
  <2> QED BY <1>0, <2>3
<1>9. f[0] = 0 /\ \A i \in 1 .. N : f[i] = 10 * f[i - 1] + digits[i]
  BY <1>0, <1>7
<1> QED BY <1>8, <1>9 DEF f, N

(* One more digit. *)
LEMMA ParseAppend ==
  ASSUME NEW s \in Seq(Nat), NEW d \in Nat
  PROVE  /\ ParseDecimal(s) \in Nat
         /\ ParseDecimal(Append(s, d)) = 10 * ParseDecimal(s) + d
<1> DEFINE t == Append(s, d)
           f == Reading(s)
           g == Reading(t)
           N == Len(s)
           S == {k \in Nat : k <= N => g[k] = f[k]}
<1>1. t \in Seq(Nat) /\ Len(t) = N + 1 /\ t[N + 1] = d /\ \A i \in 1 .. N : t[i] = s[i]
  BY AppendProperties
<1>2. ParseDecimal(s) = f[N] /\ ParseDecimal(t) = g[N + 1]
  BY <1>1 DEF ParseDecimal, Reading
<1>3. N \in Nat
  OBVIOUS
<1> HIDE DEF t, N
<1>4. /\ f[0] = 0 /\ \A i \in 0 .. N : f[i] \in Nat
      /\ \A i \in 1 .. N : f[i] = 10 * f[i - 1] + s[i]
  BY ReadingUnfolds DEF N
<1>5. g[0] = 0 /\ \A i \in 1 .. N + 1 : g[i] = 10 * g[i - 1] + t[i]
  BY <1>1, ReadingUnfolds
<1> HIDE DEF f, g
<1>6. 0 \in S
  BY <1>4, <1>5
<1>7. ASSUME NEW k \in Nat, k \in S PROVE k + 1 \in S
  <2> SUFFICES ASSUME k + 1 <= N PROVE g[k + 1] = f[k + 1]
    OBVIOUS
  <2>1. k + 1 \in 1 .. N /\ k + 1 \in 1 .. N + 1 /\ (k + 1) - 1 = k /\ g[k] = f[k]
    BY <1>3, <1>7
  <2> QED BY <1>1, <1>4, <1>5, <2>1
<1>8. Nat \subseteq S
  <2> HIDE DEF S
  <2> QED BY <1>6, <1>7, Ascending
<1>9. g[N] = f[N] /\ f[N] \in Nat
  BY <1>3, <1>4, <1>8
<1>10. g[N + 1] = 10 * g[N] + d
  BY <1>1, <1>3, <1>5
<1> QED BY <1>2, <1>9, <1>10 DEF t

LEMMA ParseEmpty == ParseDecimal(<<>>) = 0
<1>1. <<>> \in Seq(Nat) /\ Len(<<>>) = 0
  OBVIOUS
<1>2. ParseDecimal(<<>>) = Reading(<<>>)[0]
  BY <1>1 DEF ParseDecimal, Reading
<1> QED BY <1>1, <1>2, ReadingUnfolds

(* A number written out is read back as itself.                            *)
LEMMA DecimalReadsBack ==
  ASSUME NEW n \in Nat
  PROVE  Decimal[n] \in Seq(Nat) /\ ParseDecimal(Decimal[n]) = n
<1> DEFINE T == {k \in Nat : ~ (Decimal[k] \in Seq(Nat) /\ ParseDecimal(Decimal[k]) = k)}
<1> SUFFICES ASSUME T # {} PROVE FALSE
  OBVIOUS
<1>1. T \in SUBSET Nat
  OBVIOUS
<1>2. PICK m \in T : \A k \in T : m <= k
  <2> HIDE DEF T
  <2> QED BY <1>1, Least
<1>3. m \in Nat /\ Decimal[m] = DigitsOf(Decimal, m)
  BY DecimalUnfolds
<1>4. CASE m < 10
  <2>1. Decimal[m] = Append(<<>>, m) /\ <<>> \in Seq(Nat)
    BY <1>3, <1>4 DEF DigitsOf
  <2>2. ParseDecimal(Decimal[m]) = 10 * ParseDecimal(<<>>) + m
    BY <1>3, <2>1, ParseAppend
  <2>3. Decimal[m] \in Seq(Nat) /\ ParseDecimal(Decimal[m]) = m
    BY <1>3, <2>1, <2>2, ParseEmpty
  <2> QED BY <2>3
<1>5. CASE m >= 10
  <2> DEFINE q == m \div 10
             d == m % 10
  <2>1. q \in Nat /\ q < m /\ d \in Nat /\ m = 10 * q + d
    BY <1>3, <1>5
  <2>2. Decimal[m] = Append(Decimal[q], d)
    BY <1>3, <1>5 DEF DigitsOf
  <2> HIDE DEF q, d
  <2>3. q \notin T
    <3> HIDE DEF T
    <3> QED BY <1>2, <1>3, <2>1
  <2>4. Decimal[q] \in Seq(Nat) /\ ParseDecimal(Decimal[q]) = q
    BY <2>1, <2>3
  <2>5. Decimal[m] \in Seq(Nat)
    BY <2>1, <2>2, <2>4
  <2>6. ParseDecimal(Decimal[m]) = m
    BY <2>1, <2>2, <2>4, ParseAppend
  <2> QED BY <2>5, <2>6
<1> QED BY <1>3, <1>4, <1>5

LEMMA HeadAndRest ==
  ASSUME NEW S, NEW d \in S, NEW s \in Seq(S)
  PROVE  (<<d>> \o s)[1] = d /\ Tail(<<d>> \o s) = s
<1> DEFINE h == <<d>>
           w == h \o s
           t == Tail(w)
<1>1. h \in Seq(S) /\ Len(h) = 1 /\ h[1] = d
  OBVIOUS
<1> HIDE DEF h
<1>2. w \in Seq(S) /\ Len(w) = 1 + Len(s)
  BY <1>1, ConcatProperties
<1>3. \A j \in 1 .. 1 + Len(s) : w[j] = IF j <= 1 THEN h[j] ELSE s[j - 1]
  BY <1>1, Concatenated
<1> HIDE DEF w
<1>4. w[1] = d
  BY <1>1, <1>3
<1>5. t \in Seq(S) /\ Len(t) = Len(s) /\ \A i \in 1 .. Len(s) : t[i] = w[i + 1]
  BY <1>2, HeadTailProperties
<1>6. \A i \in 1 .. Len(s) : t[i] = s[i]
  <2> TAKE i \in 1 .. Len(s)
  <2>1. i + 1 \in 1 .. 1 + Len(s) /\ ~ i + 1 <= 1 /\ (i + 1) - 1 = i
    OBVIOUS
  <2> QED BY <1>3, <1>5, <2>1
<1> HIDE DEF t
<1>7. t = s
  BY <1>5, <1>6, SeqEqual
<1> QED BY <1>4, <1>7 DEF t, w, h

(* A child index below SignBit comes back from the i32 column unchanged.   *)
LEMMA ChildReadsBack ==
  ASSUME Traced, NEW u \in served, NEW p \in wire.proof,
         LET id == Decode(p.message) IN id.path[id.depth] < SignBit
  PROVE  LET id == Decode(p.message) IN u.n_child = id.path[id.depth]
<1> DEFINE m == p.message
           child == from_be_bytes(Chunk(SubSeq(m, 5, 20), m[4]))
<1>1. /\ WellFormed(p.value, m) /\ m \in Seq(Byte)
      /\ u = ServedFrom(StoredRow(Parsed(p.value, m)))
  BY TheProof DEF Traced
<1>2. Len(m) = 20 /\ m[4] \in 1 .. 4
  BY <1>1 DEF WellFormed
<1>3. child \in Index
  BY <1>1, <1>2, ChunkOf
<1>4. Decode(m).depth = m[4] /\ Decode(m).path[m[4]] = child
  BY <1>2 DEF Decode
<1>5. u.n_child = AtLeastZero(as_i32(child))
  BY <1>1 DEF ServedFrom, StoredRow, Parsed
<1>6. child < SignBit
  BY <1>4
<1> HIDE DEF child
<1>7. AtLeastZero(as_i32(child)) = child
  BY <1>3, <1>6, WidthAssumption DEF AtLeastZero, as_i32, Index
<1> QED BY <1>4, <1>5, <1>7

(* The value of a stored row is the proof's, whatever its size; key_id is  *)
(* the depth and the path of the message, byte for byte, and n_child the   *)
(* path's last counted element whenever an i32 holds it.                   *)
THEOREM KeyHolds == Spec => []KeyIsTheWallets
<1>1. Traced => KeyIsTheWallets
  <2> SUFFICES ASSUME Traced, NEW u \in served, NEW p \in wire.proof
               PROVE  LET id == Decode(p.message)
                      IN  /\ u.value = p.value
                          /\ u.key_id[1] = id.depth
                          /\ \A i \in 1 .. 4 :
                               from_be_bytes(Chunk(Tail(u.key_id), i)) = id.path[i]
                          /\ id.path[id.depth] < SignBit => u.n_child = id.path[id.depth]
    BY DEF KeyIsTheWallets
  <2> DEFINE m == p.message
             path == SubSeq(m, 5, 20)
  <2>1. /\ WellFormed(p.value, m) /\ m \in Seq(Byte) /\ p.value \in Nat
        /\ u = ServedFrom(StoredRow(Parsed(p.value, m)))
    BY TheProof DEF Traced
  <2>2. Len(m) = 20 /\ m[4] \in Byte
    BY <2>1, ElementOfSeq DEF WellFormed
  <2>3. u.value = ParseDecimal(Decimal[p.value]) /\ u.key_id = <<m[4]>> \o path
    BY <2>1 DEF ServedFrom, StoredRow, Parsed
  <2>4. u.value = p.value
    BY <2>1, <2>3, DecimalReadsBack
  <2>5. path \in Seq(Byte)
    <3>1. \A i \in 1 .. 4 : SubSeq(m, 5, 20) \in Seq(Byte)
      BY <2>1, <2>2, ChunkOf
    <3>2. 1 \in 1 .. 4
      OBVIOUS
    <3> QED BY <3>1, <3>2
  <2>6. Decode(m).depth = m[4]
        /\ \A i \in 1 .. 4 : Decode(m).path[i] = from_be_bytes(Chunk(path, i))
    BY DEF Decode
  <2> HIDE DEF path, m
  <2>7. u.key_id[1] = m[4] /\ Tail(u.key_id) = path
    BY <2>2, <2>3, <2>5, HeadAndRest
  <2>8. LET id == Decode(p.message)
        IN  id.path[id.depth] < SignBit => u.n_child = id.path[id.depth]
    BY ChildReadsBack
  <2> QED BY <2>4, <2>6, <2>7, <2>8 DEF m
<1> QED BY <1>1, TracedHolds, PTL
=============================================================================
