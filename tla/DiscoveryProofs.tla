-------------------------- MODULE DiscoveryProofs ---------------------------
(***************************************************************************)
(* Nothing is missed: the scanner's main promise, proved for every block   *)
(* tree, page size and depth, under all of the environment assumptions and *)
(* for chains that create a commitment once.                               *)
(***************************************************************************)
EXTENDS RowsProofs, FiniteSetTheorems

Stored(o) == o.commit \in DOMAIN outputs

(* A live output of account a, born after its birthday; and whether some   *)
(* chain with the checkpoint created it.                                   *)
Own(o, a) == /\ o \in Utxo[head]
             /\ Owner[o.commit] = a
             /\ accounts[a].start < o.height
OnKept(o) == \E d \in Kept : o \in Created[d]

(* The account's scan height or, once it is caught up, the cursor claims   *)
(* to have passed the output.                                              *)
Due(o, a) == \/ o.height < accounts[a].scan
             \/ accounts[a].scan >= cursor.height /\ o.idx <= cursor.index

(* Deleted by the rollback, with the accounts still to be clamped. *)
Cut(o) == pc = "clamp" /\ o.height > Fork

AllStored(S) == \A a \in S : \A o \in Utxo[head] : Own(o, a) => Stored(o)
StoredBelow(S, i) ==
  \A a \in S : \A o \in Utxo[head] :
    Own(o, a) /\ o.idx < i => Stored(o) \/ o \in batch

(* Discovered is not inductive.  An account that has fallen behind may be  *)
(* taken for caught up again once a rollback lowers the checkpoint to its  *)
(* scan height, so what it has must be known below its scan height too;    *)
(* and the node may leave the checkpoint's chain and come back.            *)
OwedOK ==
  \A a \in DOMAIN accounts : \A o \in Utxo[head] :
    (Own(o, a) /\ OnKept(o) /\ Due(o, a) /\ ~ Cut(o)) => Stored(o)

(* The cursor's index does not pass its block. *)
CursorOK ==
  /\ Fresh => cursor.index = 0
  /\ \A d \in Kept : cursor.index <= Header[d][cursor.height].mmr

(* Within a tick: the pages read so far are stored or being stored.        *)
PagesOK ==
  /\ pc = "forward" => /\ StoredBelow(caughtUp, next)
                       /\ highest <= HighestIndex(head)
                       /\ ~ more => /\ next > HighestIndex(head)
                                    /\ highest = HighestIndex(head)
  /\ pc \in {"reconcile", "advance"} => AllStored(caughtUp)
  /\ pc \in {"reconcile", "advance", "backfill"} => highest = HighestIndex(head)
  /\ pc \in {"forward", "reconcile"} =>
       \A a \in DOMAIN accounts \ caughtUp :
         \/ accounts[a].scan < cursor.height
         \/ accounts[a].scan <= accounts[a].start
  /\ pc = "backfill" => /\ StoredBelow(behind, next)
                        /\ ~ more => next > HighestIndex(head)
  /\ pc = "reset" => next = StartIndex(head, Fork)

BaseInv == HistoryInv /\ CustodyInv /\ ProgressInv
DiscoveryInv == BaseInv /\ OwedOK /\ CursorOK /\ PagesOK
-----------------------------------------------------------------------------
(* Indexes, heights and pages.                                             *)

LEMMA Indexes ==
  ASSUME NEW c \in Chain, NEW o \in Created[c], NEW h \in 0 .. Tip[c]
  PROVE  /\ o.idx \in Nat /\ 1 <= o.idx
         /\ o.idx <= Header[c][h].mmr => o.height <= h
         /\ o.height <= h => o.idx <= Header[c][h].mmr
<1>1. /\ Tip[c] \in Nat /\ o.idx \in Nat
      /\ o.height \in 1 .. Tip[c]
      /\ \A g \in 0 .. Tip[c] : Header[c][g].mmr \in Nat
  BY TipOfType, PageType, InsertionOrder DEF Output
<1>2. Header[c][o.height - 1].mmr < o.idx /\ o.idx <= Header[c][o.height].mmr
  BY InsertionOrder
<1>3. o.height <= h => Header[c][o.height].mmr <= Header[c][h].mmr
  BY <1>1, InsertionOrder
<1>4. h <= o.height - 1 => Header[c][h].mmr <= Header[c][o.height - 1].mmr
  BY <1>1, InsertionOrder
<1>5. /\ Header[c][o.height - 1].mmr \in Nat
      /\ Header[c][o.height].mmr \in Nat
      /\ Header[c][h].mmr \in Nat
  BY <1>1
<1> QED BY <1>1, <1>2, <1>3, <1>4, <1>5

LEMMA AllListed ==
  ASSUME NEW c \in Chain, NEW o \in Utxo[c]
  PROVE  o \in Created[c] /\ o.idx \in Nat /\ o.idx <= HighestIndex(c)
BY TipOfType, PageType, CreatedHeight, Indexes DEF HighestIndex

(* A page leaves out no live output up to the index it reports, and one    *)
(* that asks for no other page has reached the end.                        *)
LEMMA PageCovers ==
  ASSUME NEW c \in Chain, NEW s \in Nat, NEW e \in Nat, s >= 1,
         NEW last \in LastRetrieved(c, s, e)
  PROVE  /\ last \in Nat
         /\ \A o \in Utxo[c] : s <= o.idx /\ o.idx <= last => o \in Page(c, s, e)
         /\ ~ (s <= last /\ last < e) => last >= e
<1> DEFINE L == Live(c, s, e)
           Upto(i) == {p \in L : p.idx <= i}
<1>1. IsFiniteSet(L) /\ \A o \in L : o.idx \in Nat /\ s <= o.idx /\ o.idx <= e
  BY ChainAssumption, FS_Subset, AllListed DEF Live
<1>2. \A i : IsFiniteSet(Upto(i)) /\ Cardinality(Upto(i)) <= Cardinality(L)
  BY <1>1, FS_Subset
<1>3. Page(c, s, e) = {o \in L : Cardinality(Upto(o.idx)) <= PageMax}
  BY DEF Page
<1>4. CASE Cardinality(L) >= PageMax
  <2>1. PICK q \in Page(c, s, e) : q.idx = last
    BY <1>4 DEF LastRetrieved
  <2>2. q \in L /\ last \in Nat /\ s <= last /\ last <= e
    BY <1>1, <1>3, <2>1
  <2>3. ASSUME NEW o \in Utxo[c], s <= o.idx, o.idx <= last
        PROVE  o \in Page(c, s, e)
    <3>1. o \in L /\ o.idx \in Nat
      BY <2>2, <2>3, AllListed DEF Live
    <3>2. Upto(o.idx) \subseteq Upto(q.idx)
      BY <1>1, <2>1, <2>2, <2>3, <3>1
    <3>3. Cardinality(Upto(o.idx)) <= Cardinality(Upto(q.idx))
      BY <1>2, <3>2, FS_Subset
    <3>4. Cardinality(Upto(q.idx)) <= PageMax
      BY <1>3
    <3>5. /\ Cardinality(Upto(o.idx)) \in Nat /\ Cardinality(Upto(q.idx)) \in Nat
          /\ PageMax \in Nat
      BY <1>2, FS_CardinalityType, PagingAssumption
    <3>6. Cardinality(Upto(o.idx)) <= PageMax
      BY <3>3, <3>4, <3>5
    <3> QED BY <1>3, <3>1, <3>6
  <2> QED BY <2>2, <2>3
<1>5. CASE ~ Cardinality(L) >= PageMax
  <2>1. last = IF s <= e THEN e ELSE s - 1
    BY <1>5 DEF LastRetrieved
  <2>2. ASSUME NEW o \in Utxo[c], s <= o.idx, o.idx <= last
        PROVE  o \in Page(c, s, e)
    <3>1. o \in L
      BY <2>1, <2>2, AllListed DEF Live
    <3>2. /\ Cardinality(Upto(o.idx)) <= Cardinality(L)
          /\ Cardinality(Upto(o.idx)) \in Nat /\ Cardinality(L) \in Nat /\ PageMax \in Nat
      BY <1>1, <1>2, FS_CardinalityType, PagingAssumption
    <3>3. Cardinality(Upto(o.idx)) <= PageMax
      BY <1>5, <3>2
    <3> QED BY <1>3, <3>1, <3>3
  <2> QED BY <2>1, <2>2
<1> QED BY <1>4, <1>5
-----------------------------------------------------------------------------
(* What the invariant says of an output that is due.                       *)

LEMMA BaseTypes ==
  ASSUME BaseInv
  PROVE  /\ TypeInv /\ head \in Chain /\ Tip[head] \in Nat
         /\ \A a \in DOMAIN accounts : accounts[a].start \in Nat /\ accounts[a].scan \in Nat
         /\ cursor.height \in Nat /\ cursor.index \in Nat
         /\ next \in Nat /\ highest \in Nat /\ HighestIndex(head) \in Nat
         /\ Fork \in Nat
         /\ caughtUp \subseteq DOMAIN accounts /\ behind \subseteq DOMAIN accounts
BY TipOfType, BelowType
   DEF BaseInv, ProgressInv, TypeInv, TypeOK, AccountRow, Checkpoint, Fork

LEMMA FreshKept == ASSUME BaseInv, Fresh PROVE Kept = {}
BY BaseTypes, ScannerAssumption, TipOfType DEF Fresh, Kept, Contains

LEMMA DueMeans ==
  ASSUME BaseInv, CursorOK, NEW a \in DOMAIN accounts, NEW d \in Kept,
         NEW o \in Created[d], accounts[a].start < o.height, Due(o, a)
  PROVE  /\ o.height \in Nat /\ o.height <= cursor.height
         /\ accounts[a].start < accounts[a].scan
         /\ accounts[a].scan <= cursor.height
<1>1. d \in Chain /\ cursor.height \in 0 .. Tip[d]
  BY BaseTypes, TipOfType DEF Kept, Contains
<1>2. o.height \in Nat /\ o.idx \in Nat /\ Header[d][cursor.height].mmr \in Nat
  BY <1>1, CreatedHeight, Indexes, TipOfType
<1>3. cursor.index <= Header[d][cursor.height].mmr
  BY DEF CursorOK
<1>4. o.idx <= cursor.index => o.height <= cursor.height
  BY <1>1, <1>2, <1>3, Indexes, BaseTypes
<1>5. accounts[a].scan <= cursor.height \/ accounts[a].scan <= accounts[a].start
  BY DEF BaseInv, ProgressInv, Within
<1> QED BY <1>2, <1>4, <1>5, BaseTypes DEF Due

(* The row of a live output that the checkpoint's chain created is that    *)
(* output's, and not of another one with its commitment.                   *)
LEMMA OwnRow ==
  ASSUME BaseInv, CommitsAreUnique, NEW o \in Utxo[head], OnKept(o), Stored(o)
  PROVE  outputs[o.commit].height = o.height
<1> DEFINE row == outputs[o.commit]
           p == [commit |-> o.commit, height |-> row.height, idx |-> row.idx]
<1>1. ~ Fresh
  BY FreshKept DEF OnKept
<1>2. PICK d \in Chain : o \in Created[d] /\ p \in Created[d]
  <2>1. CASE OnChain
    <3>1. RowsOn(head) /\ o \in Created[head] /\ head \in Chain
      BY <2>1, BaseTypes, PageType DEF BaseInv, HistoryInv, HistoryOK
    <3> QED BY <3>1 DEF RowsOn, RowOn, Stored
  <2>2. CASE ~ OnChain
    <3>1. PICK d \in Kept : o \in Created[d]
      BY DEF OnKept
    <3>2. RowsOn(d) /\ d \in Chain
      BY <1>1, <2>2 DEF BaseInv, HistoryInv, HistoryOK, Kept
    <3> QED BY <3>1, <3>2 DEF RowsOn, RowOn, Stored
  <2> QED BY <2>1, <2>2
<1>3. p.commit = o.commit
  OBVIOUS
<1>4. p = o
  BY <1>2, <1>3 DEF CommitsAreUnique
<1> QED BY <1>4
-----------------------------------------------------------------------------
(* Steps that keep what is owed.                                           *)

(* Rows may come, none goes; accounts may come, none changes. *)
LEMMA OwedSame ==
  ASSUME OwedOK, UNCHANGED <<head, cursor>>,
         DOMAIN outputs \subseteq DOMAIN outputs',
         DOMAIN accounts' = DOMAIN accounts,
         \A a \in DOMAIN accounts : accounts'[a] = accounts[a],
         pc' = "clamp" => pc = "clamp" /\ UNCHANGED tip,
         pc = "clamp" => pc' = "clamp"
  PROVE  OwedOK'
<1> SUFFICES ASSUME NEW a \in DOMAIN accounts, NEW o \in Utxo[head],
                    Own(o, a)', OnKept(o)', Due(o, a)', ~ Cut(o)'
             PROVE  Stored(o)'
  BY DEF OwedOK
<1>1. Own(o, a) /\ OnKept(o) /\ Due(o, a)
  BY DEF Own, OnKept, Kept, Due
<1>2. ~ Cut(o)
  BY DEF Cut, Fork
<1>3. Stored(o)
  BY <1>1, <1>2 DEF OwedOK
<1> QED BY <1>3 DEF Stored

LEMMA CursorSame == CursorOK /\ UNCHANGED cursor => CursorOK'
BY DEF CursorOK, Fresh, Kept

(* The account's scan height reaches the checkpoint, all of it stored. *)
LEMMA OwedAdvance ==
  ASSUME BaseInv, OwedOK, NEW a \in DOMAIN accounts, AllStored({a}),
         set_account_scan_height(a, cursor.height), UNCHANGED head,
         pc # "clamp", pc' # "clamp"
  PROVE  OwedOK'
<1>1. /\ UNCHANGED <<head, cursor, outputs>> /\ DOMAIN accounts' = DOMAIN accounts
      /\ accounts'[a] = [accounts[a] EXCEPT !.scan = cursor.height]
      /\ \A b \in DOMAIN accounts : b # a => accounts'[b] = accounts[b]
  BY DEF set_account_scan_height
<1>2. accounts[a] \in AccountRow
  BY BaseTypes DEF TypeInv, TypeOK
<1>3. accounts'[a].start = accounts[a].start
  BY <1>1, <1>2 DEF AccountRow
<1> SUFFICES ASSUME NEW b \in DOMAIN accounts, NEW o \in Utxo[head],
                    Own(o, b)', OnKept(o)', Due(o, b)'
             PROVE  Stored(o)
  BY <1>1 DEF OwedOK, Stored
<1>4. Own(o, b) /\ OnKept(o)
  BY <1>1, <1>3 DEF Own, OnKept, Kept
<1>5. CASE b = a
  BY <1>4, <1>5 DEF AllStored
<1>6. CASE b # a
  BY <1>1, <1>4, <1>6 DEF OwedOK, Due, Cut
<1> QED BY <1>5, <1>6

LEMMA OwedRollback ==
  ASSUME DiscoveryInv, CommitsAreUnique, ReorgRollback
  PROVE  OwedOK'
<1>1. /\ UNCHANGED <<head, cursor, accounts, tip>> /\ pc = "rollback"
      /\ DOMAIN outputs' = {k \in DOMAIN outputs : outputs[k].height <= Fork}
  BY DEF ReorgRollback, rollback_to, tickVars
<1> SUFFICES ASSUME NEW a \in DOMAIN accounts, NEW o \in Utxo[head],
                    Own(o, a)', OnKept(o)', Due(o, a)', ~ Cut(o)'
             PROVE  o.commit \in DOMAIN outputs'
  BY <1>1 DEF OwedOK, Stored
<1>2. Own(o, a) /\ OnKept(o) /\ Due(o, a) /\ ~ Cut(o)
  BY <1>1 DEF Own, OnKept, Kept, Due, Cut
<1>3. Stored(o) /\ outputs[o.commit].height = o.height
  BY <1>2, OwnRow DEF DiscoveryInv, OwedOK
<1>4. o.height <= Fork
  <2>1. ~ (o.height > Fork)
    BY <1>1 DEF Cut, Fork, ReorgRollback
  <2>2. o.height \in Nat /\ Fork \in Nat
    BY BaseTypes, CreatedHeight, PageType DEF DiscoveryInv
  <2> QED BY <2>1, <2>2
<1> QED BY <1>1, <1>3, <1>4 DEF Stored

(* handle_reorg's fork lies below the checkpoint it replaces, on all of    *)
(* its chains.                                                             *)
LEMMA ForkBelow ==
  ASSUME BaseInv, pc \in {"rollback", "clamp", "seek", "reset"}
  PROVE  /\ Kept # {} /\ ~ Fresh
         /\ Fork < cursor.height /\ Fork \in 0 .. Tip[head]
         /\ \A d \in Kept : Contains(d, Fork, Header[head][Fork].hash)
<1> USE DEF BaseInv, HistoryInv, HistoryOK, CourseInv, CourseOK
<1>1. ~ OnCourse /\ tip = TipOf(head)
  OBVIOUS
<1>2. ~ OnChain /\ ~ Fresh /\ Kept # {} /\ ForkIsCommon
  BY <1>1 DEF OnCourse
<1>3. Fork = Below(Tip[head]) /\ Fork \in 0 .. Tip[head]
  <2>1. Fork = Below(Tip[head])
    BY <1>1 DEF Fork, TipOf
  <2>2. Tip[head] \in Nat
    BY BaseTypes, Zenon
  <2>3. Below(Tip[head]) \in Nat /\ Below(Tip[head]) <= Tip[head]
    BY <2>2, BelowType, Zenon
  <2> QED BY <2>1, <2>2, <2>3
<1>4. /\ Fork <= cursor.height
      /\ \A d \in Kept : Contains(d, Fork, Header[head][Fork].hash)
  BY <1>2, <1>3 DEF ForkIsCommon
<1>5. Fork # cursor.height
  <2>1. PICK d \in Kept : TRUE
    BY <1>2
  <2>2. SUFFICES ASSUME Fork = cursor.height PROVE Contains(head, cursor.height, cursor.hash)
    BY <1>2 DEF OnChain
  <2>3. Header[head][Fork].hash = cursor.hash
    BY <1>4, <2>1, <2>2 DEF Contains, Kept
  <2> QED BY <1>3, <2>2, <2>3, BaseTypes DEF Contains
<1> QED BY <1>2, <1>3, <1>4, <1>5, BaseTypes

LEMMA OwedClamp ==
  ASSUME DiscoveryInv, ReorgClamp
  PROVE  OwedOK'
<1>1. /\ UNCHANGED <<head, cursor, outputs, tip>> /\ pc = "clamp" /\ pc' = "seek"
      /\ DOMAIN accounts' = DOMAIN accounts
      /\ \A a \in DOMAIN accounts : accounts'[a] = Lowered(accounts[a], Fork)
  BY DEF ReorgClamp, clamp_account_scan_heights, tickVars
<1>2. /\ Fork \in Nat /\ Fork < cursor.height /\ cursor.height \in Nat
  BY <1>1, ForkBelow, BaseTypes DEF DiscoveryInv
<1> SUFFICES ASSUME NEW a \in DOMAIN accounts, NEW o \in Utxo[head],
                    Own(o, a)', OnKept(o)', Due(o, a)'
             PROVE  Stored(o)
  BY <1>1 DEF OwedOK, Stored
<1>3. accounts[a] \in AccountRow /\ accounts[a].scan \in Nat
  BY BaseTypes DEF DiscoveryInv, TypeInv, TypeOK
<1>4. /\ accounts'[a].start = accounts[a].start
      /\ accounts'[a].scan <= accounts[a].scan /\ accounts'[a].scan <= Fork
      /\ accounts'[a].scan \in Nat
  BY <1>1, <1>2, <1>3 DEF Lowered, AccountRow
<1>5. o.height \in Nat
  BY BaseTypes, CreatedHeight, PageType DEF DiscoveryInv
<1>6. o.height < accounts'[a].scan
  BY <1>1, <1>2, <1>4 DEF Due
<1>7. Own(o, a) /\ OnKept(o) /\ Due(o, a) /\ ~ Cut(o)
  BY <1>1, <1>2, <1>3, <1>4, <1>5, <1>6 DEF Own, OnKept, Kept, Due, Cut
<1> QED BY <1>7 DEF DiscoveryInv, OwedOK

LEMMA ResetStores ==
  ASSUME DiscoveryInv, ReorgReset
  PROVE  OwedOK' /\ CursorOK'
<1> USE DEF DiscoveryInv
<1>1. /\ UNCHANGED <<head, outputs, accounts>> /\ pc = "reset" /\ pc' = "sleep"
      /\ cursor' = [index |-> next - 1, height |-> Fork, hash |-> Header[head][Fork].hash]
      /\ next = StartIndex(head, Fork)
  BY DEF ReorgReset, set_cursor, Sleep, PagesOK
<1>2. /\ head \in Chain /\ Fork \in 0 .. Tip[head] /\ Kept # {} /\ Fork \in Nat
      /\ \A d \in Kept : Contains(d, Fork, Header[head][Fork].hash)
  BY <1>1, ForkBelow, BaseTypes
<1>3. Contains(head, Fork, Header[head][Fork].hash)
  BY <1>2, BaseTypes DEF Contains
<1>4. /\ cursor'.height = Fork /\ cursor'.hash = Header[head][Fork].hash
      /\ cursor'.index = IF Fork = 0 THEN 0 ELSE Header[head][Fork - 1].mmr
      /\ cursor'.index <= Header[head][Fork].mmr
  <2>1. CASE Fork = 0
    BY <1>1, <1>2, <2>1, TipOfType DEF StartIndex
  <2>2. CASE Fork # 0
    <3>1. Fork - 1 \in 0 .. Tip[head] /\ Header[head][Fork - 1].mmr \in Nat
      BY <1>2, <2>2, BaseTypes, TipOfType
    <3>2. Header[head][Fork - 1].mmr <= Header[head][Fork].mmr
      BY <1>2, <3>1, InsertionOrder, BaseTypes
    <3> QED BY <1>1, <2>2, <3>1, <3>2 DEF StartIndex
  <2> QED BY <2>1, <2>2
<1>5. CursorOK'
  <2>1. ~ Fresh'
    BY <1>2, <1>4, TipOfType, ScannerAssumption DEF Fresh
  <2>2. ASSUME NEW d \in Kept'
        PROVE  cursor'.index <= Header[d][cursor'.height].mmr
    <3>1. d \in Chain /\ Contains(d, Fork, Header[head][Fork].hash)
      BY <1>4, <2>2 DEF Kept
    <3>2. Header[head][Fork] = Header[d][Fork]
      BY <1>2, <1>3, <3>1, SharedBlock
    <3> QED BY <1>4, <3>2
  <2> QED BY <2>1, <2>2 DEF CursorOK
<1>6. ASSUME NEW a \in DOMAIN accounts, NEW o \in Utxo[head],
             Own(o, a)', Due(o, a)'
      PROVE  Stored(o)
  <2>1. Own(o, a) /\ o \in Created[head] /\ o.height \in Nat /\ 1 <= o.height
        /\ o.idx \in Nat /\ 1 <= o.idx
    BY <1>1, <1>2, <1>6, PageType, CreatedHeight, Indexes DEF Own
  <2>2. accounts[a].scan \in Nat /\ accounts[a].start \in Nat
    BY BaseTypes
  <2>3. o.height < accounts[a].scan
    <3>1. CASE o.height < accounts'[a].scan
      BY <1>1, <3>1
    <3>2. CASE accounts'[a].scan >= Fork /\ o.idx <= cursor'.index
      <4>1. Fork # 0 /\ o.idx <= Header[head][Fork - 1].mmr /\ Fork - 1 \in 0 .. Tip[head]
        BY <1>2, <1>4, <2>1, <3>2, BaseTypes
      <4>2. o.height <= Fork - 1
        BY <1>2, <2>1, <4>1, Indexes
      <4> QED BY <1>1, <1>2, <2>1, <2>2, <3>2, <4>2
    <3> QED BY <1>4, <1>6, <3>1, <3>2 DEF Due
  <2>4. accounts[a].scan <= Fork
    <3>1. accounts[a].scan <= Fork \/ accounts[a].scan <= accounts[a].start
      BY <1>1 DEF BaseInv, ProgressInv, PhaseOK, Within
    <3> QED BY <2>1, <2>2, <2>3, <3>1 DEF Own
  <2>5. PICK d \in Kept : Contains(d, Fork, Header[head][Fork].hash)
    BY <1>2
  <2>6. o \in Created[d]
    <3>1. o.height <= Fork
      BY <1>2, <2>1, <2>2, <2>3, <2>4
    <3> QED BY <1>2, <1>3, <2>1, <2>5, <3>1, SharedBlock DEF Kept
  <2>7. OnKept(o) /\ Due(o, a) /\ ~ Cut(o)
    BY <1>1, <2>3, <2>6 DEF OnKept, Due, Cut
  <2> QED BY <2>1, <2>7 DEF OwedOK
<1>7. OwedOK'
  BY <1>1, <1>6 DEF OwedOK, Stored
<1> QED BY <1>5, <1>7
-----------------------------------------------------------------------------
(* The environment.                                                        *)

LEMMA DiscoveryHead ==
  ASSUME {"QuietTicks", "UndoneSpendsKnown"} \subseteq Assumed,
         DiscoveryInv, NEW c \in Chain, MoveHead(c)
  PROVE  OwedOK' /\ CursorOK' /\ PagesOK'
<1>1. /\ head' = c /\ UNCHANGED <<storeVars, pc, tickVars>> /\ pc = "sleep"
      /\ UndoneSpendsStored(c)
  BY DEF MoveHead, NewHead, Holds
<1>2. CursorOK' /\ PagesOK'
  BY <1>1, CursorSame DEF storeVars, PagesOK, DiscoveryInv
<1>3. ASSUME NEW a \in DOMAIN accounts, NEW o \in Utxo[c],
             Own(o, a)', OnKept(o)', Due(o, a)'
      PROVE  Stored(o)
  <2>1. /\ Owner[o.commit] = a /\ accounts[a].start < o.height
        /\ OnKept(o) /\ Due(o, a) /\ ~ Cut(o)
    BY <1>1, <1>3 DEF Own, OnKept, Kept, Due, Cut, storeVars
  <2>2. CASE o \in Utxo[head]
    BY <2>1, <2>2 DEF DiscoveryInv, OwedOK, Own
  <2>3. CASE o \notin Utxo[head]
    <3>1. PICK d \in Kept : o \in Created[d]
      BY <2>1 DEF OnKept
    <3>2. o.height <= cursor.height
      BY <2>1, <3>1, DueMeans DEF DiscoveryInv
    <3> QED BY <1>1, <2>1, <2>3, <3>1, <3>2 DEF UndoneSpendsStored, Stored
  <2> QED BY <2>2, <2>3
<1>4. OwedOK'
  BY <1>1, <1>3 DEF OwedOK, Stored, storeVars
<1> QED BY <1>2, <1>4

LEMMA DiscoveryRegister ==
  ASSUME DiscoveryInv, NEW a \in Account, NEW h \in ClientHeight, Register(a, h)
  PROVE  OwedOK' /\ CursorOK' /\ PagesOK'
<1> USE DEF DiscoveryInv
<1>1. /\ UNCHANGED <<head, outputs, cursor, pc, tickVars>>
      /\ a \notin DOMAIN accounts
      /\ DOMAIN accounts' = DOMAIN accounts \cup {a}
      /\ accounts'[a] = [start |-> h, scan |-> h]
      /\ \A b \in DOMAIN accounts : accounts'[b] = accounts[b]
  BY DEF Register, register_account
<1>2. caughtUp \subseteq DOMAIN accounts /\ behind \subseteq DOMAIN accounts
  BY BaseTypes
<1>3. h \in Nat
  BY ScannerAssumption
<1>4. CursorOK'
  BY <1>1, CursorSame
<1>5. PagesOK'
  <2>1. /\ \A i : StoredBelow(caughtUp, i) => StoredBelow(caughtUp, i)'
        /\ \A i : StoredBelow(behind, i) => StoredBelow(behind, i)'
        /\ AllStored(caughtUp) => AllStored(caughtUp)'
    BY <1>1, <1>2 DEF StoredBelow, AllStored, Own, Stored, tickVars
  <2>2. /\ StoredBelow(caughtUp, next) => StoredBelow(caughtUp, next)'
        /\ StoredBelow(behind, next) => StoredBelow(behind, next)'
    BY <1>1, <1>2 DEF StoredBelow, Own, Stored, tickVars
  <2>3. pc \in {"forward", "reconcile"} =>
          \A b \in DOMAIN accounts' \ caughtUp' :
            \/ accounts'[b].scan < cursor'.height
            \/ accounts'[b].scan <= accounts'[b].start
    BY <1>1, <1>3 DEF PagesOK, tickVars
  <2>4. Fork' = Fork
    BY <1>1 DEF Fork, tickVars
  <2> QED BY <1>1, <2>1, <2>2, <2>3, <2>4 DEF PagesOK, tickVars
<1>6. ASSUME NEW b \in DOMAIN accounts', NEW o \in Utxo[head],
             Own(o, b)', OnKept(o)', Due(o, b)', ~ Cut(o)'
      PROVE  Stored(o)
  <2>1. CASE b \in DOMAIN accounts
    <3>1. Own(o, b) /\ OnKept(o) /\ Due(o, b) /\ ~ Cut(o)
      BY <1>1, <1>6, <2>1 DEF Own, OnKept, Kept, Due, Cut, Fork, tickVars
    <3> QED BY <2>1, <3>1 DEF OwedOK
  <2>2. CASE b = a
    <3>1. /\ h < o.height
          /\ o.height < h \/ (h >= cursor.height /\ o.idx <= cursor.index)
          /\ OnKept(o)
      BY <1>1, <1>6, <2>2 DEF Own, OnKept, Kept, Due
    <3>2. PICK d \in Kept : o \in Created[d]
      BY <3>1 DEF OnKept
    <3>3. /\ d \in Chain /\ cursor.height \in 0 .. Tip[d]
          /\ cursor.index <= Header[d][cursor.height].mmr
          /\ Header[d][cursor.height].mmr \in Nat
      BY BaseTypes, TipOfType DEF Kept, Contains, CursorOK
    <3>4. o.height \in Nat /\ o.idx \in Nat
      BY <3>2, <3>3, CreatedHeight, Indexes
    <3>5. h >= cursor.height /\ o.idx <= Header[d][cursor.height].mmr
      BY <1>3, <3>1, <3>3, <3>4, BaseTypes
    <3>6. o.height <= cursor.height
      BY <3>2, <3>3, <3>5, Indexes
    <3> QED BY <1>3, <3>1, <3>4, <3>5, <3>6, BaseTypes
  <2> QED BY <1>1, <2>1, <2>2
<1>7. OwedOK'
  BY <1>1, <1>6 DEF OwedOK, Stored
<1> QED BY <1>4, <1>5, <1>7

LEMMA DiscoveryRescan ==
  ASSUME {"RescansBetweenTicks", "BackwardsRescans"} \subseteq Assumed,
         CommitsAreUnique,
         DiscoveryInv, NEW a \in Account, NEW h \in ClientHeight, Rescan(a, h)
  PROVE  OwedOK' /\ CursorOK' /\ PagesOK'
<1> USE DEF DiscoveryInv
<1>1. /\ UNCHANGED <<head, cursor, pc, tickVars>> /\ pc = "sleep"
      /\ a \in DOMAIN accounts /\ h < accounts[a].scan
      /\ DOMAIN outputs' = {k \in DOMAIN outputs :
                              ~ (outputs[k].account = a /\ outputs[k].height >= h)}
      /\ DOMAIN accounts' = DOMAIN accounts
      /\ accounts'[a] = [accounts[a] EXCEPT !.scan = h]
      /\ \A b \in DOMAIN accounts : b # a => accounts'[b] = accounts[b]
  BY DEF Rescan, rescan_account, Holds, Lowered
<1>2. CursorOK' /\ PagesOK'
  BY <1>1, CursorSame DEF PagesOK
<1>3. h \in Nat /\ accounts[a] \in AccountRow
  BY <1>1, ScannerAssumption, BaseTypes DEF TypeInv, TypeOK
<1>4. accounts'[a].start = accounts[a].start /\ accounts'[a].scan = h
  BY <1>1, <1>3 DEF AccountRow
<1>5. ASSUME NEW b \in DOMAIN accounts, NEW o \in Utxo[head],
             Own(o, b)', OnKept(o)', Due(o, b)'
      PROVE  o.commit \in DOMAIN outputs'
  <2>1. Own(o, b) /\ OnKept(o) /\ ~ Cut(o)
    BY <1>1, <1>4, <1>5 DEF Own, OnKept, Kept, Cut
  <2>2. CASE b # a
    <3>1. Due(o, b)
      BY <1>1, <1>5, <2>2 DEF Due
    <3>2. Stored(o)
      BY <2>1, <3>1 DEF OwedOK
    <3>3. outputs[o.commit].account = b
      BY <2>1, <3>2 DEF BaseInv, CustodyInv, Custody, Stored, Own
    <3> QED BY <1>1, <2>2, <3>2, <3>3 DEF Stored
  <2>3. CASE b = a
    <3>1. o.height < h \/ (h >= cursor.height /\ o.idx <= cursor.index)
      BY <1>1, <1>4, <1>5, <2>3 DEF Due
    <3>2. o.height \in Nat /\ accounts[a].scan \in Nat /\ cursor.height \in Nat
      BY <1>1, BaseTypes, CreatedHeight, PageType
    <3>3. Due(o, a)
      BY <1>1, <1>3, <3>1, <3>2 DEF Due
    <3>4. Stored(o) /\ outputs[o.commit].height = o.height
      BY <2>1, <2>3, <3>3, OwnRow DEF OwedOK
    <3>5. accounts[a].scan <= cursor.height
      <4>1. PICK d \in Kept : o \in Created[d]
        BY <2>1 DEF OnKept
      <4>2. accounts[a].start < o.height
        BY <2>1, <2>3 DEF Own
      <4> QED BY <1>1, <3>3, <4>1, <4>2, DueMeans
    <3>6. o.height < h
      BY <1>1, <1>3, <3>1, <3>2, <3>5
    <3> QED BY <1>1, <1>3, <3>2, <3>4, <3>6 DEF Stored
  <2> QED BY <2>2, <2>3
<1>6. OwedOK'
  BY <1>1, <1>5 DEF OwedOK, Stored
<1> QED BY <1>2, <1>6
-----------------------------------------------------------------------------
(* The forward scan and the backfill.                                      *)

LEMMA CoversPage ==
  ASSUME BaseInv, NEW S, NEW e \in Nat, NEW last \in LastRetrieved(head, next, e),
         next >= 1, FetchPage(e, last, S), StoredBelow(S, next),
         UNCHANGED <<head, outputs>>,
         \A a \in S : accounts'[a] = accounts[a]
  PROVE  /\ \A a \in S : \A o \in Utxo[head] :
              Own(o, a)' /\ o.idx < next' => Stored(o)' \/ o \in batch'
         /\ last \in Nat /\ next' = last + 1
<1>1. /\ last \in Nat /\ next' = last + 1
      /\ batch = {} /\ batch' = {o \in Page(head, next, e) : Owner[o.commit] \in S}
      /\ \A o \in Utxo[head] : next <= o.idx /\ o.idx <= last => o \in Page(head, next, e)
  BY BaseTypes, PageCovers DEF FetchPage
<1> SUFFICES ASSUME NEW a \in S, NEW o \in Utxo[head], Own(o, a)', o.idx < next'
             PROVE  Stored(o)' \/ o \in batch'
  BY <1>1
<1>2. Own(o, a) /\ o.idx \in Nat /\ next \in Nat
  BY BaseTypes, AllListed DEF Own
<1>3. CASE o.idx < next
  BY <1>1, <1>2, <1>3 DEF StoredBelow, Stored
<1>4. CASE ~ o.idx < next
  BY <1>1, <1>2, <1>4 DEF Own
<1> QED BY <1>3, <1>4

LEMMA DiscoveryForward ==
  ASSUME DiscoveryInv, ForwardPage
  PROVE  PagesOK'
<1> USE DEF DiscoveryInv
<1>1. PICK last \in LastRetrieved(head, next, HighestIndex(head)) :
        /\ FetchPage(HighestIndex(head), last, caughtUp)
        /\ more' = (next <= last /\ last < HighestIndex(head))
  BY DEF ForwardPage
<1>2. /\ pc = "forward" /\ UNCHANGED <<head, storeVars, pc, caughtUp>>
      /\ highest' = IF HighestIndex(head) > highest THEN HighestIndex(head) ELSE highest
  BY DEF ForwardPage
<1>3. /\ next >= 1 /\ next \in Nat /\ head \in Chain /\ HighestIndex(head) \in Nat
      /\ highest \in Nat /\ highest <= HighestIndex(head)
      /\ StoredBelow(caughtUp, next)
  BY <1>2, BaseTypes DEF TypeInv, PagingOK, PagesOK
<1>4. /\ \A a \in caughtUp : \A o \in Utxo[head] :
           Own(o, a)' /\ o.idx < next' => Stored(o)' \/ o \in batch'
      /\ last \in Nat /\ next' = last + 1
  BY <1>1, <1>2, <1>3, CoversPage DEF storeVars
<1>5. StoredBelow(caughtUp, next)'
  BY <1>2, <1>4 DEF StoredBelow
<1>6. highest' = HighestIndex(head)
  BY <1>2, <1>3
<1>7. ~ more' => last >= HighestIndex(head)
  BY <1>1, <1>3, PageCovers
<1>8. ~ more' => next' > HighestIndex(head)
  BY <1>3, <1>4, <1>7
<1>9. HighestIndex(head)' = HighestIndex(head)
  BY <1>2
<1> QED BY <1>2, <1>3, <1>5, <1>6, <1>8, <1>9 DEF PagesOK, storeVars

LEMMA DiscoveryBackfill ==
  ASSUME DiscoveryInv, BackfillPage
  PROVE  PagesOK'
<1> USE DEF DiscoveryInv
<1>1. PICK last \in LastRetrieved(head, next, highest) :
        /\ FetchPage(highest, last, behind)
        /\ more' = (next <= last /\ (last < highest \/ HighestIndex(head) < highest))
  BY DEF BackfillPage
<1>2. /\ pc = "backfill" /\ UNCHANGED <<head, storeVars, pc, behind, highest>>
  BY DEF BackfillPage
<1>3. /\ next >= 1 /\ next \in Nat /\ head \in Chain /\ HighestIndex(head) \in Nat
      /\ highest = HighestIndex(head)
      /\ StoredBelow(behind, next)
  BY <1>2, BaseTypes DEF TypeInv, PagingOK, PagesOK
<1>4. /\ \A a \in behind : \A o \in Utxo[head] :
           Own(o, a)' /\ o.idx < next' => Stored(o)' \/ o \in batch'
      /\ last \in Nat /\ next' = last + 1
  BY <1>1, <1>2, <1>3, CoversPage DEF storeVars
<1>5. StoredBelow(behind, next)'
  BY <1>2, <1>4 DEF StoredBelow
<1>6. ~ more' => last >= HighestIndex(head)
  BY <1>1, <1>3, PageCovers
<1>7. ~ more' => next' > HighestIndex(head)
  BY <1>3, <1>4, <1>6
<1>8. HighestIndex(head)' = HighestIndex(head)
  BY <1>2
<1> QED BY <1>2, <1>3, <1>5, <1>7, <1>8 DEF PagesOK, storeVars

LEMMA DiscoveryMatch ==
  ASSUME DiscoveryInv, StoreMatch, pc \in {"forward", "backfill"}
  PROVE  OwedOK' /\ PagesOK'
<1> USE DEF DiscoveryInv
<1>1. PICK p \in batch : /\ insert_output(p, Owner[p.commit])
                         /\ batch' = batch \ {p}
  BY DEF StoreMatch
<1>2. /\ UNCHANGED <<head, accounts, cursor, pc, tip, caughtUp, behind, next, highest, more>>
      /\ DOMAIN outputs' = DOMAIN outputs \cup {p.commit}
  BY <1>1 DEF StoreMatch, insert_output
<1>3. OwedOK'
  BY <1>2, OwedSame
<1>4. /\ StoredBelow(caughtUp, next) => StoredBelow(caughtUp, next)'
      /\ StoredBelow(behind, next) => StoredBelow(behind, next)'
  BY <1>1, <1>2 DEF StoredBelow, Stored, Own
<1>5. HighestIndex(head)' = HighestIndex(head)
  BY <1>2
<1> QED BY <1>2, <1>3, <1>4, <1>5 DEF PagesOK

LEMMA AllBelow ==
  ASSUME DiscoveryInv, NEW S, StoredBelow(S, next), batch = {}, next > HighestIndex(head)
  PROVE  AllStored(S)
<1> SUFFICES ASSUME NEW a \in S, NEW o \in Utxo[head], Own(o, a)
             PROVE  Stored(o)
  BY DEF AllStored
<1>1. o.idx < next
  BY BaseTypes, AllListed DEF DiscoveryInv
<1> QED BY <1>1 DEF StoredBelow

LEMMA DiscoveryList ==
  ASSUME DiscoveryInv, ListAccounts
  PROVE  PagesOK'
<1> USE DEF DiscoveryInv
<1>1. /\ pc = "list" /\ pc' = "forward" /\ UNCHANGED <<head, storeVars>>
      /\ caughtUp' = {a \in DOMAIN accounts : accounts[a].scan >= cursor.height}
      /\ next' = cursor.index + 1 /\ highest' = cursor.index /\ more' = TRUE
  BY DEF ListAccounts
<1>2. Fresh \/ OnChain
  BY <1>1, OnCourseRows DEF BaseInv
<1>3. OnChain => head \in Kept /\ cursor.height \in 0 .. Tip[head]
  BY BaseTypes DEF OnChain, Kept, Contains
<1>4. ASSUME NEW a \in caughtUp', NEW o \in Utxo[head], Own(o, a), o.idx < next'
      PROVE  Stored(o)
  <2>1. /\ o \in Created[head] /\ o.idx \in Nat /\ 1 <= o.idx
    <3>1. o \in Created[head] /\ 0 \in 0 .. Tip[head]
      BY BaseTypes, PageType
    <3> QED BY <3>1, BaseTypes, Indexes
  <2>2. o.idx <= cursor.index
    BY <1>1, <1>4, <2>1, BaseTypes
  <2>3. ~ Fresh
    BY <2>1, <2>2 DEF CursorOK
  <2>4. OnKept(o) /\ Due(o, a) /\ ~ Cut(o) /\ a \in DOMAIN accounts
    BY <1>1, <1>2, <1>3, <2>1, <2>2, <2>3 DEF OnKept, Due, Cut
  <2> QED BY <1>4, <2>4 DEF OwedOK
<1>5. StoredBelow(caughtUp, next)'
  BY <1>1, <1>4 DEF StoredBelow, Stored, Own, storeVars
<1>6. highest' <= HighestIndex(head)
  <2>1. CASE Fresh
    BY <1>1, <2>1, BaseTypes DEF CursorOK
  <2>2. CASE OnChain
    <3>1. /\ cursor.index <= Header[head][cursor.height].mmr
          /\ Header[head][cursor.height].mmr <= HighestIndex(head)
          /\ Header[head][cursor.height].mmr \in Nat
      BY <1>3, <2>2, BaseTypes, InsertionOrder, TipOfType DEF CursorOK, HighestIndex
    <3> QED BY <1>1, <3>1, BaseTypes
  <2> QED BY <1>2, <2>1, <2>2
<1>7. \A a \in DOMAIN accounts \ caughtUp' : accounts[a].scan < cursor.height
  BY <1>1, BaseTypes
<1> QED BY <1>1, <1>5, <1>6, <1>7 DEF PagesOK, storeVars

LEMMA DiscoveryCursor ==
  ASSUME DiscoveryInv, SetCursor
  PROVE  OwedOK' /\ CursorOK' /\ PagesOK'
<1> USE DEF DiscoveryInv
<1>1. /\ pc = "reconcile" /\ pc' = "advance" /\ UNCHANGED <<head, accounts, outputs, tickVars>>
      /\ cursor' = [index |-> highest, height |-> tip.height, hash |-> tip.hash]
      /\ tip = TipOf(head)
  BY DEF SetCursor, set_cursor, BaseInv, HistoryInv, CourseInv, CourseOK
<1>2. /\ head \in Chain /\ Tip[head] \in Nat
      /\ cursor'.index = HighestIndex(head)
      /\ cursor'.height = Tip[head] /\ cursor'.hash = Header[head][Tip[head]].hash
      /\ AllStored(caughtUp) /\ highest = HighestIndex(head)
  BY <1>1, BaseTypes DEF PagesOK, TipOf
<1>3. CursorOK'
  <2>1. ~ Fresh'
    BY <1>2, TipOfType, ScannerAssumption DEF Fresh
  <2>2. ASSUME NEW d \in Kept'
        PROVE  cursor'.index <= Header[d][cursor'.height].mmr
    <3>1. d \in Chain /\ Contains(d, Tip[head], Header[head][Tip[head]].hash)
      BY <1>2, <2>2 DEF Kept
    <3>2. Header[head][Tip[head]] = Header[d][Tip[head]]
      BY <1>2, <3>1, OwnTip, SharedBlock
    <3> QED BY <1>2, <3>2, BaseTypes DEF HighestIndex
  <2> QED BY <2>1, <2>2 DEF CursorOK
<1>4. ASSUME NEW a \in DOMAIN accounts, NEW o \in Utxo[head],
             Own(o, a)', Due(o, a)'
      PROVE  Stored(o)
  <2>1. Own(o, a)
    BY <1>1, <1>4 DEF Own
  <2>2. CASE a \in caughtUp
    BY <1>2, <2>1, <2>2 DEF AllStored
  <2>3. CASE a \notin caughtUp
    <3>1. /\ accounts[a].scan < cursor.height \/ accounts[a].scan <= accounts[a].start
          /\ accounts[a].scan \in Nat /\ accounts[a].start \in Nat
          /\ cursor.height \in Nat
      BY <1>1, <2>3, BaseTypes DEF PagesOK
    <3>2. o \in Created[head] /\ o.height \in Nat /\ o.height <= Tip[head]
          /\ accounts[a].start < o.height
      BY <1>2, <2>1, PageType, CreatedHeight DEF Own
    <3>3. Fresh \/ OnChain
      BY <1>1, OnCourseRows DEF BaseInv
    <3>4. cursor.height <= Tip[head]
      BY <1>2, <3>3 DEF BaseInv, HistoryInv, HistoryOK, OnChain, Contains
    <3>5. o.height < accounts[a].scan \/ accounts[a].scan >= Tip[head]
      BY <1>1, <1>2, <1>4 DEF Due
    <3>6. o.height < accounts[a].scan /\ accounts[a].scan < cursor.height
      BY <1>2, <3>1, <3>2, <3>4, <3>5
    <3>7. ~ Fresh
      BY <3>1, <3>6 DEF BaseInv, HistoryInv, HistoryOK
    <3>8. OnKept(o) /\ Due(o, a) /\ ~ Cut(o)
      BY <1>1, <1>2, <3>2, <3>3, <3>6, <3>7 DEF OnKept, Kept, OnChain, Due, Cut
    <3> QED BY <2>1, <3>8 DEF OwedOK
  <2> QED BY <2>2, <2>3
<1>5. OwedOK'
  BY <1>1, <1>4 DEF OwedOK, Stored
<1>6. PagesOK'
  <2>1. AllStored(caughtUp)'
    BY <1>1, <1>2 DEF AllStored, Own, Stored, tickVars
  <2> QED BY <1>1, <1>2, <2>1 DEF PagesOK, tickVars
<1> QED BY <1>3, <1>5, <1>6
-----------------------------------------------------------------------------
LEMMA DiscoveryScan ==
  ASSUME CommitsAreUnique, DiscoveryInv, Scan
  PROVE  OwedOK' /\ CursorOK' /\ PagesOK'
<1> USE DEF DiscoveryInv
<1>1. CASE TickStart \/ ProbeCheckpoint \/ FinishTick \/ GiveUp
  <2>1. /\ UNCHANGED <<head, storeVars>> /\ pc # "clamp"
        /\ pc' \in {"sleep", "probe", "list", "rollback"}
    BY <1>1 DEF TickStart, ProbeCheckpoint, FinishTick, GiveUp, Refused, Sleep
  <2> QED BY <2>1, OwedSame, CursorSame DEF storeVars, PagesOK
<1>2. CASE ListAccounts
  BY <1>2, DiscoveryList, OwedSame, CursorSame DEF ListAccounts, storeVars
<1>3. CASE ForwardPage
  BY <1>3, DiscoveryForward, OwedSame, CursorSame DEF ForwardPage, storeVars
<1>4. CASE ForwardStore \/ BackfillStore
  <2>1. StoreMatch /\ pc \in {"forward", "backfill"}
    BY <1>4 DEF ForwardStore, BackfillStore
  <2>2. UNCHANGED cursor
    BY <2>1 DEF StoreMatch, insert_output
  <2> QED BY <2>1, <2>2, DiscoveryMatch, CursorSame
<1>5. CASE ReadUnspent
  <2>1. /\ UNCHANGED <<head, storeVars, caughtUp, highest>> /\ pc' = "reconcile"
        /\ pc = "forward" /\ batch = {} /\ ~ more
    BY <1>5 DEF ReadUnspent
  <2>2. AllStored(caughtUp) /\ highest = HighestIndex(head)
    BY <2>1, AllBelow DEF PagesOK
  <2>3. AllStored(caughtUp)'
    BY <2>1, <2>2 DEF AllStored, Own, Stored, storeVars
  <2>4. PagesOK'
    BY <2>1, <2>2, <2>3 DEF PagesOK, storeVars
  <2> QED BY <2>1, <2>4, OwedSame, CursorSame DEF storeVars
<1>6. CASE CheckChunk
  <2>1. UNCHANGED <<head, storeVars, caughtUp, highest, pc>> /\ pc = "reconcile"
    BY <1>6 DEF CheckChunk
  <2>2. AllStored(caughtUp) => AllStored(caughtUp)'
    BY <2>1 DEF AllStored, Own, Stored, storeVars
  <2> QED BY <2>1, <2>2, OwedSame, CursorSame DEF storeVars, PagesOK
<1>7. CASE MarkSpent
  <2>1. /\ UNCHANGED <<head, accounts, cursor, caughtUp, highest, pc>> /\ pc = "reconcile"
        /\ DOMAIN outputs' = DOMAIN outputs
    BY <1>7 DEF MarkSpent, mark_spent
  <2>2. AllStored(caughtUp) => AllStored(caughtUp)'
    BY <2>1 DEF AllStored, Own, Stored
  <2> QED BY <2>1, <2>2, OwedSame, CursorSame DEF PagesOK
<1>8. CASE SetCursor
  BY <1>8, DiscoveryCursor
<1>9. CASE AdvanceAccount
  <2>1. PICK a \in caughtUp : /\ set_account_scan_height(a, tip.height)
                              /\ caughtUp' = caughtUp \ {a}
    BY <1>9 DEF AdvanceAccount
  <2>2. /\ UNCHANGED <<head, outputs, cursor, pc, highest>> /\ pc = "advance"
        /\ tip.height = cursor.height /\ a \in DOMAIN accounts
    BY <1>9, <2>1, BaseTypes
       DEF AdvanceAccount, set_account_scan_height, BaseInv, ProgressInv, PhaseOK
  <2>3. AllStored({a})
    BY <2>1, <2>2 DEF PagesOK, AllStored
  <2>4. OwedOK'
    BY <2>1, <2>2, <2>3, OwedAdvance
  <2>5. \A b \in caughtUp' : accounts'[b] = accounts[b]
    BY <2>1, BaseTypes DEF set_account_scan_height
  <2>6. AllStored(caughtUp)'
    BY <2>1, <2>2, <2>5 DEF PagesOK, AllStored, Own, Stored
  <2> QED BY <2>2, <2>4, <2>6, CursorSame DEF PagesOK
<1>10. CASE BackfillSeek
  <2>1. PICK a \in behind : /\ KnowsStart(head, accounts[a].start)
                            /\ next' = StartIndex(head, accounts[a].start)
                            /\ behind' = {a}
    BY <1>10 DEF BackfillSeek
  <2>2. /\ UNCHANGED <<head, storeVars, highest>> /\ pc' = "backfill" /\ more' = TRUE
        /\ pc = "advance"
    BY <1>10 DEF BackfillSeek
  <2>3. ASSUME NEW o \in Utxo[head], Own(o, a)
        PROVE  ~ o.idx < next'
    <3>1. /\ accounts[a].start \in Nat /\ accounts[a].start < o.height
          /\ o \in Created[head] /\ o.height \in Nat /\ o.height <= Tip[head]
          /\ o.idx \in Nat /\ 1 <= o.idx /\ 0 \in 0 .. Tip[head]
      BY <2>3, BaseTypes, AllListed, CreatedHeight, Indexes DEF Own
    <3>2. CASE accounts[a].start = 0
      BY <2>1, <3>1, <3>2 DEF StartIndex
    <3>3. CASE accounts[a].start # 0
      <4>1. accounts[a].start - 1 \in 0 .. Tip[head]
        BY <3>1, <3>3, BaseTypes
      <4>2. /\ Header[head][accounts[a].start - 1].mmr \in Nat
            /\ ~ o.idx <= Header[head][accounts[a].start - 1].mmr
        BY <3>1, <4>1, BaseTypes, TipOfType, Indexes
      <4> QED BY <2>1, <3>1, <3>3, <4>2 DEF StartIndex
    <3> QED BY <3>2, <3>3
  <2>4. StoredBelow(behind, next)'
    BY <2>1, <2>2, <2>3 DEF StoredBelow, Own, storeVars
  <2>5. PagesOK'
    BY <2>2, <2>4 DEF PagesOK
  <2> QED BY <2>2, <2>5, OwedSame, CursorSame DEF storeVars
<1>11. CASE BackfillPage
  BY <1>11, DiscoveryBackfill, OwedSame, CursorSame DEF BackfillPage, storeVars
<1>12. CASE BackfillDone
  <2>1. PICK a \in behind : set_account_scan_height(a, tip.height)
    BY <1>12 DEF BackfillDone
  <2>2. /\ UNCHANGED <<head, cursor>> /\ pc = "backfill" /\ pc' = "sleep"
        /\ tip.height = cursor.height /\ a \in DOMAIN accounts /\ batch = {} /\ ~ more
    BY <1>12, <2>1, BaseTypes
       DEF BackfillDone, Sleep, set_account_scan_height, BaseInv, ProgressInv, PhaseOK
  <2>3. AllStored(behind)
    BY <2>2, AllBelow DEF PagesOK
  <2>4. AllStored({a})
    BY <2>3 DEF AllStored
  <2>5. OwedOK'
    BY <2>1, <2>2, <2>4, OwedAdvance
  <2> QED BY <2>2, <2>5, CursorSame DEF PagesOK
<1>13. CASE ReorgRollback
  BY <1>13, OwedRollback, CursorSame DEF ReorgRollback, rollback_to, PagesOK
<1>14. CASE ReorgClamp
  BY <1>14, OwedClamp, CursorSame DEF ReorgClamp, clamp_account_scan_heights, PagesOK
<1>15. CASE ReorgSeek
  <2>1. /\ UNCHANGED <<head, storeVars, tip>> /\ pc = "seek" /\ pc' = "reset"
        /\ next' = StartIndex(head, Fork)
    BY <1>15 DEF ReorgSeek
  <2>2. PagesOK'
    BY <2>1 DEF PagesOK, Fork
  <2> QED BY <2>1, <2>2, OwedSame, CursorSame DEF storeVars
<1>16. CASE ReorgReset
  BY <1>16, ResetStores DEF ReorgReset, Sleep, PagesOK
<1> QED BY <1>1, <1>2, <1>3, <1>4, <1>5, <1>6, <1>7, <1>8, <1>9, <1>10, <1>11, <1>12,
           <1>13, <1>14, <1>15, <1>16 DEF Scan

AllAssumptions ==
  {"QuietTicks", "SteadyRetries", "AtomicRollback", "RepairableReorgs",
   "UndoneSpendsKnown", "RescansBetweenTicks", "BackwardsRescans"}

LEMMA DiscoveryNext ==
  ASSUME AllAssumptions \subseteq Assumed, CommitsAreUnique, DiscoveryInv, [Next]_vars
  PROVE  DiscoveryInv'
<1>1. HistoryInv' /\ CustodyInv' /\ ProgressInv'
  BY HistoryNext, CustodyNext, ProgressNext DEF AllAssumptions, DiscoveryInv, BaseInv
<1> SUFFICES OwedOK' /\ CursorOK' /\ PagesOK'
  BY <1>1 DEF DiscoveryInv, BaseInv
<1>2. CASE Scan
  BY <1>2, DiscoveryScan
<1>3. CASE Abort
  <2>1. UNCHANGED <<head, storeVars>> /\ pc # "clamp" /\ pc' = "sleep"
    BY <1>3 DEF Abort, Holds, Sleep, AllAssumptions
  <2> QED BY <2>1, OwedSame, CursorSame DEF storeVars, PagesOK, DiscoveryInv
<1>4. CASE Client
  BY <1>4, DiscoveryRegister, DiscoveryRescan DEF Client, AllAssumptions
<1>5. CASE \E c \in Chain : MoveHead(c)
  BY <1>5, DiscoveryHead DEF AllAssumptions
<1>6. CASE UNCHANGED vars
  <2>1. UNCHANGED <<head, storeVars, pc, tickVars>>
    BY <1>6 DEF vars
  <2>2. /\ StoredBelow(caughtUp, next) => StoredBelow(caughtUp, next)'
        /\ StoredBelow(behind, next) => StoredBelow(behind, next)'
        /\ AllStored(caughtUp) => AllStored(caughtUp)'
        /\ HighestIndex(head)' = HighestIndex(head) /\ Fork' = Fork
    BY <2>1 DEF StoredBelow, AllStored, Own, Stored, Fork, storeVars, tickVars
  <2>3. PagesOK'
    BY <2>1, <2>2 DEF PagesOK, DiscoveryInv, storeVars, tickVars
  <2> QED BY <2>1, <2>3, OwedSame, CursorSame DEF storeVars, tickVars, DiscoveryInv
<1> QED BY <1>2, <1>3, <1>4, <1>5, <1>6 DEF Next

LEMMA DiscoveryInit == Init => DiscoveryInv
<1> SUFFICES ASSUME Init PROVE DiscoveryInv
  OBVIOUS
<1>1. BaseInv
  BY HistoryInit, TypeInit
     DEF Init, StoreInit, ScannerInit, BaseInv, CustodyInv, Custody, Recognised,
         ProgressInv, Within, PhaseOK
<1>2. DOMAIN accounts = {} /\ pc = "sleep" /\ cursor = NoCursor
  BY DEF Init, StoreInit, ScannerInit
<1>3. Fresh /\ cursor.index = 0
  BY <1>2 DEF Fresh, NoCursor
<1>4. OwedOK /\ CursorOK /\ PagesOK
  BY <1>1, <1>2, <1>3, FreshKept DEF OwedOK, CursorOK, PagesOK
<1> QED BY <1>1, <1>4 DEF DiscoveryInv

(* An account that counts as caught up misses no live output born after    *)
(* its birthday: across full, partial and empty pages, failed ticks,       *)
(* backfills, rescans and reorganisations back and forth.                  *)
THEOREM DiscoveredHolds ==
  ASSUME AllAssumptions \subseteq Assumed, CommitsAreUnique
  PROVE  Spec => []Discovered
<1>1. DiscoveryInv => Discovered
  <2> SUFFICES ASSUME DiscoveryInv, OnChain, NEW o \in Utxo[head],
                      CaughtUp(Owner[o.commit]),
                      o.height > accounts[Owner[o.commit]].start,
                      o.idx <= cursor.index
               PROVE  o.commit \in DOMAIN outputs
    BY DEF Discovered
  <2> DEFINE a == Owner[o.commit]
  <2>1. o.height \in Nat /\ o \in Created[head] /\ head \in Chain
    BY BaseTypes, PageType, CreatedHeight DEF DiscoveryInv
  <2>2. a \in DOMAIN accounts /\ accounts[a].start \in Nat
    BY BaseTypes DEF CaughtUp, DiscoveryInv
  <2>3. Own(o, a) /\ OnKept(o) /\ Due(o, a)
    BY <2>1, <2>2 DEF Own, OnKept, Kept, OnChain, Due, CaughtUp
  <2>4. ~ Cut(o)
    BY DEF Cut, DiscoveryInv, BaseInv, HistoryInv, CourseInv, CourseOK, OnCourse
  <2> QED BY <2>2, <2>3, <2>4 DEF DiscoveryInv, OwedOK, Stored
<1>2. DiscoveryInv /\ [Next]_vars => DiscoveryInv'
  BY DiscoveryNext
<1> QED BY <1>1, <1>2, DiscoveryInit, PTL DEF Spec
=============================================================================
