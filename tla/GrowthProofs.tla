---------------------------- MODULE GrowthProofs ----------------------------
(***************************************************************************)
(* The everyday case that QuietTicks leaves out: blocks arrive while a     *)
(* tick runs.  As long as the node's chain only grows, every promise about *)
(* the rows is kept all the same, wherever ticks are cut short and         *)
(* whenever clients rescan; and nothing is missed either, if accounts do   *)
(* not register at a birthday that the tick under way has passed.          *)
(***************************************************************************)
EXTENDS LedgerProofs

(* No reorganisation: whatever the node moves to extends what it left. *)
Grows == head' # head => Extends(head', head)

GrowthSpec == Init /\ [][Next /\ Grows]_vars

(* No outputs but those of the chain, none spent that the node lists. *)
TrueOf(c) ==
  /\ \A k \in DOMAIN outputs :
       /\ RowOf(k) \in Created[c]
       /\ outputs[k].spent # Unspent => \A p \in Utxo[c] : p.commit # k
  /\ batch \subseteq Created[c]
  /\ \A k \in unchecked \cup absent : \E o \in Created[c] : o.commit = k
  /\ \A k \in absent : \A p \in Utxo[c] : p.commit # k

(* No block is lost that the scanner stands on, so it never rolls back. *)
PlaceOK ==
  /\ pc \notin {"rollback", "clamp", "seek", "reset"}
  /\ pc = "probe" => ~ Fresh
  /\ IF Fresh THEN cursor.height = 0 ELSE OnChain
  /\ pc # "sleep" => Contains(head, tip.height, tip.hash)

(* A tick may sweep and index a head that is above the tip it read; where  *)
(* the two are the same, the checkpoint will be exact.                     *)
Still == TipOf(head) = tip
StillOK ==
  /\ AtTip => /\ \A k \in all_unspent_commits : Listed(k)
              /\ batch \subseteq Utxo[head]
              /\ cursor.index = HighestIndex(head)
  /\ pc \in {"sleep", "reconcile", "advance"} => batch = {}
  /\ (pc = "reconcile" /\ Still) =>
       /\ \A k \in all_unspent_commits : k \in unchecked \cup absent \/ Listed(k)
       /\ highest = HighestIndex(head)
  /\ (pc = "forward" /\ ~ more /\ Still) => highest = HighestIndex(head)

(* Nothing is counted as scanned beyond the end of the chain's outputs. *)
IndexOK == /\ cursor.index <= HighestIndex(head)
           /\ highest <= HighestIndex(head)
           /\ next <= HighestIndex(head) + 1

GrowthInv == CustodyInv /\ ProgressInv /\ PlaceOK /\ TrueOf(head) /\ IndexOK /\ StillOK
-----------------------------------------------------------------------------
(* What a chain keeps when it grows. *)

LEMMA Grown ==
  ASSUME NEW c \in Chain, NEW d \in Chain, Extends(d, c)
  PROVE  /\ Tip[c] \in Nat /\ Tip[d] \in Nat /\ Tip[c] <= Tip[d]
         /\ \A g \in 0 .. Tip[c] : Header[c][g] = Header[d][g]
         /\ Created[c] \subseteq Created[d]
         /\ HighestIndex(c) <= HighestIndex(d)
<1>1. Tip[c] \in Nat /\ Tip[d] \in Nat /\ Tip[c] <= Tip[d]
  BY TipOfType DEF Extends, Contains
<1>2. /\ \A g \in 0 .. Tip[c] : Header[c][g] = Header[d][g]
      /\ \A o \in Created[c] : o.height <= Tip[c] => o \in Created[d]
  BY <1>1, OwnTip, SharedBlock DEF Extends
<1>3. Created[c] \subseteq Created[d]
  BY <1>2, CreatedHeight
<1>4. Header[d][Tip[c]].mmr <= Header[d][Tip[d]].mmr
  BY <1>1, InsertionOrder
<1> QED BY <1>1, <1>2, <1>3, <1>4 DEF HighestIndex

(* An output listed later, of a commitment that was there, was listed. *)
LEMMA ListedBefore ==
  ASSUME SpendsAreFinal, NEW c \in Chain, NEW d \in Chain, Extends(d, c),
         NEW o \in Created[c], NEW p \in Utxo[d], p.commit = o.commit
  PROVE  \E q \in Utxo[c] : q.commit = o.commit
BY DEF SpendsAreFinal

LEMMA GrowthTypes ==
  ASSUME GrowthInv
  PROVE  /\ TypeInv /\ head \in Chain /\ Tip[head] \in Nat
         /\ cursor.height \in Nat /\ cursor.index \in Nat
         /\ tip.height \in Nat /\ next \in Nat /\ highest \in Nat
         /\ HighestIndex(head) \in Nat
         /\ cursor.height <= Tip[head]
         /\ pc # "sleep" => tip.height <= Tip[head]
         /\ caughtUp \subseteq DOMAIN accounts /\ behind \subseteq DOMAIN accounts
         /\ \A a \in DOMAIN accounts : accounts[a].start \in Nat /\ accounts[a].scan \in Nat
<1>1. TypeInv /\ head \in Chain /\ Tip[head] \in Nat /\ HighestIndex(head) \in Nat
  BY TipOfType DEF GrowthInv, ProgressInv, TypeInv, TypeOK
<1>2. /\ cursor.height \in Nat /\ cursor.index \in Nat
      /\ tip.height \in Nat /\ next \in Nat /\ highest \in Nat
      /\ caughtUp \subseteq DOMAIN accounts /\ behind \subseteq DOMAIN accounts
      /\ \A a \in DOMAIN accounts : accounts[a].start \in Nat /\ accounts[a].scan \in Nat
  BY <1>1 DEF TypeInv, TypeOK, Checkpoint, AccountRow
<1>3. cursor.height <= Tip[head] /\ (pc # "sleep" => tip.height <= Tip[head])
  BY <1>1, <1>2 DEF GrowthInv, PlaceOK, OnChain, Contains
<1> QED BY <1>1, <1>2, <1>3
-----------------------------------------------------------------------------
(* The rows. *)

LEMMA TrueSame ==
  ASSUME TrueOf(head), UNCHANGED head, DOMAIN outputs' \subseteq DOMAIN outputs,
         \A k \in DOMAIN outputs' : outputs'[k] = outputs[k],
         batch' \subseteq Created[head],
         unchecked' \subseteq unchecked, absent' \subseteq absent
  PROVE  TrueOf(head)'
<1>1. \A k \in DOMAIN outputs' : RowOf(k)' = RowOf(k)
  BY DEF RowOf
<1> QED BY <1>1 DEF TrueOf

LEMMA TrueStore ==
  ASSUME GrowthInv, StoreMatch
  PROVE  TrueOf(head)'
<1>1. PICK o \in batch : /\ insert_output(o, Owner[o.commit])
                         /\ batch' = batch \ {o}
  BY DEF StoreMatch
<1>2. UNCHANGED <<head, unchecked, absent>>
  BY DEF StoreMatch
<1>3. o \in Created[head] /\ o = [commit |-> o.commit, height |-> o.height, idx |-> o.idx]
  BY GrowthTypes DEF GrowthInv, TrueOf, TypeInv, TypeOK, Output
<1>4. ASSUME NEW k \in DOMAIN outputs'
      PROVE  /\ RowOf(k)' \in Created[head]
             /\ outputs'[k].spent # Unspent => \A p \in Utxo[head] : p.commit # k
  <2>1. CASE k \in DOMAIN outputs
    BY <1>1, <2>1 DEF insert_output, GrowthInv, TrueOf, RowOf
  <2>2. CASE k \notin DOMAIN outputs
    <3>1. k = o.commit
          /\ outputs'[k] = [account |-> Owner[o.commit], height |-> o.height,
                            idx |-> o.idx, spent |-> Unspent]
      BY <1>1, <1>4, <2>2 DEF insert_output
    <3> QED BY <1>3, <3>1 DEF RowOf
  <2> QED BY <2>1, <2>2
<1> QED BY <1>1, <1>2, <1>4 DEF GrowthInv, TrueOf

LEMMA TrueReconcile ==
  ASSUME GrowthInv, ReadUnspent \/ CheckChunk \/ MarkSpent
  PROVE  TrueOf(head)'
<1>1. CASE ReadUnspent
  <2>1. UNCHANGED <<head, outputs, batch, absent>> /\ unchecked' = all_unspent_commits
    BY <1>1 DEF ReadUnspent, storeVars
  <2>2. \A k \in all_unspent_commits : \E o \in Created[head] : o.commit = k
    <3> SUFFICES ASSUME NEW k \in all_unspent_commits PROVE \E o \in Created[head] : o.commit = k
      OBVIOUS
    <3>1. RowOf(k) \in Created[head] /\ RowOf(k).commit = k
      BY DEF all_unspent_commits, GrowthInv, TrueOf, RowOf
    <3> QED BY <3>1
  <2> QED BY <2>1, <2>2 DEF GrowthInv, TrueOf, RowOf
<1>2. CASE CheckChunk
  <2>1. PICK S \in SUBSET unchecked : /\ absent' = absent \cup (S \ Present(head, S))
                                      /\ unchecked' = unchecked \ S
    BY <1>2 DEF CheckChunk
  <2>2. UNCHANGED <<head, outputs, batch>>
    BY <1>2 DEF CheckChunk, storeVars
  <2>3. \A k \in S \ Present(head, S) : \A p \in Utxo[head] : p.commit # k
    BY DEF Present
  <2> QED BY <2>1, <2>2, <2>3 DEF GrowthInv, TrueOf, RowOf
<1>3. CASE MarkSpent
  <2>1. PICK k \in absent : mark_spent(k, tip.height) /\ absent' = absent \ {k}
    BY <1>3 DEF MarkSpent
  <2>2. UNCHANGED <<head, batch, unchecked>> /\ DOMAIN outputs' = DOMAIN outputs
    BY <1>3, <2>1 DEF MarkSpent, mark_spent
  <2>3. ASSUME NEW j \in DOMAIN outputs
        PROVE  /\ RowOf(j)' = RowOf(j)
               /\ outputs'[j].spent # Unspent => \A p \in Utxo[head] : p.commit # j
    <3>1. CASE j = k
      <4>1. outputs'[j] = [outputs[j] EXCEPT !.spent = tip.height] /\ outputs[j] \in Row
        BY <2>1, <2>3, <3>1, RowType, GrowthTypes DEF mark_spent
      <4> QED BY <3>1, <4>1 DEF Row, RowOf, GrowthInv, TrueOf
    <3>2. CASE j # k
      BY <2>1, <2>3, <3>2 DEF mark_spent, RowOf, GrowthInv, TrueOf
    <3> QED BY <3>1, <3>2
  <2> QED BY <2>1, <2>2, <2>3 DEF GrowthInv, TrueOf
<1> QED BY <1>1, <1>2, <1>3

LEMMA TrueScan == ASSUME GrowthInv, Scan PROVE TrueOf(head)'
<1>0. TrueOf(head) /\ head \in Chain /\ batch \subseteq Created[head]
      /\ pc \notin {"rollback", "clamp", "seek", "reset"}
  BY GrowthTypes DEF GrowthInv, TrueOf, PlaceOK
<1>1. CASE TickStart \/ ProbeCheckpoint \/ ListAccounts \/ BackfillSeek \/ FinishTick
           \/ GiveUp
  BY <1>0, <1>1, TrueSame
     DEF TickStart, ProbeCheckpoint, ListAccounts, BackfillSeek, FinishTick, GiveUp, Sleep,
         storeVars, tickVars
<1>2. CASE ForwardPage \/ BackfillPage
  <2>1. batch' \subseteq Created[head]
    BY <1>0, <1>2, PageType DEF ForwardPage, BackfillPage, FetchPage
  <2> QED BY <1>0, <1>2, <2>1, TrueSame DEF ForwardPage, BackfillPage, storeVars
<1>3. CASE SetCursor \/ AdvanceAccount \/ BackfillDone
  BY <1>0, <1>3, TrueSame
     DEF SetCursor, set_cursor, AdvanceAccount, BackfillDone, set_account_scan_height,
         Sleep, tickVars
<1>4. CASE ForwardStore \/ BackfillStore
  BY <1>4, TrueStore DEF ForwardStore, BackfillStore
<1>5. CASE ReadUnspent \/ CheckChunk \/ MarkSpent
  BY <1>5, TrueReconcile
<1>6. CASE ReorgRollback \/ ReorgClamp \/ ReorgSeek \/ ReorgReset
  BY <1>0, <1>6 DEF ReorgRollback, ReorgClamp, ReorgSeek, ReorgReset
<1> QED BY <1>1, <1>2, <1>3, <1>4, <1>5, <1>6 DEF Scan
-----------------------------------------------------------------------------
(* The scanner's place on the chain. *)

LEMMA PlaceSame ==
  ASSUME PlaceOK, UNCHANGED <<head, cursor>>,
         pc' \in {"sleep", pc} \/ (pc # "sleep" /\ pc' \in {"list", "forward", "reconcile",
                                                          "advance", "backfill"}),
         pc' # "sleep" => UNCHANGED tip
  PROVE  PlaceOK'
BY DEF PlaceOK, Fresh, OnChain

LEMMA PlaceScan == ASSUME GrowthInv, Scan PROVE PlaceOK'
<1>0. PlaceOK /\ head \in Chain /\ Tip[head] \in Nat /\ cursor.height \in Nat
      /\ cursor.height <= Tip[head]
      /\ pc \notin {"rollback", "clamp", "seek", "reset"}
  BY GrowthTypes DEF GrowthInv, PlaceOK
<1>1. CASE TickStart
  <2>1. /\ UNCHANGED <<head, cursor>> /\ tip' = TipOf(head)
        /\ pc' \in {"list", "probe"} /\ (pc' = "probe" => cursor.height # 0)
    BY <1>0, <1>1 DEF TickStart, storeVars
  <2>2. Contains(head, Tip[head], Header[head][Tip[head]].hash)
    BY <1>0, OwnTip
  <2>3. Contains(head', tip'.height, tip'.hash)
    BY <2>1, <2>2 DEF TipOf
  <2> QED BY <1>0, <2>1, <2>3 DEF PlaceOK, Fresh, OnChain
<1>2. CASE ProbeCheckpoint
  <2>1. UNCHANGED <<head, cursor, tip>> /\ pc' = "list" /\ pc = "probe"
    BY <1>0, <1>2 DEF ProbeCheckpoint, PlaceOK, OnChain, storeVars, tickVars
  <2> QED BY <1>0, <2>1, PlaceSame
<1>3. CASE ListAccounts \/ ForwardPage \/ ReadUnspent \/ CheckChunk \/ BackfillSeek
           \/ BackfillPage
  BY <1>0, <1>3, PlaceSame
     DEF ListAccounts, ForwardPage, ReadUnspent, CheckChunk, BackfillSeek, BackfillPage,
         storeVars
<1>4. CASE ForwardStore \/ BackfillStore \/ MarkSpent
  BY <1>0, <1>4, PlaceSame
     DEF ForwardStore, BackfillStore, StoreMatch, insert_output, MarkSpent, mark_spent
<1>5. CASE AdvanceAccount \/ BackfillDone
  BY <1>0, <1>5, PlaceSame DEF AdvanceAccount, BackfillDone, set_account_scan_height, Sleep
<1>6. CASE FinishTick \/ GiveUp
  BY <1>0, <1>6, PlaceSame DEF FinishTick, GiveUp, Sleep, storeVars
<1>7. CASE SetCursor
  <2>1. /\ UNCHANGED <<head, tip>> /\ pc' = "advance" /\ pc = "reconcile"
        /\ cursor'.height = tip.height /\ cursor'.hash = tip.hash
    BY <1>7 DEF SetCursor, set_cursor, tickVars
  <2>2. Contains(head, tip.height, tip.hash) /\ tip.height \in Nat
    BY <2>1, GrowthTypes DEF GrowthInv, PlaceOK
  <2>3. tip.hash # NoHash
    BY <1>0, <2>2, TipOfType, ScannerAssumption DEF Contains
  <2> QED BY <2>1, <2>2, <2>3 DEF PlaceOK, Fresh, OnChain
<1>8. CASE ReorgRollback \/ ReorgClamp \/ ReorgSeek \/ ReorgReset
  BY <1>0, <1>8 DEF ReorgRollback, ReorgClamp, ReorgSeek, ReorgReset
<1> QED BY <1>1, <1>2, <1>3, <1>4, <1>5, <1>6, <1>7, <1>8 DEF Scan
-----------------------------------------------------------------------------
(* Indexes. *)

LEMMA IndexSame ==
  ASSUME IndexOK, UNCHANGED <<head, cursor, next, highest>>
  PROVE  IndexOK'
BY DEF IndexOK, HighestIndex

LEMMA StartWithin ==
  ASSUME NEW c \in Chain, NEW h \in Nat, KnowsStart(c, h)
  PROVE  StartIndex(c, h) <= HighestIndex(c) + 1
<1>1. CASE h = 0
  BY <1>1, TipOfType DEF StartIndex
<1>2. CASE h # 0
  <2>1. h - 1 \in 0 .. Tip[c] /\ Tip[c] \in 0 .. Tip[c] /\ h - 1 <= Tip[c]
    BY <1>2, TipOfType DEF KnowsStart
  <2>2. Header[c][h - 1].mmr <= Header[c][Tip[c]].mmr
    BY <2>1, InsertionOrder
  <2>3. Header[c][h - 1].mmr \in Nat /\ Header[c][Tip[c]].mmr \in Nat
    BY <2>1, TipOfType
  <2> QED BY <1>2, <2>2, <2>3 DEF StartIndex, HighestIndex
<1> QED BY <1>1, <1>2

LEMMA IndexScan == ASSUME GrowthInv, Scan PROVE IndexOK'
<1>0. /\ IndexOK /\ head \in Chain /\ HighestIndex(head) \in Nat
      /\ next \in Nat /\ highest \in Nat /\ cursor.index \in Nat
      /\ pc \notin {"rollback", "clamp", "seek", "reset"}
      /\ pc \in {"forward", "backfill"} => next >= 1
  BY GrowthTypes DEF GrowthInv, PlaceOK, TypeInv, PagingOK
<1>1. CASE TickStart \/ ProbeCheckpoint \/ ReadUnspent \/ CheckChunk
  BY <1>0, <1>1, IndexSame
     DEF TickStart, ProbeCheckpoint, ReadUnspent, CheckChunk, storeVars, tickVars
<1>2. CASE ForwardStore \/ BackfillStore \/ MarkSpent \/ AdvanceAccount
  BY <1>0, <1>2, IndexSame
     DEF ForwardStore, BackfillStore, StoreMatch, insert_output, MarkSpent, mark_spent,
         AdvanceAccount, set_account_scan_height
<1>3. CASE FinishTick \/ GiveUp \/ BackfillDone
  BY <1>0, <1>3
     DEF FinishTick, GiveUp, BackfillDone, set_account_scan_height, Sleep, storeVars, IndexOK, HighestIndex
<1>4. CASE ListAccounts
  BY <1>0, <1>4 DEF ListAccounts, storeVars, IndexOK, HighestIndex
<1>5. CASE SetCursor
  BY <1>0, <1>5 DEF SetCursor, set_cursor, tickVars, IndexOK, HighestIndex
<1>6. CASE ForwardPage
  <2>1. PICK last \in LastRetrieved(head, next, HighestIndex(head)) :
          FetchPage(HighestIndex(head), last, caughtUp)
    BY <1>6 DEF ForwardPage
  <2>2. /\ UNCHANGED <<head, cursor>> /\ pc = "forward" /\ next' = last + 1
        /\ highest' = IF HighestIndex(head) > highest THEN HighestIndex(head) ELSE highest
    BY <1>6, <2>1 DEF ForwardPage, FetchPage, storeVars
  <2>3. last \in Nat /\ (next <= last => last <= HighestIndex(head))
    BY <1>0, <2>2, LastType, LastWithin DEF IndexOK
  <2> QED BY <1>0, <2>2, <2>3 DEF IndexOK, HighestIndex
<1>7. CASE BackfillPage
  <2>1. PICK last \in LastRetrieved(head, next, highest) : FetchPage(highest, last, behind)
    BY <1>7 DEF BackfillPage
  <2>2. UNCHANGED <<head, cursor, highest>> /\ pc = "backfill" /\ next' = last + 1
    BY <1>7, <2>1 DEF BackfillPage, FetchPage, storeVars
  <2>3. last \in Nat /\ (next <= last => last <= HighestIndex(head))
    BY <1>0, <2>2, LastType, LastWithin DEF IndexOK
  <2> QED BY <1>0, <2>2, <2>3 DEF IndexOK, HighestIndex
<1>8. CASE BackfillSeek
  <2>1. PICK a \in behind : /\ KnowsStart(head, accounts[a].start)
                            /\ next' = StartIndex(head, accounts[a].start)
    BY <1>8 DEF BackfillSeek
  <2>2. UNCHANGED <<head, cursor, highest>> /\ accounts[a].start \in Nat
    BY <1>8, GrowthTypes DEF BackfillSeek, storeVars
  <2> QED BY <1>0, <2>1, <2>2, StartWithin DEF IndexOK, HighestIndex
<1>9. CASE ReorgRollback \/ ReorgClamp \/ ReorgSeek \/ ReorgReset
  BY <1>0, <1>9 DEF ReorgRollback, ReorgClamp, ReorgSeek, ReorgReset
<1> QED BY <1>1, <1>2, <1>3, <1>4, <1>5, <1>6, <1>7, <1>8, <1>9 DEF Scan
-----------------------------------------------------------------------------
(* At the tip. *)

LEMMA StillSame ==
  ASSUME StillOK, UNCHANGED <<head, cursor>>, DOMAIN outputs' \subseteq DOMAIN outputs,
         \A k \in DOMAIN outputs' : outputs'[k] = outputs[k],
         AtTip => batch' \subseteq Utxo[head],
         pc' \in {"sleep", "reconcile", "advance"} => batch' = {},
         pc' = "reconcile" => /\ pc = "reconcile" /\ UNCHANGED <<tip, highest>>
                              /\ unchecked \cup absent \subseteq unchecked' \cup absent',
         pc' = "forward" /\ ~ more' => highest' = HighestIndex(head)
  PROVE  StillOK'
<1>1. AtTip' = AtTip /\ HighestIndex(head)' = HighestIndex(head)
      /\ \A k : Listed(k)' = Listed(k)
  BY DEF AtTip, Listed
<1>2. all_unspent_commits' \subseteq all_unspent_commits
  BY DEF all_unspent_commits
<1>3. pc' = "reconcile" => Still' = Still
  BY DEF Still
<1> QED BY <1>1, <1>2, <1>3 DEF StillOK

LEMMA StillStore ==
  ASSUME GrowthInv, StoreMatch, pc \in {"forward", "backfill"}
  PROVE  StillOK'
<1>1. PICK o \in batch : /\ insert_output(o, Owner[o.commit])
                         /\ batch' = batch \ {o}
  BY DEF StoreMatch
<1>2. UNCHANGED <<head, cursor, pc, tip, more, highest>>
  BY <1>1 DEF StoreMatch, insert_output
<1>3. all_unspent_commits' \subseteq all_unspent_commits \cup {o.commit}
  BY <1>1 DEF insert_output, all_unspent_commits
<1>4. AtTip' = AtTip /\ Still' = Still /\ HighestIndex(head)' = HighestIndex(head)
      /\ \A k : Listed(k)' = Listed(k)
  BY <1>2 DEF AtTip, Listed, Still
<1>5. AtTip => Listed(o.commit)
  BY DEF Listed, GrowthInv, StillOK
<1> QED BY <1>1, <1>2, <1>3, <1>4, <1>5 DEF GrowthInv, StillOK

LEMMA StillReconcile ==
  ASSUME GrowthInv, ReadUnspent \/ CheckChunk \/ MarkSpent \/ SetCursor
  PROVE  StillOK'
<1> USE DEF GrowthInv
<1>1. CASE ReadUnspent
  <2>1. /\ UNCHANGED <<head, storeVars, tip, highest, batch>> /\ pc' = "reconcile"
        /\ unchecked' = all_unspent_commits
        /\ pc = "forward" /\ ~ more /\ batch = {}
    BY <1>1 DEF ReadUnspent
  <2>2. /\ AtTip' = AtTip /\ Still' = Still /\ HighestIndex(head)' = HighestIndex(head)
        /\ \A k : Listed(k)' = Listed(k)
        /\ all_unspent_commits' = all_unspent_commits
    BY <2>1 DEF AtTip, Still, Listed, all_unspent_commits, storeVars
  <2> QED BY <2>1, <2>2 DEF StillOK, storeVars
<1>2. CASE CheckChunk
  <2>1. PICK S \in SUBSET unchecked : /\ absent' = absent \cup (S \ Present(head, S))
                                      /\ unchecked' = unchecked \ S
    BY <1>2 DEF CheckChunk
  <2>2. UNCHANGED <<head, storeVars, pc, tip, highest, batch>> /\ pc = "reconcile"
    BY <1>2 DEF CheckChunk
  <2>3. /\ AtTip' = AtTip /\ Still' = Still /\ HighestIndex(head)' = HighestIndex(head)
        /\ \A k : Listed(k)' = Listed(k)
        /\ all_unspent_commits' = all_unspent_commits
    BY <2>2 DEF AtTip, Still, Listed, all_unspent_commits, storeVars
  <2>4. \A k \in Present(head, S) : Listed(k)
    BY DEF Present, Listed
  <2> QED BY <2>1, <2>2, <2>3, <2>4 DEF StillOK, storeVars
<1>3. CASE MarkSpent
  <2>1. PICK k \in absent : mark_spent(k, tip.height) /\ absent' = absent \ {k}
    BY <1>3 DEF MarkSpent
  <2>2. UNCHANGED <<head, cursor, pc, tip, highest, batch, unchecked>> /\ pc = "reconcile"
    BY <1>3, <2>1 DEF MarkSpent, mark_spent
  <2>3. all_unspent_commits' \subseteq all_unspent_commits \ {k}
    <3> SUFFICES ASSUME NEW j \in DOMAIN outputs', outputs'[j].spent = Unspent
                 PROVE  j \in all_unspent_commits \ {k}
      BY DEF all_unspent_commits
    <3>1. j \in DOMAIN outputs
      BY <2>1 DEF mark_spent
    <3>2. CASE j = k
      <4>1. outputs'[j] = [outputs[j] EXCEPT !.spent = tip.height] /\ outputs[j] \in Row
        BY <2>1, <3>1, <3>2, RowType, GrowthTypes DEF mark_spent
      <4>2. tip.height # Unspent
        BY GrowthTypes DEF Unspent
      <4> QED BY <4>1, <4>2 DEF Row
    <3>3. CASE j # k
      BY <2>1, <3>1, <3>3 DEF mark_spent, all_unspent_commits
    <3> QED BY <3>2, <3>3
  <2>4. /\ AtTip' = AtTip /\ Still' = Still /\ HighestIndex(head)' = HighestIndex(head)
        /\ \A j : Listed(j)' = Listed(j)
    BY <2>2 DEF AtTip, Still, Listed
  <2> QED BY <2>1, <2>2, <2>3, <2>4 DEF StillOK
<1>4. CASE SetCursor
  <2>1. /\ UNCHANGED <<head, outputs, batch>> /\ pc' = "advance"
        /\ pc = "reconcile" /\ unchecked = {} /\ absent = {}
        /\ cursor' = [index |-> highest, height |-> tip.height, hash |-> tip.hash]
    BY <1>4 DEF SetCursor, set_cursor, tickVars
  <2>2. AtTip' => Still
    BY <2>1, GrowthTypes DEF AtTip, Still, TypeInv, TypeOK
  <2>3. /\ HighestIndex(head)' = HighestIndex(head) /\ \A j : Listed(j)' = Listed(j)
        /\ all_unspent_commits' = all_unspent_commits
    BY <2>1 DEF Listed, all_unspent_commits
  <2> QED BY <2>1, <2>2, <2>3 DEF StillOK
<1> QED BY <1>1, <1>2, <1>3, <1>4

LEMMA StillScan == ASSUME GrowthInv, Scan PROVE StillOK'
<1>0. /\ StillOK /\ head \in Chain /\ highest \in Nat /\ HighestIndex(head) \in Nat
      /\ highest <= HighestIndex(head)
      /\ pc \notin {"rollback", "clamp", "seek", "reset"}
      /\ AtTip => batch \subseteq Utxo[head]
      /\ pc \in {"sleep", "reconcile", "advance"} => batch = {}
  BY GrowthTypes DEF GrowthInv, PlaceOK, IndexOK, StillOK
<1>1. CASE TickStart \/ ProbeCheckpoint
  <2>1. /\ UNCHANGED <<head, storeVars, batch>> /\ pc \in {"sleep", "probe"}
        /\ pc' \in {"list", "probe", "rollback"}
    BY <1>1 DEF TickStart, ProbeCheckpoint, tickVars
  <2> QED BY <1>0, <2>1, StillSame DEF storeVars
<1>2. CASE ListAccounts
  <2>1. UNCHANGED <<head, storeVars, batch>> /\ pc' = "forward" /\ more' = TRUE
    BY <1>2 DEF ListAccounts
  <2> QED BY <1>0, <2>1, StillSame DEF storeVars
<1>3. CASE BackfillSeek
  <2>1. UNCHANGED <<head, storeVars, batch>> /\ pc' = "backfill"
    BY <1>3 DEF BackfillSeek
  <2> QED BY <1>0, <2>1, StillSame DEF storeVars
<1>4. CASE FinishTick \/ GiveUp
  <2>1. UNCHANGED <<head, storeVars>> /\ pc' = "sleep" /\ batch' = {}
    BY <1>4 DEF FinishTick, GiveUp, Sleep
  <2> QED BY <1>0, <2>1, StillSame DEF storeVars
<1>5. CASE ForwardPage
  <2>1. batch' \subseteq Utxo[head]
    BY <1>0, <1>5, PageType DEF ForwardPage, FetchPage
  <2>2. highest' = HighestIndex(head)
    BY <1>0, <1>5 DEF ForwardPage
  <2>3. UNCHANGED <<head, storeVars, pc>> /\ pc = "forward"
    BY <1>5 DEF ForwardPage
  <2> QED BY <1>0, <2>1, <2>2, <2>3, StillSame DEF storeVars
<1>6. CASE BackfillPage
  <2>1. batch' \subseteq Utxo[head]
    BY <1>0, <1>6, PageType DEF BackfillPage, FetchPage
  <2>2. UNCHANGED <<head, storeVars, pc>> /\ pc = "backfill"
    BY <1>6 DEF BackfillPage
  <2> QED BY <1>0, <2>1, <2>2, StillSame DEF storeVars
<1>7. CASE AdvanceAccount
  <2>1. UNCHANGED <<head, outputs, cursor, pc, batch>> /\ pc = "advance"
    BY <1>7 DEF AdvanceAccount, set_account_scan_height
  <2> QED BY <1>0, <2>1, StillSame
<1>8. CASE BackfillDone
  <2>1. UNCHANGED <<head, outputs, cursor>> /\ pc' = "sleep" /\ batch' = {}
    BY <1>8 DEF BackfillDone, set_account_scan_height, Sleep
  <2> QED BY <1>0, <2>1, StillSame
<1>9. CASE ForwardStore \/ BackfillStore
  BY <1>9, StillStore DEF ForwardStore, BackfillStore
<1>10. CASE ReadUnspent \/ CheckChunk \/ MarkSpent \/ SetCursor
  BY <1>10, StillReconcile
<1>11. CASE ReorgRollback \/ ReorgClamp \/ ReorgSeek \/ ReorgReset
  BY <1>0, <1>11 DEF ReorgRollback, ReorgClamp, ReorgSeek, ReorgReset
<1> QED BY <1>1, <1>2, <1>3, <1>4, <1>5, <1>6, <1>7, <1>8, <1>9, <1>10, <1>11 DEF Scan
-----------------------------------------------------------------------------
(* The chain grows. *)

LEMMA TrueGrows ==
  ASSUME SpendsAreFinal, NEW c \in Chain, NEW d \in Chain, Extends(d, c), TrueOf(c)
  PROVE  TrueOf(d)
<1>1. Created[c] \subseteq Created[d]
  BY Grown
<1>2. ASSUME NEW k, \E o \in Created[c] : o.commit = k, \A p \in Utxo[c] : p.commit # k
      PROVE  \A p \in Utxo[d] : p.commit # k
  BY <1>2, ListedBefore
<1>3. \A k \in DOMAIN outputs : RowOf(k) \in Created[c] /\ RowOf(k).commit = k
  BY DEF TrueOf, RowOf
<1>4. ASSUME NEW k \in DOMAIN outputs, outputs[k].spent # Unspent
      PROVE  \A p \in Utxo[d] : p.commit # k
  BY <1>2, <1>3, <1>4 DEF TrueOf
<1>5. ASSUME NEW k \in absent PROVE \A p \in Utxo[d] : p.commit # k
  BY <1>2, <1>5 DEF TrueOf
<1> QED BY <1>1, <1>3, <1>4, <1>5 DEF TrueOf

LEMMA GrowthHead ==
  ASSUME SpendsAreFinal, WorkGrows, GrowthInv, NEW c \in Chain, MoveHead(c), Extends(c, head)
  PROVE  PlaceOK' /\ TrueOf(head)' /\ IndexOK' /\ StillOK'
<1>1. /\ head' = c /\ Work[c] > Work[head] /\ UNCHANGED <<storeVars, pc, tickVars>>
      /\ head \in Chain
  BY GrowthTypes DEF MoveHead, NewHead
<1>2. /\ Tip[head] <= Tip[c] /\ HighestIndex(head) <= HighestIndex(c)
      /\ HighestIndex(c) \in Nat
  BY <1>1, Grown, TipOfType
<1>3. PlaceOK'
  <2>1. OnChain => Contains(c, cursor.height, cursor.hash)
    BY <1>1, ExtendsContains, GrowthTypes DEF OnChain
  <2>2. pc # "sleep" => Contains(c, tip.height, tip.hash)
    BY <1>1, ExtendsContains, GrowthTypes DEF GrowthInv, PlaceOK
  <2> QED BY <1>1, <2>1, <2>2 DEF GrowthInv, PlaceOK, Fresh, OnChain, storeVars, tickVars
<1>4. TrueOf(head)'
  <2>1. TrueOf(c)
    BY <1>1, TrueGrows DEF GrowthInv
  <2> QED BY <1>1, <2>1 DEF TrueOf, RowOf, storeVars, tickVars
<1>5. IndexOK'
  BY <1>1, <1>2, GrowthTypes DEF GrowthInv, IndexOK, HighestIndex, storeVars, tickVars
<1>6. ~ AtTip'
  <2> SUFFICES ASSUME TipOf(c) = [height |-> cursor.height, hash |-> cursor.hash]
               PROVE  FALSE
    BY <1>1 DEF AtTip, storeVars
  <2>1. CASE Fresh
    BY <2>1, TipOfType, ScannerAssumption DEF Fresh
  <2>2. CASE ~ Fresh
    <3>1. Contains(head, cursor.height, cursor.hash)
      BY <2>2 DEF GrowthInv, PlaceOK, OnChain
    <3>2. Work[c] <= Work[head]
      BY <1>1, <3>1, WorkBelow
    <3> QED BY <1>1, <3>2, ChainAssumption
  <2> QED BY <2>1, <2>2
<1>7. pc # "sleep" => ~ Still'
  <2> SUFFICES ASSUME pc # "sleep", TipOf(c) = tip PROVE FALSE
    BY <1>1 DEF Still, tickVars
  <2>1. Contains(head, tip.height, tip.hash)
    BY DEF GrowthInv, PlaceOK
  <2>2. Work[c] <= Work[head]
    BY <1>1, <2>1, WorkBelow
  <2> QED BY <1>1, <2>2, ChainAssumption
<1>8. StillOK'
  BY <1>1, <1>6, <1>7 DEF GrowthInv, StillOK, tickVars
<1> QED BY <1>3, <1>4, <1>5, <1>8

LEMMA GrowthClient ==
  ASSUME GrowthInv, Client \/ Abort \/ UNCHANGED vars
  PROVE  PlaceOK' /\ TrueOf(head)' /\ IndexOK' /\ StillOK'
<1> USE DEF GrowthInv
<1>0. /\ PlaceOK /\ TrueOf(head) /\ IndexOK /\ StillOK /\ batch \subseteq Created[head]
      /\ HighestIndex(head) \in Nat
  BY GrowthTypes DEF TrueOf
<1>1. CASE Abort
  <2>1. UNCHANGED <<head, storeVars>> /\ pc' = "sleep" /\ batch' = {} /\ unchecked' = {}
        /\ absent' = {} /\ next' = 0 /\ highest' = 0
    BY <1>1 DEF Abort, Sleep
  <2>2. PlaceOK' /\ IndexOK'
    BY <1>0, <2>1, PlaceSame DEF storeVars, IndexOK, HighestIndex
  <2> QED BY <1>0, <2>1, <2>2, TrueSame, StillSame DEF storeVars
<1>2. CASE Client
  <2>1. /\ UNCHANGED <<head, cursor, pc, tickVars>>
        /\ DOMAIN outputs' \subseteq DOMAIN outputs
        /\ \A k \in DOMAIN outputs' : outputs'[k] = outputs[k]
    BY <1>2 DEF Client, Register, register_account, Rescan, rescan_account
  <2>2. PlaceOK' /\ IndexOK' /\ TrueOf(head)'
    BY <1>0, <2>1, PlaceSame, IndexSame, TrueSame DEF tickVars
  <2>3. AtTip' = AtTip /\ HighestIndex(head)' = HighestIndex(head) /\ Still' = Still
        /\ (\A k : Listed(k)' = Listed(k))
        /\ all_unspent_commits' \subseteq all_unspent_commits
    BY <2>1 DEF AtTip, Listed, Still, all_unspent_commits, tickVars
  <2> QED BY <1>0, <2>1, <2>2, <2>3 DEF StillOK, tickVars
<1>3. CASE UNCHANGED vars
  BY <1>0, <1>3
     DEF vars, storeVars, tickVars, PlaceOK, Fresh, OnChain, TrueOf, RowOf, IndexOK,
         HighestIndex, StillOK, AtTip, Listed, Still, all_unspent_commits
<1> QED BY <1>1, <1>2, <1>3

LEMMA GrowthNext ==
  ASSUME SpendsAreFinal, WorkGrows, GrowthInv, [Next /\ Grows]_vars
  PROVE  GrowthInv'
<1>1. CustodyInv' /\ ProgressInv'
  BY CustodyNext, ProgressNext DEF GrowthInv
<1>2. CASE Scan
  BY <1>1, <1>2, PlaceScan, TrueScan, IndexScan, StillScan DEF GrowthInv
<1>3. CASE Client \/ Abort \/ UNCHANGED vars
  BY <1>1, <1>3, GrowthClient DEF GrowthInv
<1>4. ASSUME NEW c \in Chain, MoveHead(c), Grows PROVE GrowthInv'
  <2>1. Work[c] > Work[head] /\ head' = c /\ Work[head] \in Nat
    BY <1>4, GrowthTypes, ChainAssumption DEF MoveHead, NewHead
  <2>2. Extends(c, head)
    BY <1>4, <2>1 DEF Grows
  <2> QED BY <1>1, <1>4, <2>2, GrowthHead DEF GrowthInv
<1> QED BY <1>2, <1>3, <1>4 DEF Next

LEMMA GrowthInit == Init => GrowthInv
<1> SUFFICES ASSUME Init PROVE GrowthInv
  OBVIOUS
<1>1. LedgerInv /\ head \in Chain
  BY LedgerInit DEF Init
<1>2. CustodyInv /\ ProgressInv
  BY <1>1 DEF LedgerInv, DiscoveryInv, BaseInv
<1>3. /\ cursor = NoCursor /\ DOMAIN outputs = {} /\ pc = "sleep" /\ batch = {}
      /\ unchecked = {} /\ absent = {} /\ next = 0 /\ highest = 0
  BY DEF Init, StoreInit, ScannerInit
<1>4. HighestIndex(head) \in Nat /\ TipOf(head).hash # NoHash
  BY <1>1, TipOfType, ScannerAssumption
<1>5. ~ AtTip
  BY <1>3, <1>4 DEF AtTip, NoCursor
<1> QED BY <1>2, <1>3, <1>4, <1>5
        DEF GrowthInv, PlaceOK, Fresh, NoCursor, TrueOf, IndexOK, StillOK

(* On a chain that only grows, a stored output is where the chain has it,  *)
(* is not held for spent while the node lists it, and is not counted once  *)
(* it is gone and the checkpoint is the tip: whatever tick was under way   *)
(* when the blocks came, failed, or was raced by a rescan.                 *)
THEOREM GrowingChain ==
  ASSUME SpendsAreFinal, WorkGrows
  PROVE  GrowthSpec => [](RowsAreCurrent /\ NeverWronglySpent /\ NoPhantomBalance)
<1>1. GrowthInv => RowsAreCurrent /\ NeverWronglySpent /\ NoPhantomBalance
  <2> SUFFICES ASSUME GrowthInv
               PROVE  RowsAreCurrent /\ NeverWronglySpent /\ NoPhantomBalance
    OBVIOUS
  <2>1. RowsAreCurrent /\ NeverWronglySpent
    BY DEF GrowthInv, TrueOf, RowOf, RowsAreCurrent, NeverWronglySpent
  <2>2. NoPhantomBalance
    BY DEF GrowthInv, StillOK, AtTip, Listed, NoPhantomBalance
  <2> QED BY <2>1, <2>2
<1>2. GrowthInv /\ [Next /\ Grows]_vars => GrowthInv'
  BY GrowthNext
<1> QED BY <1>1, <1>2, GrowthInit, PTL DEF GrowthSpec
-----------------------------------------------------------------------------
(* Nothing is missed either, if a client registers at a birthday below the *)
(* checkpoint, or between ticks at one that no scanned output lies above   *)
(* (the node's tip is such a one).                                         *)

RegistersEarly ==
  \A a \in Account, h \in ClientHeight : Register(a, h) =>
    \/ h < cursor.height
    \/ pc = "sleep" /\ h <= Tip[head] /\ cursor.index <= Header[head][h].mmr

EarlySpec == Init /\ [][Next /\ Grows /\ RegistersEarly]_vars

StoredUpTo(S, i) ==
  \A a \in S : \A o \in Utxo[head] : Own(o, a) /\ o.idx <= i => Stored(o)

DueOK ==
  \A a \in DOMAIN accounts :
    accounts[a].scan >= cursor.height => StoredUpTo({a}, cursor.index)

(* An account whose scan height is above the checkpoint is a new one.      *)
BirthdayOK ==
  \A a \in DOMAIN accounts :
    \/ accounts[a].scan <= cursor.height
    \/ /\ accounts[a].start \in 0 .. Tip[head]
       /\ cursor.index <= Header[head][accounts[a].start].mmr

(* None is above the tip that the checkpoint will move to, and none that   *)
(* the forward scan leaves out reaches it.                                 *)
BetweenOK ==
  /\ pc \in {"probe", "list", "forward", "reconcile"} =>
       \A a \in DOMAIN accounts : accounts[a].scan <= tip.height
  /\ pc \in {"forward", "reconcile"} =>
       \A a \in DOMAIN accounts \ caughtUp : accounts[a].scan < tip.height

(* The pages read so far, up to the index that the tick will record.       *)
ReadOK ==
  /\ pc = "forward" => StoredBelow(caughtUp, next) /\ (~ more => highest < next)
  /\ pc \in {"reconcile", "advance"} => StoredUpTo(caughtUp, highest)
  /\ pc \in {"advance", "backfill"} => highest = cursor.index
  /\ pc = "backfill" => StoredBelow(behind, next) /\ (~ more => highest < next)

EarlyOK == DueOK /\ BirthdayOK /\ BetweenOK /\ ReadOK

(* A live output among those the node had indexed was live then.           *)
LEMMA WasLive ==
  ASSUME SpendsAreFinal, CommitsAreUnique, NEW c \in Chain, NEW d \in Chain,
         Extends(d, c), NEW o \in Utxo[d], o.idx <= HighestIndex(c)
  PROVE  o \in Utxo[c]
<1>1. /\ Tip[c] \in 0 .. Tip[d] /\ Header[c][Tip[c]] = Header[d][Tip[c]]
      /\ o \in Created[d]
  BY Grown, PageType
<1>2. o.height <= Tip[c]
  BY <1>1, Indexes DEF HighestIndex
<1>3. o \in Created[c]
  BY <1>1, <1>2, OwnTip, SharedBlock DEF Extends
<1>4. PICK q \in Utxo[c] : q.commit = o.commit
  BY <1>3, ListedBefore
<1> QED BY <1>3, <1>4, PageType DEF CommitsAreUnique

(* No output born after a block is among those the block ends with.        *)
LEMMA AfterBirthday ==
  ASSUME NEW c \in Chain, NEW h \in 0 .. Tip[c], NEW o \in Utxo[c], h < o.height,
         NEW i \in Nat, i <= Header[c][h].mmr
  PROVE  ~ o.idx <= i
<1>1. o \in Created[c] /\ o.height \in Nat /\ o.idx \in Nat /\ Header[c][h].mmr \in Nat
      /\ h \in Nat
  BY PageType, CreatedHeight, Indexes, TipOfType
<1>2. o.idx <= Header[c][h].mmr => o.height <= h
  BY <1>1, Indexes
<1> QED BY <1>1, <1>2

LEMMA EarlySame ==
  ASSUME EarlyOK, UNCHANGED <<head, cursor, accounts>>,
         DOMAIN outputs \subseteq DOMAIN outputs'
  PROVE  DueOK' /\ BirthdayOK'
<1>1. \A a \in DOMAIN accounts :
        StoredUpTo({a}, cursor.index) => StoredUpTo({a}, cursor.index)'
  BY DEF StoredUpTo, Own, Stored
<1> QED BY <1>1 DEF EarlyOK, DueOK, BirthdayOK

LEMMA EarlyTypes ==
  ASSUME GrowthInv
  PROVE  /\ head \in Chain /\ Tip[head] \in Nat /\ HighestIndex(head) \in Nat
         /\ cursor.height \in Nat /\ cursor.index \in Nat /\ tip.height \in Nat
         /\ next \in Nat /\ highest \in Nat
         /\ highest <= HighestIndex(head) /\ cursor.index <= HighestIndex(head)
         /\ caughtUp \subseteq DOMAIN accounts /\ behind \subseteq DOMAIN accounts
         /\ \A a \in DOMAIN accounts : /\ accounts[a] \in AccountRow
                                       /\ accounts[a].start \in Nat /\ accounts[a].scan \in Nat
         /\ \A o \in Utxo[head] : o \in Created[head] /\ o.idx \in Nat /\ o.height \in Nat
         /\ pc \in {"forward", "backfill"} => next >= 1
         /\ pc \notin {"rollback", "clamp", "seek", "reset"}
<1>1. head \in Chain /\ \A a \in DOMAIN accounts : accounts[a] \in AccountRow
  BY GrowthTypes DEF TypeInv, TypeOK
<1>2. \A o \in Utxo[head] : o \in Created[head] /\ o.idx \in Nat /\ o.height \in Nat
  BY <1>1, AllListed, CreatedHeight
<1>3. pc \in {"forward", "backfill"} => next >= 1
  BY GrowthTypes DEF TypeInv, PagingOK
<1> QED BY <1>1, <1>2, <1>3, GrowthTypes DEF GrowthInv, IndexOK, PlaceOK

(* One more page for the accounts of S. *)
LEMMA PageRead ==
  ASSUME GrowthInv, NEW S, NEW e \in Nat, NEW last \in LastRetrieved(head, next, e),
         next >= 1, FetchPage(e, last, S), StoredBelow(S, next),
         UNCHANGED <<head, storeVars>>
  PROVE  /\ \A a \in S : \A o \in Utxo[head] :
              Own(o, a) /\ o.idx < next' => Stored(o) \/ o \in batch'
         /\ last \in Nat /\ next' = last + 1
         /\ ~ (next <= last /\ last < e) => last >= e
<1>1. head \in Chain /\ next \in Nat
  BY EarlyTypes
<1>2. /\ last \in Nat /\ next' = last + 1
      /\ batch = {} /\ batch' = {o \in Page(head, next, e) : Owner[o.commit] \in S}
      /\ \A o \in Utxo[head] : next <= o.idx /\ o.idx <= last => o \in Page(head, next, e)
      /\ ~ (next <= last /\ last < e) => last >= e
  BY <1>1, PageCovers DEF FetchPage
<1>3. ASSUME NEW a \in S, NEW o \in Utxo[head], Own(o, a), o.idx < next'
      PROVE  Stored(o) \/ o \in batch'
  <2>1. o.idx \in Nat /\ Owner[o.commit] = a
    BY <1>3, EarlyTypes DEF Own
  <2>2. CASE o.idx < next
    BY <1>2, <1>3, <2>2 DEF StoredBelow
  <2>3. CASE ~ o.idx < next
    <3>1. o \in Page(head, next, e)
      BY <1>1, <1>2, <1>3, <2>1, <2>3
    <3> QED BY <1>2, <2>1, <3>1
  <2> QED BY <2>2, <2>3
<1> QED BY <1>2, <1>3

LEMMA EarlyPage ==
  ASSUME GrowthInv, EarlyOK, ForwardPage \/ BackfillPage
  PROVE  EarlyOK'
<1>1. UNCHANGED <<head, storeVars, pc, tip, caughtUp, behind>>
  BY DEF ForwardPage, BackfillPage
<1>2. DueOK' /\ BirthdayOK' /\ BetweenOK'
  BY <1>1, EarlySame DEF EarlyOK, BetweenOK, storeVars
<1>3. CASE ForwardPage
  <2>1. PICK last \in LastRetrieved(head, next, HighestIndex(head)) :
          /\ FetchPage(HighestIndex(head), last, caughtUp)
          /\ more' = (next <= last /\ last < HighestIndex(head))
    BY <1>3 DEF ForwardPage
  <2>2. pc = "forward" /\ StoredBelow(caughtUp, next) /\ highest' = HighestIndex(head)
    BY <1>3, EarlyTypes DEF ForwardPage, EarlyOK, ReadOK
  <2>3. /\ \A a \in caughtUp : \A o \in Utxo[head] :
             Own(o, a) /\ o.idx < next' => Stored(o) \/ o \in batch'
        /\ last \in Nat /\ next' = last + 1 /\ (~ more' => last >= HighestIndex(head))
    BY <1>1, <2>1, <2>2, PageRead, EarlyTypes
  <2>4. StoredBelow(caughtUp, next)'
    BY <1>1, <2>3 DEF StoredBelow, Own, Stored, storeVars
  <2>5. ~ more' => highest' < next'
    BY <2>2, <2>3, EarlyTypes
  <2> QED BY <1>1, <1>2, <2>2, <2>4, <2>5 DEF EarlyOK, ReadOK
<1>4. CASE BackfillPage
  <2>1. PICK last \in LastRetrieved(head, next, highest) :
          /\ FetchPage(highest, last, behind)
          /\ more' = (next <= last /\ (last < highest \/ HighestIndex(head) < highest))
    BY <1>4 DEF BackfillPage
  <2>2. /\ pc = "backfill" /\ StoredBelow(behind, next) /\ UNCHANGED highest
        /\ highest = cursor.index
    BY <1>4 DEF BackfillPage, EarlyOK, ReadOK
  <2>3. /\ \A a \in behind : \A o \in Utxo[head] :
             Own(o, a) /\ o.idx < next' => Stored(o) \/ o \in batch'
        /\ last \in Nat /\ next' = last + 1
        /\ ~ (next <= last /\ last < highest) => last >= highest
    BY <1>1, <2>1, <2>2, PageRead, EarlyTypes
  <2>4. StoredBelow(behind, next)'
    BY <1>1, <2>3 DEF StoredBelow, Own, Stored, storeVars
  <2>5. ~ more' => ~ (next <= last /\ last < highest)
    BY <2>1
  <2>6. ~ more' => highest' < next'
    BY <2>2, <2>3, <2>5, EarlyTypes
  <2> QED BY <1>1, <1>2, <2>2, <2>4, <2>6 DEF EarlyOK, ReadOK, storeVars
<1> QED BY <1>3, <1>4

LEMMA EarlyStore ==
  ASSUME EarlyOK, StoreMatch, pc \in {"forward", "backfill"}
  PROVE  EarlyOK'
<1>1. PICK p \in batch : /\ insert_output(p, Owner[p.commit])
                         /\ batch' = batch \ {p}
  BY DEF StoreMatch
<1>2. /\ UNCHANGED <<head, accounts, cursor, pc, tip, caughtUp, behind, next, highest, more>>
      /\ DOMAIN outputs' = DOMAIN outputs \cup {p.commit}
  BY <1>1 DEF StoreMatch, insert_output
<1>3. DueOK' /\ BirthdayOK'
  BY <1>2, EarlySame
<1>4. /\ StoredBelow(caughtUp, next) => StoredBelow(caughtUp, next)'
      /\ StoredBelow(behind, next) => StoredBelow(behind, next)'
  BY <1>1, <1>2 DEF StoredBelow, Stored, Own
<1> QED BY <1>2, <1>3, <1>4 DEF EarlyOK, BetweenOK, ReadOK

(* What a caught-up account reaches, it has. *)
LEMMA EarlyAdvance ==
  ASSUME GrowthInv, EarlyOK, NEW a \in DOMAIN accounts, StoredUpTo({a}, cursor.index),
         set_account_scan_height(a, cursor.height), UNCHANGED head
  PROVE  DueOK' /\ BirthdayOK'
<1>1. /\ UNCHANGED <<head, cursor, outputs>> /\ DOMAIN accounts' = DOMAIN accounts
      /\ accounts'[a] = [accounts[a] EXCEPT !.scan = cursor.height]
      /\ \A b \in DOMAIN accounts : b # a => accounts'[b] = accounts[b]
  BY DEF set_account_scan_height
<1>2. accounts'[a].start = accounts[a].start /\ accounts'[a].scan = cursor.height
      /\ cursor.height \in Nat
  BY <1>1, EarlyTypes DEF AccountRow
<1>3. ASSUME NEW b \in DOMAIN accounts, accounts'[b].scan >= cursor.height
      PROVE  StoredUpTo({b}, cursor.index)'
  <2>1. StoredUpTo({b}, cursor.index)
    BY <1>1, <1>3 DEF EarlyOK, DueOK
  <2>2. accounts'[b].start = accounts[b].start
    BY <1>1, <1>2
  <2> QED BY <1>1, <2>1, <2>2 DEF StoredUpTo, Own, Stored
<1>4. accounts'[a].scan <= cursor.height
  BY <1>2
<1>5. BirthdayOK'
  BY <1>1, <1>4 DEF EarlyOK, BirthdayOK
<1> QED BY <1>1, <1>3, <1>5 DEF DueOK

LEMMA EarlyCursor ==
  ASSUME GrowthInv, EarlyOK, SetCursor
  PROVE  EarlyOK'
<1>1. /\ UNCHANGED <<head, accounts, outputs, tickVars>> /\ pc = "reconcile" /\ pc' = "advance"
      /\ cursor'.index = highest /\ cursor'.height = tip.height
  BY DEF SetCursor, set_cursor
<1>2. /\ StoredUpTo(caughtUp, highest) /\ \A a \in DOMAIN accounts : accounts[a].scan <= tip.height
      /\ \A a \in DOMAIN accounts \ caughtUp : accounts[a].scan < tip.height
  BY <1>1 DEF EarlyOK, BetweenOK, ReadOK
<1>3. ASSUME NEW a \in DOMAIN accounts, accounts[a].scan >= tip.height
      PROVE  StoredUpTo({a}, highest)
  <2>1. a \in caughtUp
    BY <1>2, <1>3, EarlyTypes
  <2> QED BY <1>2, <2>1 DEF StoredUpTo
<1>4. /\ \A a \in DOMAIN accounts : StoredUpTo({a}, cursor.index)' <=> StoredUpTo({a}, highest)
      /\ StoredUpTo(caughtUp, highest)' <=> StoredUpTo(caughtUp, highest)
  BY <1>1 DEF StoredUpTo, Own, Stored, tickVars
<1>5. DueOK'
  BY <1>1, <1>3, <1>4 DEF DueOK
<1>6. BirthdayOK'
  BY <1>1, <1>2 DEF BirthdayOK
<1> QED BY <1>1, <1>2, <1>4, <1>5, <1>6 DEF EarlyOK, BetweenOK, ReadOK, tickVars

LEMMA EarlySeek ==
  ASSUME GrowthInv, EarlyOK, BackfillSeek
  PROVE  EarlyOK'
<1>1. PICK a \in behind : /\ KnowsStart(head, accounts[a].start)
                          /\ next' = StartIndex(head, accounts[a].start)
                          /\ behind' = {a}
  BY DEF BackfillSeek
<1>2. /\ UNCHANGED <<head, storeVars, highest>> /\ pc' = "backfill" /\ more' = TRUE
      /\ pc = "advance"
  BY DEF BackfillSeek
<1>3. ASSUME NEW o \in Utxo[head], Own(o, a)
      PROVE  ~ o.idx < next'
  <2>1. /\ accounts[a].start \in Nat /\ accounts[a].start < o.height
        /\ o \in Created[head] /\ o.height \in Nat /\ o.height <= Tip[head]
        /\ o.idx \in Nat /\ 1 <= o.idx /\ head \in Chain /\ Tip[head] \in Nat
    <3>1. head \in Chain /\ o \in Created[head] /\ Tip[head] \in Nat /\ 0 \in 0 .. Tip[head]
          /\ accounts[a].start \in Nat
      BY EarlyTypes
    <3> QED BY <1>3, <3>1, CreatedHeight, Indexes DEF Own
  <2>2. CASE accounts[a].start = 0
    BY <1>1, <2>1, <2>2 DEF StartIndex
  <2>3. CASE accounts[a].start # 0
    <3>1. accounts[a].start - 1 \in 0 .. Tip[head]
      BY <2>1, <2>3
    <3>2. /\ Header[head][accounts[a].start - 1].mmr \in Nat
          /\ ~ o.idx <= Header[head][accounts[a].start - 1].mmr
      BY <2>1, <3>1, TipOfType, Indexes
    <3> QED BY <1>1, <2>1, <2>3, <3>2 DEF StartIndex
  <2> QED BY <2>2, <2>3
<1>4. StoredBelow(behind, next)'
  BY <1>1, <1>2, <1>3 DEF StoredBelow, Own, storeVars
<1>5. DueOK' /\ BirthdayOK'
  BY <1>2, EarlySame DEF storeVars
<1> QED BY <1>2, <1>4, <1>5 DEF EarlyOK, BetweenOK, ReadOK, storeVars

LEMMA EarlyStart ==
  ASSUME GrowthInv, EarlyOK, TickStart
  PROVE  EarlyOK'
<1>1. UNCHANGED <<head, storeVars>> /\ tip'.height = Tip[head] /\ pc' \in {"list", "probe", "rollback"}
  BY DEF TickStart, TipOf
<1>2. \A a \in DOMAIN accounts : accounts[a].scan <= Tip[head]
  <2> SUFFICES ASSUME NEW a \in DOMAIN accounts PROVE accounts[a].scan <= Tip[head]
    OBVIOUS
  <2>1. /\ accounts[a].scan <= cursor.height \/ accounts[a].scan <= accounts[a].start
        /\ accounts[a].scan <= cursor.height \/ accounts[a].start <= Tip[head]
    BY DEF GrowthInv, ProgressInv, Within, EarlyOK, BirthdayOK
  <2> QED BY <2>1, GrowthTypes
<1>3. DueOK' /\ BirthdayOK'
  BY <1>1, EarlySame DEF storeVars
<1> QED BY <1>1, <1>2, <1>3 DEF EarlyOK, BetweenOK, ReadOK, storeVars

LEMMA EarlyList ==
  ASSUME GrowthInv, EarlyOK, ListAccounts
  PROVE  EarlyOK'
<1>1. /\ UNCHANGED <<head, storeVars, tip, batch>> /\ pc = "list" /\ pc' = "forward"
      /\ caughtUp' = {a \in DOMAIN accounts : accounts[a].scan >= cursor.height}
      /\ next' = cursor.index + 1 /\ more' = TRUE
  BY DEF ListAccounts
<1>2. \A a \in caughtUp' : \A o \in Utxo[head] : Own(o, a) /\ o.idx < next' => Stored(o)
  <2> SUFFICES ASSUME NEW a \in caughtUp', NEW o \in Utxo[head], Own(o, a), o.idx < next'
               PROVE  Stored(o)
    OBVIOUS
  <2>1. o.idx <= cursor.index
    BY <1>1, EarlyTypes
  <2> QED BY <1>1, <2>1 DEF EarlyOK, DueOK, StoredUpTo
<1>3. StoredBelow(caughtUp, next)'
  BY <1>1, <1>2 DEF StoredBelow, Own, Stored, storeVars
<1>4. \A a \in DOMAIN accounts : a \notin caughtUp' => accounts[a].scan < tip.height
  <2> SUFFICES ASSUME NEW a \in DOMAIN accounts, a \notin caughtUp'
               PROVE  accounts[a].scan < tip.height
    OBVIOUS
  <2>1. ~ accounts[a].scan >= cursor.height /\ cursor.height <= tip.height
    BY <1>1 DEF GrowthInv, ProgressInv, PhaseOK
  <2> QED BY <2>1, EarlyTypes
<1>5. DueOK' /\ BirthdayOK'
  BY <1>1, EarlySame DEF storeVars
<1> QED BY <1>1, <1>3, <1>4, <1>5 DEF EarlyOK, BetweenOK, ReadOK, storeVars

LEMMA EarlyScan == ASSUME GrowthInv, EarlyOK, Scan PROVE EarlyOK'
<1>1. CASE ProbeCheckpoint \/ FinishTick \/ GiveUp
  <2>1. /\ UNCHANGED <<head, storeVars>> /\ pc' \in {"list", "rollback", "sleep"}
        /\ pc' = "list" => UNCHANGED tip /\ pc = "probe"
    BY <1>1 DEF ProbeCheckpoint, FinishTick, GiveUp, Sleep, tickVars
  <2> QED BY <2>1, EarlySame DEF storeVars, EarlyOK, BetweenOK, ReadOK
<1>2. CASE ReadUnspent
  <2>1. /\ UNCHANGED <<head, storeVars, tip, caughtUp, highest>> /\ pc' = "reconcile"
        /\ pc = "forward" /\ batch = {} /\ ~ more
    BY <1>2 DEF ReadUnspent
  <2>2. ASSUME NEW a \in caughtUp, NEW o \in Utxo[head], Own(o, a), o.idx <= highest
        PROVE  Stored(o)
    <3>1. o.idx < next
      BY <2>1, <2>2, EarlyTypes DEF EarlyOK, ReadOK
    <3> QED BY <2>1, <2>2, <3>1 DEF EarlyOK, ReadOK, StoredBelow
  <2>3. StoredUpTo(caughtUp, highest)'
    BY <2>1, <2>2 DEF StoredUpTo, Own, Stored, storeVars
  <2> QED BY <2>1, <2>3, EarlySame DEF storeVars, EarlyOK, BetweenOK, ReadOK
<1>3. CASE CheckChunk \/ MarkSpent
  <2>1. /\ UNCHANGED <<head, accounts, cursor, tip, caughtUp, highest, pc>> /\ pc = "reconcile"
        /\ DOMAIN outputs' = DOMAIN outputs
    BY <1>3 DEF CheckChunk, MarkSpent, mark_spent, storeVars
  <2>2. StoredUpTo(caughtUp, highest) => StoredUpTo(caughtUp, highest)'
    BY <2>1 DEF StoredUpTo, Own, Stored
  <2> QED BY <2>1, <2>2, EarlySame DEF EarlyOK, BetweenOK, ReadOK
<1>4. CASE AdvanceAccount
  <2>1. PICK a \in caughtUp : /\ set_account_scan_height(a, tip.height)
                              /\ caughtUp' = caughtUp \ {a}
    BY <1>4 DEF AdvanceAccount
  <2>2. /\ UNCHANGED <<head, outputs, cursor, pc, highest>> /\ pc = "advance"
        /\ tip.height = cursor.height /\ a \in DOMAIN accounts /\ highest = cursor.index
        /\ StoredUpTo(caughtUp, highest)
    BY <1>4, <2>1, EarlyTypes
       DEF AdvanceAccount, set_account_scan_height, GrowthInv, ProgressInv, PhaseOK,
           EarlyOK, ReadOK
  <2>3. StoredUpTo({a}, cursor.index)
    BY <2>1, <2>2 DEF StoredUpTo
  <2>4. DueOK' /\ BirthdayOK'
    BY <2>1, <2>2, <2>3, EarlyAdvance
  <2>5. \A b \in caughtUp' : accounts'[b] = accounts[b]
    BY <2>1, EarlyTypes DEF set_account_scan_height
  <2>6. StoredUpTo(caughtUp, highest)'
    BY <2>1, <2>2, <2>5 DEF StoredUpTo, Own, Stored
  <2> QED BY <2>2, <2>4, <2>6 DEF EarlyOK, BetweenOK, ReadOK
<1>5. CASE BackfillDone
  <2>1. PICK a \in behind : set_account_scan_height(a, tip.height)
    BY <1>5 DEF BackfillDone
  <2>2. /\ UNCHANGED head /\ pc = "backfill" /\ pc' = "sleep"
        /\ tip.height = cursor.height /\ a \in DOMAIN accounts /\ batch = {}
        /\ highest = cursor.index /\ highest < next /\ StoredBelow(behind, next)
    BY <1>5, <2>1, EarlyTypes
       DEF BackfillDone, Sleep, GrowthInv, ProgressInv, PhaseOK, EarlyOK, ReadOK
  <2>3. StoredUpTo({a}, cursor.index)
    <3> SUFFICES ASSUME NEW o \in Utxo[head], Own(o, a), o.idx <= cursor.index
                 PROVE  Stored(o)
      BY DEF StoredUpTo
    <3>1. o.idx < next
      BY <2>2, EarlyTypes
    <3> QED BY <2>2, <3>1 DEF StoredBelow
  <2> QED BY <2>1, <2>2, <2>3, EarlyAdvance DEF EarlyOK, BetweenOK, ReadOK
<1>6. CASE ForwardStore \/ BackfillStore
  BY <1>6, EarlyStore DEF ForwardStore, BackfillStore
<1>7. CASE ReorgRollback \/ ReorgClamp \/ ReorgSeek \/ ReorgReset
  BY <1>7, EarlyTypes DEF ReorgRollback, ReorgClamp, ReorgSeek, ReorgReset
<1> QED BY <1>1, <1>2, <1>3, <1>4, <1>5, <1>6, <1>7, EarlyStart, EarlyList, EarlyPage,
           EarlyCursor, EarlySeek DEF Scan
-----------------------------------------------------------------------------
(* The environment, on a growing chain. *)

LEMMA EarlyHead ==
  ASSUME SpendsAreFinal, CommitsAreUnique, GrowthInv, EarlyOK,
         NEW c \in Chain, MoveHead(c), Extends(c, head)
  PROVE  EarlyOK'
<1>1. head' = c /\ UNCHANGED <<storeVars, pc, tickVars>> /\ head \in Chain
  BY EarlyTypes DEF MoveHead, NewHead
<1>2. ASSUME NEW o \in Utxo[c], o.idx <= HighestIndex(head)
      PROVE  o \in Utxo[head]
  BY <1>1, <1>2, WasLive
<1>3. \A o \in Utxo[c] : o.idx \in Nat
  BY AllListed
<1>4. ASSUME NEW S, NEW i \in Nat, i <= HighestIndex(head), StoredUpTo(S, i)
      PROVE  \A a \in S : \A o \in Utxo[c] : Own(o, a)' /\ o.idx <= i => Stored(o)
  <2> SUFFICES ASSUME NEW a \in S, NEW o \in Utxo[c], Own(o, a)', o.idx <= i
               PROVE  Stored(o)
    OBVIOUS
  <2>1. o.idx <= HighestIndex(head)
    BY <1>3, <1>4, EarlyTypes
  <2>2. Own(o, a)
    BY <1>1, <1>2, <2>1 DEF Own, storeVars
  <2> QED BY <1>2, <1>4, <2>1, <2>2 DEF StoredUpTo
<1>5. ASSUME NEW S, StoredBelow(S, next)
      PROVE  \A a \in S : \A o \in Utxo[c] :
               Own(o, a)' /\ o.idx < next => Stored(o) \/ o \in batch
  <2> SUFFICES ASSUME NEW a \in S, NEW o \in Utxo[c], Own(o, a)', o.idx < next
               PROVE  Stored(o) \/ o \in batch
    OBVIOUS
  <2>1. o.idx <= HighestIndex(head)
    <3>1. next <= HighestIndex(head) + 1
      BY DEF GrowthInv, IndexOK
    <3> QED BY <1>3, <3>1, EarlyTypes
  <2>2. Own(o, a)
    BY <1>1, <1>2, <2>1 DEF Own, storeVars
  <2> QED BY <1>2, <1>5, <2>1, <2>2 DEF StoredBelow
<1>6. DueOK'
  <2> SUFFICES ASSUME NEW a \in DOMAIN accounts, accounts[a].scan >= cursor.height
               PROVE  StoredUpTo({a}, cursor.index)'
    BY <1>1 DEF DueOK, storeVars
  <2>1. StoredUpTo({a}, cursor.index)
    BY DEF EarlyOK, DueOK
  <2>2. \A b \in {a} : \A o \in Utxo[c] : Own(o, b)' /\ o.idx <= cursor.index => Stored(o)
    BY <1>4, <2>1, EarlyTypes
  <2> QED BY <1>1, <2>2 DEF StoredUpTo, Stored, storeVars
<1>7. BirthdayOK'
  <2> SUFFICES ASSUME NEW a \in DOMAIN accounts, ~ accounts[a].scan <= cursor.height
               PROVE  /\ accounts[a].start \in 0 .. Tip[c]
                      /\ cursor.index <= Header[c][accounts[a].start].mmr
    BY <1>1 DEF BirthdayOK, storeVars
  <2>1. /\ accounts[a].start \in 0 .. Tip[head]
        /\ cursor.index <= Header[head][accounts[a].start].mmr
    BY DEF EarlyOK, BirthdayOK
  <2>2. Tip[head] <= Tip[c] /\ Tip[c] \in Nat /\ Tip[head] \in Nat
        /\ Header[head][accounts[a].start] = Header[c][accounts[a].start]
    BY <1>1, <2>1, Grown
  <2> QED BY <2>1, <2>2
<1>8. ReadOK'
  <2>1. /\ StoredBelow(caughtUp, next) => StoredBelow(caughtUp, next)'
        /\ StoredBelow(behind, next) => StoredBelow(behind, next)'
    BY <1>1, <1>5 DEF StoredBelow, Stored, storeVars, tickVars
  <2>2. StoredUpTo(caughtUp, highest) => StoredUpTo(caughtUp, highest)'
    <3>1. StoredUpTo(caughtUp, highest) =>
            \A a \in caughtUp : \A o \in Utxo[c] : Own(o, a)' /\ o.idx <= highest => Stored(o)
      BY <1>4, EarlyTypes
    <3> QED BY <1>1, <3>1 DEF StoredUpTo, Stored, storeVars, tickVars
  <2> QED BY <1>1, <2>1, <2>2 DEF EarlyOK, ReadOK, storeVars, tickVars
<1>9. BetweenOK'
  BY <1>1 DEF EarlyOK, BetweenOK, storeVars, tickVars
<1> QED BY <1>6, <1>7, <1>8, <1>9 DEF EarlyOK

LEMMA EarlyRegister ==
  ASSUME GrowthInv, EarlyOK, RegistersEarly,
         NEW a \in Account, NEW h \in ClientHeight, Register(a, h)
  PROVE  EarlyOK'
<1>1. /\ UNCHANGED <<head, outputs, cursor, pc, tickVars>>
      /\ a \notin DOMAIN accounts
      /\ DOMAIN accounts' = DOMAIN accounts \cup {a}
      /\ accounts'[a] = [start |-> h, scan |-> h]
      /\ \A b \in DOMAIN accounts : accounts'[b] = accounts[b]
  BY DEF Register, register_account
<1>2. /\ caughtUp \subseteq DOMAIN accounts /\ behind \subseteq DOMAIN accounts
      /\ h \in Nat /\ head \in Chain /\ Tip[head] \in Nat
      /\ cursor.height \in Nat /\ cursor.index \in Nat /\ tip.height \in Nat
  BY EarlyTypes, ScannerAssumption
<1>3. \/ h < cursor.height
      \/ pc = "sleep" /\ h \in 0 .. Tip[head] /\ cursor.index <= Header[head][h].mmr
  <2>1. \/ h < cursor.height
        \/ pc = "sleep" /\ h <= Tip[head] /\ cursor.index <= Header[head][h].mmr
    BY Zenon DEF RegistersEarly
  <2> QED BY <1>2, <2>1
<1>4. ReadOK'
  <2>1. /\ StoredBelow(caughtUp, next) => StoredBelow(caughtUp, next)'
        /\ StoredBelow(behind, next) => StoredBelow(behind, next)'
        /\ StoredUpTo(caughtUp, highest) => StoredUpTo(caughtUp, highest)'
    BY <1>1, <1>2 DEF StoredBelow, StoredUpTo, Own, Stored, tickVars
  <2> QED BY <1>1, <2>1 DEF EarlyOK, ReadOK, tickVars
<1>5. BetweenOK'
  <2>1. pc \in {"probe", "list", "forward", "reconcile"} => h < tip.height
    BY <1>2, <1>3 DEF GrowthInv, ProgressInv, PhaseOK
  <2>2. pc \in {"probe", "list", "forward", "reconcile"} => h <= tip.height
    BY <1>2, <2>1
  <2> QED BY <1>1, <2>1, <2>2 DEF EarlyOK, BetweenOK, tickVars
<1>6. BirthdayOK'
  <2>1. h <= cursor.height \/ (h \in 0 .. Tip[head] /\ cursor.index <= Header[head][h].mmr)
    BY <1>2, <1>3
  <2> QED BY <1>1, <2>1 DEF EarlyOK, BirthdayOK
<1>7. h >= cursor.height => \A o \in Utxo[head] : ~ (h < o.height /\ o.idx <= cursor.index)
  BY <1>2, <1>3, AfterBirthday
<1>8. ASSUME NEW b \in DOMAIN accounts', accounts'[b].scan >= cursor.height
      PROVE  StoredUpTo({b}, cursor.index)'
  <2>1. CASE b = a
    BY <1>1, <1>7, <1>8, <2>1 DEF StoredUpTo, Own
  <2>2. CASE b \in DOMAIN accounts
    BY <1>1, <1>8, <2>2 DEF EarlyOK, DueOK, StoredUpTo, Own, Stored
  <2> QED BY <1>1, <2>1, <2>2
<1>9. DueOK'
  BY <1>1, <1>8 DEF DueOK
<1> QED BY <1>4, <1>5, <1>6, <1>9 DEF EarlyOK

LEMMA EarlyRescan ==
  ASSUME {"RescansBetweenTicks", "BackwardsRescans"} \subseteq Assumed, GrowthInv, EarlyOK,
         NEW a \in Account, NEW h \in ClientHeight, Rescan(a, h)
  PROVE  EarlyOK'
<1>1. /\ UNCHANGED <<head, cursor, pc, tickVars>> /\ pc = "sleep"
      /\ a \in DOMAIN accounts /\ h < accounts[a].scan
      /\ DOMAIN outputs' = {k \in DOMAIN outputs :
                              ~ (outputs[k].account = a /\ outputs[k].height >= h)}
      /\ DOMAIN accounts' = DOMAIN accounts
      /\ accounts'[a] = [accounts[a] EXCEPT !.scan = h]
      /\ \A b \in DOMAIN accounts : b # a => accounts'[b] = accounts[b]
  BY DEF Rescan, rescan_account, Holds, Lowered
<1>2. /\ h \in Nat /\ head \in Chain /\ cursor.height \in Nat /\ cursor.index \in Nat
      /\ accounts[a].scan \in Nat /\ accounts[a] \in AccountRow
  BY <1>1, EarlyTypes, ScannerAssumption
<1>3. accounts'[a].start = accounts[a].start /\ accounts'[a].scan = h
  BY <1>1, <1>2 DEF AccountRow
<1>4. ReadOK' /\ BetweenOK'
  BY <1>1 DEF ReadOK, BetweenOK
<1>5. BirthdayOK'
  <2>1. accounts[a].scan <= cursor.height => h <= cursor.height
    BY <1>1, <1>2
  <2> QED BY <1>1, <1>3, <2>1 DEF EarlyOK, BirthdayOK
<1>6. ASSUME NEW b \in DOMAIN accounts, accounts'[b].scan >= cursor.height
      PROVE  StoredUpTo({b}, cursor.index)'
  <2> SUFFICES ASSUME NEW o \in Utxo[head], Own(o, b)', o.idx <= cursor.index
               PROVE  o.commit \in DOMAIN outputs'
    BY <1>1 DEF StoredUpTo, Stored
  <2>1. Own(o, b)
    <3>1. accounts'[b].start = accounts[b].start
      BY <1>1, <1>3
    <3>2. o \in Utxo[head] /\ Owner[o.commit] = b /\ accounts'[b].start < o.height
      BY <1>1 DEF Own
    <3> QED BY <3>1, <3>2 DEF Own
  <2>2. CASE b = a
    <3>1. ~ accounts[a].scan <= cursor.height
      <4>1. h >= cursor.height
        BY <1>3, <1>6, <2>2
      <4>2. h < accounts[a].scan
        BY <1>1
      <4> QED BY <1>2, <4>1, <4>2
    <3>2. /\ accounts[a].start \in 0 .. Tip[head]
          /\ cursor.index <= Header[head][accounts[a].start].mmr
      BY <1>1, <3>1 DEF EarlyOK, BirthdayOK
    <3> QED BY <1>2, <2>1, <2>2, <3>2, AfterBirthday DEF Own
  <2>3. CASE b # a
    <3>1. Stored(o)
      BY <1>1, <1>6, <2>1, <2>3 DEF EarlyOK, DueOK, StoredUpTo
    <3>2. outputs[o.commit].account = b
      BY <2>1, <3>1 DEF GrowthInv, CustodyInv, Custody, Stored, Own
    <3> QED BY <1>1, <2>3, <3>1, <3>2 DEF Stored
  <2> QED BY <2>2, <2>3
<1>7. DueOK'
  BY <1>1, <1>6 DEF DueOK
<1> QED BY <1>4, <1>5, <1>7 DEF EarlyOK

LEMMA EarlyNext ==
  ASSUME {"RescansBetweenTicks", "BackwardsRescans"} \subseteq Assumed,
         SpendsAreFinal, CommitsAreUnique, WorkGrows,
         GrowthInv, EarlyOK, [Next /\ Grows /\ RegistersEarly]_vars
  PROVE  GrowthInv' /\ EarlyOK'
<1>1. GrowthInv'
  BY GrowthNext
<1>2. CASE Scan
  BY <1>1, <1>2, EarlyScan
<1>3. CASE Abort \/ UNCHANGED vars
  <2>1. UNCHANGED <<head, storeVars>> /\ (pc' = "sleep" \/ UNCHANGED <<pc, tickVars>>)
    BY <1>3 DEF Abort, Sleep, vars
  <2>2. DueOK' /\ BirthdayOK'
    BY <2>1, EarlySame DEF storeVars
  <2>3. CASE pc' = "sleep"
    BY <1>1, <2>2, <2>3 DEF EarlyOK, BetweenOK, ReadOK
  <2>4. CASE UNCHANGED <<pc, tickVars>>
    <3>1. /\ StoredBelow(caughtUp, next) => StoredBelow(caughtUp, next)'
          /\ StoredBelow(behind, next) => StoredBelow(behind, next)'
          /\ StoredUpTo(caughtUp, highest) => StoredUpTo(caughtUp, highest)'
      BY <2>1, <2>4 DEF StoredBelow, StoredUpTo, Own, Stored, storeVars, tickVars
    <3> QED BY <1>1, <2>1, <2>2, <2>4, <3>1 DEF EarlyOK, BetweenOK, ReadOK, storeVars, tickVars
  <2> QED BY <2>1, <2>3, <2>4
<1>4. CASE Client /\ RegistersEarly
  BY <1>1, <1>4, EarlyRegister, EarlyRescan DEF Client
<1>5. ASSUME NEW c \in Chain, MoveHead(c), Grows PROVE EarlyOK'
  <2>1. Work[c] > Work[head] /\ head' = c /\ Work[head] \in Nat
    BY <1>5, GrowthTypes, ChainAssumption DEF MoveHead, NewHead
  <2>2. Extends(c, head)
    BY <1>5, <2>1 DEF Grows
  <2> QED BY <1>5, <2>2, EarlyHead
<1> QED BY <1>1, <1>2, <1>3, <1>4, <1>5 DEF Next

LEMMA EarlyInit == Init => EarlyOK
BY DEF Init, StoreInit, ScannerInit, EarlyOK, DueOK, BirthdayOK, BetweenOK, ReadOK

(* At the tip of a growing chain, the row of a live output is that output. *)
LEMMA GrownRow ==
  ASSUME CommitsAreUnique, GrowthInv, NEW o \in Utxo[head], Stored(o)
  PROVE  RowOf(o.commit) = o
<1>1. head \in Chain /\ o \in Created[head] /\ RowOf(o.commit) \in Created[head]
  BY EarlyTypes DEF GrowthInv, TrueOf, Stored
<1>2. RowOf(o.commit).commit = o.commit
  BY DEF RowOf
<1> QED BY <1>1, <1>2 DEF CommitsAreUnique

LEMMA GrownLedger ==
  ASSUME CommitsAreUnique, GrowthInv, EarlyOK
  PROVE  LedgerIsExact
<1> SUFFICES ASSUME AtTip, NEW a \in Account, CaughtUp(a)
             PROVE  LET mine   == {o \in Utxo[head] : Owner[o.commit] = a}
                        ledger == {RowOf(k) : k \in {k \in all_unspent_commits :
                                                       outputs[k].account = a}}
                    IN  /\ ledger \subseteq mine
                        /\ {o \in mine : o.height > accounts[a].start} \subseteq ledger
  BY DEF LedgerIsExact, AtTip, RowOf
<1>1. ASSUME NEW k \in all_unspent_commits, outputs[k].account = a
      PROVE  RowOf(k) \in Utxo[head] /\ Owner[RowOf(k).commit] = a
  <2>1. PICK o \in Utxo[head] : o.commit = k
    BY DEF GrowthInv, StillOK, Listed
  <2>2. RowOf(k) = o /\ k \in DOMAIN outputs
    BY <2>1, GrownRow DEF Stored, all_unspent_commits
  <2> QED BY <1>1, <2>1, <2>2 DEF GrowthInv, CustodyInv, Custody
<1>2. ASSUME NEW o \in Utxo[head], Owner[o.commit] = a, o.height > accounts[a].start
      PROVE  /\ o.commit \in all_unspent_commits /\ outputs[o.commit].account = a
             /\ RowOf(o.commit) = o
  <2>1. o.idx <= cursor.index
    BY EarlyTypes, AllListed DEF GrowthInv, StillOK
  <2>2. a \in DOMAIN accounts /\ accounts[a].start < o.height /\ StoredUpTo({a}, cursor.index)
    BY <1>2, EarlyTypes DEF CaughtUp, EarlyOK, DueOK
  <2>3. Stored(o)
    BY <1>2, <2>1, <2>2 DEF StoredUpTo, Own
  <2>4. outputs[o.commit].spent = Unspent
    BY <2>3 DEF GrowthInv, TrueOf, Stored
  <2> QED BY <1>2, <2>3, <2>4, GrownRow
          DEF all_unspent_commits, Stored, GrowthInv, CustodyInv, Custody
<1> QED BY <1>1, <1>2

(* On such a chain a caught-up account misses no live output born after    *)
(* its birthday, and at the tip it is credited with its ledger and with    *)
(* nothing else, although the blocks came while the tick was reading.      *)
THEOREM GrowingLedger ==
  ASSUME {"RescansBetweenTicks", "BackwardsRescans"} \subseteq Assumed,
         SpendsAreFinal, CommitsAreUnique, WorkGrows
  PROVE  EarlySpec => [](Discovered /\ LedgerIsExact)
<1>1. GrowthInv /\ EarlyOK => Discovered /\ LedgerIsExact
  <2> SUFFICES ASSUME GrowthInv, EarlyOK PROVE Discovered /\ LedgerIsExact
    OBVIOUS
  <2>1. ASSUME NEW o \in Utxo[head], CaughtUp(Owner[o.commit]),
               o.height > accounts[Owner[o.commit]].start, o.idx <= cursor.index
        PROVE  o.commit \in DOMAIN outputs
    <3> DEFINE a == Owner[o.commit]
    <3>1. a \in DOMAIN accounts /\ accounts[a].start < o.height
          /\ StoredUpTo({a}, cursor.index)
      BY <2>1, EarlyTypes DEF CaughtUp, EarlyOK, DueOK
    <3> QED BY <2>1, <3>1 DEF StoredUpTo, Own, Stored
  <2> QED BY <2>1, GrownLedger DEF Discovered
<1>2. GrowthInv /\ EarlyOK /\ [Next /\ Grows /\ RegistersEarly]_vars => (GrowthInv /\ EarlyOK)'
  BY EarlyNext
<1> QED BY <1>1, <1>2, GrowthInit, EarlyInit, PTL DEF EarlySpec
=============================================================================
