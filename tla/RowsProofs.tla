----------------------------- MODULE RowsProofs -----------------------------
(***************************************************************************)
(* The rows are true of the node's chain: heights and indexes, spends, and *)
(* at the tip what counts as unspent.  Proved for every block tree, under  *)
(* the environment assumptions each theorem names.                         *)
(***************************************************************************)
EXTENDS FollowerProofs

(* No checkpoint yet. *)
Fresh == cursor.hash = NoHash

(* On every chain with c's block at height s, commitment k is not live.    *)
Gone(k, c, s) ==
  SpendsAreFinal =>
    /\ s \in 0 .. Tip[c]
    /\ \A d \in Chain : Contains(d, s, Header[c][s].hash) =>
         \A p \in Utxo[d] : p.commit # k

(* A row that is right as long as the node follows c or an extension of c. *)
RowOn(row, k, c) ==
  /\ [commit |-> k, height |-> row.height, idx |-> row.idx] \in Created[c]
  /\ row.spent # Unspent => Gone(k, c, row.spent)

RowsOn(c) == \A k \in DOMAIN outputs : RowOn(outputs[k], k, c)

NotAbove(row, height) == /\ row.height <= height
                         /\ SpendsAreFinal => row.spent <= height
UpTo(height) == \A k \in DOMAIN outputs : NotAbove(outputs[k], height)

(* The fork that handle_reorg will choose is below the checkpoint and      *)
(* common to the node's chain and every chain with the checkpoint.         *)
ForkIsCommon ==
  LET fork == Below(Tip[head])
  IN  /\ fork <= cursor.height
      /\ \A d \in Kept : Contains(d, fork, Header[head][fork].hash)

Listed(k) == \E o \in Utxo[head] : o.commit = k

(* RowsAreCurrent is not inductive: the rows must also be true of every    *)
(* chain the node may come back to, those with the checkpoint, unless a    *)
(* failed tick has left rows above it; and once the checkpoint is lost, of *)
(* the part up to the fork.                                                *)
HistoryOK ==
  /\ Fresh => cursor.height = 0
  /\ cursor.height = 0 => Fresh \/ OnChain
  /\ ~ Fresh => Kept # {}
  /\ Fresh \/ OnChain => RowsOn(head)
  /\ (Fresh /\ pc = "sleep" /\ ~ retrying) => DOMAIN outputs = {}
  /\ (~ Fresh /\ (~ OnChain \/ (pc = "sleep" /\ ~ retrying))) =>
       \A d \in Kept : RowsOn(d)
  /\ ~ Fresh /\ ~ OnChain => ForkIsCommon
  /\ pc \in {"clamp", "seek", "reset"} => RowsOn(head) /\ UpTo(Fork)
  /\ pc = "sleep" => batch = {} /\ absent = {}
  /\ batch \subseteq Utxo[head]
  /\ \A k \in absent : ~ Listed(k)

HistoryInv == CourseInv /\ HistoryOK
-----------------------------------------------------------------------------
(* Chains that share a block.                                              *)

LEMMA SharedBlock ==
  ASSUME NEW c \in Chain, NEW d \in Chain, NEW h \in Nat, NEW x,
         Contains(c, h, x), Contains(d, h, x)
  PROVE  /\ h \in 0 .. Tip[c] /\ h \in 0 .. Tip[d]
         /\ \A g \in 0 .. h : Header[c][g] = Header[d][g]
         /\ \A o \in Created[c] : o.height <= h => o \in Created[d]
<1>1. h \in 0 .. Tip[c] /\ h \in 0 .. Tip[d] /\ Header[c][h].hash = Header[d][h].hash
  BY TipOfType DEF Contains
<1> QED BY <1>1, HashesCommit, TipOfType

LEMMA CreatedHeight ==
  ASSUME NEW c \in Chain, NEW o \in Created[c]
  PROVE  o.height \in Nat /\ 1 <= o.height /\ o.height <= Tip[c]
BY InsertionOrder, TipOfType

LEMMA OwnTip == ASSUME NEW c \in Chain
                PROVE  /\ Contains(c, Tip[c], Header[c][Tip[c]].hash)
                       /\ Extends(c, c)
BY TipOfType DEF Contains, Extends

(* A chain that extends c holds every block of c. *)
LEMMA ExtendsContains ==
  ASSUME NEW c \in Chain, NEW d \in Chain, Extends(d, c),
         NEW h \in Nat, NEW x, Contains(c, h, x)
  PROVE  Contains(d, h, x)
<1>1. Tip[c] \in Nat /\ Tip[d] \in Nat /\ h \in 0 .. Tip[c] /\ Tip[c] <= Tip[d]
  BY TipOfType DEF Extends, Contains
<1>2. \A g \in 0 .. Tip[c] : Header[c][g] = Header[d][g]
  BY <1>1, OwnTip, SharedBlock DEF Extends
<1> QED BY <1>1, <1>2 DEF Contains

(* A row true of c is true of every chain that shares the block at a       *)
(* height the row does not pass.                                           *)
LEMMA RowMoves ==
  ASSUME NEW c \in Chain, NEW d \in Chain, NEW h \in Nat, NEW x,
         Contains(c, h, x), Contains(d, h, x),
         NEW k, NEW row \in Row, RowOn(row, k, c), NotAbove(row, h)
  PROVE  RowOn(row, k, d)
<1>1. /\ h \in 0 .. Tip[c] /\ h \in 0 .. Tip[d]
      /\ \A g \in 0 .. h : Header[c][g] = Header[d][g]
      /\ \A o \in Created[c] : o.height <= h => o \in Created[d]
  BY SharedBlock
<1>2. [commit |-> k, height |-> row.height, idx |-> row.idx] \in Created[d]
  <2> DEFINE o == [commit |-> k, height |-> row.height, idx |-> row.idx]
  <2>1. o \in Created[c] /\ o.height <= h
    BY DEF RowOn, NotAbove
  <2> QED BY <1>1, <2>1
<1>3. ASSUME row.spent # Unspent, SpendsAreFinal
      PROVE  /\ row.spent \in 0 .. Tip[d]
             /\ \A e \in Chain : Contains(e, row.spent, Header[d][row.spent].hash) =>
                  \A p \in Utxo[e] : p.commit # k
  <2>1. /\ row.spent \in 0 .. Tip[c]
        /\ \A e \in Chain : Contains(e, row.spent, Header[c][row.spent].hash) =>
             \A p \in Utxo[e] : p.commit # k
    BY <1>3 DEF RowOn, Gone
  <2>2. row.spent \in 0 .. h
    <3>1. row.spent <= h /\ Tip[c] \in Nat
      BY <1>3, TipOfType DEF NotAbove
    <3> QED BY <2>1, <3>1
  <2>3. Header[c][row.spent] = Header[d][row.spent]
    BY <1>1, <2>2
  <2> QED BY <1>1, <2>1, <2>2, <2>3, TipOfType
<1> QED BY <1>2, <1>3 DEF RowOn, Gone

LEMMA RowHeights ==
  ASSUME NEW c \in Chain, NEW k, NEW row \in Row, RowOn(row, k, c)
  PROVE  NotAbove(row, Tip[c])
<1>1. row.height <= Tip[c]
  BY CreatedHeight DEF RowOn
<1>2. ASSUME SpendsAreFinal PROVE row.spent <= Tip[c]
  BY <1>2, TipOfType DEF RowOn, Gone, Row, Unspent
<1> QED BY <1>1, <1>2 DEF NotAbove

LEMMA RowType == ASSUME TypeInv PROVE \A k \in DOMAIN outputs : outputs[k] \in Row
BY DEF TypeInv, TypeOK

LEMMA RowsExtend ==
  ASSUME TypeInv, NEW c \in Chain, NEW d \in Chain, Extends(d, c), RowsOn(c)
  PROVE  RowsOn(d)
<1>1. Tip[c] \in Nat /\ Contains(c, Tip[c], Header[c][Tip[c]].hash)
      /\ Contains(d, Tip[c], Header[c][Tip[c]].hash)
  BY TipOfType, OwnTip DEF Extends
<1> QED BY <1>1, RowMoves, RowHeights, RowType DEF RowsOn

LEMMA RowsKept ==
  ASSUME TypeInv, NEW c \in Chain, NEW h \in Nat, NEW x, Contains(c, h, x),
         RowsOn(c), UpTo(h)
  PROVE  \A d \in Chain : Contains(d, h, x) => RowsOn(d)
BY RowMoves, RowType DEF RowsOn, UpTo

LEMMA PageLive ==
  ASSUME NEW c \in Chain, NEW s, NEW e, NEW o \in Page(c, s, e)
  PROVE  o \in Utxo[c] /\ o \in Created[c] /\ o \in Output
BY PageType
-----------------------------------------------------------------------------
(* One step.                                                               *)

(* Where the tick knows the checkpoint on the chain, so are the rows. *)
LEMMA OnCourseRows ==
  ASSUME HistoryInv, pc \in {"list", "forward", "reconcile", "advance", "backfill"}
  PROVE  (Fresh \/ OnChain) /\ RowsOn(head)
<1>1. CASE pc \in {"list", "forward", "reconcile"}
  BY <1>1 DEF HistoryInv, HistoryOK, CourseInv, CourseOK, OnCourse
<1>2. CASE pc \in {"advance", "backfill"}
  <2>1. OnChain
    BY <1>2, OwnTip DEF HistoryInv, CourseInv, CourseOK, TypeInv, TypeOK, OnChain, TipOf
  <2> QED BY <2>1 DEF HistoryInv, HistoryOK
<1> QED BY <1>1, <1>2

(* Rows may go, none comes or changes; a tick goes on or fails.            *)
LEMMA HistorySame ==
  ASSUME HistoryInv, UNCHANGED <<head, cursor>>,
         DOMAIN outputs' \subseteq DOMAIN outputs,
         \A k \in DOMAIN outputs' : outputs'[k] = outputs[k],
         pc' \in {"clamp", "seek", "reset"} =>
           pc \in {"clamp", "seek", "reset"} /\ UNCHANGED tip,
         pc' = "sleep" /\ ~ retrying' => pc = "sleep" /\ ~ retrying,
         pc' = "sleep" => batch' = {} /\ absent' = {},
         batch' \subseteq Utxo[head],
         \A k \in absent' : ~ Listed(k)
  PROVE  HistoryOK'
<1>1. \A c : RowsOn(c) => RowsOn(c)'
  BY DEF RowsOn
<1>2. /\ UNCHANGED <<Fresh, OnChain, Kept, ForkIsCommon>>
      /\ \A k : Listed(k)' = Listed(k)
  BY DEF Fresh, OnChain, Kept, ForkIsCommon, Listed
<1>3. \A h : UpTo(h) => UpTo(h)'
  BY DEF UpTo
<1>4. pc' \in {"clamp", "seek", "reset"} => Fork' = Fork
  BY DEF Fork
<1>5. RowsOn(head) => RowsOn(head)'
  BY DEF RowsOn
<1>6. UpTo(Fork) /\ Fork' = Fork => UpTo(Fork)'
  BY DEF UpTo
<1> QED BY <1>1, <1>2, <1>4, <1>5, <1>6 DEF HistoryInv, HistoryOK

LEMMA HistoryStore ==
  ASSUME HistoryInv, StoreMatch, pc \in {"forward", "backfill"}
  PROVE  HistoryOK'
<1>1. PICK o \in batch : /\ insert_output(o, Owner[o.commit])
                         /\ batch' = batch \ {o}
  BY DEF StoreMatch
<1>2. UNCHANGED <<head, cursor, pc, tip, retrying, absent>>
  BY <1>1 DEF StoreMatch, insert_output
<1>3. (Fresh \/ OnChain) /\ RowsOn(head)
  BY OnCourseRows
<1>4. head \in Chain /\ o \in Created[head] /\ o \in Output
  BY PageType DEF HistoryInv, HistoryOK, CourseInv, TypeInv, TypeOK
<1>5. o = [commit |-> o.commit, height |-> o.height, idx |-> o.idx]
  BY <1>4 DEF Output
<1>6. ASSUME NEW k \in DOMAIN outputs'
      PROVE  RowOn(outputs'[k], k, head)
  <2>1. CASE k \in DOMAIN outputs
    BY <1>1, <1>3, <2>1 DEF insert_output, RowsOn
  <2>2. CASE k \notin DOMAIN outputs
    <3>1. k = o.commit /\ outputs'[k] = [account |-> Owner[o.commit], height |-> o.height,
                                        idx |-> o.idx, spent |-> Unspent]
      BY <1>1, <1>6, <2>2 DEF insert_output
    <3> QED BY <1>4, <1>5, <3>1 DEF RowOn
  <2> QED BY <2>1, <2>2
<1>7. RowsOn(head)'
  BY <1>2, <1>6 DEF RowsOn
<1>8. UNCHANGED <<Fresh, OnChain, Kept, ForkIsCommon>> /\ \A k : Listed(k)' = Listed(k)
  BY <1>2 DEF Fresh, OnChain, Kept, ForkIsCommon, Listed
<1> QED BY <1>1, <1>2, <1>3, <1>7, <1>8 DEF HistoryInv, HistoryOK

LEMMA HistoryMark ==
  ASSUME HistoryInv, MarkSpent
  PROVE  HistoryOK'
<1>1. PICK k \in absent : mark_spent(k, tip.height) /\ absent' = absent \ {k}
  BY DEF MarkSpent
<1>2. UNCHANGED <<head, cursor, pc, tip, retrying, batch>> /\ pc = "reconcile"
  BY <1>1 DEF MarkSpent, mark_spent
<1>3. (Fresh \/ OnChain) /\ RowsOn(head)
  BY <1>2, OnCourseRows
<1>4. head \in Chain /\ tip = TipOf(head) /\ ~ Listed(k)
  BY <1>1, <1>2 DEF HistoryInv, HistoryOK, CourseInv, CourseOK, TypeInv, TypeOK
<1>5. ASSUME k \in DOMAIN outputs
      PROVE  Gone(k, head, tip.height)
  <2> SUFFICES ASSUME SpendsAreFinal
               PROVE  /\ tip.height \in 0 .. Tip[head]
                      /\ \A d \in Chain :
                           Contains(d, tip.height, Header[head][tip.height].hash) =>
                             \A p \in Utxo[d] : p.commit # k
    BY DEF Gone
  <2>1. tip.height = Tip[head] /\ Tip[head] \in Nat
    BY <1>4, TipOfType DEF TipOf
  <2>2. PICK o \in Created[head] : o.commit = k
    BY <1>3, <1>5 DEF RowsOn, RowOn
  <2>3. ASSUME NEW d \in Chain, Extends(d, head), NEW p \in Utxo[d]
        PROVE  p.commit # k
    BY <1>4, <2>2, <2>3 DEF SpendsAreFinal, Listed
  <2> QED BY <2>1, <2>3 DEF Extends
<1>6. ASSUME NEW j \in DOMAIN outputs
      PROVE  RowOn(outputs'[j], j, head)
  <2>1. CASE j = k
    <3>1. outputs'[j] = [outputs[j] EXCEPT !.spent = tip.height] /\ outputs[j] \in Row
      BY <1>1, <2>1, RowType DEF mark_spent, HistoryInv, CourseInv
    <3>2. /\ outputs'[j].height = outputs[j].height /\ outputs'[j].idx = outputs[j].idx
          /\ outputs'[j].spent = tip.height
      BY <3>1 DEF Row
    <3> QED BY <1>3, <1>5, <2>1, <3>2 DEF RowsOn, RowOn
  <2>2. CASE j # k
    BY <1>1, <1>3, <2>2 DEF mark_spent, RowsOn
  <2> QED BY <2>1, <2>2
<1>7. RowsOn(head)'
  BY <1>1, <1>2, <1>6 DEF RowsOn, mark_spent
<1>8. UNCHANGED <<Fresh, OnChain, Kept, ForkIsCommon>> /\ \A j : Listed(j)' = Listed(j)
  BY <1>2 DEF Fresh, OnChain, Kept, ForkIsCommon, Listed
<1> QED BY <1>1, <1>2, <1>3, <1>7, <1>8 DEF HistoryInv, HistoryOK

(* The checkpoint moves to a block of the node's chain that no row passes, *)
(* or a tick ends with it there.                                           *)
LEMMA HistorySettled ==
  ASSUME HistoryInv, UNCHANGED <<head, outputs>>, OnChain', cursor'.hash \in Hash,
         cursor'.height \in Nat, RowsOn(head), UpTo(cursor'.height),
         pc' \notin {"clamp", "seek", "reset"}, batch' = {}, absent' = {}
  PROVE  HistoryOK'
<1>1. ~ Fresh'
  BY ScannerAssumption DEF Fresh
<1>2. head \in Chain /\ TypeInv
  BY DEF HistoryInv, CourseInv, TypeInv, TypeOK
<1>3. Contains(head, cursor'.height, cursor'.hash)
  BY DEF OnChain
<1>4. head \in Kept'
  BY <1>2, <1>3 DEF Kept
<1>5. ASSUME NEW d \in Kept' PROVE RowsOn(d)
  BY <1>2, <1>3, RowsKept DEF Kept
<1>6. \A d \in Kept' : RowsOn(d)'
  BY <1>5 DEF RowsOn
<1>7. RowsOn(head)'
  BY DEF RowsOn
<1> QED BY <1>1, <1>4, <1>6, <1>7 DEF HistoryOK

LEMMA HistoryRollback ==
  ASSUME HistoryInv, ReorgRollback
  PROVE  HistoryOK'
<1> USE DEF HistoryInv, CourseInv
<1>1. /\ UNCHANGED <<head, cursor, tip, batch, absent, retrying>>
      /\ pc = "rollback" /\ pc' = "clamp"
  BY DEF ReorgRollback, rollback_to, tickVars
<1>2. ~ Fresh /\ ~ OnChain /\ head \in Chain
  BY <1>1 DEF CourseOK, OnCourse, HistoryOK, TypeInv, TypeOK
<1>3. PICK d \in Kept : RowsOn(d)
  BY <1>2 DEF HistoryOK
<1>4. Fork = Below(Tip[head]) /\ Fork \in Nat
  BY <1>1, TipOfType, BelowType, <1>2 DEF Fork, CourseOK, TipOf
<1>5. Fork <= cursor.height /\ Contains(d, Fork, Header[head][Fork].hash)
  BY <1>2, <1>4 DEF HistoryOK, ForkIsCommon
<1>6. Contains(head, Fork, Header[head][Fork].hash)
  BY <1>2, <1>4, TipOfType, BelowType DEF Contains
<1>7. ASSUME NEW k \in DOMAIN outputs'
      PROVE  /\ k \in DOMAIN outputs
             /\ outputs'[k] \in Row /\ NotAbove(outputs'[k], Fork)
             /\ \A c : RowOn(outputs[k], k, c) => RowOn(outputs'[k], k, c)
  <2>1. /\ k \in DOMAIN outputs /\ outputs[k] \in Row /\ outputs[k].height <= Fork
        /\ outputs'[k] = IF outputs[k].spent > Fork
                         THEN [outputs[k] EXCEPT !.spent = Unspent] ELSE outputs[k]
    BY <1>7, RowType DEF ReorgRollback, rollback_to
  <2>2. CASE outputs[k].spent > Fork
    <3>1. outputs'[k] \in Row /\ outputs'[k].spent = Unspent
          /\ outputs'[k].height = outputs[k].height /\ outputs'[k].idx = outputs[k].idx
      BY <2>1, <2>2 DEF Row, Unspent
    <3> QED BY <1>4, <2>1, <3>1 DEF RowOn, NotAbove, Unspent
  <2>3. CASE ~ outputs[k].spent > Fork
    BY <1>4, <2>1, <2>3 DEF NotAbove, Row, Unspent
  <2> QED BY <2>1, <2>2, <2>3
<1>8. UpTo(Fork)'
  BY <1>1, <1>7 DEF UpTo, Fork
<1>9. \A e \in Kept : RowsOn(e)'
  BY <1>2, <1>7 DEF HistoryOK, RowsOn
<1>10. RowsOn(head)'
  <2>1. \A k \in DOMAIN outputs' : RowOn(outputs'[k], k, d)
    BY <1>3, <1>7 DEF RowsOn
  <2>2. \A k \in DOMAIN outputs' : RowOn(outputs'[k], k, head)
    BY <1>2, <1>4, <1>5, <1>6, <1>7, <2>1, RowMoves DEF Kept
  <2> QED BY <1>1, <2>2 DEF RowsOn
<1>11. UNCHANGED <<Fresh, OnChain, Kept, ForkIsCommon>> /\ \A j : Listed(j)' = Listed(j)
  BY <1>1 DEF Fresh, OnChain, Kept, ForkIsCommon, Listed
<1> QED BY <1>1, <1>2, <1>8, <1>9, <1>10, <1>11 DEF HistoryOK

LEMMA HistoryScan == ASSUME HistoryInv, Scan PROVE HistoryOK'
<1> USE DEF HistoryInv, CourseInv
<1>0. /\ head \in Chain /\ Tip[head] \in Nat
      /\ pc = "sleep" => batch = {} /\ absent = {}
      /\ batch \subseteq Utxo[head]
      /\ \A k \in absent : ~ Listed(k)
  BY TipOfType DEF HistoryOK, TypeInv, TypeOK
<1>1. CASE TickStart \/ ProbeCheckpoint \/ ListAccounts \/ ReadUnspent \/ BackfillSeek
           \/ ReorgSeek \/ GiveUp
  BY <1>0, <1>1, HistorySame
     DEF TickStart, ProbeCheckpoint, ListAccounts, ReadUnspent, BackfillSeek, ReorgSeek,
         GiveUp, Sleep, storeVars, tickVars
<1>2. CASE ForwardPage \/ BackfillPage
  <2>1. batch' \subseteq Utxo[head]
    BY <1>0, <1>2, PageType DEF ForwardPage, BackfillPage, FetchPage
  <2> QED BY <1>0, <1>2, <2>1, HistorySame DEF ForwardPage, BackfillPage, storeVars
<1>3. CASE CheckChunk
  <2>1. \A k \in absent' : ~ Listed(k)
    BY <1>0, <1>3 DEF CheckChunk, Present, Listed
  <2> QED BY <1>0, <1>3, <2>1, HistorySame DEF CheckChunk, storeVars
<1>4. CASE AdvanceAccount
  BY <1>0, <1>4, HistorySame DEF AdvanceAccount, set_account_scan_height
<1>5. CASE ReorgClamp
  BY <1>0, <1>5, HistorySame DEF ReorgClamp, clamp_account_scan_heights, tickVars
<1>6. CASE ForwardStore \/ BackfillStore
  BY <1>6, HistoryStore DEF ForwardStore, BackfillStore
<1>7. CASE MarkSpent
  BY <1>7, HistoryMark
<1>8. CASE ReorgRollback
  BY <1>8, HistoryRollback
<1>9. ASSUME RowsOn(head) PROVE UpTo(Tip[head])
  BY <1>0, <1>9, RowHeights, RowType DEF RowsOn, UpTo
<1>10. CASE SetCursor
  <2>1. /\ UNCHANGED <<head, outputs, absent, batch>> /\ absent = {} /\ pc' = "advance"
        /\ cursor'.height = Tip[head] /\ cursor'.hash = Header[head][Tip[head]].hash
        /\ pc = "reconcile"
    BY <1>10 DEF SetCursor, set_cursor, tickVars, CourseOK, TipOf
  <2>2. OnChain' /\ cursor'.hash \in Hash
    BY <1>0, <2>1, OwnTip, TipOfType DEF OnChain
  <2>3. RowsOn(head) /\ UpTo(cursor'.height)
    BY <1>9, <2>1, OnCourseRows
  <2>4. ~ Fresh'
    BY <2>2, ScannerAssumption DEF Fresh
  <2>5. RowsOn(head)' /\ head \in Kept'
    BY <1>0, <2>1, <2>2, <2>3 DEF RowsOn, Kept, OnChain
  <2>6. \A k \in absent' : ~ Listed(k)'
    BY <2>1
  <2> QED BY <1>0, <2>1, <2>2, <2>4, <2>5, <2>6 DEF HistoryOK
<1>11. CASE FinishTick \/ BackfillDone
  <2>1. /\ UNCHANGED <<head, outputs, cursor>> /\ absent' = {} /\ batch' = {}
        /\ pc' = "sleep" /\ pc \in {"advance", "backfill"}
    BY <1>11 DEF FinishTick, BackfillDone, Sleep, storeVars, set_account_scan_height
  <2>2. cursor.height = Tip[head] /\ cursor.hash = Header[head][Tip[head]].hash
    BY <2>1 DEF CourseOK, TipOf
  <2>3. OnChain' /\ cursor'.hash \in Hash
    BY <1>0, <2>1, <2>2, OwnTip, TipOfType DEF OnChain
  <2>4. RowsOn(head) /\ UpTo(cursor'.height)
    BY <1>9, <2>1, <2>2, OnCourseRows
  <2> QED BY <1>0, <2>1, <2>2, <2>3, <2>4, HistorySettled
<1>12. CASE ReorgReset
  <2>1. /\ UNCHANGED <<head, outputs>> /\ absent' = {} /\ batch' = {}
        /\ pc' = "sleep" /\ pc = "reset" /\ Fork <= Tip[head]
        /\ cursor'.height = Fork /\ cursor'.hash = Header[head][Fork].hash
    BY <1>12 DEF ReorgReset, Sleep, set_cursor
  <2>2. Fork \in 0 .. Tip[head]
    BY <1>0, <2>1, BelowType DEF Fork, TypeInv, TypeOK
  <2>3. OnChain' /\ cursor'.hash \in Hash /\ cursor'.height \in Nat
    BY <1>0, <2>1, <2>2, TipOfType DEF OnChain, Contains
  <2>4. RowsOn(head) /\ UpTo(cursor'.height)
    BY <2>1 DEF HistoryOK
  <2> QED BY <2>1, <2>3, <2>4, HistorySettled
<1> QED BY <1>1, <1>2, <1>3, <1>4, <1>5, <1>6, <1>7, <1>8, <1>10, <1>11, <1>12 DEF Scan

(* The node moves between ticks: along its chain, back to a chain with the *)
(* checkpoint, or to one that leaves it within the depth that is repaired. *)
LEMMA HistoryHead ==
  ASSUME {"QuietTicks", "SteadyRetries", "RepairableReorgs"} \subseteq Assumed,
         HistoryInv, NEW c \in Chain, MoveHead(c)
  PROVE  HistoryOK'
<1> USE DEF HistoryInv, CourseInv
<1>1. /\ head' = c /\ UNCHANGED <<accounts, outputs, cursor, pc, tip, batch, absent, retrying>>
      /\ pc = "sleep" /\ batch = {} /\ absent = {}
      /\ retrying => Extends(c, head)
      /\ Repairable(c) /\ head \in Chain /\ TypeInv
  BY DEF MoveHead, NewHead, Holds, storeVars, tickVars, HistoryOK, TypeInv, TypeOK
<1>2. UNCHANGED <<Fresh, Kept>>
  BY <1>1 DEF Fresh, Kept
<1>3. \A d : RowsOn(d)' = RowsOn(d)
  BY <1>1 DEF RowsOn
<1>4. RowsOn(head)' = RowsOn(c)
  BY <1>1 DEF RowsOn
<1>5. (OnChain' <=> c \in Kept) /\ (OnChain <=> head \in Kept)
  BY <1>1 DEF OnChain, Kept
<1>6. CASE Fresh
  <2>1. RowsOn(c)
    <3>1. CASE ~ retrying
      BY <1>1, <1>6, <3>1 DEF HistoryOK, RowsOn
    <3>2. CASE retrying
      BY <1>1, <1>6, <3>2, RowsExtend DEF HistoryOK
    <3> QED BY <3>1, <3>2
  <2> QED BY <1>1, <1>2, <1>4, <1>6, <2>1 DEF HistoryOK
<1>7. CASE ~ Fresh /\ retrying /\ OnChain
  <2>1. c \in Kept /\ RowsOn(c)
    BY <1>1, <1>5, <1>7, RowsExtend, ExtendsContains
       DEF HistoryOK, Kept, TypeInv, TypeOK, Checkpoint
  <2> QED BY <1>1, <1>2, <1>4, <1>5, <1>7, <2>1 DEF HistoryOK
<1>8. CASE ~ Fresh /\ ~ (retrying /\ OnChain)
  <2>1. \A d \in Kept : RowsOn(d)
    BY <1>1, <1>8 DEF HistoryOK
  <2>2. CASE c \in Kept
    BY <1>1, <1>2, <1>3, <1>4, <1>5, <1>8, <2>1, <2>2 DEF HistoryOK
  <2>3. CASE c \notin Kept
    <3>1. ForkIsCommon'
      <4>1. \A d \in Kept : /\ Below(Tip[c]) <= cursor.height
                            /\ Contains(d, Below(Tip[c]), Header[c][Below(Tip[c])].hash)
        BY <1>1, <2>3 DEF Repairable, Kept
      <4>2. Kept # {}
        BY <1>8 DEF HistoryOK
      <4>3. Below(Tip[c]) <= cursor.height
        BY <4>1, <4>2
      <4>4. Below(Tip[head])' = Below(Tip[c]) /\ UNCHANGED <<Kept, cursor>>
        BY <1>1, <1>2 DEF Below
      <4> QED BY <1>1, <4>1, <4>3, <4>4 DEF ForkIsCommon
    <3>2. cursor.height # 0
      <4>1. SUFFICES ASSUME cursor.height = 0 PROVE FALSE
        OBVIOUS
      <4>2. PICK d \in Kept : TRUE
        BY <1>8 DEF HistoryOK
      <4>3. Below(Tip[c]) <= 0 /\ Contains(d, Below(Tip[c]), Header[c][Below(Tip[c])].hash)
        BY <1>1, <2>3, <4>1, <4>2 DEF Repairable, Kept
      <4>4. Tip[c] \in Nat /\ Tip[d] \in Nat /\ Below(Tip[c]) = 0
        BY <4>2, <4>3, TipOfType, BelowType DEF Kept
      <4>5. Contains(c, 0, cursor.hash)
        BY <4>1, <4>2, <4>3, <4>4 DEF Contains, Kept
      <4> QED BY <2>3, <4>1, <4>5 DEF Kept
    <3> QED BY <1>1, <1>2, <1>3, <1>5, <1>8, <2>1, <2>3, <3>1, <3>2 DEF HistoryOK
  <2> QED BY <2>2, <2>3
<1> QED BY <1>6, <1>7, <1>8

LEMMA HistoryNext ==
  ASSUME {"QuietTicks", "SteadyRetries", "RepairableReorgs"} \subseteq Assumed,
         HistoryInv, [Next]_vars
  PROVE  HistoryInv'
<1>1. CourseInv'
  BY CourseNext DEF HistoryInv
<1> SUFFICES HistoryOK'
  BY <1>1 DEF HistoryInv
<1>2. CASE Scan
  BY <1>2, HistoryScan
<1>3. CASE Abort
  BY <1>3, HistorySame DEF Abort, Sleep, storeVars
<1>4. ASSUME NEW a \in Account, NEW h \in ClientHeight, Register(a, h)
      PROVE  HistoryOK'
  BY <1>4, HistorySame DEF Register, register_account, tickVars, HistoryInv, HistoryOK
<1>5. ASSUME NEW a \in Account, NEW h \in ClientHeight, Rescan(a, h)
      PROVE  HistoryOK'
  BY <1>5, HistorySame DEF Rescan, rescan_account, tickVars, HistoryInv, HistoryOK
<1>6. CASE \E c \in Chain : MoveHead(c)
  BY <1>6, HistoryHead
<1>7. CASE UNCHANGED vars
  BY <1>7, HistorySame DEF vars, storeVars, tickVars, HistoryInv, HistoryOK
<1> QED BY <1>2, <1>3, <1>4, <1>5, <1>6, <1>7 DEF Next, Client

LEMMA HistoryInit == Init => HistoryInv
<1> SUFFICES ASSUME Init PROVE HistoryInv
  OBVIOUS
<1>1. CourseInv
  BY TypeInit DEF Init, ScannerInit, CourseInv, CourseOK
<1>2. DOMAIN outputs = {} /\ Fresh /\ cursor.height = 0 /\ pc = "sleep" /\ ~ retrying
      /\ batch = {} /\ absent = {}
  BY DEF Init, StoreInit, ScannerInit, NoCursor, Fresh
<1> QED BY <1>1, <1>2 DEF HistoryInv, HistoryOK, RowsOn
-----------------------------------------------------------------------------
(* A row's height and index, and so its lock height, are those its output  *)
(* has on the node's chain, across every reorganisation that the scanner   *)
(* finds in time.                                                          *)
THEOREM RowsHold ==
  ASSUME {"QuietTicks", "SteadyRetries", "RepairableReorgs"} \subseteq Assumed
  PROVE  Spec => []RowsAreCurrent
<1>1. HistoryInv => RowsAreCurrent
  BY DEF HistoryInv, HistoryOK, RowsOn, RowOn, RowsAreCurrent
<1>2. HistoryInv /\ [Next]_vars => HistoryInv'
  BY HistoryNext
<1> QED BY <1>1, <1>2, HistoryInit, PTL DEF Spec

(* A spend noticed by absence is undone by every reorganisation that       *)
(* undoes it.                                                              *)
THEOREM SpendsHold ==
  ASSUME {"QuietTicks", "SteadyRetries", "RepairableReorgs"} \subseteq Assumed,
         SpendsAreFinal
  PROVE  Spec => []NeverWronglySpent
<1>1. HistoryInv => NeverWronglySpent
  <2> SUFFICES ASSUME HistoryInv, OnChain, NEW o \in Utxo[head],
                      o.commit \in DOMAIN outputs, outputs[o.commit].spent # Unspent
               PROVE  FALSE
    BY DEF NeverWronglySpent
  <2> DEFINE s == outputs[o.commit].spent
  <2>1. head \in Chain /\ Gone(o.commit, head, s)
    BY DEF HistoryInv, HistoryOK, RowsOn, RowOn, CourseInv, TypeInv, TypeOK
  <2>2. Contains(head, s, Header[head][s].hash)
    BY <2>1, TipOfType DEF Gone, Contains
  <2> QED BY <2>1, <2>2 DEF Gone
<1>2. HistoryInv /\ [Next]_vars => HistoryInv'
  BY HistoryNext
<1> QED BY <1>1, <1>2, HistoryInit, PTL DEF Spec
-----------------------------------------------------------------------------
(* The sweep: at the tip nothing dead is counted, for every block tree and *)
(* chunk size, when the head keeps still during a tick, however ticks      *)
(* fail, clients rescan and the chain reorganises between them.            *)

AtTip == TipOf(head) = [height |-> cursor.height, hash |-> cursor.hash]

(* What counts as unspent is live at the tip, and during the reconcile     *)
(* whatever has been asked about.  The last two parts carry this across    *)
(* rollbacks and new heads: a checkpoint that was left behind never        *)
(* becomes the tip again, since the work of the node's chain only grows.   *)
SweepOK ==
  /\ AtTip => \A k \in all_unspent_commits : Listed(k)
  /\ pc = "reconcile" =>
       \A k \in all_unspent_commits : k \in unchecked \cup absent \/ Listed(k)
  /\ batch \subseteq Utxo[head]
  /\ pc = "sleep" => batch = {}
  /\ pc \in {"clamp", "seek", "reset"} =>
       \A k \in DOMAIN outputs : outputs[k].height <= Fork
  /\ \A d \in Chain :
       TipOf(d) = [height |-> cursor.height, hash |-> cursor.hash] =>
         Work[d] <= Work[head]

SweepInv == CourseInv /\ CustodyInv /\ SweepOK

(* Rows may go, none comes or changes. *)
LEMMA SweepSame ==
  ASSUME SweepInv, UNCHANGED <<head, cursor>>,
         DOMAIN outputs' \subseteq DOMAIN outputs,
         \A k \in DOMAIN outputs' : outputs'[k] = outputs[k],
         pc' = "reconcile" => pc = "reconcile" /\ UNCHANGED <<unchecked, absent>>,
         pc' \in {"clamp", "seek", "reset"} =>
           pc \in {"clamp", "seek", "reset"} /\ UNCHANGED tip,
         batch' \subseteq Utxo[head],
         pc' = "sleep" => batch' = {}
  PROVE  SweepOK'
<1>1. all_unspent_commits' \subseteq all_unspent_commits
  BY DEF all_unspent_commits
<1>2. AtTip' = AtTip /\ \A k : Listed(k)' = Listed(k)
  BY DEF AtTip, Listed
<1>3. pc' \in {"clamp", "seek", "reset"} => Fork' = Fork
  BY DEF Fork
<1> QED BY <1>1, <1>2, <1>3 DEF SweepInv, SweepOK

LEMMA SweepStore ==
  ASSUME SweepInv, StoreMatch, pc \in {"forward", "backfill"}
  PROVE  SweepOK'
<1>1. PICK o \in batch : /\ insert_output(o, Owner[o.commit])
                         /\ batch' = batch \ {o}
  BY DEF StoreMatch
<1>2. UNCHANGED <<head, cursor, pc, tip>>
  BY <1>1 DEF StoreMatch, insert_output
<1>3. all_unspent_commits' \subseteq all_unspent_commits \cup {o.commit}
  BY <1>1 DEF insert_output, all_unspent_commits
<1>4. Listed(o.commit)
  BY DEF Listed, SweepInv, SweepOK
<1>5. AtTip' = AtTip /\ \A k : Listed(k)' = Listed(k)
  BY <1>2 DEF AtTip, Listed
<1> QED BY <1>1, <1>2, <1>3, <1>4, <1>5 DEF SweepInv, SweepOK

(* A checkpoint on the node's chain carries no more work than its head. *)
LEMMA WorkBelow ==
  ASSUME WorkGrows, NEW c \in Chain, NEW d \in Chain, NEW point, TipOf(d) = point,
         Contains(c, point.height, point.hash)
  PROVE  Work[d] <= Work[c]
<1>1. Tip[d] = point.height /\ Header[d][Tip[d]].hash = point.hash
  BY DEF TipOf
<1> QED BY <1>1 DEF WorkGrows, Extends

LEMMA SweepScan == ASSUME WorkGrows, SweepInv, Scan PROVE SweepOK'
<1> USE DEF SweepInv
<1>0. /\ head \in Chain /\ Tip[head] \in Nat
      /\ batch \subseteq Utxo[head]
      /\ pc = "sleep" => batch = {}
  BY TipOfType DEF SweepOK, CourseInv, TypeInv, TypeOK
<1>1. CASE TickStart \/ ProbeCheckpoint \/ ListAccounts \/ BackfillSeek \/ FinishTick
           \/ ReorgSeek \/ GiveUp
  BY <1>0, <1>1, SweepSame
     DEF TickStart, ProbeCheckpoint, ListAccounts, BackfillSeek, FinishTick, ReorgSeek,
         GiveUp, Sleep, storeVars, tickVars
<1>2. CASE ForwardPage \/ BackfillPage
  <2>1. batch' \subseteq Utxo[head]
    BY <1>0, <1>2, PageType DEF ForwardPage, BackfillPage, FetchPage
  <2> QED BY <1>0, <1>2, <2>1, SweepSame DEF ForwardPage, BackfillPage, storeVars
<1>3. CASE AdvanceAccount \/ BackfillDone
  BY <1>0, <1>3, SweepSame
     DEF AdvanceAccount, BackfillDone, set_account_scan_height, Sleep
<1>4. CASE ReorgClamp
  BY <1>0, <1>4, SweepSame DEF ReorgClamp, clamp_account_scan_heights, tickVars
<1>5. CASE ForwardStore \/ BackfillStore
  BY <1>5, SweepStore DEF ForwardStore, BackfillStore
<1>6. CASE ReadUnspent
  <2>1. /\ UNCHANGED <<storeVars, head, batch>> /\ pc' = "reconcile"
        /\ unchecked' = all_unspent_commits
    BY <1>6 DEF ReadUnspent
  <2>2. all_unspent_commits' = all_unspent_commits /\ AtTip' = AtTip
        /\ \A k : Listed(k)' = Listed(k)
    BY <2>1 DEF all_unspent_commits, storeVars, AtTip, Listed
  <2> QED BY <2>1, <2>2 DEF SweepOK, storeVars
<1>7. CASE CheckChunk
  <2>1. PICK S \in SUBSET unchecked : /\ absent' = absent \cup (S \ Present(head, S))
                                      /\ unchecked' = unchecked \ S
    BY <1>7 DEF CheckChunk
  <2>2. UNCHANGED <<storeVars, head, pc, batch>>
    BY <1>7 DEF CheckChunk
  <2>3. all_unspent_commits' = all_unspent_commits /\ AtTip' = AtTip
        /\ \A k : Listed(k)' = Listed(k)
    BY <2>2 DEF all_unspent_commits, storeVars, AtTip, Listed
  <2>4. \A k \in Present(head, S) : Listed(k)
    BY DEF Present, Listed
  <2> QED BY <1>7, <2>1, <2>2, <2>3, <2>4 DEF SweepOK, storeVars, CheckChunk
<1>8. CASE MarkSpent
  <2>1. PICK k \in absent : mark_spent(k, tip.height) /\ absent' = absent \ {k}
    BY <1>8 DEF MarkSpent
  <2>2. UNCHANGED <<head, cursor, pc, batch, unchecked>> /\ pc = "reconcile"
    BY <1>8, <2>1 DEF MarkSpent, mark_spent
  <2>3. tip.height # Unspent
    BY DEF CourseInv, TypeInv, TypeOK, Unspent
  <2>4. all_unspent_commits' \subseteq all_unspent_commits \ {k}
    <3> SUFFICES ASSUME NEW j \in DOMAIN outputs', outputs'[j].spent = Unspent
                 PROVE  j \in all_unspent_commits \ {k}
      BY DEF all_unspent_commits
    <3>1. j \in DOMAIN outputs
      BY <2>1 DEF mark_spent
    <3>2. CASE j = k
      <4>1. outputs'[j] = [outputs[j] EXCEPT !.spent = tip.height] /\ outputs[j] \in Row
        BY <2>1, <3>1, <3>2, RowType DEF mark_spent, CourseInv
      <4> QED BY <2>3, <4>1 DEF Row
    <3>3. CASE j # k
      BY <2>1, <3>1, <3>3 DEF mark_spent, all_unspent_commits
    <3> QED BY <3>2, <3>3
  <2>5. AtTip' = AtTip /\ \A j : Listed(j)' = Listed(j)
    BY <2>2 DEF AtTip, Listed
  <2> QED BY <2>1, <2>2, <2>4, <2>5 DEF SweepOK
<1>10. CASE SetCursor
  <2>1. /\ UNCHANGED <<head, outputs, batch>> /\ pc' = "advance"
        /\ pc = "reconcile" /\ unchecked = {} /\ absent = {}
        /\ cursor'.height = tip.height /\ cursor'.hash = tip.hash /\ tip = TipOf(head)
    BY <1>10 DEF SetCursor, set_cursor, tickVars, CourseInv, CourseOK
  <2>2. \A k \in all_unspent_commits' : Listed(k)'
    BY <2>1 DEF SweepOK, all_unspent_commits, Listed
  <2>3. Contains(head, cursor'.height, cursor'.hash)
    BY <1>0, <2>1, OwnTip DEF TipOf
  <2>4. \A d \in Chain :
          TipOf(d) = [height |-> cursor'.height, hash |-> cursor'.hash] =>
            Work[d] <= Work[head]
    BY <1>0, <2>3, WorkBelow
  <2> QED BY <1>0, <2>1, <2>2, <2>4 DEF SweepOK
<1>11. CASE ReorgReset
  <2>1. /\ UNCHANGED <<head, outputs>> /\ batch' = {} /\ pc = "reset" /\ pc' = "sleep"
        /\ cursor'.height = Fork /\ cursor'.hash = Header[head][Fork].hash
        /\ Fork <= Tip[head] /\ tip = TipOf(head)
    BY <1>11 DEF ReorgReset, Sleep, set_cursor, CourseInv, CourseOK
  <2>2. Fork = Below(Tip[head]) /\ Fork \in Nat
    BY <1>0, <2>1, BelowType DEF Fork, TipOf
  <2>3. ASSUME AtTip' PROVE DOMAIN outputs = {}
    <3>1. Fork = Tip[head]
      BY <2>1, <2>3 DEF AtTip, TipOf
    <3>2. Tip[head] = 0
      BY <1>0, <2>2, <3>1, ScannerAssumption DEF Below
    <3> SUFFICES ASSUME NEW k \in DOMAIN outputs PROVE FALSE
      OBVIOUS
    <3>3. PICK c \in Chain : [commit |-> k, height |-> outputs[k].height,
                              idx |-> outputs[k].idx] \in Created[c]
      BY DEF CustodyInv, Custody
    <3>4. 1 <= outputs[k].height /\ outputs[k].height \in Nat
      BY <3>3, CreatedHeight
    <3>5. outputs[k].height <= 0
      BY <2>1, <3>1, <3>2 DEF SweepOK
    <3> QED BY <3>4, <3>5
  <2>4. AtTip' => \A k \in all_unspent_commits' : Listed(k)'
    BY <2>1, <2>3 DEF all_unspent_commits
  <2>5. Contains(head, cursor'.height, cursor'.hash)
    BY <2>1 DEF Contains
  <2>6. \A d \in Chain :
          TipOf(d) = [height |-> cursor'.height, hash |-> cursor'.hash] =>
            Work[d] <= Work[head]
    BY <1>0, <2>5, WorkBelow
  <2> QED BY <1>0, <2>1, <2>4, <2>6 DEF SweepOK
<1>9. CASE ReorgRollback
  <2>1. /\ UNCHANGED <<head, cursor, tip, batch>> /\ pc = "rollback" /\ pc' = "clamp"
        /\ \A k \in DOMAIN outputs' : k \in DOMAIN outputs /\ outputs[k].height <= Fork
        /\ \A k \in DOMAIN outputs' : outputs'[k] = IF outputs[k].spent > Fork
                                        THEN [outputs[k] EXCEPT !.spent = Unspent]
                                        ELSE outputs[k]
    BY <1>9 DEF ReorgRollback, rollback_to, tickVars
  <2>2. \A k \in DOMAIN outputs' : outputs'[k].height <= Fork'
    BY <2>1, RowType DEF CourseInv, Row, Fork
  <2>3. ~ AtTip'
    BY <1>0, <2>1, OwnTip DEF CourseInv, CourseOK, OnCourse, OnChain, AtTip, TipOf
  <2> QED BY <2>1, <2>2, <2>3 DEF SweepOK
<1> QED BY <1>1, <1>2, <1>3, <1>4, <1>5, <1>6, <1>7, <1>8, <1>9, <1>10, <1>11 DEF Scan

LEMMA SweepNext ==
  ASSUME "QuietTicks" \in Assumed, WorkGrows, SweepInv, [Next]_vars
  PROVE  SweepInv'
<1>1. CourseInv' /\ CustodyInv'
  BY CourseNext, CustodyNext DEF SweepInv
<1> SUFFICES SweepOK'
  BY <1>1 DEF SweepInv
<1>2. CASE Scan
  BY <1>2, SweepScan
<1>3. CASE Abort
  BY <1>3, SweepSame DEF Abort, Sleep, storeVars, SweepInv, SweepOK
<1>4. ASSUME NEW a \in Account, NEW h \in ClientHeight, Register(a, h)
      PROVE  SweepOK'
  BY <1>4, SweepSame DEF Register, register_account, tickVars, SweepInv, SweepOK
<1>5. ASSUME NEW a \in Account, NEW h \in ClientHeight, Rescan(a, h)
      PROVE  SweepOK'
  BY <1>5, SweepSame DEF Rescan, rescan_account, tickVars, SweepInv, SweepOK
<1>6. ASSUME NEW c \in Chain, MoveHead(c)
      PROVE  SweepOK'
  <2>1. /\ head' = c /\ Work[c] > Work[head] /\ head \in Chain
        /\ UNCHANGED <<outputs, cursor, pc, tip, batch>> /\ pc = "sleep" /\ batch = {}
    BY <1>6 DEF MoveHead, NewHead, Holds, storeVars, tickVars, SweepInv, SweepOK,
       CourseInv, TypeInv, TypeOK
  <2>2. Work[c] \in Nat /\ \A d \in Chain : Work[d] \in Nat
    BY ChainAssumption
  <2>3. ~ AtTip'
    <3> SUFFICES ASSUME AtTip' PROVE FALSE
      OBVIOUS
    <3>1. TipOf(c) = [height |-> cursor.height, hash |-> cursor.hash]
      BY <2>1 DEF AtTip
    <3>2. Work[c] <= Work[head]
      BY <3>1 DEF SweepInv, SweepOK
    <3> QED BY <2>1, <2>2, <3>2
  <2>4. \A d \in Chain :
          TipOf(d) = [height |-> cursor'.height, hash |-> cursor'.hash] =>
            Work[d] <= Work[c]
    BY <2>1, <2>2 DEF SweepInv, SweepOK
  <2> QED BY <2>1, <2>3, <2>4 DEF SweepOK
<1>7. CASE UNCHANGED vars
  BY <1>7, SweepSame DEF vars, storeVars, tickVars, SweepInv, SweepOK
<1> QED BY <1>2, <1>3, <1>4, <1>5, <1>6, <1>7 DEF Next, Client

LEMMA SweepInit == Init => SweepInv
<1> SUFFICES ASSUME Init PROVE SweepInv
  OBVIOUS
<1>1. CourseInv /\ CustodyInv
  BY TypeInit DEF Init, StoreInit, ScannerInit, CourseInv, CourseOK, CustodyInv, Custody,
     Recognised
<1>2. /\ all_unspent_commits = {} /\ batch = {} /\ pc = "sleep"
      /\ cursor.hash = NoHash
  BY DEF Init, StoreInit, ScannerInit, NoCursor, all_unspent_commits
<1>3. \A d \in Chain : TipOf(d) # [height |-> cursor.height, hash |-> cursor.hash]
  BY <1>2, TipOfType, ScannerAssumption
<1> QED BY <1>1, <1>2, <1>3 DEF SweepInv, SweepOK, AtTip

(* What a balance counts at the tip is live, whatever failed, was rescanned *)
(* or reorganised before, however deep.                                     *)
THEOREM NoPhantoms ==
  ASSUME "QuietTicks" \in Assumed, WorkGrows
  PROVE  Spec => []NoPhantomBalance
<1>1. SweepInv => NoPhantomBalance
  BY DEF SweepInv, SweepOK, AtTip, Listed, NoPhantomBalance
<1>2. SweepInv /\ [Next]_vars => SweepInv'
  BY SweepNext
<1> QED BY <1>1, <1>2, SweepInit, PTL DEF Spec
=============================================================================
