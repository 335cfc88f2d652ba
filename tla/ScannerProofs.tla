--------------------------- MODULE ScannerProofs ----------------------------
(***************************************************************************)
(* What the scanner guarantees whatever the node, the clients and failures *)
(* do, proved for every block tree, page size, reorganisation depth and    *)
(* set of environment assumptions, the empty one included.                 *)
(***************************************************************************)
EXTENDS ScannerProperties, FiniteSetTheorems, TLAPS

(* Pages and reseeks start from an index that exists, and recognised       *)
(* outputs are those of registered accounts.                               *)
PagingOK ==
  /\ pc \in {"forward", "backfill", "reset"} => next >= 1
  /\ \A o \in batch : Owner[o.commit] \in DOMAIN accounts

TypeInv == TypeOK /\ PagingOK

LEMMA BelowType == ASSUME NEW h \in Nat PROVE Below(h) \in Nat /\ Below(h) <= h
BY ScannerAssumption DEF Below

LEMMA TipOfType ==
  ASSUME NEW c \in Chain
  PROVE  /\ TipOf(c) \in [height : Nat, hash : Hash]
         /\ Tip[c] \in Nat
         /\ \A h \in 0 .. Tip[c] : /\ Header[c][h].hash \in Hash
                                   /\ Header[c][h].mmr \in Nat
         /\ HighestIndex(c) \in Nat
BY ChainAssumption DEF TipOf, HighestIndex

LEMMA StartIndexType ==
  ASSUME NEW c \in Chain, NEW h \in Nat, KnowsStart(c, h)
  PROVE  StartIndex(c, h) \in Nat /\ StartIndex(c, h) >= 1
<1>1. CASE h = 0
  BY <1>1 DEF StartIndex
<1>2. CASE h # 0
  <2>1. h - 1 \in 0 .. Tip[c]
    BY <1>2, TipOfType DEF KnowsStart
  <2>2. Header[c][h - 1].mmr \in Nat
    BY <2>1, TipOfType
  <2> QED BY <1>2, <2>2 DEF StartIndex
<1> QED BY <1>1, <1>2

LEMMA PageType ==
  ASSUME NEW c \in Chain, NEW s, NEW e
  PROVE  /\ Page(c, s, e) \subseteq Utxo[c]
         /\ Utxo[c] \subseteq Created[c]
         /\ Created[c] \subseteq Output
BY ChainAssumption DEF Page, Live

LEMMA LastType ==
  ASSUME NEW c \in Chain, NEW s \in Nat, NEW e \in Nat, s >= 1,
         NEW last \in LastRetrieved(c, s, e)
  PROVE  last \in Nat
<1>1. CASE Cardinality(Live(c, s, e)) >= PageMax
  BY <1>1, PageType DEF LastRetrieved, Output
<1>2. CASE ~ Cardinality(Live(c, s, e)) >= PageMax
  BY <1>2 DEF LastRetrieved
<1> QED BY <1>1, <1>2
-----------------------------------------------------------------------------
(* Types.  The reseek index matters: next - 1 is a cursor index only if    *)
(* the node never answers 0.                                               *)

LEMMA SleepType == ASSUME NEW f \in BOOLEAN, TypeInv, Sleep(f), UNCHANGED head,
                          DOMAIN accounts' \subseteq Account,
                          accounts' \in [DOMAIN accounts' -> AccountRow],
                          DOMAIN outputs' \subseteq Commit,
                          outputs' \in [DOMAIN outputs' -> Row],
                          cursor' \in Checkpoint
                   PROVE  TypeInv'
BY DEF TypeInv, TypeOK, PagingOK, Sleep, NoTip

LEMMA TypeInit == Init => TypeInv
<1> SUFFICES ASSUME Init PROVE TypeInv
  OBVIOUS
<1>1. DOMAIN accounts = {} /\ accounts \in [DOMAIN accounts -> AccountRow]
  BY DEF Init, StoreInit
<1>2. DOMAIN outputs = {} /\ outputs \in [DOMAIN outputs -> Row]
  BY DEF Init, StoreInit
<1>3. cursor \in Checkpoint
  BY DEF Init, StoreInit, NoCursor, Checkpoint
<1> QED BY <1>1, <1>2, <1>3
        DEF Init, ScannerInit, NoTip, TypeInv, TypeOK, PagingOK

LEMMA StoreMatchType == ASSUME TypeInv, StoreMatch PROVE TypeInv'
<1>1. PICK o \in batch : /\ insert_output(o, Owner[o.commit])
                         /\ batch' = batch \ {o}
  BY DEF StoreMatch
<1> QED BY <1>1, OwnerAssumption DEF TypeInv, TypeOK, PagingOK, StoreMatch, insert_output,
        Output, Row, Unspent

LEMMA TypeScan == ASSUME TypeInv, Scan PROVE TypeInv'
<1>1. CASE TickStart
  <2>1. tip' \in [height : Nat, hash : Hash \cup {NoHash}]
    BY <1>1, TipOfType DEF TickStart, TypeInv, TypeOK
  <2> QED BY <1>1, <2>1 DEF TickStart, TypeInv, TypeOK, PagingOK, storeVars
<1>2. CASE ProbeCheckpoint
  BY <1>2 DEF ProbeCheckpoint, TypeInv, TypeOK, PagingOK, storeVars, tickVars
<1>3. CASE ListAccounts
  BY <1>3 DEF ListAccounts, TypeInv, TypeOK, PagingOK, storeVars, Checkpoint
<1>4. CASE ForwardPage
  <2>1. PICK last \in LastRetrieved(head, next, HighestIndex(head)) :
          /\ FetchPage(HighestIndex(head), last, caughtUp)
          /\ more' = (next <= last /\ last < HighestIndex(head))
    BY <1>4 DEF ForwardPage
  <2>2. head \in Chain /\ next \in Nat /\ next >= 1 /\ HighestIndex(head) \in Nat
    BY <1>4, TipOfType DEF ForwardPage, TypeInv, TypeOK, PagingOK
  <2>3. last \in Nat
    BY <2>2, LastType
  <2>4. batch' \subseteq Output /\ \A o \in batch' : Owner[o.commit] \in DOMAIN accounts
    BY <2>1, <2>2, PageType DEF FetchPage, TypeInv, TypeOK
  <2> QED BY <1>4, <2>1, <2>2, <2>3, <2>4
          DEF ForwardPage, FetchPage, TypeInv, TypeOK, PagingOK, storeVars
<1>5. CASE ForwardStore
  BY <1>5, StoreMatchType DEF ForwardStore
<1>6. CASE ReadUnspent
  BY <1>6 DEF ReadUnspent, all_unspent_commits, TypeInv, TypeOK, PagingOK, storeVars
<1>7. CASE CheckChunk
  BY <1>7 DEF CheckChunk, TypeInv, TypeOK, PagingOK, storeVars
<1>8. CASE MarkSpent
  BY <1>8 DEF MarkSpent, mark_spent, TypeInv, TypeOK, PagingOK, Row, Unspent
<1>9. CASE SetCursor
  BY <1>9 DEF SetCursor, set_cursor, TypeInv, TypeOK, PagingOK, tickVars, Checkpoint
<1>10. CASE AdvanceAccount
  BY <1>10 DEF AdvanceAccount, set_account_scan_height, TypeInv, TypeOK, PagingOK,
               AccountRow
<1>11. CASE FinishTick
  BY <1>11, SleepType DEF FinishTick, TypeInv, TypeOK, storeVars
<1>12. CASE BackfillSeek
  <2>1. PICK a \in behind : /\ KnowsStart(head, accounts[a].start)
                            /\ next' = StartIndex(head, accounts[a].start)
                            /\ behind' = {a}
    BY <1>12 DEF BackfillSeek
  <2>2. next' \in Nat /\ next' >= 1
    BY <2>1, StartIndexType DEF TypeInv, TypeOK, AccountRow
  <2> QED BY <1>12, <2>1, <2>2 DEF BackfillSeek, TypeInv, TypeOK, PagingOK, storeVars
<1>13. CASE BackfillPage
  <2>1. PICK last \in LastRetrieved(head, next, highest) :
          /\ FetchPage(highest, last, behind)
          /\ more' = (/\ next <= last
                      /\ last < highest \/ HighestIndex(head) < highest)
    BY <1>13 DEF BackfillPage
  <2>2. head \in Chain /\ next \in Nat /\ next >= 1 /\ highest \in Nat
    BY <1>13 DEF BackfillPage, TypeInv, TypeOK, PagingOK
  <2>3. last \in Nat
    BY <2>2, LastType
  <2>4. batch' \subseteq Output /\ \A o \in batch' : Owner[o.commit] \in DOMAIN accounts
    BY <2>1, <2>2, PageType DEF FetchPage, TypeInv, TypeOK
  <2> QED BY <1>13, <2>1, <2>2, <2>3, <2>4
          DEF BackfillPage, FetchPage, TypeInv, TypeOK, PagingOK, storeVars
<1>14. CASE BackfillStore
  BY <1>14, StoreMatchType DEF BackfillStore
<1>15. CASE BackfillDone
  <2>1. /\ DOMAIN accounts' \subseteq Account
        /\ accounts' \in [DOMAIN accounts' -> AccountRow]
        /\ UNCHANGED <<outputs, cursor>>
    BY <1>15 DEF BackfillDone, set_account_scan_height, TypeInv, TypeOK, AccountRow
  <2> QED BY <1>15, <2>1, SleepType DEF BackfillDone, TypeInv, TypeOK
<1>16. CASE ReorgRollback
  BY <1>16 DEF ReorgRollback, rollback_to, TypeInv, TypeOK, PagingOK, tickVars, Row
<1>17. CASE ReorgClamp
  <2>1. Fork \in Nat
    BY BelowType DEF Fork, TypeInv, TypeOK
  <2> QED BY <1>17, <2>1 DEF ReorgClamp, clamp_account_scan_heights, Lowered, TypeInv,
                              TypeOK, PagingOK, tickVars, AccountRow
<1>18. CASE ReorgSeek
  <2>1. Fork \in Nat
    BY BelowType DEF Fork, TypeInv, TypeOK
  <2>2. next' \in Nat /\ next' >= 1
    BY <1>18, <2>1, StartIndexType DEF ReorgSeek, TypeInv, TypeOK
  <2> QED BY <1>18, <2>2 DEF ReorgSeek, TypeInv, TypeOK, PagingOK, storeVars
<1>19. CASE ReorgReset
  <2>1. Fork \in Nat /\ Fork \in 0 .. Tip[head]
    BY <1>19, BelowType, TipOfType DEF ReorgReset, Fork, TypeInv, TypeOK
  <2>2. cursor' \in Checkpoint /\ UNCHANGED <<accounts, outputs>>
    BY <1>19, <2>1, TipOfType DEF ReorgReset, set_cursor, TypeInv, TypeOK, PagingOK,
                                  Checkpoint
  <2> QED BY <1>19, <2>2, SleepType DEF ReorgReset, TypeInv, TypeOK
<1>20. CASE GiveUp
  BY <1>20, SleepType DEF GiveUp, TypeInv, TypeOK, storeVars
<1> QED BY <1>1, <1>2, <1>3, <1>4, <1>5, <1>6, <1>7, <1>8, <1>9, <1>10, <1>11, <1>12,
           <1>13, <1>14, <1>15, <1>16, <1>17, <1>18, <1>19, <1>20 DEF Scan

LEMMA TypeNext == TypeInv /\ [Next]_vars => TypeInv'
<1> SUFFICES ASSUME TypeInv, [Next]_vars PROVE TypeInv'
  OBVIOUS
<1>1. CASE Scan
  BY <1>1, TypeScan
<1>2. CASE Abort
  BY <1>2, SleepType DEF Abort, TypeInv, TypeOK, storeVars
<1>3. ASSUME NEW a \in Account, NEW h \in ClientHeight, Register(a, h)
      PROVE  TypeInv'
  BY <1>3, ScannerAssumption
     DEF Register, register_account, TypeInv, TypeOK, PagingOK, tickVars, AccountRow
<1>4. ASSUME NEW a \in Account, NEW h \in ClientHeight, Rescan(a, h)
      PROVE  TypeInv'
  BY <1>4, ScannerAssumption
     DEF Rescan, rescan_account, Lowered, TypeInv, TypeOK, PagingOK, tickVars, AccountRow
<1>5. ASSUME NEW c \in Chain, MoveHead(c)
      PROVE  TypeInv'
  BY <1>5 DEF MoveHead, NewHead, TypeInv, TypeOK, PagingOK, storeVars, tickVars
<1>6. CASE UNCHANGED vars
  BY <1>6 DEF vars, storeVars, tickVars, TypeInv, TypeOK, PagingOK
<1> QED BY <1>1, <1>2, <1>3, <1>4, <1>5, <1>6 DEF Next, Client

(* Every variable keeps its type, whatever the environment does.           *)
THEOREM TypeCorrect == Spec => []TypeOK
<1>1. Init => TypeInv
  BY TypeInit
<1>2. TypeInv /\ [Next]_vars => TypeInv'
  BY TypeNext
<1>3. TypeInv => TypeOK
  BY DEF TypeInv
<1> QED BY <1>1, <1>2, <1>3, PTL DEF Spec
-----------------------------------------------------------------------------
(* Custody.  What is about to be stored must be genuine too.               *)

Recognised == \A o \in batch : \E c \in Chain : o \in Created[c]

CustodyInv == TypeInv /\ Custody /\ Recognised

(* A page recognised on the head, or a batch that only shrinks. *)
LEMMA RecognisedPage ==
  ASSUME TypeInv, Recognised, NEW end, NEW watched, NEW last,
         FetchPage(end, last, watched)
  PROVE  Recognised'
BY PageType DEF TypeInv, TypeOK, Recognised, FetchPage

(* Rows untouched, accounts never removed: custody stands. *)
LEMMA CustodyKept ==
  ASSUME Custody, DOMAIN outputs' \subseteq DOMAIN outputs,
         \A k \in DOMAIN outputs' : /\ outputs'[k].account = outputs[k].account
                                    /\ outputs'[k].height = outputs[k].height
                                    /\ outputs'[k].idx = outputs[k].idx,
         DOMAIN accounts \subseteq DOMAIN accounts'
  PROVE  Custody'
BY DEF Custody

LEMMA CustodyStore == ASSUME CustodyInv, StoreMatch PROVE Custody' /\ Recognised'
<1>1. PICK o \in batch : /\ insert_output(o, Owner[o.commit])
                         /\ batch' = batch \ {o}
  BY DEF StoreMatch
<1>2. /\ o \in Output
      /\ Owner[o.commit] \in DOMAIN accounts
      /\ \E c \in Chain : o \in Created[c]
  BY DEF CustodyInv, TypeInv, TypeOK, PagingOK, Recognised
<1>3. o = [commit |-> o.commit, height |-> o.height, idx |-> o.idx]
  BY <1>2 DEF Output
<1>4. ASSUME NEW k \in DOMAIN outputs'
      PROVE  /\ outputs'[k].account = Owner[k]
             /\ outputs'[k].account \in DOMAIN accounts'
             /\ \E c \in Chain :
                  [commit |-> k, height |-> outputs'[k].height, idx |-> outputs'[k].idx]
                    \in Created[c]
  <2>1. CASE k \in DOMAIN outputs
    BY <1>1, <2>1 DEF CustodyInv, Custody, insert_output
  <2>2. CASE k \notin DOMAIN outputs
    <3>1. /\ k = o.commit
          /\ outputs'[k] = [account |-> Owner[k], height |-> o.height, idx |-> o.idx,
                            spent |-> Unspent]
      BY <1>1, <1>4, <2>2 DEF insert_output
    <3> QED BY <1>1, <1>2, <1>3, <3>1 DEF insert_output
  <2> QED BY <2>1, <2>2
<1> QED BY <1>1, <1>4 DEF Custody, CustodyInv, Recognised

LEMMA CustodyScan == ASSUME CustodyInv, Scan PROVE Custody' /\ Recognised'
<1> USE DEF CustodyInv
<1>1. CASE TickStart \/ ProbeCheckpoint \/ ListAccounts \/ ReadUnspent \/ CheckChunk
           \/ BackfillSeek \/ ReorgSeek
  BY <1>1, CustodyKept DEF TickStart, ProbeCheckpoint, ListAccounts, ReadUnspent,
     CheckChunk, BackfillSeek, ReorgSeek, storeVars, tickVars, Recognised
<1>2. CASE ForwardPage
  BY <1>2, CustodyKept, RecognisedPage DEF ForwardPage, storeVars
<1>3. CASE BackfillPage
  BY <1>3, CustodyKept, RecognisedPage DEF BackfillPage, storeVars
<1>4. CASE ForwardStore \/ BackfillStore
  BY <1>4, CustodyStore DEF ForwardStore, BackfillStore
<1>5. CASE MarkSpent
  <2>1. /\ DOMAIN outputs' = DOMAIN outputs /\ UNCHANGED <<accounts, batch>>
        /\ \A k \in DOMAIN outputs : /\ outputs'[k].account = outputs[k].account
                                     /\ outputs'[k].height = outputs[k].height
                                     /\ outputs'[k].idx = outputs[k].idx
    BY <1>5 DEF MarkSpent, mark_spent, TypeInv, TypeOK, Row
  <2> QED BY <2>1, CustodyKept DEF Recognised
<1>6. CASE SetCursor
  BY <1>6, CustodyKept DEF SetCursor, set_cursor, tickVars, Recognised
<1>7. CASE AdvanceAccount
  BY <1>7, CustodyKept DEF AdvanceAccount, set_account_scan_height, Recognised
<1>8. CASE FinishTick \/ GiveUp
  BY <1>8, CustodyKept DEF FinishTick, GiveUp, Sleep, storeVars, Recognised
<1>9. CASE BackfillDone
  BY <1>9, CustodyKept DEF BackfillDone, set_account_scan_height, Sleep, Recognised
<1>10. CASE ReorgRollback
  <2>1. /\ DOMAIN outputs' \subseteq DOMAIN outputs /\ UNCHANGED <<accounts, batch>>
        /\ \A k \in DOMAIN outputs' : /\ outputs'[k].account = outputs[k].account
                                      /\ outputs'[k].height = outputs[k].height
                                      /\ outputs'[k].idx = outputs[k].idx
    BY <1>10 DEF ReorgRollback, rollback_to, tickVars, TypeInv, TypeOK, Row
  <2> QED BY <2>1, CustodyKept DEF Recognised
<1>11. CASE ReorgClamp
  BY <1>11, CustodyKept DEF ReorgClamp, clamp_account_scan_heights, tickVars, Recognised
<1>12. CASE ReorgReset
  BY <1>12, CustodyKept DEF ReorgReset, set_cursor, Sleep, Recognised
<1> QED BY <1>1, <1>2, <1>3, <1>4, <1>5, <1>6, <1>7, <1>8, <1>9, <1>10, <1>11, <1>12
        DEF Scan

LEMMA CustodyNext == CustodyInv /\ [Next]_vars => CustodyInv'
<1> SUFFICES ASSUME CustodyInv, [Next]_vars PROVE Custody' /\ Recognised'
  BY TypeNext DEF CustodyInv
<1>1. CASE Scan
  BY <1>1, CustodyScan
<1>2. CASE Abort
  BY <1>2, CustodyKept DEF Abort, Sleep, storeVars, CustodyInv, Recognised
<1>3. ASSUME NEW a \in Account, NEW h \in ClientHeight, Register(a, h)
      PROVE  Custody' /\ Recognised'
  BY <1>3, CustodyKept DEF Register, register_account, tickVars, CustodyInv, Recognised
<1>4. ASSUME NEW a \in Account, NEW h \in ClientHeight, Rescan(a, h)
      PROVE  Custody' /\ Recognised'
  BY <1>4, CustodyKept DEF Rescan, rescan_account, tickVars, CustodyInv, Recognised
<1>5. CASE (\E c \in Chain : MoveHead(c)) \/ UNCHANGED vars
  BY <1>5, CustodyKept
     DEF MoveHead, vars, storeVars, tickVars, CustodyInv, Recognised
<1> QED BY <1>1, <1>2, <1>3, <1>4, <1>5 DEF Next, Client

(* Every stored output is genuine and filed under its own wallet, whatever *)
(* is aborted, rescanned or reorganised, and whenever.                     *)
THEOREM CustodyHolds == Spec => []Custody
<1>1. Init => CustodyInv
  BY TypeInit DEF Init, StoreInit, ScannerInit, CustodyInv, Custody, Recognised
<1>2. CustodyInv => Custody
  BY DEF CustodyInv
<1> QED BY <1>1, <1>2, CustodyNext, PTL DEF Spec
-----------------------------------------------------------------------------
(* Progress.  ProgressWithinCheckpoint is not inductive: it needs to know  *)
(* how the tip read at the start lies to the checkpoint in each phase, and *)
(* that a reorganisation lowers the accounts before it lowers the cursor.  *)

Within(height) ==
  \A a \in DOMAIN accounts :
    accounts[a].scan <= height \/ accounts[a].scan <= accounts[a].start

PhaseOK ==
  /\ pc \in {"probe", "list", "forward", "reconcile"} => cursor.height <= tip.height
  /\ pc \in {"advance", "backfill"} => cursor.height = tip.height
  /\ pc \in {"seek", "reset"} => Within(Fork)

ProgressInv == TypeInv /\ Within(cursor.height) /\ PhaseOK

(* set_account_scan_height to the checkpoint. *)
LEMMA WithinAdvance ==
  ASSUME TypeInv, Within(cursor.height), NEW a, tip.height = cursor.height,
         set_account_scan_height(a, tip.height)
  PROVE  Within(cursor.height)'
BY DEF Within, set_account_scan_height, TypeInv, TypeOK, AccountRow, Checkpoint

LEMMA ProgressScan == ASSUME ProgressInv, Scan PROVE Within(cursor.height)' /\ PhaseOK'
<1> USE DEF ProgressInv
<1>1. CASE TickStart
  BY <1>1, TipOfType
     DEF TickStart, TipOf, Within, PhaseOK, storeVars, TypeInv, TypeOK, Checkpoint
<1>2. CASE ProbeCheckpoint \/ ListAccounts \/ ForwardPage \/ ReadUnspent \/ CheckChunk
           \/ BackfillPage \/ BackfillSeek \/ ReorgSeek
  BY <1>2 DEF ProbeCheckpoint, ListAccounts, ForwardPage, ReadUnspent, CheckChunk,
              BackfillPage, BackfillSeek, ReorgSeek, Fork,
              Within, PhaseOK, storeVars, tickVars
<1>3. CASE ForwardStore \/ BackfillStore
  BY <1>3 DEF ForwardStore, BackfillStore, StoreMatch, insert_output, Within, PhaseOK
<1>4. CASE MarkSpent
  BY <1>4 DEF MarkSpent, mark_spent, Within, PhaseOK
<1>5. CASE SetCursor
  BY <1>5 DEF SetCursor, set_cursor, Within, PhaseOK, tickVars, TypeInv, TypeOK,
              AccountRow, Checkpoint
<1>6. CASE AdvanceAccount
  <2>1. Within(cursor.height)'
    BY <1>6, WithinAdvance DEF AdvanceAccount, PhaseOK
  <2> QED BY <1>6, <2>1 DEF AdvanceAccount, PhaseOK, set_account_scan_height
<1>7. CASE FinishTick \/ GiveUp
  BY <1>7 DEF FinishTick, GiveUp, Sleep, Within, PhaseOK, storeVars
<1>8. CASE BackfillDone
  <2>1. Within(cursor.height)'
    BY <1>8, WithinAdvance DEF BackfillDone, PhaseOK
  <2> QED BY <1>8, <2>1 DEF BackfillDone, Sleep, PhaseOK
<1>9. CASE ReorgRollback
  BY <1>9 DEF ReorgRollback, rollback_to, Within, PhaseOK, tickVars
<1>10. CASE ReorgClamp
  <2>1. Fork \in Nat
    BY BelowType DEF Fork, TypeInv, TypeOK
  <2>2. \A a \in DOMAIN accounts :
          /\ accounts'[a].start = accounts[a].start
          /\ accounts'[a].scan <= Fork
          /\ accounts'[a].scan <= accounts[a].scan
    BY <1>10, <2>1 DEF ReorgClamp, clamp_account_scan_heights, Lowered, TypeInv, TypeOK,
                       AccountRow
  <2>3. /\ DOMAIN accounts' = DOMAIN accounts /\ cursor' = cursor /\ Fork' = Fork
        /\ pc' = "seek" /\ accounts' \in [DOMAIN accounts -> AccountRow]
    BY <1>10, <2>1 DEF ReorgClamp, clamp_account_scan_heights, tickVars, Fork, Lowered,
                       TypeInv, TypeOK, AccountRow
  <2>4. Within(Fork)'
    BY <2>2, <2>3 DEF Within
  <2>5. Within(cursor.height)'
    BY <2>2, <2>3 DEF Within, TypeInv, TypeOK, AccountRow, Checkpoint
  <2> QED BY <2>3, <2>4, <2>5 DEF PhaseOK
<1>11. CASE ReorgReset
  BY <1>11 DEF ReorgReset, set_cursor, Sleep, Within, PhaseOK
<1> QED BY <1>1, <1>2, <1>3, <1>4, <1>5, <1>6, <1>7, <1>8, <1>9, <1>10, <1>11 DEF Scan

LEMMA ProgressNext == ProgressInv /\ [Next]_vars => ProgressInv'
<1> SUFFICES ASSUME ProgressInv, [Next]_vars PROVE Within(cursor.height)' /\ PhaseOK'
  BY TypeNext DEF ProgressInv
<1>1. CASE Scan
  BY <1>1, ProgressScan
<1>2. CASE Abort
  BY <1>2 DEF Abort, Sleep, storeVars, ProgressInv, Within, PhaseOK
<1>3. ASSUME NEW a \in Account, NEW h \in ClientHeight, Register(a, h)
      PROVE  Within(cursor.height)' /\ PhaseOK'
  BY <1>3, ScannerAssumption
     DEF Register, register_account, tickVars, ProgressInv, Within, PhaseOK, Fork
<1>4. ASSUME NEW a \in Account, NEW h \in ClientHeight, Rescan(a, h)
      PROVE  Within(cursor.height)' /\ PhaseOK'
  <2>1. \A b \in DOMAIN accounts : /\ accounts'[b].start = accounts[b].start
                                   /\ accounts'[b].scan <= accounts[b].scan
                                   /\ accounts'[b].scan \in Nat
    BY <1>4, ScannerAssumption
       DEF Rescan, rescan_account, Lowered, ProgressInv, TypeInv, TypeOK, AccountRow
  <2>2. DOMAIN accounts' = DOMAIN accounts /\ UNCHANGED <<cursor, tip, pc>>
    BY <1>4 DEF Rescan, rescan_account, tickVars
  <2>3. cursor.height \in Nat /\ Fork \in Nat
    BY BelowType DEF ProgressInv, Fork, TypeInv, TypeOK, Checkpoint
  <2> QED BY <2>1, <2>2, <2>3
          DEF ProgressInv, Within, PhaseOK, Fork, TypeInv, TypeOK, AccountRow
<1>5. CASE (\E c \in Chain : MoveHead(c)) \/ UNCHANGED vars
  BY <1>5 DEF MoveHead, vars, storeVars, tickVars, ProgressInv, Within, PhaseOK, Fork
<1> QED BY <1>1, <1>2, <1>3, <1>4, <1>5 DEF Next, Client

(* No account claims to be scanned beyond the checkpoint and its birthday, *)
(* at any point of a tick and wherever a tick is cut short.                *)
THEOREM ProgressHolds == Spec => []ProgressWithinCheckpoint
<1>1. Init => ProgressInv
  BY TypeInit DEF Init, StoreInit, ScannerInit, ProgressInv, Within, PhaseOK
<1>2. ProgressInv => ProgressWithinCheckpoint
  BY DEF ProgressInv, Within, ProgressWithinCheckpoint
<1> QED BY <1>1, <1>2, ProgressNext, PTL DEF Spec
-----------------------------------------------------------------------------
(* Ticks end.  The work left is a number only because all that a tick goes *)
(* through is finite: what the node lists and what is stored.              *)

Finite ==
  /\ IsFiniteSet(DOMAIN accounts) /\ IsFiniteSet(DOMAIN outputs)
  /\ IsFiniteSet(batch) /\ IsFiniteSet(unchecked) /\ IsFiniteSet(absent)

TickInv == TypeInv /\ Finite

LEMMA FiniteFetch ==
  ASSUME TypeInv, NEW end, NEW last, NEW watched, FetchPage(end, last, watched)
  PROVE  IsFiniteSet(batch')
<1>1. IsFiniteSet(Utxo[head]) /\ batch' \in SUBSET Utxo[head]
  BY PageType, ChainAssumption DEF FetchPage, TypeInv, TypeOK
<1> QED BY <1>1, FS_Subset

LEMMA FiniteStore == ASSUME Finite, StoreMatch PROVE Finite'
<1>1. PICK o \in batch : insert_output(o, Owner[o.commit]) /\ batch' = batch \ {o}
  BY DEF StoreMatch
<1>2. DOMAIN outputs' = DOMAIN outputs \cup {o.commit}
  BY <1>1 DEF insert_output
<1>3. IsFiniteSet(DOMAIN outputs') /\ IsFiniteSet(batch')
  BY <1>1, <1>2, FS_AddElement, FS_RemoveElement DEF Finite
<1> QED BY <1>1, <1>3 DEF StoreMatch, insert_output, Finite

LEMMA FiniteFewer ==
  ASSUME Finite,
         DOMAIN accounts' \subseteq DOMAIN accounts,
         DOMAIN outputs' \subseteq DOMAIN outputs,
         batch' \subseteq batch, unchecked' \subseteq unchecked, absent' \subseteq absent
  PROVE  Finite'
BY FS_Subset DEF Finite

LEMMA FiniteScan == ASSUME TickInv, Scan PROVE Finite'
<1> USE DEF TickInv
<1>1. CASE TickStart \/ ProbeCheckpoint \/ ListAccounts \/ BackfillSeek \/ ReorgSeek
           \/ SetCursor \/ ReorgClamp
  BY <1>1, FiniteFewer DEF TickStart, ProbeCheckpoint, ListAccounts, BackfillSeek,
     ReorgSeek, SetCursor, set_cursor, ReorgClamp, clamp_account_scan_heights,
     storeVars, tickVars
<1>2. CASE ForwardPage
  BY <1>2, FiniteFetch DEF ForwardPage, storeVars, Finite
<1>3. CASE BackfillPage
  BY <1>3, FiniteFetch DEF BackfillPage, storeVars, Finite
<1>4. CASE ForwardStore \/ BackfillStore
  BY <1>4, FiniteStore DEF ForwardStore, BackfillStore
<1>5. CASE ReadUnspent
  <2>1. unchecked' \in SUBSET DOMAIN outputs /\ UNCHANGED <<accounts, outputs, batch, absent>>
    BY <1>5 DEF ReadUnspent, all_unspent_commits, storeVars
  <2> QED BY <2>1, FS_Subset DEF Finite
<1>6. CASE CheckChunk
  <2>1. PICK S \in SUBSET unchecked : /\ absent' = absent \cup (S \ Present(head, S))
                                      /\ unchecked' = unchecked \ S
    BY <1>6 DEF CheckChunk
  <2>2. IsFiniteSet(S) /\ S \ Present(head, S) \in SUBSET S
    BY FS_Subset DEF Finite
  <2>3. IsFiniteSet(S \ Present(head, S))
    BY <2>2, FS_Subset
  <2>4. IsFiniteSet(absent')
    BY <2>1, <2>3, FS_Union DEF Finite
  <2>5. IsFiniteSet(unchecked')
    BY <2>1, FS_Subset DEF Finite
  <2> QED BY <1>6, <2>4, <2>5 DEF CheckChunk, storeVars, Finite
<1>7. CASE MarkSpent
  BY <1>7, FiniteFewer DEF MarkSpent, mark_spent
<1>8. CASE AdvanceAccount
  BY <1>8, FiniteFewer DEF AdvanceAccount, set_account_scan_height
<1>9. CASE FinishTick \/ GiveUp \/ ReorgReset \/ BackfillDone
  BY <1>9, FiniteFewer DEF FinishTick, GiveUp, ReorgReset, BackfillDone, Sleep, set_cursor,
     set_account_scan_height, storeVars
<1>10. CASE ReorgRollback
  BY <1>10, FiniteFewer DEF ReorgRollback, rollback_to, tickVars
<1> QED BY <1>1, <1>2, <1>3, <1>4, <1>5, <1>6, <1>7, <1>8, <1>9, <1>10 DEF Scan

LEMMA TickInvNext == TickInv /\ [Next]_vars => TickInv'
<1> SUFFICES ASSUME TickInv, [Next]_vars PROVE Finite'
  BY TypeNext DEF TickInv
<1>1. CASE Scan
  BY <1>1, FiniteScan
<1>2. CASE Abort
  BY <1>2, FiniteFewer DEF Abort, Sleep, storeVars, TickInv
<1>3. ASSUME NEW a \in Account, NEW h \in ClientHeight, Register(a, h)
      PROVE  Finite'
  <2>1. DOMAIN accounts' = DOMAIN accounts \cup {a}
    BY <1>3 DEF Register, register_account
  <2>2. IsFiniteSet(DOMAIN accounts')
    BY <2>1, FS_AddElement DEF TickInv, Finite
  <2> QED BY <1>3, <2>2 DEF Register, register_account, tickVars, TickInv, Finite
<1>4. ASSUME NEW a \in Account, NEW h \in ClientHeight, Rescan(a, h)
      PROVE  Finite'
  BY <1>4, FiniteFewer DEF Rescan, rescan_account, tickVars, TickInv
<1>5. CASE (\E c \in Chain : MoveHead(c)) \/ UNCHANGED vars
  BY <1>5 DEF MoveHead, vars, storeVars, tickVars, TickInv, Finite
<1> QED BY <1>1, <1>2, <1>3, <1>4, <1>5 DEF Next, Client

LEMMA TickInvInit == Init => TickInv
<1> SUFFICES ASSUME Init PROVE Finite
  BY TypeInit DEF TickInv
<1>1. /\ DOMAIN accounts = {} /\ DOMAIN outputs = {}
      /\ batch = {} /\ unchecked = {} /\ absent = {}
  BY DEF Init, StoreInit, ScannerInit
<1> QED BY <1>1, FS_EmptySet DEF Finite

(* Each count is one, and finite sets that shrink have a smaller one.      *)
Rest == Cardinality(batch) + Cardinality(absent) + Cardinality(caughtUp)

LEMMA Counts ==
  ASSUME TickInv
  PROVE  /\ Stage[pc] \in Nat /\ PagesLeft \in Nat
         /\ Cardinality(unchecked) \in Nat /\ Cardinality(batch) \in Nat
         /\ Cardinality(absent) \in Nat /\ Cardinality(caughtUp) \in Nat
         /\ WorkLeft \in [1 .. 4 -> Nat]
<1>1. Stage[pc] \in Nat
  BY DEF TickInv, TypeInv, TypeOK, Stage
<1>2. PagesLeft \in Nat
  <2>1. HighestIndex(head) \in Nat /\ next \in Nat /\ highest \in Nat
    BY TipOfType DEF TickInv, TypeInv, TypeOK
  <2> QED BY <2>1 DEF PagesLeft
<1>3. /\ Cardinality(unchecked) \in Nat /\ Cardinality(batch) \in Nat
      /\ Cardinality(absent) \in Nat
  BY FS_CardinalityType DEF TickInv, Finite
<1>4. Cardinality(caughtUp) \in Nat
  <2>1. caughtUp \in SUBSET DOMAIN accounts /\ IsFiniteSet(DOMAIN accounts)
    BY DEF TickInv, TypeInv, TypeOK, Finite
  <2> QED BY <2>1, FS_Subset, FS_CardinalityType
<1> QED BY <1>1, <1>2, <1>3, <1>4 DEF WorkLeft

LEMMA Fewer ==
  ASSUME NEW S, NEW T \in SUBSET S, IsFiniteSet(S), T # S
  PROVE  Cardinality(T) < Cardinality(S)
<1>1. Cardinality(T) \in Nat /\ Cardinality(S) \in Nat
  BY FS_Subset, FS_CardinalityType
<1>2. Cardinality(T) <= Cardinality(S) /\ Cardinality(S) # Cardinality(T)
  BY FS_Subset
<1> QED BY <1>1, <1>2

(* The three ways a step within a stage leaves less. *)
LEMMA LaterStage ==
  ASSUME Stage[pc'] < Stage[pc] PROVE Less(WorkLeft', WorkLeft)
<1>1. WorkLeft'[1] < WorkLeft[1]
  BY DEF WorkLeft
<1> QED BY <1>1 DEF Less

LEMMA LessPaging ==
  ASSUME pc' = pc, PagesLeft' < PagesLeft PROVE Less(WorkLeft', WorkLeft)
<1>1. WorkLeft'[1] = WorkLeft[1] /\ WorkLeft'[2] < WorkLeft[2]
  BY DEF WorkLeft
<1> QED BY <1>1 DEF Less

LEMMA LessChecking ==
  ASSUME pc' = pc, PagesLeft' = PagesLeft,
         Cardinality(unchecked') < Cardinality(unchecked)
  PROVE  Less(WorkLeft', WorkLeft)
<1>1. /\ WorkLeft'[1] = WorkLeft[1] /\ WorkLeft'[2] = WorkLeft[2]
      /\ WorkLeft'[3] < WorkLeft[3]
  BY DEF WorkLeft
<1> QED BY <1>1 DEF Less

LEMMA LessResting ==
  ASSUME pc' = pc, PagesLeft' = PagesLeft, unchecked' = unchecked, Rest' < Rest
  PROVE  Less(WorkLeft', WorkLeft)
<1>1. /\ WorkLeft'[1] = WorkLeft[1] /\ WorkLeft'[2] = WorkLeft[2]
      /\ WorkLeft'[3] = WorkLeft[3] /\ WorkLeft'[4] < WorkLeft[4]
  BY DEF WorkLeft, Rest
<1> QED BY <1>1 DEF Less

LEMMA SamePages ==
  ASSUME UNCHANGED <<head, pc, next, highest, more>> PROVE PagesLeft' = PagesLeft
BY DEF PagesLeft

(* The node answers with an index of the range, unless it had none left.   *)
LEMMA LastWithin ==
  ASSUME NEW c \in Chain, NEW s \in Nat, NEW e \in Nat, s >= 1,
         NEW last \in LastRetrieved(c, s, e), s <= last
  PROVE  last <= e
<1>1. CASE Cardinality(Live(c, s, e)) >= PageMax
  BY <1>1 DEF LastRetrieved, Page, Live
<1>2. CASE ~ Cardinality(Live(c, s, e)) >= PageMax
  BY <1>2 DEF LastRetrieved
<1> QED BY <1>1, <1>2

LEMMA PageForward == ASSUME TickInv, ForwardPage PROVE PagesLeft' < PagesLeft
<1> DEFINE end == HighestIndex(head)
<1>1. PICK last \in LastRetrieved(head, next, end) :
        /\ FetchPage(end, last, caughtUp)
        /\ more' = (next <= last /\ last < end)
  BY DEF ForwardPage
<1>2. next \in Nat /\ next >= 1 /\ end \in Nat /\ head \in Chain
  BY TipOfType DEF ForwardPage, TickInv, TypeInv, TypeOK, PagingOK
<1>3. last \in Nat /\ more /\ next' = last + 1
  BY <1>1, <1>2, LastType DEF FetchPage
<1>4. PagesLeft = IF next <= end THEN end + 2 - next ELSE 1
  BY <1>3 DEF ForwardPage, PagesLeft
<1>5. PagesLeft' = IF ~ more' THEN 0 ELSE IF next' <= end THEN end + 2 - next' ELSE 1
  BY DEF ForwardPage, PagesLeft
<1>6. more' => next <= last /\ last < end
  BY <1>1
<1> HIDE DEF end
<1> QED BY <1>2, <1>3, <1>4, <1>5, <1>6

LEMMA PageBackfill == ASSUME TickInv, BackfillPage PROVE PagesLeft' < PagesLeft
<1>1. PICK last \in LastRetrieved(head, next, highest) :
        /\ FetchPage(highest, last, behind)
        /\ more' = (next <= last /\ (last < highest \/ HighestIndex(head) < highest))
  BY DEF BackfillPage
<1>2. next \in Nat /\ next >= 1 /\ highest \in Nat /\ head \in Chain
  BY DEF BackfillPage, TickInv, TypeInv, TypeOK, PagingOK
<1>3. last \in Nat /\ more /\ next' = last + 1
  BY <1>1, <1>2, LastType DEF FetchPage
<1>4. next <= last => last <= highest
  BY <1>1, <1>2, LastWithin
<1>5. PagesLeft = IF next <= highest THEN highest + 2 - next ELSE 1
  BY <1>3 DEF BackfillPage, PagesLeft
<1>6. PagesLeft' = IF ~ more' THEN 0 ELSE IF next' <= highest THEN highest + 2 - next' ELSE 1
  BY DEF BackfillPage, PagesLeft
<1>7. more' => next <= last
  BY <1>1
<1> QED BY <1>2, <1>3, <1>4, <1>5, <1>6, <1>7

LEMMA StoreLess ==
  ASSUME TickInv, StoreMatch PROVE Less(WorkLeft', WorkLeft)
<1>1. PICK o \in batch : batch' = batch \ {o}
  BY DEF StoreMatch
<1>2. Cardinality(batch') < Cardinality(batch)
  BY <1>1, Fewer DEF TickInv, Finite
<1>3. Cardinality(batch') \in Nat
  BY <1>1, FS_RemoveElement, FS_CardinalityType DEF TickInv, Finite
<1>4. UNCHANGED <<head, pc, next, highest, more, unchecked, absent, caughtUp>>
  BY DEF StoreMatch
<1>5. Rest' < Rest
  BY <1>2, <1>3, <1>4, Counts DEF Rest
<1> QED BY <1>4, <1>5, SamePages, LessResting

LEMMA CheckLess == ASSUME TickInv, CheckChunk PROVE Less(WorkLeft', WorkLeft)
<1>1. PICK S \in SUBSET unchecked : IsChunk(S) /\ unchecked' = unchecked \ S
  BY DEF CheckChunk
<1>2. UNCHANGED <<head, pc, next, highest, more>> /\ unchecked # {}
  BY DEF CheckChunk
<1>3. S # {}
  <2>1. OutputsChunk # 0
    BY PagingAssumption
  <2> QED BY <1>1, <1>2, <2>1, FS_EmptySet DEF IsChunk
<1>4. Cardinality(unchecked') < Cardinality(unchecked)
  BY <1>1, <1>3, Fewer DEF TickInv, Finite
<1> QED BY <1>2, <1>4, SamePages, LessChecking

LEMMA MarkLess == ASSUME TickInv, MarkSpent PROVE Less(WorkLeft', WorkLeft)
<1>1. PICK k \in absent : absent' = absent \ {k}
  BY DEF MarkSpent
<1>2. Cardinality(absent') < Cardinality(absent)
  BY <1>1, Fewer DEF TickInv, Finite
<1>3. Cardinality(absent') \in Nat
  BY <1>1, FS_RemoveElement, FS_CardinalityType DEF TickInv, Finite
<1>4. UNCHANGED <<head, pc, next, highest, more, unchecked, batch, caughtUp>>
  BY DEF MarkSpent
<1>5. Rest' < Rest
  BY <1>2, <1>3, <1>4, Counts DEF Rest
<1> QED BY <1>4, <1>5, SamePages, LessResting

LEMMA AdvanceLess == ASSUME TickInv, AdvanceAccount PROVE Less(WorkLeft', WorkLeft)
<1>1. PICK a \in caughtUp : caughtUp' = caughtUp \ {a}
  BY DEF AdvanceAccount
<1>2. IsFiniteSet(caughtUp)
  BY FS_Subset DEF TickInv, TypeInv, TypeOK, Finite
<1>3. Cardinality(caughtUp') < Cardinality(caughtUp)
  BY <1>1, <1>2, Fewer
<1>4. Cardinality(caughtUp') \in Nat
  BY <1>1, <1>2, FS_RemoveElement, FS_CardinalityType
<1>5. UNCHANGED <<head, pc, next, highest, more, unchecked, batch, absent>>
  BY DEF AdvanceAccount
<1>6. Rest' < Rest
  BY <1>3, <1>4, <1>5, Counts DEF Rest
<1> QED BY <1>5, <1>6, SamePages, LessResting

LEMMA ScanLess == ASSUME TickInv, Scan, pc' # "sleep" PROVE Less(WorkLeft', WorkLeft)
<1>1. CASE TickStart \/ ProbeCheckpoint \/ ListAccounts \/ ReadUnspent \/ SetCursor
           \/ BackfillSeek \/ ReorgRollback \/ ReorgClamp \/ ReorgSeek
  <2>1. Stage[pc'] < Stage[pc]
    BY <1>1 DEF TickStart, ProbeCheckpoint, ListAccounts, ReadUnspent, SetCursor,
       BackfillSeek, ReorgRollback, ReorgClamp, ReorgSeek, Stage
  <2> QED BY <2>1, LaterStage
<1>2. CASE ForwardPage
  BY <1>2, PageForward, LessPaging DEF ForwardPage
<1>3. CASE BackfillPage
  BY <1>3, PageBackfill, LessPaging DEF BackfillPage
<1>4. CASE ForwardStore \/ BackfillStore
  BY <1>4, StoreLess DEF ForwardStore, BackfillStore
<1>5. CASE CheckChunk
  BY <1>5, CheckLess
<1>6. CASE MarkSpent
  BY <1>6, MarkLess
<1>7. CASE AdvanceAccount
  BY <1>7, AdvanceLess
<1>8. CASE FinishTick \/ GiveUp \/ ReorgReset \/ BackfillDone
  BY <1>8 DEF FinishTick, GiveUp, ReorgReset, BackfillDone, Sleep
<1> QED BY <1>1, <1>2, <1>3, <1>4, <1>5, <1>6, <1>7, <1>8 DEF Scan

LEMMA OthersLeave ==
  ASSUME TickInv, [Next]_vars, ~ Scan
  PROVE  \/ pc' = "sleep" \/ WorkLeft' = WorkLeft
         \/ pc = "forward" /\ head' # head
<1>1. CASE Abort
  BY <1>1 DEF Abort, Sleep
<1>2. CASE Client \/ UNCHANGED vars
  <2>1. UNCHANGED <<head, pc, tickVars>>
    BY <1>2 DEF Client, Register, Rescan, vars
  <2> QED BY <2>1, SamePages DEF WorkLeft, tickVars
<1>3. CASE \E c \in Chain : MoveHead(c)
  <2>1. UNCHANGED <<pc, tickVars>>
    BY <1>3 DEF MoveHead
  <2>2. CASE pc = "forward" /\ head' = head
    BY <2>1, <2>2, SamePages DEF WorkLeft, tickVars
  <2>3. CASE pc # "forward"
    BY <2>1, <2>3 DEF WorkLeft, tickVars, PagesLeft
  <2> QED BY <2>2, <2>3
<1> QED BY <1>1, <1>2, <1>3 DEF Next

(* Every step of a tick, of any length, leaves fewer pages, commitments or *)
(* accounts to go through, whatever the node, clients and failures do; a   *)
(* tick is as long as it is only while the node's head keeps moving.       *)
THEOREM TicksEnd == Spec => EveryTickEnds
<1>0. TickInv => WorkLeft \in [1 .. 4 -> Nat]
  BY Counts
<1>a. (TickInv => WorkLeft \in [1 .. 4 -> Nat])'
  BY <1>0, PTL
<1>1. TickInv /\ TickInv' /\ [Next]_vars =>
        [/\ Scan /\ pc' # "sleep" => /\ WorkLeft' \in [1 .. 4 -> Nat]
                                     /\ Less(WorkLeft', WorkLeft)
         /\ ~ Scan => \/ pc' = "sleep" \/ WorkLeft' = WorkLeft
                      \/ pc = "forward" /\ head' # head]_vars
  <2> SUFFICES ASSUME TickInv, TickInv', [Next]_vars
               PROVE  /\ Scan /\ pc' # "sleep" => /\ WorkLeft' \in [1 .. 4 -> Nat]
                                                  /\ Less(WorkLeft', WorkLeft)
                      /\ ~ Scan => \/ pc' = "sleep" \/ WorkLeft' = WorkLeft
                                   \/ pc = "forward" /\ head' # head
    OBVIOUS
  <2>1. ASSUME Scan, pc' # "sleep"
        PROVE  WorkLeft' \in [1 .. 4 -> Nat] /\ Less(WorkLeft', WorkLeft)
    BY <1>a, <2>1, ScanLess
  <2> QED BY <2>1, OthersLeave
<1> QED BY <1>1, TickInvInit, TickInvNext, PTL DEF Spec, EveryTickEnds
=============================================================================
