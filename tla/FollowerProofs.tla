--------------------------- MODULE FollowerProofs ---------------------------
(***************************************************************************)
(* The scanner implements Follower, for every block tree and depth, when   *)
(* the node's head keeps still during a tick; failures, rescans and        *)
(* registrations may come at any point.                                    *)
(***************************************************************************)
EXTENDS ScannerProofs

OnCourse == cursor.height = 0 \/ OnChain

(* Where a tick knows the checkpoint to be on the node's chain, where it   *)
(* knows it lost, and where it has moved it to the tip.  This lasts for    *)
(* the tick because the head does not move.                                *)
CourseOK ==
  /\ pc # "sleep" => tip = TipOf(head)
  /\ pc = "probe" => cursor.height # 0
  /\ pc \in {"list", "forward", "reconcile"} => OnCourse
  /\ pc \in {"rollback", "clamp", "seek", "reset"} => ~ OnCourse
  /\ pc \in {"advance", "backfill"} => /\ cursor.height = tip.height
                                       /\ cursor.hash = tip.hash

CourseInv == TypeInv /\ CourseOK

LEMMA CourseScan == ASSUME CourseInv, Scan PROVE CourseOK'
<1> USE DEF CourseInv, CourseOK, OnCourse, OnChain
<1>1. CASE TickStart
  BY <1>1, TipOfType DEF TickStart, Contains, storeVars, TypeInv, TypeOK, Checkpoint
<1>2. CASE ProbeCheckpoint
  BY <1>2 DEF ProbeCheckpoint, storeVars, tickVars
<1>3. CASE ListAccounts \/ ForwardPage \/ ReadUnspent \/ CheckChunk
           \/ BackfillSeek \/ BackfillPage \/ ReorgSeek
  BY <1>3 DEF ListAccounts, ForwardPage, ReadUnspent, CheckChunk, BackfillSeek,
              BackfillPage, ReorgSeek, storeVars
<1>4. CASE ForwardStore \/ BackfillStore
  BY <1>4 DEF ForwardStore, BackfillStore, StoreMatch, insert_output
<1>5. CASE MarkSpent
  BY <1>5 DEF MarkSpent, mark_spent
<1>6. CASE SetCursor
  BY <1>6 DEF SetCursor, set_cursor, tickVars
<1>7. CASE AdvanceAccount
  BY <1>7 DEF AdvanceAccount, set_account_scan_height
<1>8. CASE FinishTick \/ BackfillDone \/ ReorgReset \/ GiveUp
  BY <1>8 DEF FinishTick, BackfillDone, ReorgReset, GiveUp, Sleep
<1>9. CASE ReorgRollback
  BY <1>9 DEF ReorgRollback, rollback_to, tickVars
<1>10. CASE ReorgClamp
  BY <1>10 DEF ReorgClamp, clamp_account_scan_heights, tickVars
<1> QED BY <1>1, <1>2, <1>3, <1>4, <1>5, <1>6, <1>7, <1>8, <1>9, <1>10 DEF Scan

LEMMA CourseNext ==
  ASSUME "QuietTicks" \in Assumed, CourseInv, [Next]_vars PROVE CourseInv'
<1> SUFFICES CourseOK'
  BY TypeNext DEF CourseInv
<1>1. CASE Scan
  BY <1>1, CourseScan
<1>2. CASE Abort
  BY <1>2 DEF Abort, Sleep, CourseOK
<1>3. CASE Client
  BY <1>3 DEF Client, Register, register_account, Rescan, rescan_account, tickVars,
              CourseInv, CourseOK, OnCourse, OnChain
<1>4. CASE \E c \in Chain : MoveHead(c)
  BY <1>4 DEF MoveHead, Holds, CourseInv, CourseOK
<1>5. CASE UNCHANGED vars
  BY <1>5 DEF vars, storeVars, tickVars, CourseInv, CourseOK, OnCourse, OnChain
<1> QED BY <1>1, <1>2, <1>3, <1>4, <1>5 DEF Next
-----------------------------------------------------------------------------
(* Every step is one of Follower's, or none.                               *)

(* No step but these touches what Follower sees. *)
LEMMA Stutter ==
  ASSUME UNCHANGED <<head, cursor, accounts>>
  PROVE  UNCHANGED <<head, Promise!Position>>
BY DEF Promise!Position

LEMMA Vouched ==
  ASSUME CourseInv, pc \in {"advance", "backfill"}, NEW a \in Account,
         set_account_scan_height(a, tip.height), UNCHANGED head
  PROVE  Promise!Reach(a)
<1>1. [height |-> cursor.height, hash |-> cursor.hash] = TipOf(head)
  BY DEF CourseInv, CourseOK, TipOf
<1>2. tip.height = cursor.height /\ cursor' = cursor
  BY DEF CourseInv, CourseOK, set_account_scan_height
<1>3. accounts' = [b \in DOMAIN accounts |->
                     IF b = a THEN [accounts[b] EXCEPT !.scan = cursor.height]
                     ELSE accounts[b]]
  BY <1>2 DEF set_account_scan_height
<1>4. \A b \in DOMAIN accounts : accounts[b] \in AccountRow
  BY DEF CourseInv, TypeInv, TypeOK
<1>5. /\ DOMAIN accounts' = DOMAIN accounts
      /\ \A b \in DOMAIN accounts :
           accounts'[b].scan = IF b = a THEN cursor.height ELSE accounts[b].scan
  BY <1>3, <1>4 DEF AccountRow
<1> QED BY <1>1, <1>2, <1>5 DEF Promise!Reach, Promise!TipOf, TipOf

LEMMA FollowerScan ==
  ASSUME CourseInv, Scan
  PROVE  [Promise!FollowerNext]_<<head, Promise!Position>>
<1> USE DEF CourseInv
<1>1. CASE TickStart \/ ProbeCheckpoint \/ ListAccounts \/ ForwardPage \/ ReadUnspent
           \/ CheckChunk \/ FinishTick \/ BackfillSeek \/ BackfillPage \/ ReorgSeek
           \/ GiveUp
  BY <1>1, Stutter DEF TickStart, ProbeCheckpoint, ListAccounts, ForwardPage, ReadUnspent,
     CheckChunk, FinishTick, BackfillSeek, BackfillPage, ReorgSeek, GiveUp, storeVars
<1>2. CASE ForwardStore \/ BackfillStore
  BY <1>2, Stutter DEF ForwardStore, BackfillStore, StoreMatch, insert_output
<1>3. CASE MarkSpent
  BY <1>3, Stutter DEF MarkSpent, mark_spent
<1>4. CASE ReorgRollback
  BY <1>4, Stutter DEF ReorgRollback, rollback_to
<1>5. CASE SetCursor
  <2>1. OnCourse /\ tip = TipOf(head) /\ UNCHANGED <<head, accounts>>
    BY <1>5 DEF SetCursor, set_cursor, CourseOK
  <2>2. cursor'.height = TipOf(head).height /\ cursor'.hash = TipOf(head).hash
    BY <1>5, <2>1 DEF SetCursor, set_cursor
  <2>3. Promise!Follow
    BY <2>1, <2>2 DEF Promise!Follow, Promise!OnCourse, Promise!Contains,
       Promise!TipOf, OnCourse, OnChain, Contains, TipOf
  <2> QED BY <2>3 DEF Promise!FollowerNext
<1>6. CASE AdvanceAccount
  <2>1. PICK a \in caughtUp : set_account_scan_height(a, tip.height)
    BY <1>6 DEF AdvanceAccount
  <2>2. a \in Account
    BY DEF TypeInv, TypeOK
  <2>3. Promise!Reach(a)
    BY <1>6, <2>1, <2>2, Vouched DEF AdvanceAccount
  <2> QED BY <2>2, <2>3 DEF Promise!FollowerNext
<1>7. CASE BackfillDone
  <2>1. PICK a \in behind : set_account_scan_height(a, tip.height)
    BY <1>7 DEF BackfillDone
  <2>2. a \in Account
    BY DEF TypeInv, TypeOK
  <2>3. Promise!Reach(a)
    BY <1>7, <2>1, <2>2, Vouched DEF BackfillDone
  <2> QED BY <2>2, <2>3 DEF Promise!FollowerNext
<1>8. CASE ReorgClamp
  <2>1. ~ OnCourse /\ UNCHANGED <<head, cursor>> /\ Fork \in Nat
    BY <1>8, BelowType DEF ReorgClamp, clamp_account_scan_heights, CourseOK, Fork,
       TypeInv, TypeOK
  <2>2. /\ DOMAIN accounts' = DOMAIN accounts
        /\ \A b \in DOMAIN accounts : accounts'[b].scan <= accounts[b].scan
    BY <1>8, <2>1 DEF ReorgClamp, clamp_account_scan_heights, Lowered, TypeInv, TypeOK,
       AccountRow
  <2>3. Promise!Withdraw
    BY <2>1, <2>2 DEF Promise!Withdraw, Promise!TakeBack, Promise!OnCourse,
       Promise!Contains, OnCourse, OnChain, Contains
  <2> QED BY <2>3 DEF Promise!FollowerNext
<1>9. CASE ReorgReset
  <2>1. ~ OnCourse /\ tip = TipOf(head) /\ UNCHANGED <<head, accounts>>
    BY <1>9 DEF ReorgReset, set_cursor, CourseOK
  <2>2. Fork \in 0 .. Tip[head] /\ Fork + ReorgDepth >= Tip[head]
    BY <2>1, TipOfType, ScannerAssumption DEF Fork, Below, TipOf, TypeInv, TypeOK
  <2>3. cursor'.height = Fork /\ cursor'.hash = Header[head][Fork].hash
    BY <1>9 DEF ReorgReset, set_cursor
  <2>4. Promise!Retreat
    BY <2>1, <2>2, <2>3 DEF Promise!Retreat, Promise!OnCourse, Promise!Contains,
       OnCourse, OnChain, Contains
  <2> QED BY <2>4 DEF Promise!FollowerNext
<1> QED BY <1>1, <1>2, <1>3, <1>4, <1>5, <1>6, <1>7, <1>8, <1>9 DEF Scan

LEMMA FollowerStep ==
  ASSUME CourseInv, [Next]_vars
  PROVE  [Promise!FollowerNext]_<<head, Promise!Position>>
<1> USE DEF CourseInv
<1>1. CASE Scan
  BY <1>1, FollowerScan
<1>2. CASE Abort \/ UNCHANGED vars
  BY <1>2, Stutter DEF Abort, vars, storeVars
<1>3. ASSUME NEW a \in Account, NEW h \in ClientHeight, Register(a, h)
      PROVE  Promise!Join(a)
  <2>1. /\ a \notin DOMAIN accounts /\ UNCHANGED <<head, cursor>>
        /\ DOMAIN accounts' = DOMAIN accounts \cup {a}
        /\ \A b \in DOMAIN accounts : accounts'[b] = accounts[b]
    BY <1>3 DEF Register, register_account
  <2> QED BY <2>1 DEF Promise!Join
<1>4. ASSUME NEW a \in Account, NEW h \in ClientHeight, Rescan(a, h)
      PROVE  Promise!ScanAgain(a)
  <2>1. /\ UNCHANGED <<head, cursor>> /\ DOMAIN accounts' = DOMAIN accounts
        /\ \A b \in DOMAIN accounts :
             /\ accounts'[b].scan <= accounts[b].scan
             /\ b \notin {a} => accounts'[b].scan = accounts[b].scan
    BY <1>4, ScannerAssumption DEF Rescan, rescan_account, Lowered, TypeInv, TypeOK,
       AccountRow
  <2> QED BY <2>1 DEF Promise!ScanAgain, Promise!TakeBack
<1>5. CASE \E c \in Chain : MoveHead(c)
  BY <1>5 DEF MoveHead, storeVars, Promise!FollowerNext, Promise!HeadMoves,
     Promise!Position, NewHead, Promise!NewHead
<1> QED BY <1>1, <1>2, <1>3, <1>4, <1>5 DEF Next, Client, Promise!FollowerNext

(* Between one tick and the next, and within a tick: the checkpoint and    *)
(* the accounts' progress only ever move as Follower allows.               *)
THEOREM ImplementsFollower ==
  ASSUME "QuietTicks" \in Assumed
  PROVE  Spec => FollowsTheChain
<1>1. Init => CourseInv
  BY TypeInit DEF Init, ScannerInit, CourseInv, CourseOK
<1>2. CourseInv /\ [Next]_vars => CourseInv'
  BY CourseNext
<1>3. Init => Promise!FollowerInit
  BY DEF Init, StoreInit, NoCursor, Promise!FollowerInit
<1>4. CourseInv /\ [Next]_vars => [Promise!FollowerNext]_<<head, Promise!Position>>
  BY FollowerStep
<1> QED BY <1>1, <1>2, <1>3, <1>4, PTL DEF Spec, FollowsTheChain, Promise!FollowerSpec
=============================================================================
