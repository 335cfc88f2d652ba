---------------------------- MODULE LedgerProofs ----------------------------
(***************************************************************************)
(* At the tip, what the database counts for an account is its ledger on    *)
(* the node's chain: where discovery, spends, rows and the sweep meet.     *)
(***************************************************************************)
EXTENDS DiscoveryProofs

(* At the tip the cursor's index is the node's: only the reseek after a    *)
(* reorganisation sets a smaller one, and that further down.               *)
TipIndexOK == AtTip => cursor.index = HighestIndex(head) \/ Tip[head] = 0

LedgerInv == DiscoveryInv /\ SweepOK /\ TipIndexOK

LEMMA SweepToo == DiscoveryInv /\ SweepOK <=> DiscoveryInv /\ SweepInv
BY DEF SweepInv, DiscoveryInv, BaseInv, HistoryInv

LEMMA TipIndexNext ==
  ASSUME "QuietTicks" \in Assumed, DiscoveryInv, SweepOK, TipIndexOK, [Next]_vars
  PROVE  TipIndexOK'
<1>0. /\ BaseInv /\ PagesOK /\ head \in Chain /\ Tip[head] \in Nat
      /\ pc # "sleep" => tip = TipOf(head)
  BY BaseTypes DEF DiscoveryInv, BaseInv, HistoryInv, CourseInv, CourseOK
<1>1. CASE UNCHANGED <<head, cursor>>
  BY <1>1 DEF TipIndexOK, AtTip
<1>2. CASE SetCursor
  BY <1>0, <1>2 DEF SetCursor, set_cursor, PagesOK, TipIndexOK
<1>3. CASE ReorgReset
  <2>1. /\ UNCHANGED head /\ cursor'.height = Fork /\ Fork = Below(Tip[head])
    BY <1>0, <1>3 DEF ReorgReset, set_cursor, Fork, TipOf
  <2>2. Tip[head] > 0 => Below(Tip[head]) < Tip[head]
    BY <1>0, ScannerAssumption DEF Below
  <2> QED BY <1>0, <2>1, <2>2 DEF TipIndexOK, AtTip, TipOf
<1>4. ASSUME NEW c \in Chain, MoveHead(c) PROVE ~ AtTip'
  <2>1. head' = c /\ Work[c] > Work[head] /\ UNCHANGED cursor
    BY <1>4 DEF MoveHead, NewHead, storeVars
  <2>2. TipOf(c) = [height |-> cursor.height, hash |-> cursor.hash] =>
          Work[c] <= Work[head]
    BY DEF SweepOK
  <2>3. Work[c] \in Nat /\ Work[head] \in Nat
    BY <1>0, ChainAssumption
  <2> QED BY <2>1, <2>2, <2>3 DEF AtTip
<1>5. CASE Scan
  <2>1. SetCursor \/ ReorgReset \/ UNCHANGED <<head, cursor>>
    BY <1>5 DEF Scan, TickStart, ProbeCheckpoint, ListAccounts, ForwardPage, ForwardStore,
       StoreMatch, insert_output, ReadUnspent, CheckChunk, MarkSpent, mark_spent,
       AdvanceAccount, set_account_scan_height, FinishTick, BackfillSeek, BackfillPage,
       BackfillStore, BackfillDone, ReorgRollback, rollback_to, ReorgClamp,
       clamp_account_scan_heights, ReorgSeek, GiveUp, storeVars
  <2> QED BY <1>1, <1>2, <1>3, <2>1
<1>6. Abort \/ Client \/ UNCHANGED vars => UNCHANGED <<head, cursor>>
  BY DEF Abort, Client, Register, register_account, Rescan, rescan_account, vars, storeVars
<1> QED BY <1>1, <1>4, <1>5, <1>6 DEF Next, TipIndexOK
LEMMA LedgerNext ==
  ASSUME AllAssumptions \subseteq Assumed, CommitsAreUnique, WorkGrows,
         LedgerInv, [Next]_vars
  PROVE  LedgerInv'
<1>1. "QuietTicks" \in Assumed
  BY DEF AllAssumptions
<1>2. SweepInv
  BY SweepToo DEF LedgerInv
<1>3. DiscoveryInv' /\ SweepOK' /\ TipIndexOK'
  BY <1>1, <1>2, DiscoveryNext, SweepNext, TipIndexNext DEF LedgerInv, SweepInv
<1> QED BY <1>3 DEF LedgerInv

LEMMA LedgerInit == Init => LedgerInv
<1> SUFFICES ASSUME Init PROVE LedgerInv
  OBVIOUS
<1>1. DiscoveryInv /\ SweepOK
  BY DiscoveryInit, SweepInit DEF SweepInv
<1>2. ~ AtTip
  <2>1. head \in Chain /\ cursor.hash = NoHash
    BY DEF Init, StoreInit, NoCursor
  <2> QED BY <2>1, TipOfType, ScannerAssumption DEF AtTip, TipOf
<1> QED BY <1>1, <1>2 DEF LedgerInv, TipIndexOK
-----------------------------------------------------------------------------
(* The row of a stored output, as far as the chain knows it. *)
RowOf(k) == [commit |-> k, height |-> outputs[k].height, idx |-> outputs[k].idx]

(* At the tip, a row is its live output. *)
LEMMA RowIsOutput ==
  ASSUME LedgerInv, CommitsAreUnique, AtTip, NEW o \in Utxo[head], Stored(o)
  PROVE  RowOf(o.commit) = o
<1>1. head \in Chain /\ TypeInv /\ OnChain
  BY BaseTypes, OwnTip DEF LedgerInv, DiscoveryInv, AtTip, TipOf, OnChain
<1>2. RowsOn(head)
  BY <1>1 DEF LedgerInv, DiscoveryInv, BaseInv, HistoryInv, HistoryOK
<1>3. RowOf(o.commit) \in Created[head] /\ o \in Created[head]
  BY <1>1, <1>2, PageType DEF RowsOn, RowOn, RowOf, Stored
<1>4. RowOf(o.commit).commit = o.commit
  BY DEF RowOf
<1> QED BY <1>1, <1>3, <1>4 DEF CommitsAreUnique

LEMMA NothingElse ==
  ASSUME LedgerInv, CommitsAreUnique, AtTip, NEW k \in all_unspent_commits
  PROVE  RowOf(k) \in Utxo[head] /\ Owner[k] = outputs[k].account
<1>1. PICK o \in Utxo[head] : o.commit = k
  BY DEF LedgerInv, SweepOK, Listed
<1>2. k \in DOMAIN outputs
  BY DEF all_unspent_commits
<1>3. RowOf(k) = o
  BY <1>1, <1>2, RowIsOutput DEF Stored
<1>4. outputs[k].account = Owner[k]
  BY <1>2 DEF LedgerInv, DiscoveryInv, BaseInv, CustodyInv, Custody
<1> QED BY <1>3, <1>4

LEMMA NoneMissing ==
  ASSUME LedgerInv, CommitsAreUnique, SpendsAreFinal, AtTip, NEW o \in Utxo[head],
         CaughtUp(Owner[o.commit]), o.height > accounts[Owner[o.commit]].start
  PROVE  o.commit \in all_unspent_commits /\ RowOf(o.commit) = o
<1> DEFINE a == Owner[o.commit]
<1>1. /\ head \in Chain /\ TypeInv /\ OnChain /\ cursor.height = Tip[head]
      /\ a \in DOMAIN accounts /\ accounts[a].start \in Nat
  BY BaseTypes, OwnTip
     DEF LedgerInv, DiscoveryInv, AtTip, TipOf, OnChain, CaughtUp
<1>2. o \in Created[head] /\ o.height \in Nat /\ Tip[head] > 0
  BY <1>1, PageType, CreatedHeight, TipOfType
<1>3. o.idx <= cursor.index
  BY <1>1, <1>2, AllListed DEF LedgerInv, TipIndexOK
<1>4. Own(o, a) /\ OnKept(o) /\ Due(o, a)
  BY <1>1, <1>2, <1>3 DEF Own, OnKept, Kept, OnChain, Due, CaughtUp
<1>5. ~ Cut(o)
  BY <1>1 DEF Cut, LedgerInv, DiscoveryInv, BaseInv, HistoryInv, CourseInv, CourseOK,
     OnCourse
<1>6. Stored(o)
  BY <1>1, <1>4, <1>5 DEF LedgerInv, DiscoveryInv, OwedOK
<1>7. outputs[o.commit].spent = Unspent
  <2> SUFFICES ASSUME outputs[o.commit].spent # Unspent PROVE FALSE
    OBVIOUS
  <2> DEFINE s == outputs[o.commit].spent
  <2>1. Gone(o.commit, head, s)
    BY <1>1, <1>6
       DEF LedgerInv, DiscoveryInv, BaseInv, HistoryInv, HistoryOK, RowsOn, RowOn, Stored
  <2>2. Contains(head, s, Header[head][s].hash)
    BY <1>1, <2>1, TipOfType DEF Gone, Contains
  <2> QED BY <1>1, <2>1, <2>2 DEF Gone
<1> QED BY <1>6, <1>7, RowIsOutput DEF Stored, all_unspent_commits

(* Once the checkpoint has reached the node's tip, a caught-up account is  *)
(* credited with its live outputs, each where it is on the chain, and with *)
(* nothing else, across every failure, rescan and reorganisation before.   *)
THEOREM LedgerExact ==
  ASSUME AllAssumptions \subseteq Assumed, SpendsAreFinal, CommitsAreUnique, WorkGrows
  PROVE  Spec => []LedgerIsExact
<1>1. LedgerInv => LedgerIsExact
  <2> SUFFICES ASSUME LedgerInv, AtTip, NEW a \in Account, CaughtUp(a)
               PROVE  LET mine   == {o \in Utxo[head] : Owner[o.commit] = a}
                          ledger == {RowOf(k) : k \in {k \in all_unspent_commits :
                                                         outputs[k].account = a}}
                      IN  /\ ledger \subseteq mine
                          /\ {o \in mine : o.height > accounts[a].start} \subseteq ledger
    BY DEF LedgerIsExact, AtTip, RowOf
  <2>1. ASSUME NEW k \in all_unspent_commits, outputs[k].account = a
        PROVE  RowOf(k) \in Utxo[head] /\ Owner[RowOf(k).commit] = a
    BY <2>1, NothingElse DEF RowOf
  <2>2. ASSUME NEW o \in Utxo[head], Owner[o.commit] = a, o.height > accounts[a].start
        PROVE  /\ o.commit \in all_unspent_commits /\ outputs[o.commit].account = a
               /\ RowOf(o.commit) = o
    <3>1. o.commit \in all_unspent_commits /\ RowOf(o.commit) = o
      BY <2>2, NoneMissing
    <3>2. outputs[o.commit].account = Owner[o.commit]
      BY <3>1, NothingElse
    <3> QED BY <2>2, <3>1, <3>2
  <2> QED BY <2>1, <2>2
<1>2. LedgerInv /\ [Next]_vars => LedgerInv'
  BY LedgerNext
<1> QED BY <1>1, <1>2, LedgerInit, PTL DEF Spec
=============================================================================
