--------------------------- MODULE BalanceProofs ----------------------------
(***************************************************************************)
(* What a client may conclude from the reading handlers, proved for every  *)
(* block tree and every interleaving of its reads with the scanner, the    *)
(* node and other clients.                                                 *)
(***************************************************************************)
EXTENDS Balance, LedgerProofs

SessionType ==
  /\ stage \in {"idle", "total", "unlocked", "scanned", "balance", "outs", "listed"}
  /\ balance \in [account : Account \cup {Nobody}, tip : Nat, total : SUBSET Commit,
                  unlocked : SUBSET Commit, scanned : Nat]
  /\ listing \in [tip : Nat, outs : SUBSET Commit, spendable : SUBSET Commit]
  /\ quiet \in BOOLEAN
  /\ quiet => stage # "idle"
  /\ stage = "idle" => balance.unlocked = {}
  /\ stage # "listed" => listing.spendable = {}

(* A step by which a quiet session is not disturbed. *)
Calm == Undisturbing \/ UNCHANGED vars

LEMMA BalanceStep == [BalanceNext]_<<vars, sessionVars>> => [Next]_vars
BY DEF BalanceNext, Session, AskBalance, ReadTotal, ReadUnlocked, ReadScanned, AskOuts,
       ReadOuts, EndSession, Undisturbing, Disturbing, Next, Client

(* A client that reads leaves the scanner as it is: beside its sessions,   *)
(* everything proved of Spec goes on to hold.                              *)
THEOREM ReadersDisturbNothing == BalanceSpec => Spec
<1>1. BalanceInit => Init
  BY DEF BalanceInit
<1> QED BY <1>1, BalanceStep, PTL DEF BalanceSpec, Spec

(* A session that is quiet after a step was quiet before it and undisturbed, *)
(* or begins with it.                                                        *)
LEMMA QuietStep ==
  ASSUME [BalanceNext]_<<vars, sessionVars>>
  PROVE  \/ Session
         \/ Calm /\ UNCHANGED sessionVars
         \/ Disturbing /\ quiet' = FALSE /\ UNCHANGED <<stage, balance, listing>>
BY DEF BalanceNext, Calm

LEMMA UnspentType ==
  ASSUME TypeInv, NEW a
  PROVE  /\ unspent_outputs(a) \subseteq Commit
         /\ \A h : account_unlocked(a, h) \subseteq Commit
         /\ account_scan_height(a) \in Nat
<1>1. account_scan_height(a) \in Nat
  BY DEF account_scan_height, TypeInv, TypeOK, AccountRow
<1> QED BY <1>1 DEF unspent_outputs, account_unlocked, all_unspent_commits, TypeInv, TypeOK

LEMMA SessionTypeNext ==
  ASSUME TypeInv, SessionType, [BalanceNext]_<<vars, sessionVars>>
  PROVE  SessionType'
<1>0. head \in Chain /\ Tip[head] \in Nat
  BY TipOfType DEF TypeInv, TypeOK
<1>1. ASSUME NEW a \in Account, AskBalance(a) PROVE SessionType'
  BY <1>0, <1>1 DEF AskBalance, NoBalance, OnChain, Contains, SessionType
<1>2. CASE ReadTotal
  BY <1>2, UnspentType DEF ReadTotal, SessionType
<1>3. CASE ReadUnlocked
  BY <1>3, UnspentType DEF ReadUnlocked, SessionType
<1>4. CASE ReadScanned
  BY <1>4, UnspentType DEF ReadScanned, SessionType
<1>5. CASE AskOuts
  BY <1>0, <1>5 DEF AskOuts, SessionType
<1>6. CASE ReadOuts
  BY <1>6, UnspentType DEF ReadOuts, SessionType
<1>7. CASE EndSession
  BY <1>7 DEF EndSession, NoBalance, NoListing, SessionType
<1>8. CASE UNCHANGED sessionVars
  BY <1>8 DEF sessionVars, SessionType
<1>9. CASE quiet' = FALSE /\ UNCHANGED <<stage, balance, listing>>
  BY <1>9 DEF SessionType
<1>10. Session => SessionType'
  BY <1>1, <1>2, <1>3, <1>4, <1>5, <1>6, <1>7 DEF Session
<1> QED BY <1>8, <1>9, <1>10, QuietStep

LEMMA SessionTypeInit == BalanceInit => SessionType
<1>1. NoBalance \in [account : Account \cup {Nobody}, tip : Nat, total : SUBSET Commit,
                     unlocked : SUBSET Commit, scanned : Nat]
  BY DEF NoBalance
<1>2. NoListing \in [tip : Nat, outs : SUBSET Commit, spendable : SUBSET Commit]
  BY DEF NoListing
<1>3. NoBalance.unlocked = {} /\ NoListing.spendable = {}
  BY DEF NoBalance, NoListing
<1> QED BY <1>1, <1>2, <1>3 DEF BalanceInit, SessionType
-----------------------------------------------------------------------------
(* Chains of which one extends the other.                                  *)

LEMMA CreatedAlong ==
  ASSUME NEW b \in Chain, NEW c \in Chain, Extends(c, b)
  PROVE  /\ Created[b] \subseteq Created[c]
         /\ \A o \in Created[c] : o.height <= Tip[b] => o \in Created[b]
         /\ Tip[b] <= Tip[c]
<1>1. /\ Tip[b] \in Nat /\ Contains(b, Tip[b], Header[b][Tip[b]].hash)
      /\ Contains(c, Tip[b], Header[b][Tip[b]].hash)
  BY TipOfType, OwnTip DEF Extends
<1>2. \A o \in Created[b] : o.height <= Tip[b]
  BY CreatedHeight
<1> QED BY <1>1, <1>2, SharedBlock DEF Contains

(* What is alive further up was alive as soon as it was created. *)
LEMMA LiveBefore ==
  ASSUME SpendsAreFinal, CommitsAreUnique, NEW b \in Chain, NEW c \in Chain,
         Extends(c, b), NEW o \in Utxo[c], o \in Created[b]
  PROVE  o \in Utxo[b]
<1>1. PICK q \in Utxo[b] : q.commit = o.commit
  BY DEF SpendsAreFinal
<1>2. q \in Created[b]
  BY PageType
<1> QED BY <1>1, <1>2 DEF CommitsAreUnique

LEMMA ExtendsBetween ==
  ASSUME NEW b \in Chain, NEW c \in Chain, NEW d \in Chain,
         Extends(c, b), Extends(c, d), Tip[d] <= Tip[b]
  PROVE  Extends(b, d)
<1>1. /\ Tip[b] \in Nat /\ Tip[d] \in 0 .. Tip[b]
      /\ Contains(b, Tip[b], Header[b][Tip[b]].hash)
      /\ Contains(c, Tip[b], Header[b][Tip[b]].hash)
  BY TipOfType, OwnTip DEF Extends
<1>2. Header[b][Tip[d]] = Header[c][Tip[d]]
  BY <1>1, SharedBlock
<1> QED BY <1>1, <1>2 DEF Extends, Contains
-----------------------------------------------------------------------------
(* The quiet lasts: the checkpoint stays on the chain, which only grows.   *)
LEMMA StaysOnChain ==
  ASSUME HistoryInv, OnChain, Calm
  PROVE  OnChain' /\ head' \in Chain /\ Extends(head', head)
<1>0. head \in Chain /\ TypeInv /\ cursor.height \in Nat
  BY DEF HistoryInv, CourseInv, TypeInv, TypeOK, Checkpoint
<1>1. CASE UNCHANGED <<head, cursor>>
  BY <1>0, <1>1, OwnTip DEF OnChain
<1>2. CASE SetCursor
  <2>1. /\ UNCHANGED head /\ cursor'.height = Tip[head]
        /\ cursor'.hash = Header[head][Tip[head]].hash
    BY <1>2 DEF SetCursor, set_cursor, HistoryInv, CourseInv, CourseOK, TipOf
  <2> QED BY <1>0, <2>1, OwnTip DEF OnChain
<1>3. ASSUME NEW c \in Chain, Extends(c, head), MoveHead(c)
      PROVE  OnChain' /\ head' \in Chain /\ Extends(head', head)
  BY <1>0, <1>3, ExtendsContains DEF MoveHead, NewHead, storeVars, OnChain
<1>4. CASE ReorgReset
  BY <1>4 DEF ReorgReset, HistoryInv, CourseInv, CourseOK, OnCourse
<1>5. CASE Scan
  <2>1. SetCursor \/ ReorgReset \/ UNCHANGED <<head, cursor>>
    BY <1>5 DEF Scan, TickStart, ProbeCheckpoint, ListAccounts, ForwardPage, ForwardStore,
       StoreMatch, insert_output, ReadUnspent, CheckChunk, MarkSpent, mark_spent,
       AdvanceAccount, set_account_scan_height, FinishTick, BackfillSeek, BackfillPage,
       BackfillStore, BackfillDone, ReorgRollback, rollback_to, ReorgClamp,
       clamp_account_scan_heights, ReorgSeek, GiveUp, storeVars
  <2> QED BY <1>1, <1>2, <1>4, <2>1
<1> QED BY <1>1, <1>3, <1>5 DEF Calm, Undisturbing, Abort, Register, register_account, vars,
        storeVars
-----------------------------------------------------------------------------
(* Maturity.                                                               *)

(* Each of these commitments is on the node's chain, and by then mature.   *)
Mature(S, height) ==
  \A k \in S : \E o \in Created[head] :
    o.commit = k /\ LockHeight(k, o.height) <= height

MatureOK ==
  quiet => /\ OnChain
           /\ Mature(balance.unlocked, balance.tip)
           /\ Mature(listing.spendable, listing.tip)

MatureInv == HistoryInv /\ SessionType /\ MatureOK

(* A row's lock height is that of the output on the node's chain. *)
LEMMA UnlockedMature ==
  ASSUME HistoryInv, OnChain, NEW a, NEW h \in Nat
  PROVE  Mature(account_unlocked(a, h), h)
<1> SUFFICES ASSUME NEW k \in account_unlocked(a, h)
             PROVE  \E o \in Created[head] : o.commit = k /\ LockHeight(k, o.height) <= h
  BY DEF Mature
<1> DEFINE o == [commit |-> k, height |-> outputs[k].height, idx |-> outputs[k].idx]
<1>1. k \in DOMAIN outputs /\ LockHeight(k, o.height) <= h
  BY DEF account_unlocked, unspent_outputs, all_unspent_commits
<1>2. o \in Created[head]
  BY <1>1 DEF HistoryInv, HistoryOK, RowsOn, RowOn
<1> QED BY <1>1, <1>2

LEMMA MatureNext ==
  ASSUME {"QuietTicks", "SteadyRetries", "RepairableReorgs"} \subseteq Assumed,
         MatureInv, [BalanceNext]_<<vars, sessionVars>>
  PROVE  MatureInv'
<1>0. HistoryInv' /\ SessionType' /\ TypeInv
  BY BalanceStep, HistoryNext, SessionTypeNext DEF MatureInv, HistoryInv, CourseInv
<1> SUFFICES ASSUME quiet' PROVE MatureOK'
  BY <1>0 DEF MatureInv, MatureOK
<1> USE DEF MatureInv
<1>1. ASSUME UNCHANGED vars
      PROVE  /\ UNCHANGED head /\ OnChain' = OnChain
             /\ \A S, h : Mature(S, h)' = Mature(S, h)
  BY <1>1 DEF vars, storeVars, OnChain, Mature
<1>2. ASSUME NEW a \in Account, AskBalance(a) PROVE MatureOK'
  <2>1. /\ OnChain /\ balance'.unlocked = {} /\ listing'.spendable = {}
        /\ UNCHANGED vars
    BY <1>2 DEF AskBalance, NoBalance, SessionType
  <2> QED BY <1>1, <2>1 DEF MatureOK, Mature
<1>3. CASE ReadTotal \/ ReadScanned
  <2>1. /\ UNCHANGED vars /\ quiet /\ UNCHANGED listing
        /\ balance'.unlocked = balance.unlocked /\ balance'.tip = balance.tip
    BY <1>3 DEF ReadTotal, ReadScanned, SessionType
  <2> QED BY <1>1, <2>1 DEF MatureOK, Mature
<1>4. CASE ReadUnlocked
  <2>1. /\ UNCHANGED vars /\ quiet /\ UNCHANGED listing
        /\ balance'.unlocked = account_unlocked(balance.account, balance.tip)
        /\ balance'.tip = balance.tip /\ balance.tip \in Nat
    BY <1>4 DEF ReadUnlocked, SessionType
  <2>2. Mature(account_unlocked(balance.account, balance.tip), balance.tip)
    BY <2>1, UnlockedMature DEF MatureOK
  <2> QED BY <1>1, <2>1, <2>2 DEF MatureOK, Mature
<1>5. CASE AskOuts
  <2>1. /\ UNCHANGED vars /\ quiet /\ UNCHANGED balance /\ listing'.spendable = {}
    BY <1>5 DEF AskOuts, SessionType
  <2> QED BY <1>1, <2>1 DEF MatureOK, Mature
<1>6. CASE ReadOuts
  <2>1. /\ UNCHANGED vars /\ quiet /\ UNCHANGED balance
        /\ listing'.spendable = account_unlocked(balance.account, listing.tip)
        /\ listing'.tip = listing.tip /\ listing.tip \in Nat
    BY <1>6 DEF ReadOuts, SessionType
  <2>2. Mature(account_unlocked(balance.account, listing.tip), listing.tip)
    BY <2>1, UnlockedMature DEF MatureOK
  <2> QED BY <1>1, <2>1, <2>2 DEF MatureOK, Mature
<1>7. CASE EndSession
  BY <1>7 DEF EndSession
<1>8. CASE Calm /\ UNCHANGED sessionVars
  <2>1. quiet /\ OnChain /\ UNCHANGED <<balance, listing>> /\ head \in Chain
    BY <1>0, <1>8 DEF sessionVars, MatureOK, TypeInv, TypeOK
  <2>2. OnChain' /\ Created[head] \subseteq Created[head']
    BY <1>8, <2>1, StaysOnChain, CreatedAlong
  <2> QED BY <2>1, <2>2 DEF MatureOK, Mature
<1> QED BY <1>2, <1>3, <1>4, <1>5, <1>6, <1>7, <1>8, QuietStep DEF Session

(* No balance and no listing of a quiet session overstates what can be     *)
(* spent at the tip it names: rows carry the lock height of the block on   *)
(* the current chain, whatever was reorganised before the session.         *)
THEOREM SpendableMature ==
  ASSUME {"QuietTicks", "SteadyRetries", "RepairableReorgs"} \subseteq Assumed,
         CommitsAreUnique
  PROVE  BalanceSpec => []SpendableIsMature
<1>1. MatureInv => SpendableIsMature
  <2> SUFFICES ASSUME MatureInv, quiet, NEW o \in Created[head]
               PROVE  LET unlockedAt == LockHeight(o.commit, o.height)
                      IN  /\ o.commit \in balance.unlocked => unlockedAt <= balance.tip
                          /\ o.commit \in listing.spendable => unlockedAt <= listing.tip
    BY DEF SpendableIsMature
  <2>1. head \in Chain
    BY DEF MatureInv, HistoryInv, CourseInv, TypeInv, TypeOK
  <2>2. \A p \in Created[head] : p.commit = o.commit => p = o
    BY <2>1 DEF CommitsAreUnique
  <2> QED BY <2>2 DEF MatureInv, MatureOK, Mature
<1>2. MatureInv /\ [BalanceNext]_<<vars, sessionVars>> => MatureInv'
  BY MatureNext
<1>3. BalanceInit => MatureInv
  BY HistoryInit, SessionTypeInit DEF BalanceInit, MatureInv, MatureOK
<1> QED BY <1>1, <1>2, <1>3, PTL DEF BalanceSpec
-----------------------------------------------------------------------------
(* Completeness.                                                           *)

Claims(height) == /\ balance.account \in DOMAIN accounts
                  /\ accounts[balance.account].scan >= height

(* Alive on every chain that ended at the tip the client was shown.        *)
AliveThen(o) ==
  \A d \in Chain : (Tip[d] = balance.tip /\ Extends(head, d)) => o \in Utxo[d]

(* A scan height that reaches the session's tip has the outputs below it   *)
(* behind it, and a checkpoint that reaches it has swept the spent ones;   *)
(* both stay so while the scanner goes on.  The client may read either     *)
(* long after the scan height.                                             *)
SessionOK ==
  quiet =>
    /\ OnChain
    /\ balance.tip <= Tip[head]
    /\ Claims(balance.tip) =>
         \A o \in Utxo[head] :
           Own(o, balance.account) /\ o.height <= balance.tip => Stored(o)
    /\ (stage \in {"balance", "outs", "listed"} /\ Synced /\ balance.tip > 0) =>
         Claims(balance.tip)
    /\ cursor.height >= balance.tip =>
         \A o \in Created[head] :
           (o.commit \in all_unspent_commits /\ o.height <= balance.tip) => AliveThen(o)
    /\ SyncedListingIsExact

SessionInv == DiscoveryInv /\ SweepOK /\ TipIndexOK /\ SessionType /\ SessionOK

-----------------------------------------------------------------------------
(* What an undisturbed step does: rows stay, an account moves only to the  *)
(* tip, with all that it owns stored; what counts as unspent from now on   *)
(* counted before or is alive; and the cursor moves only once all of it    *)
(* is.                                                                     *)
Goes(a) == \/ accounts'[a].scan = accounts[a].scan
           \/ accounts'[a].scan = Tip[head] /\ AllStored({a})

Goings ==
  /\ DOMAIN outputs \subseteq DOMAIN outputs'
  /\ DOMAIN accounts \subseteq DOMAIN accounts'
  /\ \A a \in DOMAIN accounts : accounts'[a].start = accounts[a].start /\ Goes(a)
  /\ \A a \in DOMAIN accounts' \ DOMAIN accounts : accounts'[a].scan = accounts'[a].start
  /\ \A k \in all_unspent_commits' : k \in all_unspent_commits \/ Listed(k)
  /\ \/ cursor'.height = cursor.height
     \/ \A k \in all_unspent_commits : Listed(k)

LEMMA SameGoings == UNCHANGED storeVars => Goings
BY DEF Goings, Goes, storeVars, all_unspent_commits

LEMMA AdvanceGoings ==
  ASSUME BaseInv, NEW b \in DOMAIN accounts, AllStored({b}),
         set_account_scan_height(b, Tip[head])
  PROVE  Goings
<1>1. /\ UNCHANGED <<outputs, cursor>> /\ DOMAIN accounts' = DOMAIN accounts
      /\ accounts'[b] = [accounts[b] EXCEPT !.scan = Tip[head]]
      /\ \A a \in DOMAIN accounts : a # b => accounts'[a] = accounts[a]
  BY DEF set_account_scan_height
<1>2. accounts[b] \in AccountRow
  BY BaseTypes DEF TypeInv, TypeOK
<1>3. accounts'[b].start = accounts[b].start /\ accounts'[b].scan = Tip[head]
  BY <1>1, <1>2 DEF AccountRow
<1>4. all_unspent_commits' = all_unspent_commits
  BY <1>1 DEF all_unspent_commits
<1> QED BY <1>1, <1>3, <1>4 DEF Goings, Goes

LEMMA StoreGoings ==
  ASSUME SweepOK, StoreMatch PROVE Goings
<1>1. PICK o \in batch : insert_output(o, Owner[o.commit])
  BY DEF StoreMatch
<1>2. Listed(o.commit)
  BY DEF SweepOK, Listed
<1>3. /\ DOMAIN outputs \subseteq DOMAIN outputs' /\ UNCHANGED <<accounts, cursor>>
      /\ all_unspent_commits' \subseteq all_unspent_commits \cup {o.commit}
  BY <1>1 DEF insert_output, all_unspent_commits
<1> QED BY <1>2, <1>3 DEF Goings, Goes

LEMMA MarkGoings == ASSUME TypeInv, MarkSpent PROVE Goings
<1>1. PICK k \in absent : mark_spent(k, tip.height)
  BY DEF MarkSpent
<1>2. tip.height \in Nat /\ \A j \in DOMAIN outputs : outputs[j] \in Row
  BY DEF TypeInv, TypeOK
<1>3. /\ DOMAIN outputs' = DOMAIN outputs /\ UNCHANGED <<accounts, cursor>>
      /\ all_unspent_commits' \subseteq all_unspent_commits
  BY <1>1, <1>2 DEF mark_spent, all_unspent_commits, Row, Unspent
<1> QED BY <1>3 DEF Goings, Goes

LEMMA CalmGoings ==
  ASSUME DiscoveryInv, SweepOK, OnChain, Calm
  PROVE  Goings
<1>0. /\ BaseInv /\ PagesOK /\ TypeInv
      /\ pc # "sleep" => tip.height = Tip[head]
      /\ pc \notin {"rollback", "clamp", "seek", "reset"}
      /\ caughtUp \subseteq DOMAIN accounts /\ behind \subseteq DOMAIN accounts
  BY BaseTypes
     DEF DiscoveryInv, BaseInv, HistoryInv, CourseInv, CourseOK, OnCourse, TipOf
<1>1. CASE AdvanceAccount
  <2>1. PICK b \in caughtUp : set_account_scan_height(b, Tip[head])
    BY <1>0, <1>1 DEF AdvanceAccount
  <2>2. AllStored({b})
    BY <1>0, <1>1 DEF AdvanceAccount, PagesOK, AllStored
  <2> QED BY <1>0, <2>1, <2>2, AdvanceGoings
<1>2. CASE BackfillDone
  <2>1. PICK b \in behind : set_account_scan_height(b, Tip[head])
    BY <1>0, <1>2 DEF BackfillDone
  <2>2. AllStored(behind)
    BY <1>0, <1>2, AllBelow DEF BackfillDone, PagesOK
  <2>3. AllStored({b})
    BY <2>2 DEF AllStored
  <2> QED BY <1>0, <2>1, <2>3, AdvanceGoings
<1>3. CASE ForwardStore \/ BackfillStore
  BY <1>3, StoreGoings DEF ForwardStore, BackfillStore
<1>4. CASE MarkSpent
  BY <1>0, <1>4, MarkGoings
<1>5. CASE SetCursor
  <2>1. \A k \in all_unspent_commits : Listed(k)
    BY <1>5 DEF SetCursor, SweepOK
  <2>2. UNCHANGED <<accounts, outputs>>
    BY <1>5 DEF SetCursor, set_cursor
  <2>3. all_unspent_commits' = all_unspent_commits
    BY <2>2 DEF all_unspent_commits
  <2> QED BY <2>1, <2>2, <2>3 DEF Goings, Goes
<1>6. ASSUME NEW a \in Account, NEW h \in ClientHeight, Register(a, h)
      PROVE  Goings
  BY <1>6 DEF Register, register_account, Goings, Goes, all_unspent_commits
<1>7. Scan => \/ AdvanceAccount \/ BackfillDone \/ ForwardStore \/ BackfillStore
              \/ MarkSpent \/ SetCursor \/ UNCHANGED storeVars
  BY <1>0 DEF Scan, TickStart, ProbeCheckpoint, ListAccounts, ForwardPage, ReadUnspent,
     CheckChunk, FinishTick, BackfillSeek, BackfillPage, ReorgRollback, ReorgClamp,
     ReorgSeek, ReorgReset, GiveUp
<1>8. Abort \/ (\E c \in Chain : MoveHead(c)) \/ UNCHANGED vars => UNCHANGED storeVars
  BY DEF Abort, MoveHead, vars
<1> QED BY <1>1, <1>2, <1>3, <1>4, <1>5, <1>6, <1>7, <1>8, SameGoings
        DEF Calm, Undisturbing
-----------------------------------------------------------------------------
LEMMA SessionFacts ==
  ASSUME SessionInv
  PROVE  /\ BaseInv /\ head \in Chain /\ Tip[head] \in Nat
         /\ balance.tip \in Nat /\ balance.scanned \in Nat
         /\ cursor.height \in Nat
         /\ \A a \in DOMAIN accounts : /\ accounts[a].start \in Nat
                                       /\ accounts[a].scan \in Nat
                                       /\ \/ accounts[a].scan <= cursor.height
                                          \/ accounts[a].scan <= accounts[a].start
         /\ \A o \in Created[head] : o.height \in Nat /\ 1 <= o.height
         /\ Utxo[head] \subseteq Created[head]
<1>1. BaseInv /\ SessionType
  BY DEF SessionInv, DiscoveryInv
<1>2. \A a \in DOMAIN accounts : \/ accounts[a].scan <= cursor.height
                                 \/ accounts[a].scan <= accounts[a].start
  BY <1>1 DEF BaseInv, ProgressInv, Within
<1> QED BY <1>1, <1>2, BaseTypes, CreatedHeight, PageType DEF SessionType

LEMMA AliveNow ==
  ASSUME SpendsAreFinal, CommitsAreUnique, head \in Chain,
         NEW o \in Utxo[head], o.height <= balance.tip
  PROVE  AliveThen(o)
<1> SUFFICES ASSUME NEW d \in Chain, Tip[d] = balance.tip, Extends(head, d)
             PROVE  o \in Utxo[d]
  BY DEF AliveThen
<1>1. o \in Created[d]
  BY CreatedAlong, PageType
<1> QED BY <1>1, LiveBefore

(* The session begins, at the tip. *)
LEMMA SessionAsk ==
  ASSUME SpendsAreFinal, CommitsAreUnique, SessionInv, NEW a \in Account, AskBalance(a)
  PROVE  SessionOK'
<1> SUFFICES ASSUME quiet' PROVE SessionOK'
  BY DEF SessionOK
<1>1. /\ OnChain /\ UNCHANGED vars /\ stage' = "total"
      /\ balance'.account = a /\ balance'.tip = Tip[head]
  BY DEF AskBalance, NoBalance
<1>2. UNCHANGED <<head, accounts, outputs, cursor>>
  BY <1>1 DEF vars, storeVars
<1>3. OnChain' /\ all_unspent_commits' = all_unspent_commits
  BY <1>1, <1>2 DEF OnChain, all_unspent_commits
<1>4. cursor.height <= Tip[head] /\ head \in Kept
  BY <1>1, SessionFacts DEF OnChain, Kept, Contains
<1>5. ASSUME cursor.height >= Tip[head] PROVE AtTip
  BY <1>1, <1>4, <1>5, SessionFacts DEF AtTip, TipOf, OnChain, Contains
<1>6. ASSUME a \in DOMAIN accounts, accounts[a].scan >= Tip[head],
             NEW o \in Utxo[head], Own(o, a), o.height <= Tip[head]
      PROVE  Stored(o)
  <2>1. accounts[a].start < o.height /\ o \in Created[head] /\ 1 <= o.height
        /\ o.height \in Nat
    BY <1>6, SessionFacts DEF Own
  <2>2. accounts[a].scan = cursor.height /\ cursor.height >= Tip[head] /\ Tip[head] # 0
    BY <1>4, <1>6, <2>1, SessionFacts
  <2>3. cursor.index = HighestIndex(head)
    BY <1>5, <2>2 DEF SessionInv, TipIndexOK
  <2>4. OnKept(o) /\ Due(o, a)
    BY <1>4, <2>1, <2>2, <2>3, SessionFacts, AllListed DEF OnKept, Due
  <2>5. ~ Cut(o)
    BY <1>1 DEF Cut, SessionInv, DiscoveryInv, BaseInv, HistoryInv, CourseInv, CourseOK,
       OnCourse
  <2> QED BY <1>6, <2>4, <2>5 DEF SessionInv, DiscoveryInv, OwedOK
<1>7. ASSUME cursor.height >= Tip[head], NEW o \in Created[head],
             o.commit \in all_unspent_commits, o.height <= Tip[head]
      PROVE  \A d \in Chain : (Tip[d] = Tip[head] /\ Extends(head, d)) => o \in Utxo[d]
  <2>1. PICK u \in Utxo[head] : u.commit = o.commit
    BY <1>5, <1>7 DEF SessionInv, SweepOK, Listed
  <2>2. o \in Utxo[head]
    BY <1>7, <2>1, SessionFacts DEF CommitsAreUnique
  <2>3. ASSUME NEW d \in Chain, Tip[d] = Tip[head], Extends(head, d)
        PROVE  o \in Utxo[d]
    <3>1. o \in Created[d]
      BY <1>7, <2>3, SessionFacts, CreatedAlong
    <3> QED BY <2>2, <2>3, <3>1, SessionFacts, LiveBefore
  <2> QED BY <2>3
<1>8. Claims(balance.tip)' =>
        \A o \in Utxo[head]' :
          (Own(o, balance.account) /\ o.height <= balance.tip => Stored(o))'
  BY <1>1, <1>2, <1>6 DEF Claims, Own, Stored
<1>9. (cursor.height >= balance.tip)' =>
        \A o \in Created[head]' :
          (o.commit \in all_unspent_commits /\ o.height <= balance.tip)' => AliveThen(o)'
  BY <1>1, <1>2, <1>3, <1>7 DEF AliveThen
<1>10. (balance.tip <= Tip[head])'
  BY <1>1, <1>2, SessionFacts
<1>11. SyncedListingIsExact'
  BY <1>1 DEF SyncedListingIsExact
<1> QED BY <1>1, <1>3, <1>8, <1>9, <1>10, <1>11 DEF SessionOK

(* A live output of the account is in the listing, and what is in the      *)
(* listing was alive at the tip the client was shown.                      *)
LEMMA ListingExact ==
  ASSUME SpendsAreFinal, SessionInv, quiet, stage = "outs", Synced,
         NEW o \in Covered
  PROVE  /\ o \in Utxo[head] => o.commit \in unspent_outputs(balance.account)
         /\ o.commit \in unspent_outputs(balance.account) => AliveThen(o)
<1>1. /\ o \in Created[head] /\ Owner[o.commit] = balance.account
      /\ balance.account \in DOMAIN accounts
      /\ accounts[balance.account].start < o.height /\ o.height <= balance.tip
      /\ o.height \in Nat /\ 1 <= o.height
  BY SessionFacts DEF Covered
<1>2. Claims(balance.tip)
  BY <1>1, SessionFacts DEF SessionInv, SessionOK
<1>3. cursor.height >= balance.tip
  BY <1>1, <1>2, SessionFacts DEF Claims
<1>4. ASSUME o \in Utxo[head] PROVE o.commit \in unspent_outputs(balance.account)
  <2>1. o.commit \in DOMAIN outputs
    BY <1>1, <1>2, <1>4 DEF SessionInv, SessionOK, Own, Stored
  <2>2. outputs[o.commit].account = balance.account
    BY <1>1, <2>1 DEF SessionInv, DiscoveryInv, BaseInv, CustodyInv, Custody
  <2>3. outputs[o.commit].spent = Unspent
    <3> SUFFICES ASSUME outputs[o.commit].spent # Unspent PROVE FALSE
      OBVIOUS
    <3> DEFINE spent == outputs[o.commit].spent
    <3>1. Gone(o.commit, head, spent)
      BY <2>1 DEF SessionInv, SessionOK, DiscoveryInv, BaseInv, HistoryInv, HistoryOK,
         RowsOn, RowOn
    <3>2. Contains(head, spent, Header[head][spent].hash)
      BY <3>1, SessionFacts DEF Gone, Contains
    <3> QED BY <1>4, <3>1, <3>2, SessionFacts DEF Gone
  <2> QED BY <2>1, <2>2, <2>3 DEF unspent_outputs, all_unspent_commits
<1>5. ASSUME o.commit \in unspent_outputs(balance.account) PROVE AliveThen(o)
  BY <1>1, <1>3, <1>5 DEF unspent_outputs, SessionInv, SessionOK
<1> QED BY <1>4, <1>5

(* The client reads on. *)
LEMMA SessionReads ==
  ASSUME SpendsAreFinal, SessionInv, UNCHANGED vars, UNCHANGED quiet,
         balance'.account = balance.account, balance'.tip = balance.tip,
         \/ stage' \in {"unlocked", "scanned"}
         \/ stage' = "balance" /\ balance'.scanned = account_scan_height(balance.account)
         \/ stage = "balance" /\ stage' = "outs" /\ UNCHANGED balance
         \/ /\ stage = "outs" /\ stage' = "listed" /\ UNCHANGED balance
            /\ listing'.outs = unspent_outputs(balance.account)
  PROVE  SessionOK'
<1> SUFFICES ASSUME quiet PROVE SessionOK'
  BY DEF SessionOK
<1>1. UNCHANGED <<head, accounts, outputs, cursor>>
  BY DEF vars, storeVars
<1>2. /\ OnChain' = OnChain /\ all_unspent_commits' = all_unspent_commits
      /\ Claims(balance.tip)' <=> Claims(balance.tip)
      /\ \A o : Own(o, balance.account)' <=> Own(o, balance.account)
      /\ \A o : Stored(o)' <=> Stored(o)
      /\ \A o : AliveThen(o)' <=> AliveThen(o)
      /\ Covered' = Covered
  BY <1>1 DEF OnChain, all_unspent_commits, Claims, Own, Stored, AliveThen, Covered
<1>3. (stage' \in {"balance", "outs", "listed"} /\ Synced' /\ balance.tip > 0) =>
        Claims(balance.tip)
  <2>1. CASE stage' = "balance" /\ balance'.scanned = account_scan_height(balance.account)
    BY <2>1, SessionFacts DEF Synced, account_scan_height, Claims
  <2>2. CASE stage \in {"balance", "outs"} /\ UNCHANGED balance
    BY <2>2 DEF SessionInv, SessionOK, Synced
  <2>3. CASE stage' \in {"unlocked", "scanned"}
    BY <2>3
  <2> QED BY <2>1, <2>2, <2>3
<1>4. SyncedListingIsExact'
  <2> SUFFICES ASSUME stage' = "listed", Synced', NEW o \in Covered
               PROVE  /\ o \in Utxo[head] => o.commit \in listing'.outs
                      /\ o.commit \in listing'.outs => AliveThen(o)
    BY <1>1, <1>2 DEF SyncedListingIsExact, AliveThen
  <2>1. stage = "outs" /\ UNCHANGED balance /\ listing'.outs = unspent_outputs(balance.account)
    OBVIOUS
  <2>2. Synced
    BY <2>1 DEF Synced
  <2> QED BY <2>1, <2>2, ListingExact
<1> QED BY <1>1, <1>2, <1>3, <1>4 DEF SessionInv, SessionOK

(* The others go on, undisturbing. *)
LEMMA SessionCalm ==
  ASSUME SpendsAreFinal, CommitsAreUnique, SessionInv, Calm, UNCHANGED sessionVars
  PROVE  SessionOK'
<1> SUFFICES ASSUME quiet PROVE SessionOK'
  BY DEF SessionOK, sessionVars
<1> DEFINE a == balance.account
           T == balance.tip
<1>1. /\ OnChain /\ OnChain' /\ head' \in Chain /\ Extends(head', head)
      /\ Goings /\ UNCHANGED <<stage, balance, listing>>
      /\ T <= Tip[head]
  BY StaysOnChain, CalmGoings
     DEF SessionInv, SessionOK, DiscoveryInv, BaseInv, sessionVars
<1>2. /\ Created[head] \subseteq Created[head'] /\ Tip[head] <= Tip[head']
      /\ Tip[head'] \in Nat
      /\ \A o \in Created[head'] : o.height <= T => o \in Created[head]
      /\ \A o \in Utxo[head'] : o.height <= T => o \in Utxo[head]
      /\ \A o \in Created[head'] : o.height \in Nat /\ 1 <= o.height
  <2>1. /\ Created[head] \subseteq Created[head'] /\ Tip[head] <= Tip[head']
        /\ \A o \in Created[head'] : o.height <= Tip[head] => o \in Created[head]
    BY <1>1, SessionFacts, CreatedAlong
  <2>2. /\ \A o \in Created[head'] : o.height \in Nat /\ 1 <= o.height
        /\ Tip[head'] \in Nat /\ Utxo[head'] \subseteq Created[head']
    BY <1>1, CreatedHeight, TipOfType, PageType
  <2>3. \A o \in Created[head'] : o.height <= T => o \in Created[head]
    BY <1>1, <2>1, <2>2, SessionFacts
  <2>4. \A o \in Utxo[head'] : o.height <= T => o \in Utxo[head]
    BY <1>1, <2>2, <2>3, SessionFacts, LiveBefore
  <2> QED BY <2>1, <2>2, <2>3, <2>4
<1>3. \A o : AliveThen(o) => AliveThen(o)'
  BY <1>1, SessionFacts, ExtendsBetween DEF AliveThen
<1>4. (balance.tip <= Tip[head])'
  BY <1>1, <1>2, SessionFacts
<1>5. a \in DOMAIN accounts => /\ a \in DOMAIN accounts'
                               /\ accounts'[a].start = accounts[a].start
                               /\ Claims(T) => Claims(T)'
  BY <1>1, SessionFacts DEF Goings, Goes, Claims
<1>6. ASSUME Claims(T)', NEW o \in Utxo[head'], Own(o, a)', o.height <= T
      PROVE  Stored(o)'
  <2>1. o \in Utxo[head] /\ o.height \in Nat
    BY <1>1, <1>2, <1>6, PageType
  <2>2. a \in DOMAIN accounts
    <3>1. [Next]_vars /\ TypeInv
      BY SessionFacts DEF Calm, Undisturbing, Next, Client, BaseInv, CustodyInv
    <3>2. \A b \in DOMAIN accounts' : accounts'[b].start \in Nat
      BY <3>1, TypeNext DEF TypeInv, TypeOK, AccountRow
    <3> QED BY <1>1, <1>6, <2>1, <3>2, SessionFacts DEF Claims, Own, Goings
  <2>3. Own(o, a)
    BY <1>1, <1>5, <1>6, <2>1, <2>2 DEF Own
  <2>4. Stored(o)
    <3>1. CASE accounts'[a].scan = accounts[a].scan
      BY <1>1, <1>6, <2>1, <2>2, <2>3, <3>1 DEF Claims, SessionInv, SessionOK
    <3>2. CASE AllStored({a})
      BY <2>1, <2>3, <3>2 DEF AllStored
    <3> QED BY <1>1, <2>2, <3>1, <3>2 DEF Goings, Goes
  <2> QED BY <1>1, <2>4 DEF Stored, Goings
<1>7. ASSUME stage \in {"balance", "outs", "listed"}, Synced, T > 0
      PROVE  Claims(T) /\ Claims(T)'
  BY <1>5, <1>7 DEF SessionInv, SessionOK, Claims
<1>8. ASSUME cursor'.height >= T, NEW o \in Created[head'],
             o.commit \in all_unspent_commits', o.height <= T
      PROVE  AliveThen(o)'
  <2>1. o \in Created[head]
    BY <1>2, <1>8
  <2>2. CASE Listed(o.commit)
    <3>1. o \in Utxo[head]
      BY <2>1, <2>2, SessionFacts DEF Listed, CommitsAreUnique
    <3> QED BY <1>3, <1>8, <3>1, SessionFacts, AliveNow
  <2>3. CASE ~ Listed(o.commit)
    <3>1. o.commit \in all_unspent_commits /\ cursor.height >= T
      BY <1>1, <1>8, <2>3 DEF Goings
    <3> QED BY <1>3, <1>8, <2>1, <3>1 DEF SessionInv, SessionOK
  <2> QED BY <2>2, <2>3
<1>9. SyncedListingIsExact'
  <2> SUFFICES ASSUME stage = "listed", Synced, NEW o \in Covered'
               PROVE  /\ o \in Utxo[head'] => o.commit \in listing.outs
                      /\ o.commit \in listing.outs => AliveThen(o)'
    BY <1>1 DEF SyncedListingIsExact, AliveThen, Synced
  <2>1. /\ o \in Created[head'] /\ Owner[o.commit] = a /\ o.height <= T
        /\ accounts'[a].start < o.height /\ 1 <= o.height /\ o.height \in Nat
    BY <1>1, <1>2 DEF Covered
  <2>2. Claims(T)
    BY <1>7, <2>1, SessionFacts
  <2>3. o \in Covered
    BY <1>2, <1>5, <2>1, <2>2 DEF Covered, Claims
  <2>4. /\ o \in Utxo[head] => o.commit \in listing.outs
        /\ o.commit \in listing.outs => AliveThen(o)
    BY <2>3 DEF SessionInv, SessionOK, SyncedListingIsExact, AliveThen
  <2> QED BY <1>2, <1>3, <2>1, <2>4
<1>10. /\ UNCHANGED <<a, T>> /\ Synced' = Synced /\ UNCHANGED stage
  BY <1>1 DEF Synced
<1> QED BY <1>1, <1>4, <1>6, <1>7, <1>8, <1>9, <1>10 DEF SessionOK

LEMMA SessionNext ==
  ASSUME AllAssumptions \subseteq Assumed, SpendsAreFinal, CommitsAreUnique, WorkGrows,
         SessionInv, [BalanceNext]_<<vars, sessionVars>>
  PROVE  SessionInv'
<1>1. [Next]_vars /\ DiscoveryInv /\ SweepInv /\ SessionType /\ "QuietTicks" \in Assumed
  BY BalanceStep, SweepToo DEF SessionInv, AllAssumptions
<1>2. DiscoveryInv' /\ SweepOK' /\ TipIndexOK' /\ SessionType'
  <2>1. DiscoveryInv'
    BY <1>1, DiscoveryNext
  <2>2. SweepInv'
    BY <1>1, SweepNext
  <2>3. TipIndexOK'
    BY <1>1, TipIndexNext DEF SessionInv
  <2>4. SessionType'
    BY <1>1, SessionTypeNext DEF SweepInv, CourseInv
  <2> QED BY <2>1, <2>2, <2>3, <2>4 DEF SweepInv
<1> SUFFICES SessionOK'
  BY <1>2 DEF SessionInv
<1>3. ASSUME NEW a \in Account, AskBalance(a) PROVE SessionOK'
  BY <1>3, SessionAsk
<1>4. CASE ReadTotal \/ ReadUnlocked \/ ReadScanned \/ AskOuts \/ ReadOuts
  BY <1>1, <1>4, SessionReads DEF ReadTotal, ReadUnlocked, ReadScanned, AskOuts, ReadOuts,
     SessionType
<1>5. CASE quiet' = FALSE
  BY <1>5 DEF SessionOK
<1>6. CASE Calm /\ UNCHANGED sessionVars
  BY <1>6, SessionCalm
<1>7. Session => SessionOK'
  BY <1>3, <1>4, <1>5 DEF Session, EndSession
<1> QED BY <1>5, <1>6, <1>7, QuietStep

LEMMA SessionInit == BalanceInit => SessionInv
<1> SUFFICES ASSUME BalanceInit PROVE SessionInv
  OBVIOUS
<1>1. Init /\ quiet = FALSE /\ SessionType
  BY SessionTypeInit DEF BalanceInit
<1>2. LedgerInv
  BY <1>1, LedgerInit
<1> QED BY <1>1, <1>2 DEF LedgerInv, SessionInv, SessionOK

(* A client that has seen its account synced, by the scan height it read,  *)
(* gets every live output up to the tip it was shown and none that was     *)
(* spent by then, however its reads interleave with the scanner, the       *)
(* node's new blocks and other registrations.                              *)
THEOREM SyncedListingExact ==
  ASSUME AllAssumptions \subseteq Assumed, SpendsAreFinal, CommitsAreUnique, WorkGrows
  PROVE  BalanceSpec => []SyncedListingIsExact
<1>1. SessionInv => SyncedListingIsExact
  BY DEF SessionInv, SessionOK, SyncedListingIsExact
<1>2. SessionInv /\ [BalanceNext]_<<vars, sessionVars>> => SessionInv'
  BY SessionNext
<1> QED BY <1>1, <1>2, SessionInit, PTL DEF BalanceSpec
=============================================================================
