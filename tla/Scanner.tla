------------------------------ MODULE Scanner -------------------------------
(***************************************************************************)
(* The background scanner (scanner.rs) over its database and its node,     *)
(* with the two API handlers that write (register, rescan).                *)
(*                                                                         *)
(* A step is one access to shared state: one JSON-RPC request or one       *)
(* database statement.  Between two steps the node may move to another     *)
(* chain, a client may register or rescan, and the tick may fail or the    *)
(* process die, which loses the tick's local variables and nothing else.   *)
(***************************************************************************)
EXTENDS GrinNode, Store

CONSTANTS
  ReorgDepth,    \* REORG_DEPTH
  ClientHeight,  \* the heights clients pass to register and rescan
  Assumed        \* the environment assumptions in force (see Environment)

ASSUME ScannerAssumption == /\ ReorgDepth \in Nat \ {0}
                            /\ ClientHeight \subseteq Nat
                            /\ NoHash \notin Hash

VARIABLES
  pc,         \* what the tick does next; "sleep" between ticks
  tip,        \* height and hash of the node's tip, read first thing
  caughtUp,   \* accounts the forward scan covers; then those to advance
  behind,     \* accounts left to backfill; then the one being backfilled
  next,       \* index the next page starts from
  highest,    \* highest index reached: the cursor's next index
  more,       \* another page is to be fetched
  batch,      \* recognised outputs of the current page, still to be stored
  unchecked,  \* stored unspent commitments not yet asked about
  absent,     \* those the node no longer lists, still to be marked
  retrying    \* history: a tick has failed and none has completed since

tickVars == <<tip, caughtUp, behind, next, highest, more, batch, unchecked, absent>>
vars == <<head, storeVars, pc, tickVars, retrying>>

NoTip == [height |-> 0, hash |-> NoHash]

ScannerInit ==
  /\ pc = "sleep" /\ tip = NoTip
  /\ caughtUp = {} /\ behind = {}
  /\ next = 0 /\ highest = 0 /\ more = FALSE /\ batch = {}
  /\ unchecked = {} /\ absent = {}
  /\ retrying = FALSE

Init == head \in Chain /\ StoreInit /\ ScannerInit

(* The tick returns: its locals are dropped and the loop goes to sleep.    *)
Sleep(failed) ==
  /\ pc' = "sleep" /\ tip' = NoTip
  /\ caughtUp' = {} /\ behind' = {}
  /\ next' = 0 /\ highest' = 0 /\ more' = FALSE /\ batch' = {}
  /\ unchecked' = {} /\ absent' = {}
  /\ retrying' = failed
-----------------------------------------------------------------------------
(* Phase 0: has the chain left the checkpoint?                             *)

TickStart ==
  /\ pc = "sleep"
  /\ tip' = TipOf(head)
  /\ \/ cursor.height = 0 /\ pc' = "list"
     \/ cursor.height > Tip[head] /\ pc' = "rollback"
     \/ cursor.height \in 1 .. Tip[head] /\ pc' = "probe"
  /\ UNCHANGED <<head, storeVars, caughtUp, behind, next, highest, more,
                 batch, unchecked, absent, retrying>>

(* A wrong variant: a lookup that fails counts as another hash. *)
ProbeHiccup ==
  /\ pc = "probe"
  /\ \/ pc' = "list" /\ Contains(head, cursor.height, cursor.hash)
     \/ pc' = "rollback"
  /\ UNCHANGED <<head, storeVars, tickVars, retrying>>

ProbeCheckpoint ==
  /\ pc = "probe"
  /\ cursor.height <= Tip[head]
  /\ pc' = IF Contains(head, cursor.height, cursor.hash) THEN "list" ELSE "rollback"
  /\ UNCHANGED <<head, storeVars, tickVars, retrying>>

(* Phase 1: page the outputs above the cursor, for the accounts that have  *)
(* reached the checkpoint.                                                 *)

ListAccounts ==
  /\ pc = "list"
  /\ caughtUp' = {a \in DOMAIN accounts : accounts[a].scan >= cursor.height}
  /\ behind' = {a \in DOMAIN accounts : accounts[a].scan < cursor.height}
  /\ next' = cursor.index + 1 /\ highest' = cursor.index /\ more' = TRUE
  /\ pc' = "forward"
  /\ UNCHANGED <<head, storeVars, tip, batch, unchecked, absent, retrying>>

(* A wrong variant: keeps outputs that no credential rewinds. *)
FetchUnmatched(end, last, watched) ==
  /\ batch = {} /\ more
  /\ batch' = Page(head, next, end)
  /\ next' = last + 1

(* A wrong variant: the next page begins with the last output of this one. *)
FetchLastAgain(end, last, watched) ==
  /\ batch = {} /\ more
  /\ batch' = {o \in Page(head, next, end) : Owner[o.commit] \in watched}
  /\ next' = last

(* One page, up to index last, rewound against the watched accounts.      *)
FetchPage(end, last, watched) ==
  /\ batch = {} /\ more
  /\ batch' = {o \in Page(head, next, end) : Owner[o.commit] \in watched}
  /\ next' = last + 1

(* A wrong variant: files the output under any account of the tick, as if  *)
(* the first one tried always matched.                                     *)
StoreUnderAnyone ==
  /\ \E o \in batch : /\ \A p \in batch : o.idx <= p.idx
                      /\ \E a \in caughtUp \cup behind : insert_output(o, a)
                      /\ batch' = batch \ {o}
  /\ UNCHANGED <<head, pc, tip, caughtUp, behind, next, highest, more,
                 unchecked, absent, retrying>>

(* store_first_match on the next recognised output of the page. *)
StoreMatch ==
  /\ \E o \in batch : /\ \A p \in batch : o.idx <= p.idx
                      /\ insert_output(o, Owner[o.commit])
                      /\ batch' = batch \ {o}
  /\ UNCHANGED <<head, pc, tip, caughtUp, behind, next, highest, more,
                 unchecked, absent, retrying>>

(* A wrong variant: one page to a tick. *)
ForwardOnePage ==
  /\ pc = "forward"
  /\ \E last \in LastRetrieved(head, next, HighestIndex(head)) :
       /\ FetchPage(HighestIndex(head), last, caughtUp)
       /\ highest' = last
  /\ more' = FALSE
  /\ UNCHANGED <<head, storeVars, pc, tip, caughtUp, behind, unchecked, absent,
                 retrying>>

ForwardPage ==
  /\ pc = "forward"
  /\ \E last \in LastRetrieved(head, next, HighestIndex(head)) :
       /\ FetchPage(HighestIndex(head), last, caughtUp)
       /\ more' = (next <= last /\ last < HighestIndex(head))
  /\ highest' = IF HighestIndex(head) > highest THEN HighestIndex(head) ELSE highest
  /\ UNCHANGED <<head, storeVars, pc, tip, caughtUp, behind, unchecked, absent,
                 retrying>>

ForwardStore == pc = "forward" /\ StoreMatch

(* Phase 2: mark spent what is stored unspent and no longer listed.        *)

ReadUnspent ==
  /\ pc = "forward" /\ batch = {} /\ ~ more
  /\ unchecked' = all_unspent_commits
  /\ pc' = "reconcile"
  /\ UNCHANGED <<head, storeVars, tip, caughtUp, behind, next, highest, more,
                 batch, absent, retrying>>

(* The next chunk: a full one, or all that is left.                        *)
IsChunk(S) == \/ Cardinality(S) = OutputsChunk
              \/ S = unchecked /\ Cardinality(S) < OutputsChunk

(* A wrong variant: asks about the first chunk and stops. *)
CheckFirstChunk ==
  /\ pc = "reconcile" /\ unchecked # {}
  /\ \E S \in SUBSET unchecked :
       /\ IsChunk(S)
       /\ absent' = S \ Present(head, S)
       /\ unchecked' = {}
  /\ UNCHANGED <<head, storeVars, pc, tip, caughtUp, behind, next, highest, more,
                 batch, retrying>>

CheckChunk ==
  /\ pc = "reconcile" /\ unchecked # {}
  /\ \E S \in SUBSET unchecked :
       /\ IsChunk(S)
       /\ absent' = absent \cup (S \ Present(head, S))
       /\ unchecked' = unchecked \ S
  /\ UNCHANGED <<head, storeVars, pc, tip, caughtUp, behind, next, highest, more,
                 batch, retrying>>

MarkSpent ==
  /\ pc = "reconcile" /\ unchecked = {}
  /\ \E k \in absent : mark_spent(k, tip.height) /\ absent' = absent \ {k}
  /\ UNCHANGED <<head, pc, tip, caughtUp, behind, next, highest, more, batch,
                 unchecked, retrying>>

(* Phase 3: move the checkpoint to the tip read at the start, and with it  *)
(* the accounts the forward scan covered.                                  *)

SetCursor ==
  /\ pc = "reconcile" /\ unchecked = {} /\ absent = {}
  /\ set_cursor(highest, tip.height, tip.hash)
  /\ pc' = "advance"
  /\ UNCHANGED <<head, tickVars, retrying>>

(* A wrong variant: the blanket UPDATE that scanner.rs:106-112 warns of. *)
AdvanceEveryone ==
  /\ pc = "advance" /\ caughtUp # {}
  /\ accounts' = [a \in DOMAIN accounts |->
                    IF a \in behind THEN accounts[a]
                    ELSE [accounts[a] EXCEPT !.scan = tip.height]]
  /\ caughtUp' = {}
  /\ UNCHANGED <<head, outputs, cursor, pc, tip, behind, next, highest, more,
                 batch, unchecked, absent, retrying>>

AdvanceAccount ==
  /\ pc = "advance"
  /\ \E a \in caughtUp : /\ set_account_scan_height(a, tip.height)
                         /\ caughtUp' = caughtUp \ {a}
  /\ UNCHANGED <<head, pc, tip, behind, next, highest, more, batch, unchecked,
                 absent, retrying>>

FinishTick ==
  /\ pc = "advance" /\ caughtUp = {} /\ behind = {}
  /\ Sleep(FALSE)
  /\ UNCHANGED <<head, storeVars>>

(* Phase 4: scan one account that was behind, birthday to cursor.          *)

BackfillSeek ==
  /\ pc = "advance" /\ caughtUp = {}
  /\ \E a \in behind : /\ KnowsStart(head, accounts[a].start)
                       /\ next' = StartIndex(head, accounts[a].start)
                       /\ behind' = {a}
  /\ more' = TRUE
  /\ pc' = "backfill"
  /\ UNCHANGED <<head, storeVars, tip, caughtUp, highest, batch, unchecked,
                 absent, retrying>>

BackfillPage ==
  /\ pc = "backfill"
  /\ \E last \in LastRetrieved(head, next, highest) :
       /\ FetchPage(highest, last, behind)
       /\ more' = (next <= last /\ (last < highest \/ HighestIndex(head) < highest))
  /\ UNCHANGED <<head, storeVars, pc, tip, caughtUp, behind, highest, unchecked,
                 absent, retrying>>

BackfillStore == pc = "backfill" /\ StoreMatch

(* A wrong variant: the account is scanned and stays behind. *)
BackfillForgets ==
  /\ pc = "backfill" /\ batch = {} /\ ~ more
  /\ Sleep(FALSE)
  /\ UNCHANGED <<head, storeVars>>

BackfillDone ==
  /\ pc = "backfill" /\ batch = {} /\ ~ more
  /\ \E a \in behind : set_account_scan_height(a, tip.height)
  /\ Sleep(FALSE)
  /\ UNCHANGED head
-----------------------------------------------------------------------------
(* handle_reorg: roll back to ReorgDepth below the tip and reseek there.   *)

Below(height) == IF height > ReorgDepth THEN height - ReorgDepth ELSE 0
Fork == Below(tip.height)

ReorgRollback ==
  /\ pc = "rollback"
  /\ rollback_to(Fork)
  /\ pc' = "clamp"
  /\ UNCHANGED <<head, tickVars, retrying>>

(* A wrong variant: the accounts keep their progress. *)
ReorgWithoutClamp ==
  /\ pc = "clamp"
  /\ pc' = "seek"
  /\ UNCHANGED <<head, storeVars, tickVars, retrying>>

ReorgClamp ==
  /\ pc = "clamp"
  /\ clamp_account_scan_heights(Fork)
  /\ pc' = "seek"
  /\ UNCHANGED <<head, tickVars, retrying>>

ReorgSeek ==
  /\ pc = "seek"
  /\ KnowsStart(head, Fork)
  /\ next' = StartIndex(head, Fork)
  /\ pc' = "reset"
  /\ UNCHANGED <<head, storeVars, tip, caughtUp, behind, highest, more, batch,
                 unchecked, absent, retrying>>

ReorgReset ==
  /\ pc = "reset"
  /\ Fork <= Tip[head]
  /\ set_cursor(next - 1, Fork, Header[head][Fork].hash)
  /\ Sleep(FALSE)
  /\ UNCHANGED head
-----------------------------------------------------------------------------
(* A failed tick.  The node refuses a request about a height it does not   *)
(* have; or a request, a statement or the process fails.                   *)

Refused ==
  \/ pc = "probe" /\ cursor.height > Tip[head]
  \/ pc = "advance" /\ caughtUp = {}
       /\ \E a \in behind : ~ KnowsStart(head, accounts[a].start)
  \/ pc = "seek" /\ ~ KnowsStart(head, Fork)
  \/ pc = "reset" /\ Fork > Tip[head]

GiveUp == Refused /\ Sleep(TRUE) /\ UNCHANGED <<head, storeVars>>

Holds(assumption, condition) == assumption \in Assumed => condition

Abort ==
  /\ pc # "sleep" /\ ~ Refused
  /\ Holds("AtomicRollback", pc # "clamp")
  /\ Sleep(TRUE)
  /\ UNCHANGED <<head, storeVars>>
-----------------------------------------------------------------------------
(* Environment.  Left alone it does anything; each name in Assumed rules   *)
(* out one kind of behaviour.                                              *)
(*   QuietTicks           the node's head moves between ticks only         *)
(*   SteadyRetries        until a failed tick is made good the chain grows *)
(*                        but does not reorganise                          *)
(*   AtomicRollback       no failure between rollback_to and the clamp     *)
(*   RepairableReorgs     a reorganisation is found while its fork point   *)
(*                        is still at most ReorgDepth below the tip        *)
(*   UndoneSpendsKnown    an output of the scanned blocks that comes back  *)
(*                        to life, its spend undone, is a stored one       *)
(*   RescansBetweenTicks  clients rescan between ticks only                *)
(*   BackwardsRescans     clients rescan below the account's scan height   *)

(* The chains that hold the checkpoint. *)
Kept == {d \in Chain : Contains(d, cursor.height, cursor.hash)}

Repairable(c) ==
  c \notin Kept =>
    LET fork == Below(Tip[c])
    IN  \A d \in Kept : /\ fork <= cursor.height
                        /\ Contains(d, fork, Header[c][fork].hash)

UndoneSpendsStored(c) ==
  \A o \in Utxo[c] \ Utxo[head] :
    (/\ Owner[o.commit] \in DOMAIN accounts
     /\ o.height <= cursor.height
     /\ \E d \in Kept : o \in Created[d]) => o.commit \in DOMAIN outputs

MoveHead(c) ==
  /\ NewHead(c)
  /\ Holds("QuietTicks", pc = "sleep")
  /\ Holds("SteadyRetries", retrying => Extends(c, head))
  /\ Holds("RepairableReorgs", Repairable(c))
  /\ Holds("UndoneSpendsKnown", UndoneSpendsStored(c))
  /\ UNCHANGED <<storeVars, pc, tickVars, retrying>>

(* The API's register of a new account.  Its birthday is the client's, or  *)
(* a tip read a while ago; a second register leaves the row as it is.      *)
Register(a, height) ==
  /\ a \notin DOMAIN accounts
  /\ register_account(a, height)
  /\ UNCHANGED <<head, pc, tickVars, retrying>>

Rescan(a, height) ==
  /\ a \in DOMAIN accounts
  /\ Holds("RescansBetweenTicks", pc = "sleep")
  /\ Holds("BackwardsRescans", height < accounts[a].scan)
  /\ rescan_account(a, height)
  /\ UNCHANGED <<head, pc, tickVars, retrying>>
-----------------------------------------------------------------------------
Scan == \/ TickStart \/ ProbeCheckpoint \/ ListAccounts
        \/ ForwardPage \/ ForwardStore
        \/ ReadUnspent \/ CheckChunk \/ MarkSpent
        \/ SetCursor \/ AdvanceAccount \/ FinishTick
        \/ BackfillSeek \/ BackfillPage \/ BackfillStore \/ BackfillDone
        \/ ReorgRollback \/ ReorgClamp \/ ReorgSeek \/ ReorgReset
        \/ GiveUp

Client == \E a \in Account, height \in ClientHeight :
            Register(a, height) \/ Rescan(a, height)

Next == Scan \/ Abort \/ Client \/ \E c \in Chain : MoveHead(c)

Spec == Init /\ [][Next]_vars

(* The scanner task never stops ticking; node and database answer in the   *)
(* end, and clients leave off rescanning.                                  *)
LiveSpec == /\ Spec
            /\ WF_vars(Scan)
            /\ <>[][~ Abort]_vars
            /\ <>[][~ \E a \in Account, h \in ClientHeight : Rescan(a, h)]_vars
=============================================================================
