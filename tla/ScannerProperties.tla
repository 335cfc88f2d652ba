------------------------- MODULE ScannerProperties --------------------------
(***************************************************************************)
(* What the scanner owes its clients.  The first group holds whatever the  *)
(* node, the clients and failures do; the second under the environment     *)
(* assumptions named with each property; the third of every fair behaviour *)
(* in which failures and rescans come to an end.                           *)
(***************************************************************************)
EXTENDS Scanner

Row == [account : Account, height : Nat, idx : Nat, spent : Nat \cup {Unspent}]
AccountRow == [start : Nat, scan : Nat]
Checkpoint == [index : Nat, height : Nat, hash : Hash \cup {NoHash}]

(* Types of every variable. *)
TypeOK ==
  /\ head \in Chain
  /\ DOMAIN accounts \subseteq Account
  /\ accounts \in [DOMAIN accounts -> AccountRow]
  /\ DOMAIN outputs \subseteq Commit
  /\ outputs \in [DOMAIN outputs -> Row]
  /\ cursor \in Checkpoint
  /\ pc \in {"sleep", "probe", "list", "forward", "reconcile", "advance",
             "backfill", "rollback", "clamp", "seek", "reset"}
  /\ tip \in [height : Nat, hash : Hash \cup {NoHash}]
  /\ caughtUp \subseteq DOMAIN accounts
  /\ behind \subseteq DOMAIN accounts
  /\ next \in Nat /\ highest \in Nat
  /\ more \in BOOLEAN /\ retrying \in BOOLEAN
  /\ batch \subseteq Output
  /\ unchecked \subseteq Commit /\ absent \subseteq Commit
-----------------------------------------------------------------------------
(* Whatever happens: a stored output is filed under the registered account *)
(* whose credential rewinds it, and some chain really created it at that   *)
(* height and index (store_first_match, insert_output; Phase 4 rewinds     *)
(* against one account only).                                              *)
Custody ==
  \A k \in DOMAIN outputs :
    /\ outputs[k].account = Owner[k]
    /\ outputs[k].account \in DOMAIN accounts
    /\ \E c \in Chain :
         [commit |-> k, height |-> outputs[k].height, idx |-> outputs[k].idx]
           \in Created[c]

(* Whatever happens: no account claims to be scanned beyond both its       *)
(* birthday and the checkpoint ("balances never advance past unreconciled  *)
(* state", scanner.rs:21-24): the cursor moves before the accounts do, and *)
(* a rollback lowers the accounts before the cursor.                       *)
ProgressWithinCheckpoint ==
  \A a \in DOMAIN accounts :
    accounts[a].scan <= cursor.height \/ accounts[a].scan <= accounts[a].start

(* What a tick still has to do: its stage, the pages (one at least while   *)
(* there is more, one per index at most), then what those have brought.    *)
Stage == [sleep |-> 11, probe |-> 10, list |-> 9, forward |-> 8, reconcile |-> 7,
          advance |-> 6, backfill |-> 5, rollback |-> 4, clamp |-> 3, seek |-> 2,
          reset |-> 1]

PagesLeft ==
  LET end == IF pc = "forward" THEN HighestIndex(head) ELSE highest
  IN  IF ~ more THEN 0 ELSE IF next <= end THEN end + 2 - next ELSE 1

WorkLeft == <<Stage[pc], PagesLeft, Cardinality(unchecked),
              Cardinality(batch) + Cardinality(absent) + Cardinality(caughtUp)>>

Less(m, n) == \E i \in 1 .. 4 : m[i] < n[i] /\ \A j \in 1 .. i - 1 : m[j] = n[j]

(* Whatever happens: every step of a tick ends it or leaves less to do,    *)
(* and only a head that moves during the forward scan makes it more        *)
(* ("start = last_retrieved + 1", a node whose listing ends early: the     *)
(* page loops of scanner.rs:147-152, 234-238 cannot turn for ever).        *)
EveryTickEnds ==
  [][/\ Scan /\ pc' # "sleep" => /\ WorkLeft' \in [1 .. 4 -> Nat]
                                  /\ Less(WorkLeft', WorkLeft)
     /\ ~ Scan => \/ pc' = "sleep" \/ WorkLeft' = WorkLeft
                  \/ pc = "forward" /\ head' # head]_vars
-----------------------------------------------------------------------------
OnChain == Contains(head, cursor.height, cursor.hash)
CaughtUp(a) == a \in DOMAIN accounts /\ accounts[a].scan >= cursor.height

(* QuietTicks, SteadyRetries, AtomicRollback, RepairableReorgs,            *)
(* UndoneSpendsKnown, RescansBetweenTicks, BackwardsRescans: an account    *)
(* counted as caught up with a checkpoint the node still has on its chain  *)
(* misses no live output below the cursor, birthday block excepted.        *)
Discovered ==
  OnChain =>
    \A o \in Utxo[head] :
      /\ CaughtUp(Owner[o.commit])
      /\ o.height > accounts[Owner[o.commit]].start
      /\ o.idx <= cursor.index
      => o.commit \in DOMAIN outputs

(* The same, birthday block included (api.rs:34, scanner.rs:212-213:       *)
(* the backfill scans "from its birthday index").                          *)
BirthdayDiscovered ==
  OnChain =>
    \A o \in Utxo[head] :
      /\ CaughtUp(Owner[o.commit])
      /\ o.height >= accounts[Owner[o.commit]].start
      /\ o.idx <= cursor.index
      => o.commit \in DOMAIN outputs

(* QuietTicks, SteadyRetries, RepairableReorgs: while the checkpoint is on *)
(* the node's chain, an output the node lists as unspent is not stored as  *)
(* spent: spends found by absence are undone by every reorganisation that  *)
(* undoes them (reconcile_spends, rollback_to).                            *)
NeverWronglySpent ==
  OnChain =>
    \A o \in Utxo[head] :
      o.commit \in DOMAIN outputs => outputs[o.commit].spent = Unspent

(* QuietTicks: once the checkpoint is the node's tip, every output counted *)
(* in a balance is live, whatever failed or was reorganised before.        *)
NoPhantomBalance ==
  TipOf(head) = [height |-> cursor.height, hash |-> cursor.hash] =>
    \A k \in all_unspent_commits : \E o \in Utxo[head] : o.commit = k

(* QuietTicks, SteadyRetries, RepairableReorgs: while the checkpoint is on *)
(* the node's chain, the height and index of a stored output are those it  *)
(* has on that chain, so maturity is computed from the right block         *)
(* (insert_output keeps the first row; rollback_to deletes above the fork).*)
RowsAreCurrent ==
  OnChain =>
    \A k \in DOMAIN outputs :
      [commit |-> k, height |-> outputs[k].height, idx |-> outputs[k].idx]
        \in Created[head]

(* The assumptions of Discovered: when the checkpoint is the node's tip,   *)
(* the unspent rows of an account counted as caught up are its ledger on   *)
(* that chain: its live outputs and no others, each at its height and      *)
(* index; those up to its birthday block may be missing (get_unspent_outs  *)
(* serves the rows with both, README.md:109-114).                          *)
LedgerIsExact ==
  TipOf(head) = [height |-> cursor.height, hash |-> cursor.hash] =>
    \A a \in {a \in Account : CaughtUp(a)} :
      LET mine   == {o \in Utxo[head] : Owner[o.commit] = a}
          ledger == {[commit |-> k, height |-> outputs[k].height, idx |-> outputs[k].idx] :
                       k \in {k \in all_unspent_commits : outputs[k].account = a}}
      IN  /\ ledger \subseteq mine
          /\ {o \in mine : o.height > accounts[a].start} \subseteq ledger

(* QuietTicks: tick by tick, the scanner does no more than follow the      *)
(* chain.  The checkpoint moves along the node's chain to its tip, and     *)
(* back only when the chain has really lost it ("a transient hiccup aborts *)
(* the tick instead of faking a reorg", grin.rs:166-170), by ReorgDepth    *)
(* blocks at most.  An account is vouched for at the tip alone, which also *)
(* lowers one that was born above the tip and counts as caught up;         *)
(* otherwise only a client or a real reorganisation takes an account back. *)
Promise == INSTANCE Follower WITH
  Depth <- ReorgDepth,
  at <- [height |-> cursor.height, hash |-> cursor.hash],
  reached <- [a \in DOMAIN accounts |-> accounts[a].scan]

FollowsTheChain == Promise!FollowerSpec
-----------------------------------------------------------------------------
(* Between ticks, none having failed since the last success. *)
Settled == pc = "sleep" /\ ~ retrying

(* What scanner.rs:106-112 says of an account that registers during a tick *)
(* (it "stays behind and is picked up by the backfill phase on a later     *)
(* tick"), README.md:126-128 of a rescan (the scanner re-derives the       *)
(* outputs) and scanner.rs:244-248 of a reorganisation (later ticks        *)
(* "re-derive the canonical state"): between ticks, no caught-up account   *)
(* misses a live output below the cursor.                                  *)
NothingMissed == Settled => Discovered

(* README.md:83-85, scanner.rs:10-11: a tick that has found its checkpoint *)
(* on the chain keeps no row of an abandoned block ("a reorg-safe          *)
(* chain_cursor rolls back rows above the fork").                          *)
NoAbandonedRow ==
  (/\ pc = "list" /\ cursor.height > 0 /\ tip = TipOf(head)
   /\ ~ retrying) => RowsAreCurrent
-----------------------------------------------------------------------------
(* Fair behaviours: once the chain, failures and rescans settle, every     *)
(* account reaches the node's tip, one backfill per tick though there is   *)
(* (find picks the first account that is behind), unless the chain has     *)
(* still not come near some account's birthday: where that one begins the  *)
(* node cannot say, so once it is behind, no tick gets past it.            *)
AccountsCatchUp ==
  <>[]((\A a \in DOMAIN accounts : KnowsStart(head, accounts[a].start)) =>
         \A a \in DOMAIN accounts : accounts[a].scan = Tip[head])

(* Fair behaviours: whatever was recorded on abandoned branches, in the    *)
(* end no balance counts an output the node does not list (Phase 2 looks   *)
(* at every unspent row on every tick).                                    *)
PhantomsHeal ==
  <>[](\A k \in DOMAIN outputs :
         outputs[k].spent = Unspent => \E o \in Utxo[head] : o.commit = k)
=============================================================================
