------------------------------ MODULE Balance -------------------------------
(***************************************************************************)
(* The two reading handlers of the API (api.rs), beside the scanner.       *)
(*                                                                         *)
(* A client follows README.md:178-181: it asks get_balance whether the     *)
(* account is synced and then takes the outputs from get_unspent_outs.     *)
(* Each handler asks the node for its tip and then reads the database in   *)
(* one or several statements; the scanner, the node and other clients step *)
(* in between any two of them.  A sum of values is the set it is taken     *)
(* over.                                                                   *)
(***************************************************************************)
EXTENDS ScannerProperties

CONSTANTS
  Coinbase,  \* the commitments of coinbase outputs
  Maturity   \* COINBASE_MATURITY

ASSUME BalanceAssumption == Coinbase \subseteq Commit /\ Maturity \in Nat

VARIABLES
  stage,    \* what the client's session does next
  balance,  \* the get_balance response, as far as it is read
  listing,  \* the get_unspent_outs response: its tip, all and the spendable
  quiet     \* history: the session began with the checkpoint on the chain,
            \* and has seen no reorganisation and no rescan

sessionVars == <<stage, balance, listing, quiet>>

NoBalance == [account |-> Nobody, tip |-> 0, total |-> {}, unlocked |-> {}, scanned |-> 0]
NoListing == [tip |-> 0, outs |-> {}, spendable |-> {}]

BalanceInit ==
  /\ Init
  /\ stage = "idle" /\ balance = NoBalance /\ listing = NoListing
  /\ quiet = FALSE
-----------------------------------------------------------------------------
(* The queries of db.rs behind the handlers. *)

(* The lock height store_first_match gives an output mined at that height. *)
LockHeight(k, height) == height + IF k \in Coinbase THEN Maturity ELSE 0

unspent_outputs(a) ==
  {k \in all_unspent_commits : outputs[k].account = a}

(* A wrong variant: immature coinbase counts as unlocked. *)
unlocked_regardless(a, height) == unspent_outputs(a)

account_unlocked(a, height) ==
  {k \in unspent_outputs(a) : LockHeight(k, outputs[k].height) <= height}

(* A wrong variant: the scanner's progress instead of the account's. *)
scan_height_of_all(a) == cursor.height

account_scan_height(a) == IF a \in DOMAIN accounts THEN accounts[a].scan ELSE 0
-----------------------------------------------------------------------------
(* get_balance: four reads. *)

AskBalance(a) ==
  /\ stage = "idle"
  /\ balance' = [NoBalance EXCEPT !.account = a, !.tip = Tip[head]]
  /\ quiet' = OnChain
  /\ stage' = "total"
  /\ UNCHANGED <<vars, listing>>

ReadTotal ==
  /\ stage = "total"
  /\ balance' = [balance EXCEPT !.total = unspent_outputs(balance.account)]
  /\ stage' = "unlocked"
  /\ UNCHANGED <<vars, listing, quiet>>

ReadUnlocked ==
  /\ stage = "unlocked"
  /\ balance' = [balance EXCEPT !.unlocked = account_unlocked(balance.account, balance.tip)]
  /\ stage' = "scanned"
  /\ UNCHANGED <<vars, listing, quiet>>

ReadScanned ==
  /\ stage = "scanned"
  /\ balance' = [balance EXCEPT !.scanned = account_scan_height(balance.account)]
  /\ stage' = "balance"
  /\ UNCHANGED <<vars, listing, quiet>>

(* get_unspent_outs: two reads. *)

AskOuts ==
  /\ stage = "balance"
  /\ listing' = [listing EXCEPT !.tip = Tip[head]]
  /\ stage' = "outs"
  /\ UNCHANGED <<vars, balance, quiet>>

ReadOuts ==
  /\ stage = "outs"
  /\ listing' = [listing EXCEPT !.outs = unspent_outputs(balance.account),
                                !.spendable = account_unlocked(balance.account, listing.tip)]
  /\ stage' = "listed"
  /\ UNCHANGED <<vars, balance, quiet>>

(* The client has what it wants, or a request fails. *)
EndSession ==
  /\ stage # "idle"
  /\ stage' = "idle" /\ balance' = NoBalance /\ listing' = NoListing
  /\ quiet' = FALSE
  /\ UNCHANGED vars

Session == \/ \E a \in Account : AskBalance(a)
           \/ ReadTotal \/ ReadUnlocked \/ ReadScanned
           \/ AskOuts \/ ReadOuts \/ EndSession
-----------------------------------------------------------------------------
(* Everyone else.  Only a rescan or a reorganisation ends the quiet. *)

Undisturbing ==
  \/ Scan \/ Abort
  \/ \E a \in Account, height \in ClientHeight : Register(a, height)
  \/ \E c \in Chain : Extends(c, head) /\ MoveHead(c)

Disturbing ==
  \/ \E a \in Account, height \in ClientHeight : Rescan(a, height)
  \/ \E c \in Chain : ~ Extends(c, head) /\ MoveHead(c)

BalanceNext ==
  \/ Session
  \/ Undisturbing /\ UNCHANGED sessionVars
  \/ Disturbing /\ quiet' = FALSE /\ UNCHANGED <<stage, balance, listing>>

BalanceSpec == BalanceInit /\ [][BalanceNext]_<<vars, sessionVars>>
-----------------------------------------------------------------------------
(* scanned_height near blockchain_height, in its strictest reading. *)
Synced == balance.scanned >= balance.tip

(* The account's outputs of the current chain that a synced balance speaks *)
(* of: above its birthday, up to the tip of the response.                  *)
Covered ==
  {o \in Created[head] :
     /\ Owner[o.commit] = balance.account
     /\ balance.account \in DOMAIN accounts
     /\ accounts[balance.account].start < o.height
     /\ o.height <= balance.tip}

(* Under the environment assumptions: a client that has seen its account   *)
(* synced gets every live output, and none that was already spent at the   *)
(* tip it was shown, from the get_unspent_outs it sends afterwards, unless *)
(* the chain reorganises or someone rescans meanwhile (README.md:178-181;  *)
(* the scan height is written after the rows, scanner.rs:240).             *)
SyncedListingIsExact ==
  (stage = "listed" /\ quiet /\ Synced) =>
    \A o \in Covered :
      /\ o \in Utxo[head] => o.commit \in listing.outs
      /\ o.commit \in listing.outs =>
           \A d \in Chain :
             (Tip[d] = balance.tip /\ Extends(head, d)) => o \in Utxo[d]

(* Under the environment assumptions: while the session is quiet, no       *)
(* output is reported unlocked or spendable at a tip where its block on    *)
(* the current chain still locks it (api.rs:55-56 "never overstates what   *)
(* a spend can use", README.md:116-117): the lock height was stored with   *)
(* the row, which rollbacks and re-mining must have kept right.            *)
SpendableIsMature ==
  quiet =>
    \A o \in Created[head] :
      LET unlockedAt == LockHeight(o.commit, o.height)
      IN  /\ o.commit \in balance.unlocked => unlockedAt <= balance.tip
          /\ o.commit \in listing.spendable => unlockedAt <= listing.tip

(* README.md:178-181: trusting a balance that is synced, "a not-yet-       *)
(* scanned account never reports a false zero".                            *)
NoFalseZero ==
  (stage = "balance" /\ quiet /\ Synced /\ balance.total = {}) =>
    Covered \cap Utxo[head] = {}
=============================================================================
