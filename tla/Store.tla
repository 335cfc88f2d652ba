------------------------------- MODULE Store --------------------------------
(***************************************************************************)
(* The database of grin-lws: the three tables of 0001_init.sql and the     *)
(* statements of db.rs that read or write them.  A table is a function     *)
(* whose domain is the set of its primary keys.  Each operator is one      *)
(* statement, or one transaction where db.rs opens one, and is atomic; it  *)
(* says what becomes of all three tables.                                  *)
(*                                                                         *)
(* A row of outputs keeps what recognising, spending and rolling back look *)
(* at; value, lock height and derivation path are left out.                *)
(***************************************************************************)
EXTENDS Integers

VARIABLES
  accounts,  \* rewind_hash -> birthday and scan progress
  outputs,   \* commit -> account, height, MMR index, height it was seen spent
  cursor     \* the chain_cursor row

storeVars == <<accounts, outputs, cursor>>

Unspent == -1      \* spent = 0 and spent_height = NULL: below every height
NoHash  == "none"

(* get_cursor's None: its readers take 0 for the index and the height. *)
NoCursor == [index |-> 0, height |-> 0, hash |-> NoHash]

StoreInit ==
  /\ accounts = [a \in {} |-> a]
  /\ outputs = [k \in {} |-> k]
  /\ cursor = NoCursor
-----------------------------------------------------------------------------
(* Statements on accounts. *)

register_account(a, start) ==      \* ON CONFLICT DO NOTHING
  /\ accounts' = [b \in DOMAIN accounts \cup {a} |->
                    IF b \in DOMAIN accounts THEN accounts[b]
                    ELSE [start |-> start, scan |-> start]]
  /\ UNCHANGED <<outputs, cursor>>

set_account_scan_height(a, height) ==
  /\ accounts' = [b \in DOMAIN accounts |->
                    IF b = a THEN [accounts[b] EXCEPT !.scan = height]
                    ELSE accounts[b]]
  /\ UNCHANGED <<outputs, cursor>>

Lowered(row, height) ==
  IF row.scan > height THEN [row EXCEPT !.scan = height] ELSE row

clamp_account_scan_heights(fork) ==
  /\ accounts' = [b \in DOMAIN accounts |-> Lowered(accounts[b], fork)]
  /\ UNCHANGED <<outputs, cursor>>

rescan_account(a, height) ==
  /\ outputs' = [k \in {k \in DOMAIN outputs :
                          ~ (outputs[k].account = a /\ outputs[k].height >= height)}
                   |-> outputs[k]]
  /\ accounts' = [b \in DOMAIN accounts |->
                    IF b = a THEN Lowered(accounts[b], height) ELSE accounts[b]]
  /\ UNCHANGED cursor
-----------------------------------------------------------------------------
(* Statements on outputs. *)

insert_output(o, a) ==             \* ON CONFLICT DO NOTHING
  /\ outputs' = [k \in DOMAIN outputs \cup {o.commit} |->
                   IF k \in DOMAIN outputs THEN outputs[k]
                   ELSE [account |-> a, height |-> o.height, idx |-> o.idx,
                         spent |-> Unspent]]
  /\ UNCHANGED <<accounts, cursor>>

mark_spent(commit, height) ==
  /\ outputs' = [k \in DOMAIN outputs |->
                   IF k = commit THEN [outputs[k] EXCEPT !.spent = height]
                   ELSE outputs[k]]
  /\ UNCHANGED <<accounts, cursor>>

all_unspent_commits == {k \in DOMAIN outputs : outputs[k].spent = Unspent}

(* Wrong variants: spends are not undone; one block too few is deleted. *)
rollback_keeping_spends(fork) ==
  /\ outputs' = [k \in {k \in DOMAIN outputs : outputs[k].height <= fork} |-> outputs[k]]
  /\ UNCHANGED <<accounts, cursor>>

rollback_off_by_one(fork) ==
  /\ outputs' = [k \in {k \in DOMAIN outputs : outputs[k].height <= fork + 1} |->
                   IF outputs[k].spent > fork
                   THEN [outputs[k] EXCEPT !.spent = Unspent] ELSE outputs[k]]
  /\ UNCHANGED <<accounts, cursor>>

rollback_to(fork) ==
  /\ outputs' = [k \in {k \in DOMAIN outputs : outputs[k].height <= fork} |->
                   IF outputs[k].spent > fork
                   THEN [outputs[k] EXCEPT !.spent = Unspent] ELSE outputs[k]]
  /\ UNCHANGED <<accounts, cursor>>
-----------------------------------------------------------------------------
set_cursor(index, height, hash) ==
  /\ cursor' = [index |-> index, height |-> height, hash |-> hash]
  /\ UNCHANGED <<accounts, outputs>>
=============================================================================
