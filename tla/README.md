# grin-lws in TLA+

grin-lws is a light-wallet server for Grin: wallets register a view credential
(a `rewind_hash`), a background scanner walks the node's set of unspent outputs,
stores the ones a credential recognises, notices spends and follows
reorganisations, and an HTTP API serves balances from what is stored. This
directory holds a model of that scanner, its database, the node it polls, the
handlers that read from it, and the way of an output's key to the client. It is
checked with TLC, and every safety property that a run finds to hold is proved with
TLAPS for all values of the constants, under assumptions that are named.

## 1. The system

| Component | State | Operations | Talks to |
|---|---|---|---|
| Scanner (`src/src/scanner.rs`) | none between ticks; during a tick the tip read first, the caught-up and behind accounts, page positions, commitments being checked | `tick` (reorg check, discovery, spend reconcile, advance, backfill of one account), `handle_reorg`, the polling loop | node by JSON-RPC, database by single statements |
| Database (`src/src/db.rs`, `src/migrations/0001_init.sql`) | `accounts`, `outputs`, `chain_cursor` | one operator per statement or transaction | scanner, API |
| Node client (`src/src/grin.rs`) | none | tip, header hash, paging, presence, start index, push | the Grin node |
| API (`src/src/api.rs`) | none | `register`, `rescan` write; `get_balance`, `get_unspent_outs` read; the rest relays or lists | database, node |
| Rewind and derivation path (`src/src/rewind.rs`) | none | view-only rewind, message parser | called per output by the scanner |
| Start-up, configuration, token, errors | constants | environment parsing, routing, a comparison of the admin token | |

Nothing locks anything against anything. The scanner is one task; API handlers
run beside it; the node changes by itself. So the hard behaviours are:

* **Interleavings.** Between any two awaits of a tick the node's head may move to
  a longer chain or another branch, a client may register or rescan, and the tick
  may fail. What the tick read first (tip, account list, cursor) is used at the end.
* **Crashes and failures.** A failed request or statement, or the death of the
  process, drops the tick's locals; rows already written stay. `rollback_to`, the
  clamp of the accounts and `set_cursor` are three separate statements.
* **Reorganisations.** The only evidence is the block hash at the checkpoint. The
  index already scanned and the checkpoint are read at different times.
* **Absence as evidence.** A spend is seen as a commitment missing from the
  node's answer, and is filed under the height of the tip read at the start of
  the tick; undoing it goes by that height.
* **Fairness.** One account is backfilled per tick, and one whose birthday the
  chain has not reached fails every tick it comes up in.
* **Codecs.** A key goes through a 20-byte message, text and 32-bit columns; the
  client spends with what comes out.

What makes each component correct: the scanner must miss no live output of an
account it calls caught up (*Discovered*), never hold a live output as spent
(*NeverWronglySpent*), never count a dead one once at the tip
(*NoPhantomBalance*), and describe rows as the current chain does
(*RowsAreCurrent*), so that at the tip the rows of a caught-up account are its
ledger (*LedgerIsExact*); no tick may go on for ever (*EveryTickEnds*); the database must keep rows genuine and under their own
wallet (*Custody*) and progress within the checkpoint
(*ProgressWithinCheckpoint*); the readers must list exactly what is live to a client
that waits for the scan (*SyncedListingIsExact*) and offer nothing locked
(*SpendableIsMature*); the position must move only with the chain
(*FollowsTheChain*); the key a client is served must be the wallet's own
(*NothingForged*, *NothingDropped*, *KeyIsTheWallets*);
accounts must reach the tip in the end
(*AccountsCatchUp*) and dead outputs leave balances (*PhantomsHeal*).
`PROJECT.json` lists the hazards behind these at their lines.

## 2. The modules

| Module | Models | Notes |
|---|---|---|
| `GrinNode` | the node as `grin.rs` sees it | constants for the block tree, one variable `head`; the answers of each call are operators |
| `Store` | the three tables and the statements of `db.rs` | a table is a function from primary keys to rows; each operator is one statement or transaction |
| `Scanner` | `scanner.rs` plus `register` and `rescan` | one action per request or statement; environment assumptions by name |
| `ScannerProperties` | what the scanner owes its clients | types, invariants, liveness |
| `Follower` | the scanner's position on the chain, without the tick | abstract; `Scanner` implements it |
| `Balance` | `get_balance`, `get_unspent_outs` and a client that uses one after the other | one action per read, composed with every step of `Scanner` |
| `Derivation` | one output from the node's listing through rewind, parser and database to the client | no concurrency; bytes are digits of base `Base` |
| `BlockTree` | builds `GrinNode`'s constants from a table of blocks | model checking only |
| `MCScanner`, `MCStorm`, `MCGrowth`, `MCBalance` | four block trees | model checking only |
| `MCDerivation` | a listing of good and broken entries | model checking only |
| `ScannerProofs` | types, custody, progress, the end of ticks | section 5 |
| `FollowerProofs` | `Scanner` implements `Follower` | extends `ScannerProofs` |
| `RowsProofs`, `DiscoveryProofs` | rows, spends and phantoms; discovery | each extends the one before, `RowsProofs` the two above |
| `LedgerProofs` | the ledger at the tip: where those meet | extends `DiscoveryProofs` |
| `GrowthProofs` | the same promises when blocks arrive in the middle of ticks | extends `LedgerProofs` |
| `BalanceProofs` | the client's session | extends `Balance` and `DiscoveryProofs` |
| `DerivationProofs` | parser and columns, decimal text | extends `Derivation` |

**State.** `accounts`, `outputs`, `cursor` are the tables (a missing cursor row
reads as zeros, as `tick` reads it). `pc` says where the tick is; `tip`,
`caughtUp`, `behind`, `next`, `highest`, `more`, `batch`, `unchecked`, `absent`
are its locals, cleared whenever a tick ends so that nothing survives by
accident. `retrying` is a history variable: a tick has failed and none has
completed since; no scanner action reads it.

**Actions.**

| `tick` in `scanner.rs` | Action |
|---|---|
| 60-71 tip, cursor, chain shorter than the checkpoint | `TickStart` |
| 72-77 hash at the checkpoint | `ProbeCheckpoint` |
| 79-96 account list, caught-up filter | `ListAccounts` |
| 129-191 one page; one `insert_output` | `ForwardPage`, `ForwardStore` |
| 194-210 unspent rows; one chunk of `outputs_present`; one `mark_spent` | `ReadUnspent`, `CheckChunk`, `MarkSpent` |
| 105, 113-115 | `SetCursor`, `AdvanceAccount` (one account) |
| 118-120, 216-243 | `BackfillSeek`, `BackfillPage`, `BackfillStore`, `BackfillDone`, or `FinishTick` |
| 249-263 | `ReorgRollback`, `ReorgClamp`, `ReorgSeek`, `ReorgReset` |
| 50-52 a failed tick | `GiveUp` (the node has no block at the height asked for), `Abort` (anything else, process death included) |

`Register` inserts an account with any client height, which covers the default
birthday too: `register` reads the tip, and inserts later. `Rescan` is
`rescan_account`. `MoveHead` moves the node to any chain of more work, which may
be shorter.

`Balance` adds a client that follows `README.md:178-181`: `AskBalance`,
`ReadTotal`, `ReadUnlocked`, `ReadScanned` are the four reads of `get_balance`,
`AskOuts` and `ReadOuts` the two of `get_unspent_outs`; `EndSession` is a failed
request as well as a satisfied client. Between any two, `Scanner` takes any step.
The history variable `quiet` says that the session began with the checkpoint on
the node's chain and has seen no reorganisation and no rescan: an answer is not
blamed for what the scanner could not know yet.

`Derivation` follows one entry: `FromPrintable` is the filter of `grin.rs:261-277`,
`StoreFirstMatch` and `NoMatch` the rewind against the watched credentials with
`parse_v3_message`, `InsertOutput` the columns of `db.rs:161-181`, `Serve`
`row_to_output` and the answer of `get_unspent_outs`. No statement
updates those columns once `insert_output` has written them, so nothing else
interferes on the way.

**The position, abstractly.** `Follower` has the block the scanner stands at and the
height each account is scanned up to. It follows a chain that holds its block to the
tip, withdraws accounts and retreats by `Depth` when the block is lost, and serves
clients that join or ask for a rescan. It knows no pages, no reconcile, no failure.
`Promise` in `ScannerProperties` maps the cursor row and the accounts' scan heights
to it; most steps of a tick are stutters, and a failed tick is one always.

**Abstractions.** A range proof that rewinds is `Owner[commit]`; at most one
credential rewinds an output. Values, key ids and child indexes are left out of
the scanner's rows and have `Derivation` to themselves; a lock height is a function
of the row's commitment and height, which is how it was computed, and a sum of values is the set summed. Pages skip foreign outputs
only after fetching them, as in the code; storing an output nobody owns has no
effect and is not a step. Rows of `SELECT` come in no particular order, so loops
over them take any order.

### Environment assumptions

Left alone, the environment does anything. Each name in the constant `Assumed`
rules out one kind of behaviour; `Scanner.tla` has the precise guards.

| Name | Meaning |
|---|---|
| `QuietTicks` | the head moves between ticks only |
| `SteadyRetries` | until a failed tick is made good the chain grows but does not reorganise |
| `AtomicRollback` | no failure between `rollback_to` and the clamp |
| `RepairableReorgs` | a reorganisation is found while its fork point is at most `REORG_DEPTH` below the tip |
| `UndoneSpendsKnown` | an output of the scanned blocks that comes back to life, its spend undone, is a stored one |
| `RescansBetweenTicks` | clients rescan between ticks only |
| `BackwardsRescans` | clients rescan below the account's scan height |

They are not claims about Grin. They are the exact distance between what the code
promises and what it keeps: with all of them the promises hold (`calm`), and
without any single one some promise is broken. Five of them have a run that shows
it; `SteadyRetries` (breaks *NeverWronglySpent*) and `RepairableReorgs` (breaks
*RowsAreCurrent*) are recorded as hazards.

## 3. The runs

| Run | Instance | Shows |
|---|---|---|
| `calm` | `MCScanner`: a trunk of three blocks, branches of three and four; depth 3; pages of 2, chunks of 1; two accounts; all assumptions | the four safety promises hold across up to three reorganisations, to longer and to shorter chains, at the tip a caught-up account's rows are its ledger, and the position moves as `Follower` says |
| `storm` | `MCStorm`: two branches of two; depth 1; birthdays 0, 1 and, above the tip, 4; no assumption | types, custody and progress always, and no step of a tick without progress; liveness in fair behaviours |
| `late_registration` | `MCGrowth`: no forks; without `QuietTicks` | an account born during a tick is skipped for ever |
| `tick_reorg` | `MCScanner` without `QuietTicks` | a block that came and went around a tick leaves its rows |
| `rescan_race` | `MCGrowth` without `RescansBetweenTicks` | a tick overwrites a rescan |
| `forward_rescan` | `MCGrowth` without `BackwardsRescans` | a rescan to the scan height loses rows |
| `torn_rollback` | `MCScanner` without `AtomicRollback` | a failed rollback, retried two blocks later, loses rows |
| `undone_spend` | `MCScanner` without `UndoneSpendsKnown` | an output whose spend is undone is never stored |
| `birthday` | `MCGrowth`, all assumptions | outputs of the birthday block are missed when it is the checkpoint's |
| `balance` | `MCBalance`: a trunk of one, branches of two and three; depth 2; one wallet; all assumptions | a client that sees its account synced and then lists its outputs gets exactly the live ones, and no locked one as spendable |
| `false_zero` | the same | one `get_balance` can say zero and synced at once |
| `derivation` | `MCDerivation`: bytes of eight values, every identifier over four boundary indexes, messages and entries broken in each place | only wallets' messages are taken, none is dropped, and the key served is the wallet's |

`false_zero` and the runs from `late_registration` to `birthday` expect a
violation: each checks one
sentence of the repository's own documentation, quoted in the findings of
`PROJECT.json`.

**Bounds and why they are enough.** `MCScanner` is built so that each promise can
break: `x` sits at height 1, at or below every fork that is not clamped, and is spent on
one branch only; `y` is spent on one branch above the fork; `z` is mined on both
branches at different indexes, and spent on both; `m` belongs to nobody
and fills pages. Work orders the heads `a4`, `b4`, `a5`, `a6`, `b5`, `b6`, `b7`, so the head
goes back and forth, `b5` is shorter than `a6`, and `b7` cannot be repaired from
`a`. The head only moves to more work, so behaviours have finitely many moves
without a counter. Failures, registrations and rescans are not bounded at all.
`PageMax` 2 and `OutputsChunk` 1 give full, partial and empty pages and several
chunks. In `MCBalance` the coinbase output `z` is mined at height 2 on one branch
and 3 on the other, with a maturity of 1, so that a row kept from the wrong branch
is offered one block too early; `x` is spent on both, and `b2` is shorter than `a3`.
`ReorgDepth` 3 leaves room for two forks of one interrupted rollback. In
`MCDerivation` a path element has four bytes, as in the code, of eight values
instead of 256, so `SignBit` is 2048: its paths use 0, 668 (whose bytes all
differ), 2047 and 2048 in all four places, which is where the 32-bit column turns;
each header byte takes every value, and lengths are 19, 20, 21 and 0.

**A promise that is not kept and has no run.** `rewind.rs:51` says that `n_child` is
`path[depth-1]`. The column is an i32 (`db.rs:177`) and negative values read as 0
(`db.rs:288-292`), so a path element of 2^31 or more is served as 0, which is the index of
another key. `KeyIsTheWallets` therefore claims `n_child` only below `SignBit`. With the
clause's guard dropped, run `derivation` fails at once, at the element 2048. Clients that
spend by `key_id`, as the same comment asks, do not notice.

## 4. Fairness

`LiveSpec` assumes weak fairness of the scanner as a whole: `spawn` loops for
ever, and a tick either takes its next step or fails. It also assumes that
failures other than the node's own refusals, and rescans, come to an end;
refusals (`GiveUp`) do not count as failures here, so a tick that the node
refuses for ever would break liveness. Nothing is assumed of the head: it stops
by itself when the tree ends. One of `storm`'s birthdays lies above every chain: such
an account counts as caught up until it is rescanned, and from then on every tick
that picks it fails (`scanner.rs:223`), other accounts' backfills included.
`AccountsCatchUp` therefore promises the tip to all if, in the end, the node can
resolve every account's birthday. `derivation` has no liveness: an output's way is
five steps and ends, so that run does not check for deadlock.

## 5. The proofs

All theorems hold for every block tree, owner map, page and chunk size and depth,
using the named assumptions of `GrinNode` and `Scanner` on the constants. Those that
need more of the environment say so by `Assumed`, and three facts about chains are
hypotheses where they are used: `SpendsAreFinal` (a spent commitment is not created
again further up), `CommitsAreUnique` (a chain creates a commitment once) and
`WorkGrows`. TLC evaluates the three for the trees of `MCScanner` and `MCBalance`.

| Theorem | Property | Assumes |
|---|---|---|
| `TypeCorrect` | `TypeOK` | nothing |
| `CustodyHolds` | `Custody` | nothing |
| `ProgressHolds` | `ProgressWithinCheckpoint` | nothing |
| `ImplementsFollower` | `FollowsTheChain` | `QuietTicks` |
| `RowsHold` | `RowsAreCurrent` | `QuietTicks`, `SteadyRetries`, `RepairableReorgs` |
| `SpendsHold` | `NeverWronglySpent` | the same, `SpendsAreFinal` |
| `NoPhantoms` | `NoPhantomBalance` | `QuietTicks`, `WorkGrows` |
| `DiscoveredHolds` | `Discovered` | all seven, `CommitsAreUnique` |
| `LedgerExact` | `LedgerIsExact` | all seven, `SpendsAreFinal`, `CommitsAreUnique`, `WorkGrows` |
| `GrowingChain` | `RowsAreCurrent`, `NeverWronglySpent`, `NoPhantomBalance` | of the seven none: a chain that only grows; `SpendsAreFinal`, `WorkGrows` |
| `GrowingLedger` | `Discovered`, `LedgerIsExact` | a chain that only grows, early registrations, `RescansBetweenTicks`, `BackwardsRescans`; the three facts about chains |
| `TicksEnd` | `EveryTickEnds` | nothing |
| `ReadersDisturbNothing` | | nothing |
| `SpendableMature` | `SpendableIsMature` | as `RowsHold`, `CommitsAreUnique` |
| `SyncedListingExact` | `SyncedListingIsExact` | all seven, `SpendsAreFinal`, `CommitsAreUnique`, `WorkGrows` |
| `ForgedNever`, `DroppedNever`, `KeyHolds` | `NothingForged`, `NothingDropped`, `KeyIsTheWallets` | `WidthAssumption`, `ListedAssumption` |

So the proofs also say which assumption each promise needs: phantoms stay out of
balances whatever the clients do and however deep the reorganisation; rows need
reorganisations to be found in time; only discovery needs tame clients.

`QuietTicks` is what `tick_reorg` and `late_registration` show to be needed, yet blocks
do arrive while a tick runs. The two theorems of `GrowthProofs` are about that case:
they replace it by `Grows`, which lets the head move at any step as long as it extends the
chain it leaves, and drop the assumptions on reorganisations and failures with it. For
discovery `RegistersEarly` also rules out what `late_registration` shows: a birthday must be
below the checkpoint or, between ticks, at a block that no scanned output lies above, as the
node's tip is. Everything else is the scanner of `Scanner.tla`, unchanged.

None of the invariants is inductive. What is added to each, and why:

* **Types** (`TypeInv`): pages and reseeks start at an index of at least 1, or
  `ReorgReset` would store -1; recognised outputs belong to registered accounts.
* **Custody** (`CustodyInv`): the same of outputs still to be stored. A page comes
  from the chain the node was on, and stays genuine when the node has moved.
* **Progress** (`ProgressInv`): the tip is at least the checkpoint until the cursor
  is set and equal to it afterwards; in a reorganisation the accounts are below the
  fork before the cursor is.
* **Course** (`CourseInv`): within a tick the tip read is still the node's, the
  checkpoint is on its chain in the phases after the probe and off it during a
  rollback. `ImplementsFollower` is then a step-by-step correspondence.
* **Rows and spends** (`HistoryInv`): the node may leave the checkpoint's chain and
  return, so while it is away rows must be right on *every* chain that holds the
  checkpoint; and a tick that failed may have stored rows above the checkpoint that
  are right only on the chain it saw, which is what `SteadyRetries` keeps. A
  spend must be filed at a height no chain with the checkpoint contradicts.
* **Phantoms** (`SweepInv`): during the reconcile an unspent row is unchecked, known
  absent or live; and the node has never less work than the checkpoint's chain had,
  so it cannot step back to a tip that was swept for another set of outputs.
* **Discovery** (`DiscoveryInv`): an account that has fallen behind is taken for
  caught up again when a rollback lowers the checkpoint to its scan height. So what
  is stored must be known below each scan height too, on every chain with the
  checkpoint, with the gap between `rollback_to` and the clamp excepted (`OwedOK`);
  the cursor's index must not pass its block (`CursorOK`); and within a tick the
  pages read so far are stored or in the batch (`PagesOK`).
* **Ledger** (`LedgerInv`): discovery and sweep together, and that at the tip the cursor's
  index is the node's, since only the reseek sets a smaller one, and that further down. The
  row of a live output is then that output's, a commitment being created once.
* **Growth** (`GrowthInv`, `EarlyOK`): a tick may sweep and index a longer chain than the
  one whose tip it records, so nothing may be claimed of the chain at the checkpoint.
  What holds is said of the head: rows are on it, and marks and absences are final once
  they are true. Only a tick that ends where it began (`Still`) vouches for the tip,
  and the work that grows tells the two apart. For discovery, what counts is
  that no index is recorded that the node had not reached, so that a live output at or below it
  was listed by the page that passed it (`WasLive`); and an account above the checkpoint is one
  born above all that was scanned (`BirthdayOK`).
* **Ticks end** (`TickInv`): the four parts of `WorkLeft` decrease lexicographically, and
  they are numbers only because batches, stored rows and accounts stay finite, which
  is all the invariant adds to the types.
* **Sessions** (`MatureInv`, `SessionInv`): a scan height at the session's tip means
  that the outputs below it are stored, a checkpoint at it that the spent ones are
  swept, and at the tip the cursor's index is the node's. The lemma `CalmGoings`
  sums up any undisturbed step of anyone else, so that the session's proof has no
  case per scanner action.
* **Derivation** (`Traced`) needs only that each stage's value is the function of the stage
  before. The arithmetic is that four digits below `Base` and a number below
  `2 * SignBit` determine each other; and, for `KeyHolds`, that reading undoes
  `to_string`. Both are recursive functions, so that takes induction: the lemmas `Least` and
  `Ascending` get it for a set of numbers, in place of a predicate, from the
  well-foundedness of `<`, and `DecimalUnfolds` and `ReadingUnfolds` give the two functions
  their equations.

Left to TLC: the liveness properties `AccountsCatchUp` and `PhantomsHeal`, fairness
being out of the prover's reach. `TicksEnd` gives the part of their argument that is
safety. The converse holds for `GrowthProofs`: its two specifications are proved about
and no run is devoted to them, because each of their promises is already checked, under
`QuietTicks` and with reorganisations, by `calm`.

## 6. Plan

Done: node, store, scanner, properties and runs; `Balance`; `Derivation`; the
refinement of `Follower`; the theorems of section 5, the ledger per account at the tip
and the growing chain among them. What is left, most telling first:

* the client's session on a growing chain: `SyncedListingIsExact` from `GrowthInv` instead
  of `QuietTicks`, which every real session has to do without;
* `enforce_restore_depth` with a configured depth, and the promise of a rescan below
  the birthday.

## 7. Not modelled

The cryptography of rewinding (a proof yields its message to its owner's credential
and nothing to any other); the bound of `enforce_restore_depth`, since birthdays are
arbitrary heights; heights of 2^63 and more; the clamp of a sum to `u64`; JSON-RPC framing, size caps and timeouts (a
failure is a failure); HTTP, the admin token, configuration and start-up;
`submit_raw_tx`, which relays; `height`, `health`, `ready` and `list_accounts`,
which return one answer; `mark_unspent`, which nothing calls.
Commitments that are created again on the same chain after being spent are in
the model's reach but not in the checked trees.
