# Models of the Skarb wallet

TLA+ modules, TLC configurations and TLAPS proofs for the Go wallet in this
repository. Paths are relative to the repository (`src/`); FP, VSP and VT stand
for `feepayment.go`, `vsp.go` and `vspticket.go` of
`src/_vendored/monetarium-wallet/wallet`, TM, TU, CN and RS for `udb/txmined.go`,
`udb/txunmined.go`, `chainntfns.go` and `rescan.go` there; SY, SN, TI, TN, TP and AR
for `sync.go`, `syncnotification.go`, `txindex.go`, `txandblocknotifications.go`,
`txparser.go` and `rescan.go` of `src/libwallet/assets/dcr`; TK for `ticket.go`
there, CT and NT for `createtx.go` and `notifications.go` of the wallet core; SV for `save.go` of
`src/libwallet/assets/wallet/walletdata`.

    tlc -config VspFee_restarts.cfg MCVspFee         # one of the runs below
    tlapm VspFee_proofs.tla                           # the proofs of a module

| module | what it is |
|---|---|
| `VspFee` | the payment of a voting service provider's fee for one ticket |
| `FeeTxLife` | what that payment promises about fee transactions, abstractly |
| `MCVspFee` | instances of `VspFee` (symmetry) |
| `VspFee_proofs` | inductive invariant of `VspFee` and what follows from it |
| `VspFeeLife_proofs` | what becomes of the fee transactions, and that it implements `FeeTxLife` |
| `SpvSync` | the SPV sync session of a wallet and everything that acts on it |
| `SyncSession` | what a sync session promises, abstractly |
| `MCSpvSync` | instances of `SpvSync` (symmetry) |
| `SpvSync_proofs` | inductive invariants of `SpvSync`, and that it implements `SyncSession` |
| `TxStore` | the wallet core's transaction store: chain switches, rescans, unmined transactions |
| `MCTxStore` | instances of `TxStore`: a tree of 16 blocks and seven transactions |
| `TxStore_proofs` | inductive invariants of `TxStore` and the chains: the marker is honest |
| `TxStoreCoins_proofs` | the account of its coins, and of what the unmined transactions spend |
| `TxIndex` | the index of decoded transactions that follows that store |
| `MCTxIndex` | an instance of `TxIndex`: a tree of three blocks and two transactions |
| `TxIndex_proofs` | inductive invariant of `TxIndex`: the index loses nothing |
| `TxIndexSpender_proofs` | that a ticket whose vote is in the index has its spender there |
| `TicketBuyer` | the automatic ticket buyer, its purchases and the notification server it is a client of |
| `TicketBuyer_proofs` | inductive invariant of `TicketBuyer`: tickets pay the price of their block |

## The system

Skarb is a desktop and mobile wallet. A Gio user interface calls `libwallet`,
which keeps a map of wallets (assets); each wraps a wallet core, vendored from
upstream, that holds keys and transactions in a key-value database and syncs
with the network by SPV.

| component | state | operations | interacts with |
|---|---|---|---|
| VSP fee payment (FP, VSP, VT) | a record per ticket in the database; `VSPClient.jobs`; a `vspFeePayment` object per ticket with a timer and `procMu` | purchase, process unpaid and managed tickets, reconcile, make, submit, confirm, abandon | the VSP over HTTP; the wallet's transactions; `ticket.go` |
| SPV sync session (SY, SN) | the fields of `SyncData` under one mutex; the channel `syncCanceled`; `activeSyncData` | `SpvSync`, `CancelSync`, `RestartSpvSync`, `DiscoverUsage`, the syncer's callbacks | the pages of the UI; the syncer's goroutine; progress listeners |
| transaction store (TM, TU, CN, RS) | the main chain, records, credits, debits, an archive of disapproved trees, unmined transactions, the marker of the last block looked through | chain switch, rollback, stake (in)validation, insert, prune, rescan, abandon | the syncer; the fee payment's transactions; notifications to the index |
| block rescan (AR) | `SyncData.rescanning`, `cancelRescan` | start, cancel, progress | shares `SyncData`; starts a reindex |
| transaction index (`txindex.go`, `txandblocknotifications.go`, `walletdata/`) | an index database and the last block indexed | reindex, save of a notified transaction, block attached | the wallet core's notifications; the rescan; the sync's end |
| ticket buyer (TK, CT, NT) | `cancelAutoTicketBuyer`, the loop's next interval and expiry, the clients of the notification server and its mutex | start, stop, purchase on each block | the staking page; the notification server; the VSP client; the passphrase |
| VSP fee phases (`vspfee.go`) | a cache of phases | read, refresh, invalidate | the tickets' records; the UI |
| VSP host list (`dcr/vsp.go`) | the known hosts, the clients by host and account | save, reload, look a client up | HTTP; the fee payment |
| wallet life cycle (`wallet_shared.go`, `dcr/wallet.go`, loader) | open, locked, the encrypted seed, shutdown | create, open, unlock, change of passphrase, delete | the assets manager; the sync |
| assets manager (`assets_manager.go`) | the map of wallets and their rows | create, restore, open, delete, shut down | every wallet |
| accounts, addresses, transaction author, decoder, consensus | little of their own | queries and conversions | the wallet core |
| key-value driver (`badgerdb/`) | transactions of the store | get, put, cursors | the wallet core |
| UI, command line, logging, devices | pages and widgets | calls of the above | everything |

Hard behaviours: goroutines of the UI, timers and callbacks that share records
and objects; requests whose answers are lost after they took effect; several
database writes that belong together and may fail one by one; restarts between
them; channels and cancel functions kept in fields that others overwrite.

What makes each component correct:

- *fee payment*: the fee of a ticket is paid once; a payment that has a fee
  transaction goes on until the fee is confirmed; the record names the
  transaction the VSP has; no coins stay reserved for nothing.
- *sync session*: one syncer at a time; it can always be cancelled; the cancel
  returns when it is over; what the wallet shows agrees with what runs.
- *transaction store*: the coins and the balance are those of the main chain,
  whatever was rolled back, disapproved, rescanned or interrupted; the marker
  passes no block that was not looked through; unmined transactions, the marks
  they leave and the coins they use go together.
- *rescan*: one at a time; a cancelled one leaves no flag set; a reindex sees
  every block.
- *transaction index*: it holds every transaction of the wallet up to the last
  indexed block, through reorganisations and crashes.
- *ticket buyer*: one buyer at a time, the one the page can stop; one that is
  stopped ends; a ticket can be mined, and only at the price it pays.
- *fee phases, host list*: what the UI shows is never older than the last
  change it made.
- *life cycle*: a failed change of passphrase leaves the old one valid; a
  deleted wallet is not opened, an open one not deleted under a running sync.

`PROJECT.json` lists the components with their sources and status, the hazards
at their lines, and the lines each definition models.

## VspFee: the fee of a ticket

### State

One ticket of one VSP host is enough: payments of different tickets share no
state but the wallet's coins. `record` is the ticket's row; `store` and `unpub`
the fee transactions in the wallet and those flagged unpublished; `vsp` what the
VSP knows; `ticket` whether it can still vote. `jobs`, `owner`, `feeTx`,
`feeHash`, `quoted`, `timer` and `procMu` are `VSPClient.jobs` and the fields of
`vspFeePayment`. A fee transaction stands for its coins: `NoTx`, `Unfinished`
(outputs and inputs but no signatures) or one of `Txs`. `thread` holds the
goroutines; `pc` names the statement a goroutine is about to run. Steps end at
every database write, VSP request and mutex.

Objects no one refers to any more (`Garbage`, `Unknown`) stand for newly
allocated ones, so that behaviours are unbounded with few names.

### Actions

| code | actions |
|---|---|
| `purchaseTickets`, `ProcessUnpaidVSPTickets`, `ProcessManagedTickets` | `Purchase`, `ProcessUnpaid`, `ProcessManaged`, `ManagedLookup`, `ManagedStatus`, `ManagedMark` |
| `VSPClient.Process` | `ReadRecord`, `LockProcMu`, `QuoteForProcess`, `MarkErrored`, then `MakeFeeTx` ... |
| `VSPClient.feePayment` | `LookupJob`, `CreatePayment`, `MarkStarted`, `RegisterJob`, `ArmTimer` |
| `schedule`, `task` | `TimerFires` |
| `reconcilePayment` | `Reconcile`, `QuoteForReconcile`, `MarkTooHigh`, `MarkPaid`, `MarkRejected`, `AbandonRejected`, `EndSubmit` |
| `makeFeeTx`, `CreateVspPayment` | `MakeFeeTx`, `RecordFeeTx` |
| `submitPayment` | `Submit`, `FeeExpired`, `MarkExpired` |
| `confirmPayment` | `Confirm`, `MarkConfirmed` |
| the VSP, the network, the ticket, a crash | `VspProgress`, `VspBroadcastFails`, `WalletSeesFeeTx`, `TicketEnds`, `Restart` |

`Faults` chooses what goes wrong: `net` (a request fails before or after it took
effect), `write` (a database write fails as a whole), `abandon`
(`AbandonTransaction` fails), `crash`, `tooHigh` and `cannotVote` (the VSP's
quote is refused), `reject` (the VSP refuses, lets expire or cannot broadcast a
fee), `ends` (the ticket expires, is spent or is dropped).

Abstracted: amounts, delays and the number of retries. A timer that is set may
fire at any time.

### Runs that hold

| run | faults | properties |
|---|---|---|
| `refused_fees` | net, reject, write | `SubmitsFinishedTx`, `NoLeakedTx`, `FeeTxLifeHolds` |
| `restarts` | net, write, crash, ends, abandon | `TypeOK`, `RestingTxFinished`, `PaidNamesHeldTx`, `ConfirmedIsTrue` |
| `fee_liveness` | net, ends, tooHigh, cannotVote | `PaymentCompletes`, `EndedTicketIsDropped` |

Bounds: one client, two goroutines, two payments, two transactions (one
goroutine for liveness). Two goroutines are a timer against a caller, the race
the code guards with `procMu` and with its second look into `jobs`; two
payments are the one that loses that race and the one that wins; two
transactions are the one given up and the one made after it. The safety runs
use symmetry over all four sets, the liveness run none.

`FeeTxLifeHolds` is a refinement: the place of each fee transaction in the
wallet (absent, unpublished, published), the one the VSP holds and whether it
is on the network follow `FeeTxLife`. In particular the wallet never abandons
what the VSP holds, and shows nothing as published before the VSP broadcast it.

Limits found while choosing the faults, each a real state of the code:

- `NoLeakedTx` fails with `crash` (the program stops between the wallet's write
  of the transaction and the record of its hash, FP:392-398), and when a failed
  abandon or a ticket that ends follows a failed write: nothing finds that
  transaction again.
- `PaidNamesHeldTx` fails with `reject`: a fee the VSP first let expire may be
  broadcast by the VSP after the wallet built another.
- `PaidNamesHeldTx` and `FeeTxLifeHolds` fail with `tooHigh`: a quote above the
  policy removes a payment that another goroutine still holds, and the next
  caller makes a second one for the ticket.
- a payment removed between its registration and its first schedule, or by
  `confirmPayment` before a failed write (FP:700), stays scheduled without a
  client; its attempts end by themselves.

### Departures

Behaviours of the code that the model has and no property covers:

- two goroutines may build or submit fee transactions of one ticket at once:
  `procMu` (FP:47-49, whose comment says they must not) belongs to a payment, and
  payments to a client, of which a host has one for each account
  (`libwallet/assets/dcr/vsp.go`); TLC finds it with two clients and no faults.
  What is kept is one attempt per payment (`OneAttemptPerPayment`);
- `Process` read the record before it waited for `procMu`: when the attempt it
  waited for paid the fee, or pruned the record of an ended ticket, it writes
  the record as errored all the same (VSP:314, against VSP:341-342 and the test
  `vsp_feepayment_test.go:313-314`);
- a fee restored from the VSP is dropped when one status answer is lost
  (FP:479): nothing waits for its confirmation until the next start;
- a status of the VSP is written after another goroutine recorded a later one,
  so that a confirmed fee is "paid" again (VSP:241);
- a failing `SetPublished` (FP:690) is only logged and the payment goes on: the fee tx
  then stays flagged unpublished. The model's `Confirm` has no such failure;
- a restored wallet confirms a fee without knowing its transaction: the record
  then holds a zero hash (FP:704, FP:189-191).

### Fairness

`Fairness` of `VspFee` says that the scheduler runs every goroutine (weak
fairness of `Run`), that Go mutexes starve nobody (strong fairness of
`LockProcMu`: the lock is taken and freed over and over), that a timer left
alone fires, and that requests, builds and the VSP succeed at last if tried
again and again (strong fairness of the successful outcomes). Nothing makes
the UI call, a ticket end, or the wallet see the transaction.

## SpvSync: the sync session

### State

The fields of `SyncData` have their names. A session's id names its context,
its `syncCanceled` channel and its `activeSyncData`, which are created together.
`discovery[s]` is the field `addressDiscoveryCompletedOrCanceled` of session
`s`; the channel itself has the name of the context that made it. `job` is the
goroutine of a syncer or of a `DiscoverUsage`, `updater` that of
`updateAddressDiscoveryProgress`, `caller` a goroutine of the UI. `panic` records
why the program died: a nil `activeSyncData` dereferenced, or a nil or closed
`syncCanceled` closed; then nothing moves.

Steps end where `SyncData` is unlocked, and before each of the reads the code
makes without its lock (`syncCanceled` in `CancelSync` and at the end of a
session, `activeSyncData` in the progress goroutine).

### Actions

| code | actions |
|---|---|
| pages of the UI | `CallStart`, `CallCancel`, `CallRestart`, `CallDiscover` |
| `SpvSync` | `CheckStart`, `InitActive`, `Launch`; its goroutine `RunReturns`, `CloseCanceled`, `StopUpdating`, `Reset` |
| `CancelSync` | `ReadCancel`, `CancelContext`, `ReadChannel`, `Wait` |
| callbacks | `FetchStarted`, `FetchFinished`, `DiscoveryStarted`, `MarkDiscovery`, `DiscoveryEnds`, `DiscoveryFinished`, `UnmarkDiscovery`, `StopProgress`, `RescanStarted`, `RescanFinished`, `Synced`, `PeersLost` |
| `DiscoverUsage` | `TakeSync`, the discovery callbacks, `ClearSync` |
| `updateAddressDiscoveryProgress` | `Enter`, `CheckSyncing`, `Touch`, `Select`, `Selected`, `Publish` |

The syncer belongs to the wallet core. It makes its callbacks one after the
other and returns, at any time between two of them, with an error or because
its context was cancelled. Abstracted: the estimates of the callbacks, the
listeners, the number of peers, and the stage that is shown. The syncer fetches
filters and then headers, and calls back at the start and the end of each;
`FetchStarted` and `FetchFinished` stand for both phases. The callbacks of the headers
(SN:153-297) return early if no sync is on or the phase was begun already, and write
times, heights, the stage and `waitingForHeaders` only. The callbacks that report
progress are left out: they write such estimates and tell the listeners.

### Runs

| run | callers | result |
|---|---|---|
| `sync_one_starter` | one starts and restarts, two cancel | `TypeOK`, `Cancellable`, `ClosesOnce`, `CancelWaits`, `SyncSessionHolds` hold |
| `sync_with_discovery` | one starts, restarts and cancels, one discovers | `FieldsAreLive` holds |
| `sync_progress_after_reset` | one starts | `ProgressHasItsData` violated: the progress goroutine meets a nil `activeSyncData` |

Bounds: two sessions in `sync_one_starter`, one in the others. Ids are reused
once nothing refers to them, so behaviours have any number of sessions, of which
two exist at once: the one ending, whose channel and context a slow caller still
holds, and the next. That one goroutine at a time starts a session is an
assumption of `sync_one_starter` that the code does not enforce (see the
departures), and everything else depends on it.

`SyncSessionHolds` is a refinement of `SyncSession`: the mode the wallet shows
and the set of running syncers. A session starts when the wallet shows "off"
and nothing runs, and the wallet shows "off" again only after the syncer is
gone; lost peers leave it "synced" until then.

Departures, in the model and without a property of their own:

- two callers of `SpvSync` may both start a syncer: the check that none runs
  (SY:239, its comment SY:238) and the write that says one does (SY:295) are 55
  lines and several unlocks apart;
- `CancelSync` reads the channel it waits on after it cancelled (SY:369): when
  `resetSyncData` came first, the channel is nil and it waits for ever, with
  those who wait for it;
- the progress goroutine reads the discovery's channel from its field at each
  turn (SN:361), and the field is nil once the channel is closed (SN:457-458):
  a goroutine that was not waiting at that moment goes on until the sync ends;
- `RestartSpvSync` may be refused: the end it waits for is signalled before
  `resetSyncData` (SY:330-332), so that its `SpvSync` still finds a sync on;
- `DiscoverUsage` takes the field `cancelSync` of a running session (SY:556), so
  that `CancelSync` then leaves the syncer running;
- `DiscoverUsage` clears `syncing` before it calls
  `discoverAddressesFinished` (SY:558), which then returns early: its discovery
  is never marked finished.

No liveness is stated of it: the one that matters, that a cancel returns, fails as
said above.

## TxStore: the transaction store

### State

`disk` is the committed store, `db` the store as the open database transaction
sees it, `task` what that transaction has left to do. A chain switch, a batch of
rescanned blocks, a relayed transaction and an abandoned one are one database
transaction each; an action is one method of the store, so that a restart, or an
error of a later method, loses what the earlier ones wrote. `rescan` is what a
rescan keeps between its batches, `phase` where the sync session is.

The fields of the store are its buckets: `chain` (block headers), `records`,
`credits` with the `spent` flag of each, `debits`, `unspent`, `invalid` and the
archive `invCredits` and `invDebits` of disapproved regular trees, `unmined` with
`unminedInputs` and `unminedCredits`, the `balance`, and the `marker`
(`rootLastTxsBlock`). A coin is an outpoint and the block that holds it. What the
network may serve is a constant: a tree of blocks (`ChainTo`, `TxsOf`,
`Approves`), and for each transaction its inputs, outputs, kind and expiry.

### Actions

| code | actions |
|---|---|
| `Wallet.ChainSwitch` | `ChainSwitch`, `Rollback`, `RollbackEnd`, `AttachBlock`, `SaveTx`, `SaveRefused`, `SwitchEnd` |
| `Store.Rollback`, `ExtendMainChain`, `stakeInvalidate`, `stakeValidate` | the operators `RollbackBlock`, `CoinbaseOutputs`, `ExtendMainChain`, `StakeInvalidate`, `StakeValidate` |
| `InsertMinedTx`, `moveMinedTx`, `addCredit`, `processTransactionRecord` | `SpendCredits`, `RecordMinedTx`, `MoveMinedTx`, `AddCredits`, `Refused`, `ProcessTransactionRecord` |
| `RemoveUnconfirmed`, `removeDoubleSpends`, `PruneUnmined`, `InsertMemPoolTx` | the operators of the same names |
| `Wallet.rescan`, `saveRescanned`, `rescanPoint` | `HeadersEnd`, `RescanFrom`, `ListBlocks`, `SaveRescanned`, `SaveBlock`, `SaveEnd`, `MarkRescanned`, `RescanFails` |
| `AddTransaction`, `AbandonTransaction` | the actions of the same names |
| a crash, a session that ends | `Restart` |

### Runs

| run | result |
|---|---|
| `store_chain_switches` | all invariants below hold |
| `store_ska_reorg` | `UnspentIsListed` violated: a rolled back block spent SKA, and its coin stays out of the unspent ones (TM:2405) |

`CoinsMatchChain` is the promise of the store: once no block is left to rescan,
the unspent coins are those a function of the main chain says (`CoinBlock`), and
the balance, kept by increments, is their sum. `MarkerIsHonest` says why that
state is reached: the marker never passes a block that was not looked through.
`SpentHasDebit`, `OneCoinPerOutput`, `MarksAreLive`, `UnminedIsNotMined` and
`NoOrphans` relate the buckets; `RescanAddsNothing` says that a batch saved again
changes nothing.

Bounds. The tree is drawn at the head of `MCTxStore`: four branches, of which one
disapproves a block and holds its transaction again, and one replaces all the
others. The seven transactions are a coinbase, a payment, a double spend of it, a
spender of its change that expires, a ticket, its vote and an incoming payment.
`MaxBlocksPerRescan` is 2, so that a rescan has several batches and a switch
comes between them. The SKA run has one such coin.

Assumption: `MCFetched` lets no chain that was replaced come back while a session
starts. With `MCFetchedAgain` it does, and `MarkerIsHonest` fails: `Rollback`
(TM:2218-2608) leaves the marker where it is, so that blocks attached again
without their transactions are below it (TM:352-363 read it against the main
chain). A restart between two reorganisations is what it takes. `TxStore` states
what the proofs rely on for any tree: `NoReturn`, which is this assumption,
`ValidChains`, what consensus says of the blocks, and `NoSpendsWithin` and
`NoDisputes`, which exclude departures below. TLC evaluates them on the tree of
`MCTxStore` (`InstanceAssumption`).

Departures, in the model or next to it, without a property of their own:

- an incoming payment no block holds is removed at the next block: its inputs
  are not the wallet's, so that `hasValidInputs` does not find them (TU:444-474;
  the comment TU:359-360 speaks of inputs "double-spent on chain"); the block
  that holds it brings it back;
- a transaction that is unmined, and in a block that is disapproved already, is
  refused with "unimplemented: moveMinedTx called on a stake-invalidated tx"
  (TM:1518-1522), which ends the switch or the rescan (`SaveRefused`);
- after a rollback across a disapproved block two unmined transactions may spend
  one output: `MarksAreLive` holds of the last one only;
- a disapproved block whose transactions spend one another leaves the output
  between them in the unspent bucket (TM:1004-1010); no block of the tree has
  such a chain;
- the check for a gap before the marker moves is one block generous (CN:220);
- a rescan that fails saves the batch under way, and only its last error is seen
  (RS:339); its goroutine may be left behind.

## TxIndex: the transaction index

### State

The wallet's store is external: `tip`, and the transactions it has seen
(`known`). `rows` holds for each transaction the height its row shows, and
`spenders` the tickets whose row names their vote; `point` is the last block
indexed and `old` says that the rows are of an older decoder. `listening` and
`notes` are the listener and the reports on their way to it. `pc`, `migrating`,
`holder` (of `dbMutex`) and `work` are the goroutines that index: `work` has what
the pass under way read, decoded and not yet committed.

Three variables are history: `gap` says why rows may be missing below the point,
`late` which rows were saved from a report older than the tip, `blind` which tickets
are written without their vote. The actions write them and none reads them: they
record what the code does without a pass that makes it good, and the properties
except exactly that (see the exemptions below).

### Actions

| code | actions |
|---|---|
| `syncedWallet`; the end of `RescanBlocksFromHeight` | `SyncedWallet`; `RescanEnds` |
| `IndexTransactions` | `CheckVersion`, `Lock`, `Snapshot`, `DecodeBlock`, `DecodeUnmined`, `Resolve`, `CommitBatch`, `Stamp`, `SaveVersion`, `Abort` |
| `ClearSavedTransactions`, and its callers when it fails | `Drop`, `Reset`, `ClearFails` |
| `listenForTransactions` | `ListenerSave`, `ListenerNext` |
| the wallet core | `ChainSwitch`, `AddTransaction` |
| the session's end, a crash | `SessionEnds`, `Crash` |

### Runs

| run | result |
|---|---|
| `index_passes` | `TypeOK`, `NothingLost`, `SpenderKept`, `PassEnds` hold |
| `index_cleared_under_pass` | `StampIsTrue` violated: a rescan clears the index while another goroutine's pass is under way, which then stamps its end (TI:297) |

`NothingLost` is the promise: a pass begins `MaxReOrg` blocks behind the point,
and every transaction of the main chain below that has its row at its height. It
holds while there is no gap, through aborts at any step, writes that fail, crashes,
migrations, chain switches and two goroutines at once; a migration that is
interrupted makes a gap only while the version says so. `SpenderKept` is about one row
that two writers share, the ticket's: the decode of a vote writes it at once, a pass
that holds the ticket writes it at its commit. `PassEnds` is that a pass that waits
for the lock ends. `StampIsTrue` is what the comment TI:268-272 says of the stamp.

Bounds: two goroutines, a session's and a rescan's, so that a pass waits for
another, is cleared under, or follows one that crashed; two transactions, a ticket, which may be relayed and
indexed before it is mined, and its vote; a genesis and two branches of heights 1 and 3;
`MaxReOrg` 1, so that the tip is replaced under a pass, and a pass begins above genesis
and above the ticket. Batches of two rows hold ticket and vote, or one of them; a pass
from 0 has a second batch after a full one, for what is unmined, and may abort between
the two. Rescans begin at 0 or at 3, which is above what the next pass visits.

What the properties except. Each row is a behaviour of the code; with its exemption
removed TLC finds a loss in this instance:

| exemption | what the code does | where |
|---|---|---|
| `gap` "open", until a pass from 0 | a rescan cleared the rows; if the program stops, or the write of the point fails, between the two writes, the point stays above them and nothing repeats the clear | SV:126-131, TI:297-300 |
| | the rows were cleared while another goroutine passed, which stamps its end | TI:297 |
| | the rows were cleared for a newer parser, and before the point was written a pass began behind the old one | TI:112-118, SV:131 |
| | a rescan that began at a height sets the point to it, also upwards, past what an aborted pass has not indexed | AR:105 |
| `gap` "redo", while `old` | rows cleared for a newer parser, and no pass yet | TI:112 |
| `late` | the listener saves the rows of a report when the chain has moved on already | TN:32-81 |
| `blind` | the vote's row is saved after a flush looked for it and before the flush commits its ticket | TI:163 |
| | the ticket's row is saved when a pass has decoded its vote and not committed it: neither finds the other | TP:136-163 |

A pass that begins at 0 ends any gap. Saving the parser version before the pass, as
the comment TI:102-106 tells of an earlier program, is found as a violation of
`NothingLost`.

Departures, in the model or next to it, without a property of their own:

- a row a pass decoded before the listener saved a newer one is written over it,
  until the next pass (TI:291);
- the listener ignores detached blocks: rows of a replaced block keep their
  height until the next pass;
- the listener returns at the first row it cannot decode or save, without
  `n.Done()` (TN:36, TN:43): the notification server then blocks on a channel
  nobody reads, and the wallet's next notification with it;
- when the sync is cancelled it calls `n.Done()` and loops: until its channel is
  closed it may call it again, or handle one more report (TN:97-98);
- a save outside a batch is three database writes (SV:22-56), and the listener decodes
  a row before it saves it; `ListenerSave` is one action;
- `IsRescanning` is checked in the caller (AR:24) and set in the goroutine it
  starts (AR:39-42), so that two rescans may run at once.

### Fairness

`FairSpec` says that a goroutine that can take a step of its pass takes one (weak
fairness of `Pass`) and that Go's mutex starves nobody (strong fairness of `Lock`:
the lock may be taken and freed over and over). Nothing makes blocks arrive, the
listener read, or a pass fail.

## TicketBuyer: the automatic ticket buyer

### State

A buyer is a start of the loop: it names the context and the goroutine that
`StartTicketBuyer` makes. `registered` is `cancelAutoTicketBuyer`, by the buyer it
cancels; `cancelled` the contexts that are. `starter` is a confirmation of the
password modal, which runs in a goroutine of its own. `clients`, `draining` and
`mu` are `tipChangedClients`, the channels that `Done` reads empty, and the
mutex of the notification server; `server` is the chain switch that notifies.
`buyer[b]` holds `pc`, the statement the goroutine is about to run, and the
variables of the loop and of the purchase in it: the height of the tip it was told
of, `nextInterval` (`nextIntervalStart`) and `expiry`, which outlive a turn; the
price read, the tickets left to make and those recorded and not yet published,
and the state of the split.

Steps end at each acquisition of the server's mutex, at the two database views
of `purchaseTickets` and at each publication. Only the contention on `mu` is
modelled: who else takes it (a listener that registers, transactions of peers)
frees it again without waiting for a buyer. Abstracted: amounts (a balance is the
number of tickets it pays, chosen freely), a price (the interval it holds for),
the VSP (its answers are failures that end a start or a fee), and
`fatal` with `outerCancel`, one flag. Blocks are only attached: `MaxAttach` at a
time, never replaced.

### Actions

| code | actions |
|---|---|
| the page's modal and toggle, `StartTicketBuyer`, `StopAutoTicketsPurchase` | `StartTicketBuyer`, `Refuse`, `Register`, `Halt`, `Stop` |
| `ChainSwitch`, `notifyMainChainTipChanged` | `Attach`, `LockToSend`, `SendTo`, `AllSent` |
| `MainTipChangedNotifications`, `Done` | `Subscribe`, `Drain`, `Deregister` |
| `runTicketBuyer` | `CannotRun`, `Receive`, `NotSynced`, `Fail`, `Plan`, `LeaveLoop`, `EndBuyer` |
| `buyTickets` | `GiveUp`, `WrongPassphrase` |
| `purchaseTickets`, `individualSplit`, `publishAndWatch` | `CheckExpiry`, `ReadPrice`, `RecordSplit`, `PublishSplit`, `RecordAgain`, `PublishAgain`, `RecordTicket`, `SendTicket`, `RecordFee`, `EndPurchase` |
| `AbandonTransaction` | `AbandonSplit`, `AbandonTicket`, `AnnounceRemoval` |

### Runs

| run | result |
|---|---|
| `buyer_purchases` | `TypeOK`, `RegisteredIsLive`, `PaysItsInterval`, `CanBeMined`, `StoppedEnds`, `TipIsSent` hold |
| `buyer_deadlock` | `HandlerNeedsNoSender` violated: a block attached during a purchase (NT:957) |

`RegisteredIsLive`: the toggle shows a buyer as running exactly if one runs that
was not told to stop, and it is the one the toggle would stop. Goroutines that
end, confirmations that fail and the toggle all clear the registration.
`PaysItsInterval` is why tickets expire: the expiry is set for the tip of the
notification, the price is read blocks later, and still no block that may hold
the ticket has another price. `CanBeMined` is why the last block but one of an
interval is skipped (TK:794). `StoppedEnds` and `TipIsSent` are the liveness of the
buyer and of the chain switch; both are stated up to the deadlock below.

The deadlock: the server sends each tip under its mutex, on channels without a
buffer. The buyer purchases within the turn in which it took the last tip, and
every transaction it records or abandons takes that mutex. A block attached
meanwhile leaves the server waiting for the buyer and the buyer for the server,
within a write transaction of the database. The comment TK:776-778 ("Cancel any
ongoing ticket purchases") and the list `cancels` are of a loop whose purchases
ran beside it; now a purchase is over before the next tip is taken, and they
cancel nothing.

Bounds: two starts, so that a start meets the goroutine of the one before it,
ending, draining or purchasing still; an interval of four blocks and tips from 3
to 7, attached one or two at a time, so that a turn falls on a first, a kept, a
skipped and a last height of an interval, a window lies after the next
interval, and the price changes between a turn and its purchase; at most two
tickets, so that a loop over them fails at the first or the second.

Fairness: a goroutine that can take a step takes one (weak fairness of each
buyer's steps and of the server's), which includes that peers, the VSP and the
database answer. The server's mutex needs no strong fairness: a chain
switch is the only one that holds it across steps, and Go's mutexes hand over to
who waits. Users start and stop when they please, blocks come or do not.

Assumptions and departures:

- one confirmation at a time (`Starters` has one member). The modal does not
  enforce it: Enter in its editor confirms again while the first confirmation is
  under way (`create_password_modal.go:261`, without a look at `isLoading`). With
  two, `RegisteredIsLive` fails: both find no buyer running (TK:645) and register
  one after the other (TK:692), and the first buyer then purchases with the
  passphrase it holds until the program ends;
- the end of a buyer stops whichever buyer is registered (TK:710), also one that has
  just started: toggle off, toggle on again, and the last call of the first goroutine
  cancels the second buyer. One confirmation at a time is enough for that; the model
  has it, and `RegisteredIsLive` permits it: what is registered and running agree;
- the intervals have more than one block (`BuyerAssumption`): with one, every
  ticket would expire before a block after its split's;
- a ticket that cannot be published is abandoned, but the purchase ends there
  (CT:2252), as it does when the buyer is stopped (CT:2237): the tickets after it
  stay recorded, with their inputs, and are neither sent nor abandoned until they
  expire;
- the split is published twice (CT:1685, CT:2067), and abandoned when the second
  time fails although peers have it from the first, which is what
  `spv/backend.go:464-468` is careful to avoid;
- the manual purchase locks the wallet when it ends (TK:200), also under a running
  buyer; the buyer unlocks it again at its next purchase.

## Proofs

`VspFee_proofs` proves, for any sets of clients, goroutines, payments and
transactions and any faults, from `ConstantsAssumption` alone (the special
values are not members of the sets):

| theorem | statement |
|---|---|
| `TypeCorrect` | `Spec => []TypeOK` |
| `SubmitsOnlyFinishedTx` | `Spec => []SubmitsFinishedTx` |
| `RestsFinished` | `Spec => []RestingTxFinished` |
| `OneAttemptPerPayment` | two goroutines that attempt have different payments |
| `ConfirmedTruly` | `Spec => []ConfirmedIsTrue` |

The first four follow from the inductive invariant `IInv` (`Inductive`), whose
parts are named: `TypeOK`; `Equipped`, a goroutine has the client, payment, task
and transaction its statement uses; `Owned`, a payment in use belongs to a
client; `Locked`, a goroutine past `LockProcMu` holds the `procMu` of its payment
and no other; `Building`, a half-built transaction exists only while the
goroutine that builds it does; `SubmitsFinishedTx`; `VspHasTx`. `SubmitsFinishedTx`
is not inductive alone: that no other goroutine replaces the transaction between
`MakeFeeTx` and `Submit` needs `Locked`, and that a failed build does not survive
its goroutine needs `Building`. There is one lemma per action
(`<Action>Keeps`), with a step per part; the lemmas on `Goto` and `Return` say
what these do to the types and to `Locked`.

`ConfirmedTruly` splits the steps in two: most leave a confirmed VSP confirmed
and do not write "confirmed" (`QuietStep`); the writers of "confirmed" had the
VSP's word (`ConfirmedStep`), and the VSP does not take it back.

`VspFeeLife_proofs` proves what becomes of the fee transactions, for any goroutines,
payments and transactions:

| theorem | statement | hypotheses |
|---|---|---|
| `FreshTxIsOwn` | `Spec => []Grounds` | none |
| `OnePaymentAtWork` | `Spec => []OnePayment` | `OneClient`, `Serves` |
| `HeldFeeIsSettled` | `Spec => [](Settled /\ JobInStore)` | `OneClient`, `Serves` |
| `PaidNamesTheHeldTx` | `Spec => []PaidNamesHeldTx` | `OneClient`, `Serves`, no `reject` |
| `ImplementsFeeTxLife` | `Spec => FeeTxLifeHolds` | `OneClient`, `Serves`, no `crash` or no `reject` |
| `NoFeeTxLeaks` | `Spec => []NoLeakedTx` | `OneClient`, faults among `net`, `reject`, `write` |

`OneClient` says that the host of the VSP serves one account, `Serves` that no quote
is refused for good (no `tooHigh`, no `cannotVote`). Each hypothesis is needed: the
limits and departures above name what TLC finds without it, and with both `crash`
and `reject` it refutes `FeeTxLifeHolds` (a fee the VSP let expire is forgotten by
the restart, another is built, and the VSP broadcasts the first).

The 45 actions are first reduced to 12 kinds of step (`Steps`), such as `Make`, a
goroutine builds the fee tx of its payment, or `GiveItUp`, it abandons it; later
lemmas have a case per kind. The invariants build on each other:

- `Fitting`: the statement a goroutine is at fits the fee tx of its payment, and
  `feeHash` is the hash of a finished one;
- `Fresh`: a transaction just made is known to its goroutine and nobody else;
- `OnePayment`: while the ticket can vote, all who work or are scheduled work on the
  registered payment; the one that lost the race for the registration has not
  begun;
- `Settled` and `JobInStore`: while the VSP holds a fee nobody makes one or is about
  to give one up, and the wallet has what would be submitted;
- `OneFee`: where nothing is refused there is one fee tx, known to the record or the
  payment until the VSP has it; `HeldIsJobs`: what the VSP holds is the payment's;
- `Unleaked`: an unpublished one is the payment's or was just made.

`PaidNamesHeldTx` is far from inductive: that a restart, a failed write or a lost
answer leads to no second transaction needs `OneFee`, and that no other
goroutine makes one needs `OnePayment`.

`SpvSync_proofs` proves, for any sets of callers and sessions, from
`CallersAssumption`:

| theorem | statement |
|---|---|
| `TypeCorrect` | `Spec => []TypeOK` |
| `FieldsStayLive` | `Spec => []FieldsAreLive` |
| `AlwaysCancellable` | `Spec => []Cancellable` if `OneStarter` |
| `OnceClosed` | `Spec => []ClosesOnce` if `OneStarter` |
| `CancelWaitsForSyncer` | `Spec => CancelWaits` if `OneStarter` |
| `ImplementsSyncSession` | `Spec => SyncSessionHolds` if `OneStarter` |

The first two need only `IInv`: with the types, that a caller about to use a
context has one (`Pointed`). `OneStarter` says that one goroutine starts sessions
and that nobody calls `DiscoverUsage`; any number may cancel. Without it the rest
is false: two callers may both start. The argument is `OneStarterInv`:
`SessionOwnsFields`, a session that has not ended is the one `cancelSync` and
`syncCanceled` name, and its channel is closed once and at its end.
To keep that when the next session starts, `StartsAlone`: between the check of
`SpvSync` and its launch nothing else can start, and the new context is nobody
else's. `ShownSessionExists` is what the refinement needs when `syncing` and
`synced` are cleared, `WaitsOnItsChannel` what a caller that is woken needs to
know which session woke it. A lemma per part (`<part>Step`), one step per action.

`TxStore_proofs` proves, for any tree of blocks and any transactions, from
`TreeAssumption` and `TxAssumption`:

| theorem | statement |
|---|---|
| `TypeCorrect` | `Spec => []TypeOK` |
| `MarksHold` | `Spec => []MarksAreLive` |
| `MarkerStaysHonest` | `Spec => []MarkerIsHonest` if `NoReturn` |

`MarksAreLive` is not inductive alone: it is about `disk`, and a commit copies
`db`. The invariant is that both stores are well typed and have only live marks
(`Good`), and that the task and the rescan are typed; there is one lemma for each
method of the store that says it keeps `Good`, so that the proof of a step only
names the methods it calls. Three of them do the work: `RemoveUnconfirmed`, which
takes a set closed under spending; `MoveMinedTx`, which clears the marks of what
it moves; and `RollbackBlock`, which sets them.

`MarkerStaysHonest` also needs `ParentAssumption` (a header names its parent, so
that the chain to a block is its parent's and the block). `NoReturn` is the
assumption on `MCFetched` stated of any tree: of three chains in the order of
their lengths, the first and the last served to sessions that start, what these
two share the middle one has. Without it the theorem is false, as said above.
The proof reads a block as the chain to it, and the chain as the set of its blocks
(`Line`), so that a fork is an intersection. Its invariant, `MInv`, is:

- `Honest`, of `db` and of `disk`: a block on the marker's line and the main
  chain's is recorded; and `Behind`: the marker is on the main chain, or a
  session that started has taken the tip from the served chains past it;
- `SwitchTo(b)`: a switch under way rolls back to the fork (`Rolling`) or attaches
  up to `b` (`Attaching`), and brings no block back that is on the marker's line;
- `Phases`: the marker is the tip while the session is up, which is why the gap
  check of `SwitchEnd` is never decided by its generous block there;
- `Listed`: what the rescan of a starting session has behind it is recorded, listed
  or in the open database transaction, so that the marker may follow.

A lemma for each method of the store says what of this it can see (`View`), and
one for each action that it keeps the invariant (`<action>Keeps`).

`TxStoreCoins_proofs` proves what the buckets say, from the same assumptions:

| theorem | statement, if `NoReturn` and `Orderly` |
|---|---|
| `CoinsAreTheChains` | `Spec => []CoinsMatchChain` |
| `SpentCoinsHaveDebits` | `Spec => []SpentHasDebit` |
| `OutputsHaveOneCoin` | `Spec => []OneCoinPerOutput` |
| `UnminedStandsNowhere` | `Spec => []UnminedIsNotMined` |
| `RescansRepeat` | `Spec => RescanAddsNothing` |

`Orderly` is `ValidChains` (a transaction is in a block once and counts once in a
chain, is alone to spend its inputs, and comes after what it spends: the consensus
rules the wallet leaves to its peers), `NoSpendsWithin` (no regular transaction of a
disapproved block spends an output of that block) and that the wallet owns no SKA
output. Without the second a departure above begins, without the third
`store_ska_reorg` shows the rollback that loses a coin; TLC evaluates the first two,
`NoReturn` and `NoDisputes` (below) on the tree of `MCTxStore`.

A transaction stands in a block if it is recorded there and the block is not
disapproved for it (`Stands`). The invariant, `CoinInv`, is in six parts:

- `Account`, of the store: the chain is a line of the tree, what is recorded is in
  it and `invalid` are the disapproved blocks (`Lines`); what comes before a record
  is recorded (`InOrder`); credits are the outputs of what stands, debits their
  inputs, and the flags, the unspent coins and the balance follow (`Books`); what
  does not stand is in the archive, ready to come back (`Archived`);
- `Settled`, of what is committed: with `Account`, nothing unmined stands and the tip
  is not disapproved;
- `Midway`, of the open transaction: inside a switch an unmined transaction may stand
  in the block at the fork, which the next block disapproved and another approves,
  and in no other; `PruneUnmined` at the end of the switch removes it
  (`PruneSettles`);
- `Remaining` and `Scanning`: transactions are saved in the order of their block, and
  blocks in the order of the chain, so that what a transaction spends is there;
- `Unwritten`: a rescan of what the marker has passed has changed nothing so far.

There is a lemma for each method of the store on `Account` and one for each action
(`<action>Counts`). `InOrder` is what makes a rescan count right: a debit is written
only for a coin that is there when its spender is saved. `CoinsMatchChain` then needs
`MarkerIsHonest` too: where no block is left to rescan, all is recorded, and what
stands is what counts.

| theorem | statement, if `NoReturn`, `Orderly` and `NoDisputes` |
|---|---|
| `NothingIsOrphaned` | `Spec => []NoOrphans` |

The store finds the spenders of an output it removes by the mark on it, which names
one unmined transaction. After two of them spent one output (a departure above) the
mark names the last, and the removal of the other takes it away: `NoOrphans` needs the
marks to be exact for the outputs that can go or that a ticket spends, the delicate
ones. `NoDisputes` says of the network what that takes: what a transaction of a
disapproved block spends of them no other spends (a double spend of other outputs
may be, as on the tree of `MCTxStore`), no ticket spends its coinbase, tickets spend
outputs of the wallet, and a vote is in a block above the one it votes on. The
invariant, `SpendInv`, added to `CoinInv`:

- `Exact`: the mark of a delicate output names the unmined transaction that spends it,
  and `Alone`: nothing that is recorded spends it too;
- `Funded`: what makes the outputs an unmined transaction spends is known. In a switch
  that holds only of tickets, and but for the outputs of the coinbases rolled back
  (`task.orphaned`), whose spenders `RollbackEnd` removes; the prune at the end of the
  switch checks the others by their inputs (`HasValidInputs`);
- `ForTip`: the unmined votes are for the tip; in a switch they are for a block below
  its end (`ForPast`), so that the prune takes them all.

`TxIndex_proofs` proves, for any goroutines, batches, chains and transactions,
from `ChainAssumption` and `IndexAssumption`:

| theorem | statement |
|---|---|
| `TypeCorrect` | `Spec => []TypeOK` |
| `NothingIsLost` | `Spec => []NothingLost` |

There are no other hypotheses: what the code gets wrong is excepted in `NothingLost`
itself, by the history variables. The argument is `IInv`, that is `TypeOK`, `Control`
and `Progress`:

- `Control`: who passes holds the lock, and only the holder passes (`HoldsLock`);
  rows cleared for a newer parser are under an old version, and no pass has begun
  since (`RedoIsOld`);
- `Progress`: the point is not above the tip (`PointIsReached`); the rows behind it
  are there (`PointIsSound`), as are those behind where a pass under way began
  (`BeginIsSound`); the snapshot and the main chain differ in the last `MaxReOrg`
  blocks of the snapshot at most (`SnapshotHolds`); what the pass has ranged is pending
  or has its row (`Covered`); and a pass stamps only when it has ranged all
  (`StampIsDue`). The parts about rows hold while there is no gap.

`NothingLost` alone says nothing of a pass under way, whose snapshot is older than
the tip and whose pending rows are not in the index; `Covered` with `SnapshotHolds`
is what makes the commit and the stamp keep it. There is a lemma per action.

| theorem of `TxIndexSpender_proofs` | statement |
|---|---|
| `SpenderIsKept` | `Spec => []SpenderKept` |

from the same two assumptions. The invariant adds to `SpenderKept` what a pass knows of
the tickets and votes it holds, each part up to the `blind` tickets. It begins with
nothing pending (`NonePending`); the ticket of a vote that is pending is named by its
row, is pending too or has no row (`VotesPlaced`); a ticket that is pending, and whose
vote has a row, is named by its row or was found to be spent (`SpendersFound`); and at
the commit a ticket that is pending is found to be spent if its vote is pending or has
a row (`SpendersResolved`).

`TicketBuyer_proofs` proves, for any number of starts and confirmations, any
interval above one block and any bounds, from `BuyerAssumption`:

| theorem | statement |
|---|---|
| `TypeCorrect` | `Spec => []TypeOK` |
| `TicketsPayTheirInterval` | `Spec => []PaysItsInterval` |
| `TicketsCanBeMined` | `Spec => []CanBeMined` |
| `OneLiveBuyer` | `Spec => []RegisteredIsLive` if `OneStarter` (one confirmation at a time) |

The invariant is `Inv`: of every buyer, `Good`, which is about its record and the
height of the tip alone, so that a step of one buyer is a lemma about one record.
`Counted`: the tickets left and made are at most `MaxBuy`, and none is made before
its step. `Near`: the interval the loop knows starts at most a window after the tip,
and if it is far, the expiry is its start; it is what makes the turns that keep
the expiry of an earlier one (TK:779) right. `Expires`: the tickets expire where the
interval of the block after the split's ends. Then the price that is read, of
whatever tip, is that of all blocks below the expiry, because `CheckExpiry` saw
one. For `OneLiveBuyer`, `Control` adds that no buyer is registered while a
confirmation asks for the VSP's fee, and that a context not yet given to a
goroutine is not cancelled.

Every safety invariant and action property of the runs that pass is a theorem, under the
hypotheses stated with it. Only model-checked: liveness and fairness, which are out of
the proof system's reach (`PaymentCompletes`, `EndedTicketIsDropped`, `PassEnds`,
`StoppedEnds`, `TipIsSent`).

## Plan

Done: `VspFee`, `SpvSync`, `TxStore`, `TxIndex` and `TicketBuyer`, each with its
proofs. Left:

1. `Rescan`: the asset's `rescanning` and `cancelRescan`, composed with `TxIndex`
   over `SyncData`: check-then-set, the overwritten cancel function, the reindex
   after a cancel.
2. `VspHosts` and `FeePhases`: a reload against a save, a cached phase against
   the record it was read from.
3. `WalletLife` and `Assets`: passphrase changes with their undo, open, delete
   and shutdown against a running sync.

## Not modelled

The models cover five subsystems of a large tree: most of the lines under `src/`
are the vendored wallet core (generated RPC stubs, JSON-RPC methods and servers,
the peer-to-peer layer, key derivation and addresses, schema upgrades of the
database) and the UI, and no module stands for them.

Of the transaction store: ticket commitments, multisignature outputs, revocations
and treasury spends, the unpublished flag (it is in `VspFee`), accounts, the
birthday block, `recentlyPublished`, and the balances computed from the store. Of
the index: the decoding of amounts and labels, and the queries. Of the sync: the
estimates, listeners and peers.

Of the ticket buyer: the manual purchase, `RecoverUnregisteredVSPTickets` at a
buyer's start, its configuration, amounts and reserved outputs, mixing (which is
off), and reorganisations, under which a height may have two prices.

The VSP host list, the fee phases, the wallet's life cycle and
the assets manager are in the plan above.

The UI, start-up, logging and device code only call the components above or do
input and output. The key-value driver is taken at its word: a database
transaction is atomic. Accounts, addresses, decoding and the transaction author
are conversions over the wallet core, whose operations appear where the models
use them (`CreateVspPayment`, `AbandonTransaction`, `SetPublished`,
`UnprocessedTickets`, the syncer's callbacks). Consensus and treasury voting are
one call each.
