# CoinPaymentsLib in TLA+

ZAMS (`src/zams`) is a wallet server: it follows the chain of a `zcashd` node, records
the shielded notes and transparent coins of a set of accounts in PostgreSQL, tells a
listener about every change, and builds payments that an offline signer signs. This
directory models it in TLA+, checks the models with TLC and proves theorems about
them with TLAPS.

Heights in the models count from the Sapling activation; paths below are relative to
`src/zams/src/` unless they start with `src/`.

## 1. Inventory

| Component | Keeps | Operations | Talks to |
|---|---|---|---|
| Sapling wallet tables (`wallet.rs`, `db.rs`) | `blocks`, `transactions`, `received_notes`, `sapling_witnesses` | `advance_by_block`, `rewind_to_height`, `load_checkpoint` | driven by librustzcash's `scan_cached_blocks` |
| Transparent table (`trp.rs`, `db.rs`) | `utxos` | `scan_inputs`, `scan_outputs`, `trp_rewind_to_height` | driven by `scan_transparent` |
| Chain scan (`wallet/scan.rs`, `trp.rs`) | only locals of one call | `scan_chain`, `rewind_to_height`, `load_checkpoint` | both halves above, zcashd, the outbox |
| Notification outbox (`db.rs`, `notification.rs`) | `notifications` | `store_notification`, `notify_tx`, `mark_delivered` | the listener, by one POST |
| zcashd client (`trp/zcashdrpc.rs`) | nothing | `getblockcount`, `getblock`, `z_gettreestate`, `sendrawtransaction` | zcashd |
| Payments (`wallet/transaction.rs`, `db.rs`) | `payments`, and the `payment` column of notes and coins | `prepare_tx`, `sign_tx`, `broadcast_tx`, `cancel_payment` | notes, coins, zcashd |
| Accounts and balances (`db.rs`) | `fvks`, `accounts` | `import_fvk`, `import_address`, `generate_address`, `get_balance` | notes, coins |
| Server (`bin/zams.rs`) | `data_mutex`, one locked PostgreSQL client | the gRPC handlers | everything above |
| Command line client (`bin/cli.rs`) | nothing | the same operations in a process of its own | the database, not the server's locks |
| Keys, signer, .NET wrappers, counters, configuration | nothing | pure functions | |

What makes this code hard:

* zcashd's best chain may change between any two RPCs of a sync, and a sync makes
  hundreds. The shielded half compares only the first block of a batch with the
  database; the transparent half compares each block with what the shielded half has
  just stored.
* The two halves and the outbox commit separately. A failing RPC, a panic (`unwrap`)
  or a crash leaves one ahead of the other.
* A rewind must leave four tables and `utxos` as if the dropped blocks had never been
  scanned, while notes, spends and notifications of orphaned transactions stay.
* Witnesses are advanced from the stored tip only and pruned 100 blocks below it.
* Delivery to the listener is retried and must neither lose nor invent anything.
* A server handles calls on several threads with one database connection behind a
  mutex that a panic poisons; a second mutex keeps syncs apart and blocks the very
  threads that handlers run on. Both the wait for zcashd in `get_balance` and the POST to
  the listener happen under the first.
* Keys are imported and addresses generated while a sync runs, which has read the keys
  before and reads the addresses after; a second process may generate from the same key.
* A payment is prepared, signed offline and sent at three different times, in several
  statements without a database transaction, while blocks and rewinds move the notes,
  witnesses and coins it was prepared with.

`PROJECT.json` lists the hazards line by line, with the properties that cover them.

What makes each component correct: the shielded tables agree with each other and with
the stored chain, every mined note can be spent, every spend on the stored chain is
seen (`SaplingWallet`); `utxos` is what one scan of the chain would leave
(`TransparentWallet`); a sync stores a linked chain, converges to zcashd's, and loses
no coin (`ScanChain`); each change is notified, and delivered at least once
(`Notifications`, `ScanChain`); nothing is promised to two payments, a cancelled payment
gives back all it held, what is selected can be proved and spent, and the paid column
says what zcashd has (`Payments`); an address is given out once, stays its account's,
and what is paid to it is credited (`Accounts`, `Deposits`); every call ends and none
takes the server down for the others (`Server`).

## 2. The modules

| Module | Models |
|---|---|
| `Ledger` | constants all modules share: blocks, transactions, what they create and spend |
| `SaplingWallet` | the shielded tables; one action per database transaction |
| `SaplingWallet_proofs` | their inductive invariant and its proof |
| `TransparentWallet` | the `utxos` table; one action per block, one for a rewind |
| `TransparentWallet_proofs` | its inductive invariants and their proof |
| `ZcashNode` | external: a best chain that is extended or replaced by a longer one |
| `Notifications` | the outbox table and the listener's inbox |
| `ScanChain` | composes the four: one RPC or one database transaction per step |
| `ScanChain_proofs` | the invariant of a sync, and its refinement of the two tables |
| `ScanOutbox_proofs` | the invariant of a sync's outbox and its proof |
| `Payments` | composes the two tables with payments: one handler, block or half rewind per step |
| `Payments_proofs` | the invariants of the locks and of the chain under them, and their proof |
| `Accounts` | `fvks` and `accounts`; generate_address one statement per step, from several connections |
| `Accounts_proofs` | its inductive invariant and its proof |
| `Deposits` | composes `Accounts` with a sync: when it reads keys, tip and addresses, and what it credits |
| `Deposits_proofs` | the invariant of the composition and its proof |
| `Server` | every handler as a task: workers, the two mutexes, poisoning, waits for zcashd and the listener |
| `Server_proofs` | its inductive invariant and its proof |
| `MC*` | ledgers for TLC, each drawn at the top of its module |

**SaplingWallet.** A commitment tree is the sequence of blocks appended to it, a
witness the tree it was advanced to, a nullifier its note. `AdvanceByBlock` is the whole
of `advance_by_block`: the block row, `PutTxMeta`, `MarkAndReceive` (mark_spent and
put_received_note), `InsertAndPrune`, `UpdateExpired`. `Nullifiers`, `Watched` and
`LastTree` are the three queries librustzcash makes before a scan; `Relevant` is its
selection of transactions (external). `RewindToHeight` runs the three statements of the
code in one step and keeps the notes. A transaction that would break the
`witness_height` index rolls back (`WitnessClash`). `floor` and `deep` are history: the
pruning floor, and whether a rewind went below it.

**TransparentWallet.** `ScanBlock` upserts a spent row for each input of a tracked
address and an unspent one for each output, in block order; the upsert keeps the first
height, so a coin whose creation was never scanned has height 0. `scanned` is history.

**ScanChain.** `pc` follows `scan_chain`: `range` (get_scan_range), `open` and `fetch`
(with_blocks, one height at a time), `apply` (one block's transaction, then its
notifications), `transparent` (one block per step), `rewind` and `trprewind`,
`notify` and `mark`. `data_mutex` serialises the Sync and Rewind handlers, so there is
one worker. Every failure (`RpcError`, `PostFails`, `ApplyPanics`, `Crash`) loses the
worker's locals and keeps the tables. `NewBestChain` interleaves with all of it.
`torn` is history: the chain was replaced under a batch that was being fetched.
The shielded tables are an INSTANCE of `SaplingWallet`; `ShieldedTables` checks that the
composition implements its specification, which carries what is proved about
it over to the sync. `TransparentTable` does the same for `TransparentWallet`.

**Payments.** A handler holds the client mutex throughout, so `PrepareTx` is all of
`prepare_tx`: the anchor, the choice of notes or coins (any that the shuffle can
produce), the row and the locks. `PrepareFails` and `CancelFails` stop between two of
the UPDATEs, which run in no database transaction. `BroadcastTx` is zcashd taking the
transaction and `mark_paid`; a refusal changes nothing; `BroadcastUnanswered` is the
transaction taken and the mark not made. The sync is reduced to the steps that move
notes and coins under a payment (`ScanShielded`, `ScanTransparent`, the two halves of a
rewind, `Crash`), over the actions of `SaplingWallet` and `TransparentWallet`;
`RewindTransparent` also drops `utxos.payment` with the row it deletes. The
`unsigned` transaction a client holds records its inputs, the anchor and the roots of
its witnesses. `accepted` (what zcashd has), `asked`, `cancelled`, `unanswered` and
`half` are history or external. A payment's own transaction is not tied to one that a
block of the ledger carries: blocks may spend any note at any time.

**Accounts.** `fvks` and `accounts` have unique keys and lose no rows, so a key stands for
its id and an address for its account. `ImportFvk`, `ImportAddress` are one upsert each;
`generate_address` is `SelectDiversifier` (the SELECT, and the next valid diversifier),
`UpdateDiversifier`, `InsertAccount`, with `Stop` between any two: a statement that fails
or a process that dies. The server runs the three under its client mutex, the command
line client on a connection of its own. A diversified address is the pair of its key and
the index of its diversifier: the code keeps the 88-bit index in two BIGINT columns,
which hold it exactly while it is below 2^63. `Valid` says which indices give
an address (about half do). `issued`, `reissued` and `overlapped` are history.

**Deposits.** One sync step by step: `range`, `keys` (all viewing keys; one that does
not decode fails the sync), `tip` (the second read of the tip), `apply` (a block whose
note decrypts needs the account's row, or the block is rolled back and the sync panics),
`transparent` (addresses loaded, then one block per step). A block is whom it pays, and
pays an account, an address known elsewhere, or nobody here; the chain only grows, since
`ScanChain` has the rest. The sync's own statements wait while the server's connection
is within `generate_address`. `promised` (blocks that paid an account that was there),
`raced` and `skipped` are history. `Rewind` promises again what lies above it.

**Server.** A request is a task that is dispatched to a worker thread, takes `data_mutex`
if it is a Sync or Rewind (keeping the worker while it waits), and then runs sections
under the client mutex. A section that only uses the database is one action; `AskZcashd`
and `Post` take the mutex and `ZcashdAnswers`, `ListenerAnswers` release it. A panic
within a section poisons the mutex, and then every later section is `LockPanics`. The
code has these: `RewindPanics` and `Prepare` on an empty `blocks` table; a sum with an
argument nobody checks (the date, `zams.rs:98`; the amount, `transaction.rs:132`;
`min_confirmations`, `db.rs:339`, where the build checks for overflow), and the date again
when `Query` reads it back (`db.rs:379`); a key `Import` cannot use (`zams.rs:211`, `:215`,
`:259`); and `SectionBreaks`, a section that meets what its unwraps rule out: an answer of
zcashd that is neither an error nor well formed (`zcashdrpc.rs:159`, `:191`), a statement
that the database refuses in `Import`, no runtime to start. `Call` chooses whether a
request comes with such an argument, in `unsound`. Of the tables only the stored heights
and "there is something to deliver" remain; what zcashd says is a free choice. `emptied`,
`unsound` and `broken` are history. `BatchNewAccounts` with a huge count holds the mutex
for as long as its loop takes, which is not in the model: a loop that ends.

Definitions called `Faulty...` (and `OffByOne...`, `Forgetful...`, `Hoarding...`) are
not used by any specification. Each is a plausible slip in the definition after it,
kept to show that a property of a run would notice: `mutants` in `PROJECT.json`.

## 3. What is checked

| Run | States | Shows |
|---|---|---|
| `MCWalletTables` | 10,000 | the table invariants of `SaplingWallet` on two branches with a double spend and a delayed transaction, rewinds to every height, a checkpoint, pruning depth 2; apart from them, that `utxos` replays the scan and keeps no coin of an orphaned block |
| `MCScanChain` | 737,000 | linked blocks, outbox rows and the refinement of `SaplingWallet`, with operator rewinds and a crash anywhere |
| `MCScanFaults` | 61,000 | notifications and witnesses, the refinement of `TransparentWallet`, convergence to the best chain and delivery, with a checkpoint and one failing RPC, POST or process |
| `MCPayments` | 1,530,000 | promises, locks, paid marks, anchors, balances, with two payments, a fork, rewinds, a checkpoint and one failure |
| `MCDeposits` | 1,770,000 | fresh addresses, accounts that stay, credited deposits and progress, with two connections, a malformed key and one failure |
| `MCServer` | 471,000 | a sync's memory is current, what can poison, every call ends, with three calls on one worker |

Bounds: `MaxHeight` (4 or 5), `PruneDepth` 2, `RewindDepth` 2, `MaxChunk` 2, and
`MaxErrors`, `MaxCrashes`, `MaxFaults` at most 1. Every distance the code compares
occurs on both sides: chunks end below, at and above the tip; forks start inside a
batch, at its edge and below it; rewinds go inside, to the edge of and below the stored
range; witnesses are pruned. Real constants are 100, 10 and 1000; the models keep the
rewind within the window (the one relation the code's own comment relies on) except in
`MCScanDeep`, where the chunk is longer than the window, as it is in the code.
`MCPayments` has `MaxHeight` 3, `PruneDepth` 1 and `AnchorOffset` 2, in the code's
proportion (an anchor offset of 10 within a window of 100, and the anchor's own block
still has its witnesses); two payments are the fewest that can exclude each other, and the
amount 2 can be met by one note or coin of value 2, and not by the note of value 1.

`MCDeposits` has two blocks in one or two ranges, two valid diversifiers of one key (the
second is also known elsewhere), a string that is no key, and one failure in all, of a
sync or a `generate_address`. That is enough for an account opened at each point of a sync,
for a range that ends below the tip and one block between the two reads of the tip.
`MCServer` has three calls: a sync, whatever runs into it, and one that waits for both.
One worker is the hardest case, since one waiting handler blocks all of it. The
checkpoint is at 2, and rewinds and the one reorganisation (`MaxReorgs`) go to it, below
it and to 0; a second reorganisation would only repeat a rewind that a Rewind call
already puts at every point.

The ledger of the `MCScan...` runs has a transaction with both kinds of outputs, t3: what
`prepare_tx` makes of a payment to a tracked transparent address. All indices are 0, so
that its two incoming outputs have one key in `notifications`, and so have the spend it
makes and the later spend of its coin.

Fairness: `WF(Sync)` because zcashd runs `newblock.sh`, a Sync call, on every block
(`src/docs/build.md:76`), `WF(Work)` because a handler that is neither blocked nor dead
goes on. Nothing is assumed of the chain or of failures except that they are bounded.
`scan_faults` therefore says: once the chain and the failures settle, the sync does too.

In `Deposits` the same, and `WF(Generates(Server))`: the server finishes what it started;
the other connection may stop for ever. In `Server` each handler that can go on does, and
zcashd and the listener answer (the listener its own way in `MCCallback`). A std mutex
promises no order, so `Answered` is claimed for the finite set of calls that are made,
not for an endless stream of them.

Deadlock is checked in every run but the two of `Server`, which is done when all its
calls are.

### Disagreements with the documentation

Each is a run that ends in a violation; `findings` in `PROJECT.json` quotes the text.

| Run | Property | What happens |
|---|---|---|
| `MCExpiry` | `ExpiredSpendsReleased` | `expiry_height` is never written, so an expired spend is never released |
| `MCScanTipRace` | `TransparentComplete` | a block arriving between two reads of the tip is never scanned for transparent coins |
| `MCScanCollision` | `TransparentNotified` | shielded change and a transparent payment of one transaction share a key of the outbox, and the second is dropped |
| `MCScanDeep` | `MinedNotesWitnessed` | a small fork found late in a long chunk rewinds below the witness window |
| `MCStall` | `EventuallyScanned` | a payment to an unregistered address of an imported key stops every later sync at its block |
| `MCCallback` | `PostEnds` | the POST holds the client mutex: a listener that calls back waits for itself |

Seen while modelling, without a run of their own:

* An RPC error in the middle of a transparent range (`trp.rs:173`) drops the
  notifications of its blocks, and the range is not scanned again:
  `TransparentRecorded` and `CreditedUnlessRaced` name that exception.
* `list_pending_payments` (`db.rs:394`) joins received_notes only, so a payment from a
  transparent account is never listed.
* A crash between a block's commit (`wallet.rs:629`) and `store_notification` loses the
  block's notifications: `ShieldedRecorded` speaks of histories without a crash.
* Two connections that generate from one key at a time can give out one address twice;
  `FreshUnlessOverlapped` names that exception.
* A key that does not decode is imported without complaint and fails every later sync
  (`wallet.rs:416`): `Stalled`, the exception of `CatchesUp`.
* One call can take the server down for all: a date out of range, a batch for a key that
  is not there, a payment after a Rewind below the checkpoint. `Unpoisoned` lists what it
  takes; no document says it cannot happen.
* The server connects once (`zams.rs:37`); a connection that is lost stays lost.
* `trp.rs:99` puts the funding transaction in an outgoing notification, where
  `wallet.rs:581` puts the spending one.
* `db.rs:339` compares `height <= tip - min_confirmations`, so a balance "with n
  confirmations" counts what has n + 1; the anchor of `prepare_tx` takes notes with exactly
  10. `SpendableIsAvailable` relates the two with that difference in it.
* Which notification the conflict at `db.rs:403` drops depends on who comes first, and the
  shielded half is not always first: a block that replaces the last one of a range after
  the shielded half has scanned it fits the block below (`trp.rs:45`), so that its coin
  takes the key; when the reorganisation has been found and the block is scanned for
  notes, the row of the shielded change is dropped, with nothing failed. Hence the
  exception in `ShieldedRecorded` as well.

## 4. What is proved

Every safety property the passing runs check, invariant or step property, is stated by
a theorem for every value of the constants; `MinedNotesWitnessed` under the condition that
no rewind was too deep, without which the code breaks it (`MCScanDeep`). The
liveness properties are TLC's.

**Assumptions.** All are named in the module that declares the constant, and TLC
evaluates them on every ledger of a run: types; NULL is not a value; a child sits one
above its parent, and zcashd's chains are linked from height 1 on; within a block there
is no double spend (`ConsensusAssumption`), and along any chain of linked blocks
a nullifier is revealed in one block, above the one that creates the note
(`ChainAssumption`); tree states of zcashd are lines of linked blocks
(`WalletAssumption`, `ScanAssumption`); outputs of one kind in one transaction have
different indices, and so have its spends (`IndexAssumption`); the depths and the anchor offset are positive where the code's
are. No theorem depends on how 100, 10 and 1000 compare.

**The shielded tables** (`SaplingWallet_proofs`): `TypeOK`, `BlocksContiguous`,
`TreesChain`, `WitnessesRooted`, `WitnessesUnbroken`, `MinedInStored`, `NoteHeights`,
`SpendableUnlessDeep`, and `SpendsDetected`. All but the last are inductive only
together, as `IInv`. A scan reads its whole past at the stored tip: the new tree and
witnesses are rooted because the tip's are (`TreesChain`, `WitnessesRooted`), no note is
dropped because a witness line reaches the tip (`WitnessesUnbroken`), and "the tip" is
the top of what is stored only because `blocks` has no gap. `FloorBelowTip` ties the
pruning floor to the tip: unless a rewind was too deep, the tip still has every witness.
Each action has a lemma, and `AdvancePreserves` one step per conjunct over the lemmas on
the row each table gets.

`SpendsDetected` is proved of `LinkedSpec`, the behaviours whose stored blocks stay linked.
Its invariant has three parts that need each other: a block is stored at its own height
(`StoredAtHeight`), a recorded spender spends the note (`SpendersSpend`), and what a
stored block spends is recorded against it (`StoredSpends`). When
a block is scanned, a note whose spender is mined is left out of the search; by
`ChainAssumption` that spender cannot be on the chain the new block extends and
reveal the same nullifier, so nothing is missed. That a sync's stored blocks are
linked is a theorem of its own, below, so the condition is discharged for both models that
use the tables.

**The transparent table** (`TransparentWallet_proofs`): `TrpTypeOK` and `NoOrphanCoins`
for all scans, the latter from `HeightsCreated` (a row's height is that of a scanned block
that creates it); `UtxosReplayScan` for scans that do not mix branches
(`TrpChainSpec`), from `RowsReplay`: every creation and spend of a coin lies at or above
its row's height, so that a rewind deletes no row it should keep.

**A sync** (`ScanChain_proofs`), for every set of best chains, every chunk and rewind
depth, checkpoint, operator rewind and number of failures. `SyncInv` says how what is
read at different times fits together. `RangeFollows` and `BatchCovers`: range, tip and stored
height are read one after the other, the tip twice, and yet a batch starts right above
the stored tip and reaches the end of its range. `BatchLinked`: fetched blocks are linked to each other because the chain was not
replaced, to the table because the first one was compared. `ScannedStored`: until a
crash the transparent scan is never ahead of the stored blocks, up to the target of a
rewind that is half done. From it follow `TypeOK`, `LinkedUnlessTorn`, and the
two refinements: `SyncImplementsShielded` (a sync, a Rewind call and every
interruption of them are behaviours of `SaplingWallet`) and
`SyncImplementsTransparent` (until a crash, of `TransparentWallet`). Each brings
the table's theorems with it: `WitnessedUnlessDeep`, `SpendsDetectedUnlessTorn` and
`OrphansGoneUntilCrash` say so of the sync itself. `UtxosReplayScan` does not carry over:
the last block of a range may be replaced between its two scans, and then the
halves have scanned different blocks until the next reorganisation is found.

**The outbox** (`ScanOutbox_proofs`), over `SyncInv`: `DeliveredWasReceived` and
`RowsAreKept`, from `OutboxInv` (what is pending is what the step at hand has to write, and a row
belongs to an event with its key). `ShieldedAccounted` and `TransparentAccounted` follow
each change of a balance until its row is there: it is pending, or it was
dropped with a range that is about to be rewound to below where it began. The theorems
are `ShieldedChangesRecorded` and `TransparentChangesRecorded`, for every ledger:
between syncs each change has a row. The row is its own, unless the key was taken by the
same transaction's other kind of output (`Recorded`); that exception is what `MCScanCollision`
reaches, and the last remark of section 3 for the shielded half, so it cannot be left out. Two coins of one kind never
share a key: `KeysTellCoinsApart`, from `IndexAssumption` (the outputs of a kind are numbered
within their transaction) and, for spends, because a nullifier is one transaction's
and a transparent event is named after the transaction that created the coin.

**Payments** (`Payments_proofs`), for every number of payments, every value and amount.
`PaymentsKeepTables` (`PaymentSpec => Spec`) and `PaymentsStayLinked`
(`PaymentSpec => LinkedSpec`) bring the theorems about the shielded tables with them,
`SpendsDetected` included. `PromisedOnce`, `LocksAreLive` and `PaidIsAccepted` rest on
`InputsHeld`: an outstanding payment holds the lock of every note, and of every settled
coin, it was prepared with. A rewind of `utxos` is what could break it, since it deletes
locked rows; `RowHeights` (a row's height is 0 or that of a block creating the coin) and
`TargetAllowed` keep it away from coins below every rewind. For other coins the statement
is false of the code, and `PromisedOnce` does not make it.

`PaymentTypeOK`, `AnchorsStand`, `ConfirmedNotesSpendable`, `SpendableIsAvailable` and
`CoinsOnStoredChain` rest on `ChainInv`. Stored trees, and the roots a client was
handed, are lines of linked blocks (`TreesAreLines`, `RootsAreLines`); a block has one line
of ancestors (`LineUnique`), so a root handed out before a reorganisation is the stored
tree again when the chain comes back to its anchor block. Nothing is mined in a
checkpoint's block (`MinedAboveCheckpoint`), which is why the balance and
`prepare_tx` agree at the bottom of the table. `CoinsOnStoredChain` holds of the
sync as `Payments` reduces it, where both halves scan the same block; see the exception above.

**Server and accounts.** `Server_proofs`, for every number of calls, workers and blocks:
`ServerTypeOK`, `MemoryCurrent` and `Unpoisoned`. `DataHeld` (whoever is within a sync or
rewind holds `data_mutex`) is what makes `MemoryCurrent` inductive: no other handler
moves the stored tip. `Unpoisoned` says that a poisoned mutex has one of three causes: an emptied
table, an unchecked argument of a request that has ended, an answer or statement that
broke under an unwrap. What it excludes is the rest: any order of sound calls, error
answers of zcashd, reorganisations, syncs that fail half way and listeners that refuse.
`StoredHeights` ties "the table is empty" to its history for it, and `CauseStays` says that a cause, once there, is there
for good: no request that has ended comes back.

`Deposits_proofs`, over the lemmas of `Accounts_proofs`, for every number of keys,
addresses, connections, blocks and every chunk: `DepositTypeOK`, `FreshUnlessOverlapped`,
`IssuedStayRegistered` and `CreditedUnlessRaced`. Of the accounts, `Fresh` says that the
stored diversifier is at or above everything given out and that what is being generated
is above it or new (`IssuedBelow`, `UpdatesAbove`, `InsertsNew`, `Apart`);
`OwnersImported` that an account's key can decrypt for it. Of the sync, `Covered` is
`CreditedUnlessRaced` at every point of it, with what is stored and still to be scanned as
one more exception, and `RangeFollows`, `KeysRead`, `AddressesRead` say how range, tip,
keys and addresses read at different times fit together.

**Not proved**, checked by TLC only: `EventuallyInSync`, `EventuallyDelivered`,
`CatchesUp` and `Answered`, since liveness under fairness is out of the prover's reach.
Induction over data is done by the least counterexample (`LeastNatural`, from
the well-foundedness of the naturals), which these provers can use where they cannot
instantiate an induction theorem; no model has a recursive operator.

## 5. Not modelled

The command line client scanning, rewinding or paying next to a running server: nothing
orders the two processes, and the documents use it to load a checkpoint first. A
payment's transaction that expires in zcashd's memory pool: nothing in the code reacts
to it, its notes stay locked until CancelTx. The balance also counts unspent notes of orphaned
transactions, whose heights stay; no document says what it should do.
`GetCurrentHeight` answers zcashd's height where `src/CoinPaymentsLib/doc/api.md:156`
speaks of the latest block scanned: a handler without state. Keys, signing, address encoding, JSON and gRPC conversion: pure functions in
libraries. Amounts, memos, addresses and scripts do not steer the scan. The `sent_notes` table and its writers are dead code. A checkpoint
is loaded during set-up only, as `src/docs/acceptance-test.md` does. A chain
replacement is always longer than what it replaces, and `getblock` answers from one
best chain, so zcashd never answers "no such block" for a height below the tip.

## 6. Plan

Done: the tables, the sync, the outbox, payments and balances, accounts and deposits, the
server's locks; a theorem for every safety property. Next:

1. A bound on forks under which no rewind of a sync is too deep, so that
   `WitnessedUnlessDeep` loses its condition for chunks within the window.
2. What a sync leaves in `utxos` when the two halves have scanned different blocks, and
   for how long (`trp.rs:45`).
3. Two processes that sync one database.
