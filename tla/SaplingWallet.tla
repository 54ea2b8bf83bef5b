---------------------------- MODULE SaplingWallet ----------------------------
(***************************************************************************)
(* The shielded half of the database and the three operations that write   *)
(* it: PostgresWallet::advance_by_block and rewind_to_height (wallet.rs)    *)
(* and load_checkpoint (db.rs).  Each is one PostgreSQL transaction (or    *)
(* one statement), hence one action.                                       *)
(*                                                                         *)
(* Abstractions.  A Sapling commitment tree is the sequence of blocks      *)
(* whose outputs were appended to it, and a witness is the tree it was     *)
(* advanced to, i.e. the anchor it proves membership under.  A nullifier   *)
(* is the note it belongs to.  Value, memo, rcm and address do not move    *)
(* control.  received_notes.payment is written only by payments, never     *)
(* here, and is left to the payments module.                               *)
(***************************************************************************)
EXTENDS Ledger

CONSTANTS
  PruneDepth,       \* 100 in advance_by_block
  RewindHeight,     \* targets rewind_to_height is called with
  Checkpoint        \* tree states zcashd can be asked for while setting up

\* zcashd serves tree states of its best chain.
ASSUME WalletAssumption ==
  /\ PruneDepth \in Nat
  /\ RewindHeight \subseteq Int
  /\ Checkpoint \subseteq Seq(Block)
  /\ \A tree \in Checkpoint : IsLine(tree)

VARIABLES
  blocks,             \* height |-> [hash, sapling_tree], or NULL
  transactions,       \* tx |-> [block, expiry_height], or NULL
  received_notes,     \* note |-> [height, spent], or NULL
  sapling_witnesses,  \* note |-> height |-> tree, or NULL
  floor,              \* history: no witness below this height is kept
  deep                \* history: some rewind went below floor

tables == <<blocks, transactions, received_notes, sapling_witnesses>>
vars   == <<tables, floor, deep>>

Tree == Seq(Block)

BlockRow == [hash : Block, sapling_tree : Tree]
TxRow    == [block : Height \cup {NULL}, expiry_height : Height \cup {NULL}]
NoteRow  == [height : Height, spent : Tx \cup {NULL}]

\* "No such row" is not a row.
ASSUME RowAssumption ==
  NULL \notin BlockRow /\ NULL \notin TxRow /\ NULL \notin NoteRow

-----------------------------------------------------------------------------
Stored     == {h \in Height : blocks[h] # NULL}
Highest(S) == IF S = {} THEN 0 ELSE Max(S)
LastHeight == Highest(Stored)

\* The definitions whose names start with Faulty are not part of the model:
\* each is a plausible slip in the definition that follows it, and shows
\* that a property would notice.

\* Reads the tree one block too low.
FaultyLastTree ==
  IF LastHeight - 1 \in Stored THEN blocks[LastHeight - 1].sapling_tree ELSE << >>

\* get_commitment_tree(last_height).unwrap_or_else(CommitmentTree::empty)
LastTree == IF Stored = {} THEN << >> ELSE blocks[LastHeight].sapling_tree

\* get_witnesses(last_height)
Watched == IF Stored = {} THEN {}
           ELSE {n \in Note : sapling_witnesses[n][LastHeight] # NULL}

Mined(t) == transactions[t] # NULL /\ transactions[t].block # NULL

\* An inner condition: only unspent notes, whatever became of the spender.
FaultyNullifiers ==
  {n \in Note : received_notes[n] # NULL /\ received_notes[n].spent = NULL}

\* get_nullifiers: the outer join keeps a note that is unspent, and one
\* whose spending transaction is not (or no longer) in a block.
Nullifiers ==
  {n \in Note : /\ received_notes[n] # NULL
                /\ \/ received_notes[n].spent = NULL
                   \/ ~Mined(received_notes[n].spent)}

\* librustzcash's scan_block hands advance_by_block only the transactions
\* that spend a known nullifier or pay a known viewing key.
SpendsFound(t) == NotesSpent[t] \cap Nullifiers
Relevant(b)    == {t \in BlockTx[b] : SpendsFound(t) \cup NotesOf(t) # {}}
NewNotes(b)    == UNION {NotesOf(t) : t \in Relevant(b)}
Spender(b, n)  == CHOOSE t \in Relevant(b) : n \in SpendsFound(t)
SpentNotes(b)  == UNION {SpendsFound(t) : t \in Relevant(b)}

-----------------------------------------------------------------------------
Init ==
  /\ blocks = [h \in Height |-> NULL]
  /\ transactions = [t \in Tx |-> NULL]
  /\ received_notes = [n \in Note |-> NULL]
  /\ sapling_witnesses = [n \in Note |-> [h \in Height |-> NULL]]
  /\ floor = 0
  /\ deep = FALSE

\* put_tx_meta: expiry_height is not among the columns it writes.
PutTxMeta(b, h) ==
  [t \in Tx |->
    IF t \notin Relevant(b) THEN transactions[t]
    ELSE [block |-> h,
          expiry_height |-> IF transactions[t] = NULL THEN NULL
                            ELSE transactions[t].expiry_height]]

\* ON CONFLICT DO NOTHING in place of the upsert.
FaultyMarkAndReceive(b, h) ==
  [n \in Note |->
    LET row   == received_notes[n]
        spent == IF n \in SpentNotes(b) THEN Spender(b, n)
                 ELSE IF row = NULL THEN NULL ELSE row.spent
    IN IF row # NULL THEN [row EXCEPT !.spent = spent]
       ELSE IF n \in NewNotes(b) THEN [height |-> h, spent |-> spent]
       ELSE NULL]

\* The new row's height counts from the activation block.
OffByOneMarkAndReceive(b, h) ==
  [n \in Note |->
    IF n \in NewNotes(b)
    THEN [height |-> h - 1,
          spent |-> IF received_notes[n] = NULL THEN NULL ELSE received_notes[n].spent]
    ELSE IF n \in SpentNotes(b)
    THEN [received_notes[n] EXCEPT !.spent = Spender(b, n)]
    ELSE received_notes[n]]

\* mark_spent, then put_received_note: the upsert leaves spent alone.
MarkAndReceive(b, h) ==
  [n \in Note |->
    LET row   == received_notes[n]
        spent == IF n \in SpentNotes(b) THEN Spender(b, n)
                 ELSE IF row = NULL THEN NULL ELSE row.spent
    IN IF n \in NewNotes(b) THEN [height |-> h, spent |-> spent]
       ELSE IF row = NULL THEN NULL
       ELSE [row EXCEPT !.spent = spent]]

\* stmt_update_expired: a comparison with a NULL expiry_height is not true.
Expired(txs, t, h) ==
  /\ t # NULL
  /\ txs[t] # NULL
  /\ txs[t].block = NULL
  /\ txs[t].expiry_height # NULL
  /\ txs[t].expiry_height < h

UpdateExpired(notes, txs, h) ==
  [n \in Note |->
    IF notes[n] # NULL /\ Expired(txs, notes[n].spent, h)
    THEN [notes[n] EXCEPT !.spent = NULL] ELSE notes[n]]

\* Prunes one height too many.
FaultyInsertAndPrune(b, h) ==
  [n \in Note |->
    [k \in Height |->
      IF k <= h - PruneDepth THEN NULL
      ELSE IF k # h THEN sapling_witnesses[n][k]
      ELSE IF n \in NewNotes(b) THEN Append(LastTree, b)
      ELSE IF n \in Watched THEN Append(sapling_witnesses[n][LastHeight], b)
      ELSE sapling_witnesses[n][k]]]

\* Inserts the witnesses of the notes a new note does not displace.
ForgetfulInsertAndPrune(b, h) ==
  [n \in Note |->
    [k \in Height |->
      IF k < h - PruneDepth THEN NULL
      ELSE IF k # h THEN sapling_witnesses[n][k]
      ELSE IF n \in NewNotes(b) THEN Append(LastTree, b)
      ELSE IF n \in Watched /\ NewNotes(b) = {}
      THEN Append(sapling_witnesses[n][LastHeight], b)
      ELSE sapling_witnesses[n][k]]]

\* insert_witness for every carried and every new note, then
\* prune_witnesses(height - 100).
InsertAndPrune(b, h) ==
  [n \in Note |->
    [k \in Height |->
      IF k < h - PruneDepth THEN NULL
      ELSE IF k # h THEN sapling_witnesses[n][k]
      ELSE IF n \in NewNotes(b) THEN Append(LastTree, b)
      ELSE IF n \in Watched THEN Append(sapling_witnesses[n][LastHeight], b)
      ELSE sapling_witnesses[n][k]]]

\* The UNIQUE(note, block) index: the same note both carried and new.  The
\* transaction rolls back and the caller's unwrap panics.
WitnessClash(b) == Watched \cap NewNotes(b) # {}

AdvanceByBlock(b) ==
  LET h == LastHeight + 1 IN
  /\ HeightOf[b] = h                      \* block_height_discontinuity
  /\ ~WitnessClash(b)
  /\ blocks' = [blocks EXCEPT
       ![h] = [hash |-> b, sapling_tree |-> Append(LastTree, b)]]
  /\ transactions' = PutTxMeta(b, h)
  /\ received_notes' = UpdateExpired(MarkAndReceive(b, h), PutTxMeta(b, h), h)
  /\ sapling_witnesses' = InsertAndPrune(b, h)
  /\ floor' = IF h - PruneDepth > floor THEN h - PruneDepth ELSE floor
  /\ UNCHANGED deep

\* Deletes the block at to + 1 only.
FaultyDropBlocks(to) == [h \in Height |-> IF h = to + 1 THEN NULL ELSE blocks[h]]

DropBlocks(to) == [h \in Height |-> IF h > to THEN NULL ELSE blocks[h]]

\* Leaves the transactions of the first block it drops.
FaultyUnmine(to) ==
  [t \in Tx |-> IF Mined(t) /\ transactions[t].block > to + 1
                THEN [transactions[t] EXCEPT !.block = NULL]
                ELSE transactions[t]]

Unmine(to) ==
  [t \in Tx |-> IF Mined(t) /\ transactions[t].block > to
                THEN [transactions[t] EXCEPT !.block = NULL]
                ELSE transactions[t]]

\* Leaves the witnesses of the first block it drops.
FaultyDropWitnesses(to) ==
  [n \in Note |-> [h \in Height |->
    IF h > to + 1 THEN NULL ELSE sapling_witnesses[n][h]]]

DropWitnesses(to) ==
  [n \in Note |-> [h \in Height |->
    IF h > to THEN NULL ELSE sapling_witnesses[n][h]]]

\* With an empty blocks table SELECT MAX(height) returns one row holding
\* NULL and row.get panics: nothing is written.
RewindToHeight(to) ==
  /\ Stored # {}
  /\ IF to >= LastHeight THEN UNCHANGED vars
     ELSE /\ sapling_witnesses' = DropWitnesses(to)
          /\ transactions' = Unmine(to)
          /\ blocks' = DropBlocks(to)
          /\ UNCHANGED received_notes
          /\ IF \A h \in Stored : h > to
             THEN floor' = 0 /\ deep' = FALSE     \* nothing left: a rescan
             ELSE floor' = floor /\ deep' = (deep \/ to < floor)

\* The checkpoint is loaded while setting up, before the first sync
\* (acceptance-test.md); the statement itself has no guard.
LoadCheckpoint(tree) ==
  LET h == Len(tree) IN
  /\ Stored = {}
  /\ h \in Height
  /\ blocks' = [blocks EXCEPT ![h] = [hash |-> tree[h], sapling_tree |-> tree]]
  /\ UNCHANGED <<transactions, received_notes, sapling_witnesses, floor, deep>>

Next ==
  \/ \E b \in Block : AdvanceByBlock(b)
  \/ \E to \in RewindHeight : RewindToHeight(to)
  \/ \E tree \in Checkpoint : LoadCheckpoint(tree)

Spec == Init /\ [][Next]_vars

-----------------------------------------------------------------------------
(* Properties *)

\* Every column of the four tables holds a value of its type.
TypeOK ==
  /\ blocks \in [Height -> BlockRow \cup {NULL}]
  /\ transactions \in [Tx -> TxRow \cup {NULL}]
  /\ received_notes \in [Note -> NoteRow \cup {NULL}]
  /\ sapling_witnesses \in [Note -> [Height -> Tree \cup {NULL}]]
  /\ floor \in Int
  /\ deep \in BOOLEAN

\* The blocks table never has a gap: scanning resumes at MAX(height) + 1,
\* so a hole would never be filled.
Contiguous(S) == S = {} \/ \E lo, hi \in Height : lo <= hi /\ S = lo..hi
BlocksContiguous == Contiguous(Stored)

\* Each stored commitment tree extends the one stored below it by that very
\* block: after any mix of rewinds and scans no tree is left over from a
\* branch that was rewound.
TreesChain ==
  \A h \in Stored : h - 1 \in Stored =>
    blocks[h].sapling_tree = Append(blocks[h - 1].sapling_tree, blocks[h].hash)

\* A stored witness is anchored in the tree stored at its height, and its
\* note is mined at or below that height.  to_spendable_note builds a spend
\* proof from it; any other root is rejected by the network.
WitnessesRooted ==
  \A n \in Note, h \in Height : sapling_witnesses[n][h] # NULL =>
    /\ blocks[h] # NULL
    /\ sapling_witnesses[n][h] = blocks[h].sapling_tree
    /\ Mined(TxOfNote[n])
    /\ transactions[TxOfNote[n]].block <= h

\* A note that has a witness at one stored height has one at every stored
\* height above: scans advance the witnesses of get_witnesses(last_height)
\* and of nothing else, so a gap would end the note's line for good.
WitnessesUnbroken ==
  \A n \in Note : \A h, k \in Stored :
    (h <= k /\ sapling_witnesses[n][h] # NULL) => sapling_witnesses[n][k] # NULL

\* A transaction recorded in a block is in the block stored at that height,
\* also when a reorganisation moved it, or replaced the block at its height.
MinedInStored ==
  \A t \in Tx : Mined(t) =>
    /\ transactions[t].block \in Stored
    /\ t \in BlockTx[blocks[transactions[t].block].hash]

\* The height get_balance reads from a mined note's row is the height of the
\* block that select_notes reads through transactions.
NoteHeights ==
  \A n \in Note : Mined(TxOfNote[n]) =>
    /\ received_notes[n] # NULL
    /\ received_notes[n].height = transactions[TxOfNote[n]].block

\* As long as no rewind went below the pruned heights, every mined note has
\* a witness at every stored height from its own block (or the pruning
\* floor) up: it can be spent at any anchor.
SpendableUnlessDeep ==
  ~deep => \A n \in Note, h \in Stored :
    (Mined(TxOfNote[n]) /\ transactions[TxOfNote[n]].block <= h /\ floor <= h)
      => sapling_witnesses[n][h] # NULL

Linked ==
  \A h \in Stored : h - 1 \in Stored => PrevHash[blocks[h].hash] = blocks[h - 1].hash

\* The scans of a worker that never mixes two branches.
LinkedSpec == Init /\ [][Next /\ Linked']_vars

\* On a linked chain every spend of a mined note is recorded, and recorded
\* against the transaction that is in the stored chain, even if an orphaned
\* transaction had spent the same note before.
SpendsDetected ==
  Linked => \A h \in Stored : \A t \in BlockTx[blocks[h].hash] :
    \A n \in NotesSpent[t] :
      Mined(TxOfNote[n]) => received_notes[n].spent = t /\ Mined(t)

\* "Update now-expired transactions that didn't get mined": once the chain
\* is past the expiry of an orphaned transaction, the notes it had spent are
\* unspent again.
ExpiredSpendsReleased ==
  \A n \in Note :
    received_notes[n] # NULL =>
      LET t == received_notes[n].spent IN
      t # NULL => Mined(t) \/ ExpiryOf[t] >= LastHeight

=============================================================================
