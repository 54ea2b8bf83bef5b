------------------------------- MODULE Ledger -------------------------------
(***************************************************************************)
(* The data every module of this project talks about: what zcashd can      *)
(* serve (blocks, transactions) and what this wallet can recognise in it   *)
(* (shielded notes and transparent outputs of tracked addresses).          *)
(*                                                                         *)
(* All of it is immutable, hence constants.  Heights count from the        *)
(* Sapling activation: height 0 is activation_height - 1, the value        *)
(* scan.rs falls back to when the blocks table is empty.                   *)
(***************************************************************************)
EXTENDS Integers, Sequences, FiniteSets, FiniteSetsExt

CONSTANTS
  NULL,         \* SQL NULL, and "no such row" in a table
  MaxHeight,    \* bound: the highest block zcashd will ever have
  Block,        \* block hashes, over all branches
  HeightOf,     \* Block -> Height
  PrevHash,     \* Block -> Block, or NULL for a child of the activation block
  Tx,           \* transaction ids
  BlockTx,      \* Block -> set of transactions it carries
  Note,         \* shielded outputs that decrypt under an imported viewing key
  TxOfNote,     \* Note -> the transaction that creates it
  NotesSpent,   \* Tx -> notes whose nullifier it reveals
  ExpiryOf,     \* Tx -> the last height it can be mined at
  Utxo,         \* transparent outputs that pay a tracked address
  TxOfUtxo,     \* Utxo -> the transaction that creates it
  UtxosSpent    \* Tx -> tracked outputs it consumes

Height == 1..MaxHeight

NotesOf(t)    == {n \in Note : TxOfNote[n] = t}
UtxosOf(t)    == {u \in Utxo : TxOfUtxo[u] = t}

UtxosCreatedIn(b) == UNION {UtxosOf(t) : t \in BlockTx[b]}
UtxosSpentIn(b)   == UNION {UtxosSpent[t] : t \in BlockTx[b]}

ASSUME LedgerAssumption ==
  /\ MaxHeight \in Nat
  /\ HeightOf \in [Block -> Height]
  /\ BlockTx \in [Block -> SUBSET Tx]
  /\ TxOfNote \in [Note -> Tx]
  /\ NotesSpent \in [Tx -> SUBSET Note]
  /\ ExpiryOf \in [Tx -> Nat]
  /\ TxOfUtxo \in [Utxo -> Tx]
  /\ UtxosSpent \in [Tx -> SUBSET Utxo]

\* NULL is none of the values a column can hold.
ASSUME NullAssumption ==
  /\ NULL \notin Block
  /\ NULL \notin Tx
  /\ NULL \notin Int
  /\ NULL \notin Seq(Block)

\* A child sits one above its parent.
ASSUME PrevAssumption ==
  \A b \in Block :
    IF HeightOf[b] = 1 THEN PrevHash[b] = NULL
    ELSE /\ PrevHash[b] \in Block
         /\ HeightOf[PrevHash[b]] = HeightOf[b] - 1

\* Consensus: a block holds no double spend, and a note is spent only
\* against an anchor of an earlier block, never in the block that creates it.
ASSUME ConsensusAssumption ==
  \A b \in Block :
    /\ \A s, t \in BlockTx[b] :
         s # t => /\ NotesSpent[s] \cap NotesSpent[t] = {}
                  /\ UtxosSpent[s] \cap UtxosSpent[t] = {}
    /\ \A s, t \in BlockTx[b] : NotesOf(s) \cap NotesSpent[t] = {}

\* A line of blocks: each sits one above its parent, from height 1 on.
IsLine(line) ==
  \A i \in 1..Len(line) :
    /\ HeightOf[line[i]] = i
    /\ i > 1 => PrevHash[line[i]] = line[i - 1]

\* The blocks of one chain: one at each height, each with its parent down to
\* the lowest of them.
IsChain(chain_blocks) ==
  \A b, d \in chain_blocks :
    /\ HeightOf[b] = HeightOf[d] => b = d
    /\ HeightOf[d] < HeightOf[b] => PrevHash[b] \in chain_blocks

\* Consensus along a chain: a nullifier is revealed in one block, above the
\* block that creates the note.
ASSUME ChainAssumption ==
  \A chain_blocks \in SUBSET Block : IsChain(chain_blocks) =>
    \A b, d \in chain_blocks : \A s \in BlockTx[b], t \in BlockTx[d] :
      /\ NotesSpent[s] \cap NotesSpent[t] # {} => b = d
      /\ NotesOf(s) \cap NotesSpent[t] # {} => HeightOf[b] < HeightOf[d]

=============================================================================
