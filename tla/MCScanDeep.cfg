SPECIFICATION Spec
CONSTANTS
  NULL = NULL
  MaxHeight = 8
  PruneDepth = 2
  RewindDepth = 2
  MaxChunk = 4
  MaxErrors = 0
  MaxCrashes = 0
  MaxFaults = 0
  a1 = a1  a2 = a2  a3 = a3  a4 = a4  a5 = a5  a6 = a6  a7 = a7
  b6 = b6  b7 = b7  b8 = b8
  t1 = t1  n1 = n1
  Block <- MCBlock
  Tx <- MCTx
  Note <- MCNote
  Utxo <- NoUtxo
  HeightOf <- MCHeightOf
  PrevHash <- MCPrevHash
  BlockTx <- MCBlockTx
  TxOfNote <- MCTxOfNote
  NotesSpent <- MCNotesSpent
  ExpiryOf <- MCExpiryOf
  TxOfUtxo <- NoTxOf
  UtxosSpent <- MCNotesSpent
  OutputIndex <- MCIndex
  SpendIndex <- MCIndex
  Chains <- MCChains
  Checkpoint <- NoCheckpoint
  OperatorRewind <- NoOperator
INVARIANTS
  MinedNotesWitnessed
