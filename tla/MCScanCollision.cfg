SPECIFICATION Spec
CONSTANTS
  NULL = NULL
  MaxHeight = 4
  PruneDepth = 2
  RewindDepth = 2
  MaxChunk = 2
  MaxErrors = 0
  MaxCrashes = 0
  MaxFaults = 0
  a1 = a1  a2 = a2  a3 = a3  a4 = a4  b2 = b2  b3 = b3  b4 = b4
  t1 = t1  t2 = t2  t3 = t3  t4 = t4  t5 = t5  t6 = t6  t7 = t7
  n1 = n1  n2 = n2  n3 = n3  n4 = n4  u1 = u1  u2 = u2
  Block <- MCBlock
  Tx <- MCTx
  Note <- MCNote
  Utxo <- MCUtxo
  HeightOf <- MCHeightOf
  PrevHash <- MCPrevHash
  BlockTx <- MCBlockTx
  TxOfNote <- MCTxOfNote
  NotesSpent <- MCNotesSpent
  ExpiryOf <- MCExpiryOf
  TxOfUtxo <- MCTxOfUtxo
  UtxosSpent <- MCUtxosSpent
  OutputIndex <- MCOutputIndex
  SpendIndex <- MCSpendIndex
  Chains <- MCChains
  Checkpoint <- NoCheckpoint
  OperatorRewind <- NoOperator
INVARIANTS
  TransparentNotified
