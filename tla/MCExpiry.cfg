SPECIFICATION TablesSpec
CONSTANTS
  NULL = NULL
  MaxHeight = 5
  PruneDepth = 2
  a1 = a1  a2 = a2  a3 = a3  a4 = a4  a5 = a5
  b2 = b2  b3 = b3  b4 = b4  b5 = b5
  t1 = t1  t2 = t2  t3 = t3  t4 = t4
  s1 = s1  s2 = s2  s3 = s3  s4 = s4  s5 = s5  s6 = s6
  n1 = n1  n2 = n2  n3 = n3  u1 = u1  u2 = u2  u3 = u3
  Block <- MCBlock
  Tx <- MCTx
  Note <- MCNote
  Utxo <- MCUtxo
  HeightOf <- MCHeightOf
  PrevHash <- MCPrevHash
  BlockTx <- MCBlockTx
  TxOfNote <- MCTxOfNote
  NotesSpent <- MCNotesSpent
  ExpiryOf <- MCExpiryOf
  TxOfUtxo <- MCTxOfUtxo
  UtxosSpent <- MCUtxosSpent
  RewindHeight <- MCRewindHeight
  TrpRewindHeight <- MCTrpRewindHeight
  Checkpoint <- MCCheckpoint
INVARIANT
  ExpiredSpendsReleased
