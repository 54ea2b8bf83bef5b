SPECIFICATION PaymentSpec
CONSTANTS
  NULL = NULL
  MaxHeight = 3
  PruneDepth = 1
  AnchorOffset = 2
  Payment = {1, 2}
  Target = {2}
  MaxFaults = 1
  a1 = a1  a2 = a2  a3 = a3  b2 = b2
  t1 = t1  t2 = t2  t3 = t3  t4 = t4  t5 = t5
  n1 = n1  n2 = n2  u1 = u1  u2 = u2
  Block <- MCBlock
  Tx <- MCTx
  Note <- MCNote
  Utxo <- MCUtxo
  HeightOf <- MCHeightOf
  PrevHash <- MCPrevHash
  BlockTx <- MCBlockTx
  TxOfNote <- MCTxOfNote
  NotesSpent <- MCNotesSpent
  ExpiryOf <- MCExpiryOf
  TxOfUtxo <- MCTxOfUtxo
  UtxosSpent <- MCUtxosSpent
  ValueOf <- MCValueOf
  RewindHeight <- MCRewindHeight
  TrpRewindHeight <- MCRewindHeight
  Checkpoint <- MCCheckpoint
INVARIANTS
  PaymentTypeOK
  PromisedOnce
  LocksAreLive
  PaidIsAccepted
  AnchorsStand
  ConfirmedNotesSpendable
  SpendableIsAvailable
  CoinsOnStoredChain
