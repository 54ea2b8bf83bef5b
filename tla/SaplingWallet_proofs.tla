------------------------ MODULE SaplingWallet_proofs ------------------------
(***************************************************************************)
(* The safety of the shielded tables, proved for every ledger, every       *)
(* pruning depth and every sequence of scans, rewinds and checkpoints.     *)
(***************************************************************************)
EXTENDS SaplingWallet, SequenceTheorems, TLAPS

\* Pruning never outruns the scan: unless a rewind was too deep, the stored
\* tip is at or above the lowest height whose witnesses are kept.
FloorBelowTip == ~deep => floor <= LastHeight

IInv ==
  /\ TypeOK
  /\ BlocksContiguous
  /\ TreesChain
  /\ WitnessesRooted
  /\ WitnessesUnbroken
  /\ MinedInStored
  /\ NoteHeights
  /\ SpendableUnlessDeep
  /\ FloorBelowTip

-----------------------------------------------------------------------------
(* The stored tip *)

\* A contiguous set of heights is empty or reaches up to its Highest height
\* without a gap.
LEMMA HighestOfContiguous ==
  ASSUME NEW S, Contiguous(S)
  PROVE  /\ Highest(S) \in 0..MaxHeight
         /\ S = {} => Highest(S) = 0
         /\ S # {} => /\ Highest(S) \in S
                      /\ \A h \in S : h <= Highest(S)
                      /\ \A g \in S, k \in Height :
                           g <= k /\ k <= Highest(S) => k \in S
<1>1. CASE S = {}
  BY <1>1, LedgerAssumption DEF Highest
<1>2. CASE S # {}
  <2>1. PICK lo \in Height, hi \in Height : lo <= hi /\ S = lo..hi
    BY <1>2 DEF Contiguous
  <2>2. hi \in S /\ \A h \in S : hi >= h
    BY <2>1, LedgerAssumption DEF Height
  <2>3. /\ Max(S) \in S
        /\ \A h \in S : Max(S) >= h
    BY <2>2 DEF Max
  <2>4. Highest(S) = Max(S)
    BY <1>2 DEF Highest
  <2>5. Highest(S) \in S /\ \A h \in S : Highest(S) >= h
    BY <2>3, <2>4
  <2>6. S \subseteq Int /\ lo \in Int /\ hi \in Int /\ 1 <= lo /\ hi <= MaxHeight
    BY <2>1, LedgerAssumption DEF Height
  <2>7. Highest(S) = hi
    BY <2>2, <2>5, <2>1, <2>6
  <2>8. Highest(S) \in 0..MaxHeight
    BY <2>1, <2>6, <2>7, LedgerAssumption
  <2>9. \A g \in S, k \in Height : g <= k /\ k <= Highest(S) => k \in S
    BY <2>1, <2>6, <2>7, LedgerAssumption DEF Height
  <2>10. \A h \in S : h <= Highest(S)
    BY <2>1, <2>6, <2>7
  <2> QED BY <1>2, <2>5, <2>8, <2>9, <2>10
<1> QED BY <1>1, <1>2

\* The highest height of an interval is its upper end.
LEMMA HighestOfInterval ==
  ASSUME NEW lo \in Height, NEW hi \in Height, lo <= hi
  PROVE  Contiguous(lo..hi) /\ Highest(lo..hi) = hi
<1>1. Contiguous(lo..hi)
  BY DEF Contiguous
<1>2. hi \in lo..hi /\ lo..hi # {}
  BY LedgerAssumption DEF Height
<1>3. /\ Highest(lo..hi) \in lo..hi
      /\ \A h \in lo..hi : h <= Highest(lo..hi)
  BY <1>1, <1>2, HighestOfContiguous
<1> QED BY <1>1, <1>2, <1>3, LedgerAssumption DEF Height

\* LastHeight is the highest stored height, what SELECT MAX(height) returns,
\* and the height above it is free.
LEMMA Tip ==
  ASSUME BlocksContiguous
  PROVE  /\ LastHeight \in 0..MaxHeight
         /\ Stored \subseteq Height
         /\ Stored = {} => LastHeight = 0
         /\ Stored # {} => LastHeight \in Stored
         /\ \A h \in Stored : h <= LastHeight
         /\ \A g \in Stored, k \in Height : g <= k /\ k <= LastHeight => k \in Stored
<1>1. Contiguous(Stored)
  BY DEF BlocksContiguous
<1>2. Stored \subseteq Height
  BY DEF Stored
<1> QED BY <1>1, <1>2, HighestOfContiguous DEF LastHeight

\* The tree a scan starts from is a tree.
LEMMA LastTreeType ==
  ASSUME TypeOK, BlocksContiguous
  PROVE  LastTree \in Tree
<1>1. CASE Stored = {}
  BY <1>1 DEF LastTree, Tree
<1>2. CASE Stored # {}
  BY <1>2, Tip DEF LastTree, TypeOK, BlockRow, Stored
<1> QED BY <1>1, <1>2

-----------------------------------------------------------------------------
(* Initial state *)

\* The empty database satisfies the invariant.
LEMMA InitIInv == Init => IInv
<1> SUFFICES ASSUME Init PROVE IInv
  OBVIOUS
<1>1. Stored = {} /\ LastHeight = 0
  BY DEF Init, Stored, LastHeight, Highest
<1>2. TypeOK
  <2>1. blocks \in [Height -> BlockRow \cup {NULL}]
    BY DEF Init
  <2>2. transactions \in [Tx -> TxRow \cup {NULL}]
    BY DEF Init
  <2>3. received_notes \in [Note -> NoteRow \cup {NULL}]
    BY DEF Init
  <2>4. sapling_witnesses \in [Note -> [Height -> Tree \cup {NULL}]]
    BY DEF Init
  <2>5. floor \in Int
    BY DEF Init
  <2>6. deep \in BOOLEAN
    BY Zenon DEF Init
  <2> QED BY <2>1, <2>2, <2>3, <2>4, <2>5, <2>6 DEF TypeOK
<1>3. \A t \in Tx : ~Mined(t)
  BY DEF Init, Mined
<1>4. WitnessesRooted /\ WitnessesUnbroken
  BY <1>1 DEF Init, WitnessesRooted, WitnessesUnbroken
<1>5. BlocksContiguous /\ TreesChain
  BY <1>1 DEF BlocksContiguous, Contiguous, TreesChain
<1>6. FloorBelowTip
  BY <1>1 DEF Init, FloorBelowTip
<1>7. MinedInStored /\ NoteHeights /\ SpendableUnlessDeep
  BY <1>1, <1>3, LedgerAssumption DEF MinedInStored, NoteHeights, SpendableUnlessDeep
<1> QED BY <1>2, <1>4, <1>5, <1>6, <1>7 DEF IInv

\* A step that leaves the tables alone preserves the invariant.
LEMMA StutterPreserves ==
  ASSUME IInv, UNCHANGED vars
  PROVE  IInv'
BY DEF IInv, vars, tables, TypeOK, BlocksContiguous, TreesChain,
       WitnessesRooted, WitnessesUnbroken, MinedInStored, NoteHeights,
       SpendableUnlessDeep, FloorBelowTip, Stored, LastHeight, Mined

-----------------------------------------------------------------------------
(* Rewind *)

\* A rewind to a height below the tip keeps exactly the stored heights up to
\* it; if any is left, the target is the new tip.
LEMMA RewindTip ==
  ASSUME TypeOK, BlocksContiguous, NEW to \in Int, to < LastHeight,
         blocks' = [h \in Height |-> IF h > to THEN NULL ELSE blocks[h]]
  PROVE  /\ Stored' = {h \in Stored : h <= to}
         /\ Contiguous(Stored')
         /\ Stored' # {} => to \in Stored' /\ LastHeight' = to
         /\ \A h \in Stored' : blocks'[h] = blocks[h]
<1> USE LedgerAssumption
<1>1. Stored' = {h \in Stored : h <= to}
  <2>1. \A h \in Height : blocks'[h] # NULL <=> (blocks[h] # NULL /\ ~(h > to))
    OBVIOUS
  <2> QED BY <2>1 DEF Stored, Height
<1>2. \A h \in Stored' : blocks'[h] = blocks[h]
  BY <1>1 DEF Stored, Height
<1>3. CASE Stored' = {}
  BY <1>1, <1>2, <1>3 DEF Contiguous
<1>4. CASE Stored' # {}
  <2>1. PICK lo \in Height, hi \in Height : lo <= hi /\ Stored = lo..hi
    BY <1>1, <1>4 DEF BlocksContiguous, Contiguous
  <2>2. LastHeight = hi
    BY <2>1, HighestOfInterval DEF LastHeight
  <2>3. lo <= to /\ to \in Height
    BY <1>1, <1>4, <2>1, <2>2 DEF Height
  <2>4. Stored' = lo..to
    BY <1>1, <2>1, <2>2, <2>3 DEF Height
  <2>5. Contiguous(Stored') /\ LastHeight' = to
    BY <2>1, <2>3, <2>4, HighestOfInterval DEF LastHeight
  <2>6. to \in Stored'
    BY <2>3, <2>4 DEF Height
  <2> QED BY <1>1, <1>2, <2>5, <2>6
<1> QED BY <1>3, <1>4

\* rewind_to_height preserves the invariant: the witnesses, the mined marks
\* and the blocks above the target go together.
LEMMA RewindPreserves ==
  ASSUME IInv, NEW to \in Int, RewindToHeight(to)
  PROVE  IInv'
<1> USE LedgerAssumption
<1>1. CASE to >= LastHeight
  <2>1. UNCHANGED vars
    BY <1>1 DEF RewindToHeight
  <2> QED BY <2>1, StutterPreserves
<1>2. CASE ~(to >= LastHeight)
  <2>1. to < LastHeight /\ LastHeight \in Int
    BY <1>2, Tip DEF IInv
  <2>2. blocks' = [h \in Height |-> IF h > to THEN NULL ELSE blocks[h]]
    BY <1>2 DEF RewindToHeight, DropBlocks
  <2>3. transactions' =
          [t \in Tx |-> IF Mined(t) /\ transactions[t].block > to
                        THEN [transactions[t] EXCEPT !.block = NULL]
                        ELSE transactions[t]]
    BY <1>2 DEF RewindToHeight, Unmine
  <2>4. sapling_witnesses' =
          [n \in Note |-> [h \in Height |->
            IF h > to THEN NULL ELSE sapling_witnesses[n][h]]]
    BY <1>2 DEF RewindToHeight, DropWitnesses
  <2>5. received_notes' = received_notes
    BY <1>2 DEF RewindToHeight
  <2>6. IF \A h \in Stored : h > to
        THEN floor' = 0 /\ deep' = FALSE
        ELSE floor' = floor /\ deep' = (deep \/ to < floor)
    BY <1>2 DEF RewindToHeight
  <2>7. /\ Stored' = {h \in Stored : h <= to}
        /\ Contiguous(Stored')
        /\ Stored' # {} => to \in Stored' /\ LastHeight' = to
        /\ \A h \in Stored' : blocks'[h] = blocks[h]
    BY <2>1, <2>2, RewindTip DEF IInv
  <2>8. \A t \in Tx : /\ Mined(t)' <=> (Mined(t) /\ transactions[t].block <= to)
                      /\ Mined(t)' => transactions'[t] = transactions[t]
    <3> SUFFICES ASSUME NEW t \in Tx
                 PROVE  /\ Mined(t)' <=> (Mined(t) /\ transactions[t].block <= to)
                        /\ Mined(t)' => transactions'[t] = transactions[t]
      OBVIOUS
    <3>1. transactions[t] \in TxRow \cup {NULL}
      BY DEF IInv, TypeOK
    <3>2. Mined(t) => transactions[t].block \in Height
      BY <3>1 DEF Mined, TxRow
    <3>3. CASE Mined(t) /\ transactions[t].block > to
      <4>1. transactions'[t] = [transactions[t] EXCEPT !.block = NULL]
        BY <2>3, <3>3
      <4>2. transactions'[t].block = NULL
        BY <3>1, <3>3, <4>1 DEF Mined, TxRow
      <4> QED BY <3>2, <3>3, <4>2 DEF Mined, Height
    <3>4. CASE ~(Mined(t) /\ transactions[t].block > to)
      <4>1. transactions'[t] = transactions[t]
        BY <2>3, <3>4
      <4> QED BY <3>2, <3>4, <4>1 DEF Mined, Height
    <3> QED BY <3>3, <3>4
  <2>9. \A n \in Note, h \in Height :
          sapling_witnesses'[n][h] = IF h > to THEN NULL ELSE sapling_witnesses[n][h]
    BY <2>4
  <2>10. TypeOK'
    <3>1. blocks' \in [Height -> BlockRow \cup {NULL}]
      BY <2>2 DEF IInv, TypeOK
    <3>2. transactions' \in [Tx -> TxRow \cup {NULL}]
      <4> SUFFICES ASSUME NEW t \in Tx
                   PROVE  (IF Mined(t) /\ transactions[t].block > to
                           THEN [transactions[t] EXCEPT !.block = NULL]
                           ELSE transactions[t]) \in TxRow \cup {NULL}
        BY <2>3
      <4>1. transactions[t] \in TxRow \cup {NULL}
        BY DEF IInv, TypeOK
      <4> QED BY <4>1 DEF Mined, TxRow
    <3>3. received_notes' \in [Note -> NoteRow \cup {NULL}]
      BY <2>5 DEF IInv, TypeOK
    <3>4. sapling_witnesses' \in [Note -> [Height -> Tree \cup {NULL}]]
      BY <2>4 DEF IInv, TypeOK
    <3>5. floor' \in Int
      BY <2>6 DEF IInv, TypeOK
    <3>6. deep' \in BOOLEAN
      BY <2>6 DEF IInv, TypeOK
    <3> QED BY <3>1, <3>2, <3>3, <3>4, <3>5, <3>6 DEF TypeOK
  <2>11. BlocksContiguous'
    BY <2>7 DEF BlocksContiguous
  <2>12. TreesChain'
    BY <2>7 DEF IInv, TreesChain
  <2>13. WitnessesRooted'
    <3> SUFFICES ASSUME NEW n \in Note, NEW h \in Height,
                        sapling_witnesses'[n][h] # NULL
                 PROVE  /\ blocks'[h] # NULL
                        /\ sapling_witnesses'[n][h] = blocks'[h].sapling_tree
                        /\ Mined(TxOfNote[n])'
                        /\ transactions'[TxOfNote[n]].block <= h
      BY DEF WitnessesRooted
    <3>1. h <= to /\ sapling_witnesses'[n][h] = sapling_witnesses[n][h]
      BY <2>9 DEF Height
    <3>2. /\ blocks[h] # NULL
          /\ sapling_witnesses[n][h] = blocks[h].sapling_tree
          /\ Mined(TxOfNote[n])
          /\ transactions[TxOfNote[n]].block <= h
      BY <3>1 DEF IInv, WitnessesRooted
    <3>3. blocks'[h] = blocks[h]
      BY <2>2, <3>1 DEF Height
    <3>4. TxOfNote[n] \in Tx /\ transactions[TxOfNote[n]].block \in Height
      BY <3>2 DEF IInv, TypeOK, TxRow, Mined
    <3>5. Mined(TxOfNote[n])' /\ transactions'[TxOfNote[n]] = transactions[TxOfNote[n]]
      BY <2>8, <3>1, <3>2, <3>4 DEF Height
    <3> QED BY <3>1, <3>2, <3>3, <3>5
  <2>14. WitnessesUnbroken'
    BY <2>7, <2>9 DEF IInv, WitnessesUnbroken, Height, Stored
  <2>15. MinedInStored'
    BY <2>7, <2>8 DEF IInv, MinedInStored, TypeOK
  <2>16. NoteHeights'
    BY <2>5, <2>8 DEF IInv, NoteHeights
  <2>17. SpendableUnlessDeep'
    <3> SUFFICES ASSUME ~deep', NEW n \in Note, NEW h \in Stored',
                        Mined(TxOfNote[n])', transactions'[TxOfNote[n]].block <= h,
                        floor' <= h
                 PROVE  sapling_witnesses'[n][h] # NULL
      BY DEF SpendableUnlessDeep
    <3>1. ~(\A k \in Stored : k > to) /\ h \in Stored /\ h <= to /\ h \in Height
      BY <2>7 DEF Stored, Height
    <3>2. ~deep /\ floor' = floor
      BY <2>6, <3>1
    <3>3. Mined(TxOfNote[n]) /\ transactions'[TxOfNote[n]] = transactions[TxOfNote[n]]
      BY <2>8
    <3>4. sapling_witnesses[n][h] # NULL
      BY <3>1, <3>2, <3>3 DEF IInv, SpendableUnlessDeep
    <3> QED BY <2>9, <3>1, <3>4 DEF Height
  <2>18. FloorBelowTip'
    <3> SUFFICES ASSUME ~deep'
                 PROVE  floor' <= LastHeight'
      BY DEF FloorBelowTip
    <3>1. CASE Stored' = {}
      <4>1. \A k \in Stored : k > to
        BY <2>7, <3>1 DEF Stored, Height
      <4>2. LastHeight' = 0
        BY <3>1 DEF LastHeight, Highest
      <4> QED BY <2>6, <4>1, <4>2
    <3>2. CASE Stored' # {}
      <4>1. ~(\A k \in Stored : k > to) /\ LastHeight' = to
        BY <2>7, <3>2 DEF Stored, Height
      <4>2. floor' = floor /\ ~(to < floor)
        BY <2>6, <4>1
      <4> QED BY <4>1, <4>2 DEF IInv, TypeOK
    <3> QED BY <3>1, <3>2
  <2> QED BY <2>10, <2>11, <2>12, <2>13, <2>14, <2>15, <2>16, <2>17, <2>18 DEF IInv
<1> QED BY <1>1, <1>2

\* What a rewind of the shielded tables leaves: the rows up to the target.
LEMMA RewindKeepsLow ==
  ASSUME IInv, NEW to \in Int, RewindToHeight(to)
  PROVE  /\ Stored' \subseteq Stored
         /\ \A h \in Stored : h <= to => h \in Stored'
         /\ \A h \in Stored' : blocks'[h] = blocks[h]
         /\ \A t \in Tx : Mined(t)' =>
              /\ Mined(t) /\ transactions'[t].block = transactions[t].block
              /\ transactions[t].block - 1 \in Stored => transactions[t].block - 1 \in Stored'
         /\ \A t \in Tx : Mined(t) /\ transactions[t].block \in Stored' =>
              transactions'[t] = transactions[t]
<1> USE LedgerAssumption
<1>1. CASE to >= LastHeight
  <2>1. UNCHANGED <<blocks, transactions>>
    BY <1>1 DEF RewindToHeight, vars, tables
  <2> QED BY <2>1 DEF Stored, Mined
<1>2. CASE ~(to >= LastHeight)
  <2>1. LastHeight \in Int /\ to < LastHeight /\ Stored \subseteq Height
    BY <1>2, Tip DEF IInv
  <2>2. blocks' = [h \in Height |-> IF h > to THEN NULL ELSE blocks[h]]
    BY <1>2 DEF RewindToHeight, DropBlocks
  <2>3. /\ Stored' = {h \in Stored : h <= to}
        /\ \A h \in Stored' : blocks'[h] = blocks[h]
    BY <2>1, <2>2, RewindTip DEF IInv
  <2>4. \A t \in Tx : Mined(t)' =>
          /\ Mined(t) /\ transactions'[t].block = transactions[t].block
          /\ ~(transactions[t].block > to)
    <3> SUFFICES ASSUME NEW t \in Tx, Mined(t)'
                 PROVE  /\ Mined(t) /\ transactions'[t].block = transactions[t].block
                        /\ ~(transactions[t].block > to)
      OBVIOUS
    <3>1. transactions'[t] = IF Mined(t) /\ transactions[t].block > to
                             THEN [transactions[t] EXCEPT !.block = NULL]
                             ELSE transactions[t]
      BY <1>2 DEF RewindToHeight, Unmine
    <3>2. transactions[t] # NULL => transactions[t] \in TxRow
      BY DEF IInv, TypeOK
    <3>3. CASE Mined(t) /\ transactions[t].block > to
      <4>1. transactions'[t].block = NULL
        BY <3>1, <3>2, <3>3 DEF TxRow, Mined
      <4> QED BY <4>1 DEF Mined
    <3>4. CASE ~(Mined(t) /\ transactions[t].block > to)
      <4>1. transactions'[t] = transactions[t]
        BY <3>1, <3>4
      <4> QED BY <3>4, <4>1 DEF Mined
    <3> QED BY <3>3, <3>4
  <2>5. \A t \in Tx : Mined(t)' /\ transactions[t].block - 1 \in Stored
                        => transactions[t].block - 1 \in Stored'
    <3> SUFFICES ASSUME NEW t \in Tx, Mined(t)', transactions[t].block - 1 \in Stored
                 PROVE  transactions[t].block - 1 <= to
      BY <2>3
    <3>1. transactions[t].block \in Height
      BY <2>1, <2>4 DEF IInv, MinedInStored
    <3> QED BY <2>4, <3>1 DEF Height
  <2>6. \A t \in Tx : Mined(t) /\ transactions[t].block \in Stored' =>
          transactions'[t] = transactions[t]
    <3> SUFFICES ASSUME NEW t \in Tx, Mined(t), transactions[t].block \in Stored'
                 PROVE  transactions'[t] = transactions[t]
      OBVIOUS
    <3>1. transactions[t].block \in Int /\ transactions[t].block <= to
      <4>1. transactions[t].block \in Stored /\ transactions[t].block <= to
        BY <2>3
      <4>2. transactions[t].block \in Height
        BY <2>1, <4>1
      <4> QED BY <4>1, <4>2 DEF Height
    <3>2. ~(transactions[t].block > to)
      BY <3>1
    <3> QED BY <1>2, <3>2 DEF RewindToHeight, Unmine
  <2> QED BY <2>3, <2>4, <2>5, <2>6
<1> QED BY <1>1, <1>2

-----------------------------------------------------------------------------
(* Checkpoint *)

\* load_checkpoint puts one block into an empty table: nothing is mined and
\* no witness exists that could disagree with it.
LEMMA CheckpointPreserves ==
  ASSUME IInv, NEW tree \in Checkpoint, LoadCheckpoint(tree)
  PROVE  IInv'
<1> DEFINE h == Len(tree)
           row == [hash |-> tree[h], sapling_tree |-> tree]
<1> USE LedgerAssumption
<1>1. /\ Stored = {} /\ h \in Height
      /\ blocks' = [blocks EXCEPT ![h] = row]
      /\ UNCHANGED <<transactions, received_notes, sapling_witnesses, floor, deep>>
  BY DEF LoadCheckpoint
<1>2. tree \in Tree /\ row \in BlockRow
  <2>1. tree \in Seq(Block)
    BY WalletAssumption
  <2>2. tree[h] \in Block
    BY <1>1, <2>1, ElementOfSeq DEF Height
  <2> QED BY <2>1, <2>2 DEF Tree, BlockRow
<1>3. row # NULL
  BY <1>2, RowAssumption
<1>4. Stored' = h..h
  <2>1. \A k \in Height : blocks'[k] = IF k = h THEN row ELSE blocks[k]
    BY <1>1 DEF IInv, TypeOK
  <2> QED BY <1>1, <1>3, <2>1 DEF Stored, Height
<1>5. BlocksContiguous' /\ LastHeight' = h
  <2>1. h <= h
    BY <1>1 DEF Height
  <2>2. Contiguous(h..h) /\ Highest(h..h) = h
    BY <1>1, <2>1, HighestOfInterval
  <2> QED BY <1>4, <2>2 DEF BlocksContiguous, LastHeight
<1>6. \A t \in Tx : ~Mined(t) /\ ~Mined(t)'
  BY <1>1 DEF IInv, MinedInStored, Mined
<1>7. \A n \in Note, k \in Height : sapling_witnesses'[n][k] = NULL
  BY <1>1 DEF IInv, WitnessesRooted, Stored
<1>8. TypeOK'
  BY <1>1, <1>2 DEF IInv, TypeOK
<1>9. TreesChain'
  BY <1>1, <1>4 DEF TreesChain, Height
<1>10. WitnessesRooted' /\ WitnessesUnbroken'
  BY <1>7 DEF WitnessesRooted, WitnessesUnbroken, Stored
<1>11. MinedInStored' /\ NoteHeights' /\ SpendableUnlessDeep'
  BY <1>6 DEF MinedInStored, NoteHeights, SpendableUnlessDeep
<1>12. FloorBelowTip'
  <2>1. LastHeight = 0
    BY <1>1, Tip DEF IInv
  <2> QED BY <1>1, <1>5, <2>1 DEF IInv, FloorBelowTip, TypeOK, Height
<1> QED BY <1>5, <1>8, <1>9, <1>10, <1>11, <1>12 DEF IInv

-----------------------------------------------------------------------------
(* Scanning a block *)

\* A scanned block becomes the new tip, right above the old one.
LEMMA AdvanceTip ==
  ASSUME IInv, NEW b \in Block, AdvanceByBlock(b)
  PROVE  LET h   == LastHeight + 1
             row == [hash |-> b, sapling_tree |-> Append(LastTree, b)]
         IN /\ h \in Height /\ h \notin Stored /\ blocks[h] = NULL
            /\ row \in BlockRow
            /\ \A k \in Height : blocks'[k] = IF k = h THEN row ELSE blocks[k]
            /\ Stored' = Stored \cup {h}
            /\ Contiguous(Stored') /\ LastHeight' = h
<1> DEFINE h   == LastHeight + 1
           row == [hash |-> b, sapling_tree |-> Append(LastTree, b)]
<1> USE LedgerAssumption
<1>1. LastHeight \in 0..MaxHeight /\ BlocksContiguous /\ TypeOK
  BY Tip DEF IInv
<1>2. h \in Height
  BY DEF AdvanceByBlock
<1>3. h \notin Stored /\ blocks[h] = NULL
  BY <1>1, <1>2, Tip DEF Stored, Height
<1>4. row \in BlockRow
  BY <1>1, LastTreeType DEF BlockRow, Tree
<1>5. \A k \in Height : blocks'[k] = IF k = h THEN row ELSE blocks[k]
  BY <1>1 DEF AdvanceByBlock, TypeOK
<1>6. Stored' = Stored \cup {h}
  BY <1>2, <1>4, <1>5, RowAssumption DEF Stored
<1>7. \E lo \in Height : lo <= h /\ Stored' = lo..h
  <2>1. CASE Stored = {}
    BY <1>2, <1>6, <2>1 DEF Height
  <2>2. CASE Stored # {}
    <3>1. PICK lo \in Height, hi \in Height : lo <= hi /\ Stored = lo..hi
      BY <1>1, <2>2 DEF BlocksContiguous, Contiguous
    <3>2. LastHeight = hi
      BY <3>1, HighestOfInterval DEF LastHeight
    <3>3. lo <= h
      BY <3>1, <3>2 DEF Height
    <3>4. Stored' = lo..h
      BY <1>6, <3>1, <3>2 DEF Height
    <3> QED BY <3>3, <3>4
  <2> QED BY <2>1, <2>2
<1>8. Contiguous(Stored') /\ LastHeight' = h
  <2>1. PICK lo \in Height : lo <= h /\ Stored' = lo..h
    BY <1>7
  <2>2. Contiguous(lo..h) /\ Highest(lo..h) = h
    BY <1>2, <2>1, HighestOfInterval
  <2> QED BY <2>1, <2>2 DEF LastHeight
<1> QED BY <1>2, <1>3, <1>4, <1>5, <1>6, <1>8

\* put_tx_meta mines the relevant transactions and leaves the others alone.
LEMMA AdvanceTransactions ==
  ASSUME TypeOK, NEW b \in Block, AdvanceByBlock(b), LastHeight + 1 \in Height
  PROVE  /\ transactions' \in [Tx -> TxRow \cup {NULL}]
         /\ \A t \in Tx :
              IF t \in Relevant(b)
              THEN Mined(t)' /\ transactions'[t].block = LastHeight + 1
              ELSE transactions'[t] = transactions[t] /\ (Mined(t)' <=> Mined(t))
<1> DEFINE h == LastHeight + 1
           new(t) == [block |-> h,
                      expiry_height |-> IF transactions[t] = NULL THEN NULL
                                        ELSE transactions[t].expiry_height]
<1>1. transactions' = [t \in Tx |-> IF t \notin Relevant(b) THEN transactions[t]
                                    ELSE new(t)]
  BY DEF AdvanceByBlock, PutTxMeta
<1>2. \A t \in Tx : new(t) \in TxRow
  BY DEF TypeOK, TxRow
<1>3. h # NULL
  BY NullAssumption, LedgerAssumption DEF Height
<1>4. \A t \in Tx : t \in Relevant(b) => Mined(t)' /\ transactions'[t].block = h
  BY <1>1, <1>2, <1>3, RowAssumption DEF Mined
<1>5. \A t \in Tx : t \notin Relevant(b) =>
        transactions'[t] = transactions[t] /\ (Mined(t)' <=> Mined(t))
  BY <1>1 DEF Mined
<1>6. transactions' \in [Tx -> TxRow \cup {NULL}]
  BY <1>1, <1>2 DEF TypeOK
<1> QED BY <1>4, <1>5, <1>6

\* A note is new in a block exactly when the block's transaction that
\* creates it is relevant.
LEMMA NewNotesMined ==
  ASSUME NEW b \in Block, NEW n \in Note
  PROVE  n \in NewNotes(b) <=> TxOfNote[n] \in Relevant(b)
BY DEF NewNotes, NotesOf, Relevant

\* The upsert and the expiry update keep every row's type; a new note gets
\* the block's height and no other row changes its own.
LEMMA AdvanceNotes ==
  ASSUME TypeOK, NEW b \in Block, AdvanceByBlock(b), LastHeight + 1 \in Height
  PROVE  /\ received_notes' \in [Note -> NoteRow \cup {NULL}]
         /\ \A n \in Note :
              IF n \in NewNotes(b)
              THEN received_notes'[n] # NULL /\ received_notes'[n].height = LastHeight + 1
              ELSE /\ received_notes'[n] = NULL <=> received_notes[n] = NULL
                   /\ received_notes[n] # NULL =>
                        received_notes'[n].height = received_notes[n].height
<1> DEFINE h == LastHeight + 1
           mid == MarkAndReceive(b, h)
<1>1. \A n \in SpentNotes(b) : Spender(b, n) \in Tx
  <2> SUFFICES ASSUME NEW n \in SpentNotes(b)
               PROVE  Spender(b, n) \in Tx
    OBVIOUS
  <2>1. \E t \in Relevant(b) : n \in SpendsFound(t)
    BY DEF SpentNotes
  <2>2. Spender(b, n) \in Relevant(b)
    BY <2>1 DEF Spender
  <2> QED BY <2>2, LedgerAssumption DEF Relevant
<1>2. \A n \in Note :
        /\ mid[n] \in NoteRow \cup {NULL}
        /\ n \in NewNotes(b) => mid[n] # NULL /\ mid[n].height = h
        /\ n \notin NewNotes(b) =>
             /\ mid[n] = NULL <=> received_notes[n] = NULL
             /\ received_notes[n] # NULL => mid[n].height = received_notes[n].height
  <2> SUFFICES ASSUME NEW n \in Note
               PROVE  /\ mid[n] \in NoteRow \cup {NULL}
                      /\ n \in NewNotes(b) => mid[n] # NULL /\ mid[n].height = h
                      /\ n \notin NewNotes(b) =>
                           /\ mid[n] = NULL <=> received_notes[n] = NULL
                           /\ received_notes[n] # NULL =>
                                mid[n].height = received_notes[n].height
    OBVIOUS
  <2> DEFINE row == received_notes[n]
             spent == IF n \in SpentNotes(b) THEN Spender(b, n)
                      ELSE IF row = NULL THEN NULL ELSE row.spent
  <2>1. row \in NoteRow \cup {NULL}
    BY DEF TypeOK
  <2>2. spent \in Tx \cup {NULL}
    BY <1>1, <2>1 DEF NoteRow
  <2>3. mid[n] = IF n \in NewNotes(b) THEN [height |-> h, spent |-> spent]
                 ELSE IF row = NULL THEN NULL ELSE [row EXCEPT !.spent = spent]
    BY DEF MarkAndReceive
  <2> HIDE DEF mid, spent
  <2>4. [height |-> h, spent |-> spent] \in NoteRow
    BY <2>2 DEF NoteRow
  <2>5. row # NULL => /\ [row EXCEPT !.spent = spent] \in NoteRow
                      /\ [row EXCEPT !.spent = spent].height = row.height
    BY <2>1, <2>2 DEF NoteRow
  <2> QED BY <2>1, <2>3, <2>4, <2>5, RowAssumption
<1>3. \A n \in Note :
        /\ received_notes'[n] \in NoteRow \cup {NULL}
        /\ received_notes'[n] = NULL <=> mid[n] = NULL
        /\ mid[n] # NULL => received_notes'[n].height = mid[n].height
  <2> SUFFICES ASSUME NEW n \in Note
               PROVE  /\ received_notes'[n] \in NoteRow \cup {NULL}
                      /\ received_notes'[n] = NULL <=> mid[n] = NULL
                      /\ mid[n] # NULL => received_notes'[n].height = mid[n].height
    OBVIOUS
  <2>1. \/ received_notes'[n] = mid[n]
        \/ mid[n] # NULL /\ received_notes'[n] = [mid[n] EXCEPT !.spent = NULL]
    BY DEF AdvanceByBlock, UpdateExpired
  <2> HIDE DEF mid
  <2>2. mid[n] # NULL => /\ [mid[n] EXCEPT !.spent = NULL] \in NoteRow
                         /\ [mid[n] EXCEPT !.spent = NULL].height = mid[n].height
    BY <1>2 DEF NoteRow
  <2> QED BY <1>2, <2>1, <2>2, RowAssumption
<1>4. received_notes' = [n \in Note |-> received_notes'[n]]
  BY DEF AdvanceByBlock, UpdateExpired
<1> HIDE DEF mid
<1>5. received_notes' \in [Note -> NoteRow \cup {NULL}]
  BY <1>3, <1>4
<1> QED BY <1>2, <1>3, <1>5

\* After a scan a note has the new root as its witness at the new tip exactly
\* when it was carried over or is new; below, pruning only removes.
LEMMA AdvanceWitnesses ==
  ASSUME IInv, NEW b \in Block, AdvanceByBlock(b)
  PROVE  LET h == LastHeight + 1
             tree == Append(LastTree, b)
         IN /\ tree \in Tree
            /\ \A n \in Note :
                 sapling_witnesses'[n][h] =
                   IF n \in NewNotes(b) \cup Watched THEN tree ELSE NULL
            /\ \A n \in Note, k \in Height : k # h =>
                 sapling_witnesses'[n][k] =
                   IF k < h - PruneDepth THEN NULL ELSE sapling_witnesses[n][k]
            /\ sapling_witnesses' \in [Note -> [Height -> Tree \cup {NULL}]]
<1> DEFINE h    == LastHeight + 1
           tree == Append(LastTree, b)
<1>1. TypeOK /\ BlocksContiguous /\ LastHeight \in 0..MaxHeight
  BY Tip DEF IInv
<1>2. h \in Height /\ blocks[h] = NULL
  BY AdvanceTip
<1>3. tree \in Tree
  BY <1>1, LastTreeType DEF Tree
<1>4. ~(h < h - PruneDepth)
  BY <1>2, WalletAssumption, LedgerAssumption DEF Height
<1>5. \A n \in Note : sapling_witnesses[n][h] = NULL
  BY <1>2 DEF IInv, WitnessesRooted
<1>6. \A n \in Watched : Append(sapling_witnesses[n][LastHeight], b) = tree
  BY <1>1, Tip DEF IInv, Watched, WitnessesRooted, LastTree, Stored
<1>7. sapling_witnesses' = InsertAndPrune(b, h)
  BY DEF AdvanceByBlock
<1>8. \A n \in Note :
        sapling_witnesses'[n][h] = IF n \in NewNotes(b) \cup Watched THEN tree ELSE NULL
  <2> HIDE DEF tree
  <2> SUFFICES ASSUME NEW n \in Note
               PROVE  sapling_witnesses'[n][h] =
                        IF n \in NewNotes(b) \cup Watched THEN tree ELSE NULL
    OBVIOUS
  <2>1. sapling_witnesses'[n][h] =
          IF n \in NewNotes(b) THEN Append(LastTree, b)
          ELSE IF n \in Watched THEN Append(sapling_witnesses[n][LastHeight], b)
          ELSE sapling_witnesses[n][h]
    BY <1>2, <1>4, <1>7 DEF InsertAndPrune
  <2> QED BY <1>5, <1>6, <2>1 DEF tree
<1>9. \A n \in Note, k \in Height : k # h =>
        sapling_witnesses'[n][k] =
          IF k < h - PruneDepth THEN NULL ELSE sapling_witnesses[n][k]
  BY <1>7 DEF InsertAndPrune
<1>10. \A n \in Note, k \in Height : sapling_witnesses'[n][k] \in Tree \cup {NULL}
  BY <1>1, <1>3, <1>8, <1>9 DEF TypeOK
<1>11. sapling_witnesses' = [n \in Note |-> [k \in Height |-> sapling_witnesses'[n][k]]]
  BY <1>7 DEF InsertAndPrune
<1>12. sapling_witnesses' \in [Note -> [Height -> Tree \cup {NULL}]]
  BY <1>10, <1>11
<1> QED BY <1>3, <1>8, <1>9, <1>12

\* advance_by_block preserves the invariant.
LEMMA AdvancePreserves ==
  ASSUME IInv, NEW b \in Block, AdvanceByBlock(b)
  PROVE  IInv'
<1> DEFINE h    == LastHeight + 1
           tree == Append(LastTree, b)
           row  == [hash |-> b, sapling_tree |-> tree]
<1> USE LedgerAssumption
<1>1. /\ TypeOK /\ LastHeight \in 0..MaxHeight /\ Stored \subseteq Height
      /\ \A k \in Stored : k <= LastHeight
      /\ Stored = {} => LastHeight = 0
      /\ Stored # {} => LastHeight \in Stored
  BY Tip DEF IInv
<1>2. /\ h \in Height /\ h \notin Stored /\ blocks[h] = NULL
      /\ row \in BlockRow
      /\ \A k \in Height : blocks'[k] = IF k = h THEN row ELSE blocks[k]
      /\ Stored' = Stored \cup {h}
      /\ Contiguous(Stored') /\ LastHeight' = h
  BY AdvanceTip
<1>3. /\ transactions' \in [Tx -> TxRow \cup {NULL}]
      /\ \A t \in Tx :
           IF t \in Relevant(b)
           THEN Mined(t)' /\ transactions'[t].block = h
           ELSE transactions'[t] = transactions[t] /\ (Mined(t)' <=> Mined(t))
  BY <1>1, <1>2, AdvanceTransactions
<1>4. /\ received_notes' \in [Note -> NoteRow \cup {NULL}]
      /\ \A n \in Note :
           IF n \in NewNotes(b)
           THEN received_notes'[n] # NULL /\ received_notes'[n].height = h
           ELSE /\ received_notes'[n] = NULL <=> received_notes[n] = NULL
                /\ received_notes[n] # NULL =>
                     received_notes'[n].height = received_notes[n].height
  BY <1>1, <1>2, AdvanceNotes
<1>5. /\ tree \in Tree
      /\ \A n \in Note :
           sapling_witnesses'[n][h] =
             IF n \in NewNotes(b) \cup Watched THEN tree ELSE NULL
      /\ \A n \in Note, k \in Height : k # h =>
           sapling_witnesses'[n][k] =
             IF k < h - PruneDepth THEN NULL ELSE sapling_witnesses[n][k]
      /\ sapling_witnesses' \in [Note -> [Height -> Tree \cup {NULL}]]
  BY AdvanceWitnesses
<1>6. /\ floor' = IF h - PruneDepth > floor THEN h - PruneDepth ELSE floor
      /\ deep' = deep
      /\ Watched \cap NewNotes(b) = {}
  BY DEF AdvanceByBlock, WitnessClash
<1>7. \A n \in Note : /\ TxOfNote[n] \in Tx
                      /\ n \in NewNotes(b) <=> TxOfNote[n] \in Relevant(b)
  BY NewNotesMined
<1>8. h \notin Stored /\ \A k \in Stored : k # h /\ k < h /\ blocks'[k] = blocks[k]
  <2>1. \A k \in Stored : k \in Height /\ k <= LastHeight
    BY <1>1
  <2>2. \A k \in Stored : k < h /\ k # h
    BY <1>1, <2>1 DEF Height
  <2> HIDE DEF h, row
  <2> QED BY <1>2, <2>1, <2>2
<1>9. tree # NULL
  BY <1>5, NullAssumption DEF Tree
<1>10. \A n \in Note : n \in Watched <=>
         (Stored # {} /\ sapling_witnesses[n][LastHeight] # NULL)
  BY DEF Watched
<1> HIDE DEF h, tree
<1>11. TypeOK'
  <2>1. blocks' \in [Height -> BlockRow \cup {NULL}]
    <3>1. blocks' = [blocks EXCEPT ![h] = row]
      BY DEF AdvanceByBlock, h, tree
    <3> QED BY <1>1, <1>2, <3>1 DEF TypeOK
  <2>2. floor' \in Int
    BY <1>1, <1>2, <1>6, WalletAssumption DEF TypeOK, Height
  <2>3. deep' \in BOOLEAN
    BY <1>1, <1>6 DEF TypeOK
  <2> QED BY <1>3, <1>4, <1>5, <2>1, <2>2, <2>3 DEF TypeOK
<1>12. BlocksContiguous'
  BY <1>2 DEF BlocksContiguous
<1>13. TreesChain'
  <2> SUFFICES ASSUME NEW k \in Stored', k - 1 \in Stored'
               PROVE  blocks'[k].sapling_tree =
                        Append(blocks'[k - 1].sapling_tree, blocks'[k].hash)
    BY DEF TreesChain
  <2>1. CASE k = h
    <3>1. k - 1 = LastHeight /\ Stored # {} /\ k - 1 \in Stored /\ k - 1 \in Height
      BY <1>1, <1>2, <2>1 DEF h, Height
    <3>2. LastTree = blocks'[k - 1].sapling_tree
      BY <1>8, <3>1 DEF LastTree
    <3>3. blocks'[k] = row
      BY <1>2, <2>1
    <3> QED BY <3>2, <3>3 DEF tree
  <2>2. CASE k # h
    <3>1. k \in Stored
      BY <1>2, <2>2
    <3>2. k - 1 # h
      <4>1. k < h /\ k \in 1..MaxHeight /\ h \in 1..MaxHeight
        BY <1>1, <1>2, <1>8, <3>1 DEF Height
      <4> QED BY <4>1
    <3>3. k - 1 \in Stored
      BY <1>2, <3>2
    <3> QED BY <1>8, <3>1, <3>3 DEF IInv, TreesChain
  <2> QED BY <2>1, <2>2
<1>14. WitnessesRooted'
  <2> SUFFICES ASSUME NEW n \in Note, NEW k \in Height,
                      sapling_witnesses'[n][k] # NULL
               PROVE  /\ blocks'[k] # NULL
                      /\ sapling_witnesses'[n][k] = blocks'[k].sapling_tree
                      /\ Mined(TxOfNote[n])'
                      /\ transactions'[TxOfNote[n]].block <= k
    BY DEF WitnessesRooted
  <2>1. CASE k = h
    <3>1. n \in NewNotes(b) \cup Watched /\ sapling_witnesses'[n][k] = tree
      BY <1>5, <2>1
    <3>2. blocks'[k] # NULL /\ blocks'[k].sapling_tree = tree
      BY <1>2, <2>1, RowAssumption
    <3>3. Mined(TxOfNote[n])' /\ transactions'[TxOfNote[n]].block <= k
      <4>1. CASE n \in NewNotes(b)
        BY <1>2, <1>3, <1>7, <2>1, <4>1 DEF Height
      <4>2. CASE n \notin NewNotes(b)
        <5>1. LastHeight \in Height /\ sapling_witnesses[n][LastHeight] # NULL
          BY <1>1, <1>10, <3>1, <4>2
        <5>2. Mined(TxOfNote[n]) /\ transactions[TxOfNote[n]].block <= LastHeight
          BY <5>1 DEF IInv, WitnessesRooted
        <5>3. Mined(TxOfNote[n])' /\ transactions'[TxOfNote[n]] = transactions[TxOfNote[n]]
          BY <1>3, <1>7, <4>2, <5>2
        <5>4. transactions[TxOfNote[n]].block \in Height
          BY <1>1, <1>7, <5>2 DEF TypeOK, TxRow, Mined
        <5> QED BY <1>1, <2>1, <5>2, <5>3, <5>4 DEF h, Height
      <4> QED BY <4>1, <4>2
    <3> QED BY <3>1, <3>2, <3>3
  <2>2. CASE k # h
    <3>1. sapling_witnesses'[n][k] = sapling_witnesses[n][k]
      BY <1>5, <2>2
    <3>2. /\ blocks[k] # NULL
          /\ sapling_witnesses[n][k] = blocks[k].sapling_tree
          /\ Mined(TxOfNote[n])
          /\ transactions[TxOfNote[n]].block <= k
      BY <3>1 DEF IInv, WitnessesRooted
    <3>3. n \in Watched
      <4>1. k \in Stored
        BY <3>2 DEF Stored
      <4>2. LastHeight \in Stored /\ k <= LastHeight
        BY <1>1, <4>1
      <4>3. sapling_witnesses[n][LastHeight] # NULL
        BY <3>1, <4>1, <4>2 DEF IInv, WitnessesUnbroken
      <4> QED BY <1>10, <4>2, <4>3
    <3>4. TxOfNote[n] \notin Relevant(b)
      BY <1>6, <1>7, <3>3
    <3>5. Mined(TxOfNote[n])' /\ transactions'[TxOfNote[n]] = transactions[TxOfNote[n]]
      BY <1>3, <1>7, <3>2, <3>4
    <3> QED BY <1>2, <2>2, <3>1, <3>2, <3>5
  <2> QED BY <2>1, <2>2
<1>15. WitnessesUnbroken'
  <2> SUFFICES ASSUME NEW n \in Note, NEW j \in Stored', NEW k \in Stored',
                      j <= k, sapling_witnesses'[n][j] # NULL
               PROVE  sapling_witnesses'[n][k] # NULL
    BY DEF WitnessesUnbroken
  <2>1. CASE j = h
    <3>1. k = h
      BY <1>1, <1>2, <1>8, <2>1 DEF Height
    <3> QED BY <2>1, <3>1
  <2>2. CASE j # h
    <3>1. j \in Stored /\ j \in Height /\ ~(j < h - PruneDepth)
          /\ sapling_witnesses[n][j] # NULL
      BY <1>1, <1>2, <1>5, <2>2
    <3>2. CASE k = h
      <4>1. LastHeight \in Stored /\ j <= LastHeight
        BY <1>1, <3>1
      <4>2. sapling_witnesses[n][LastHeight] # NULL
        BY <3>1, <4>1 DEF IInv, WitnessesUnbroken
      <4>3. n \in Watched
        BY <1>10, <4>1, <4>2
      <4> QED BY <1>5, <1>9, <3>2, <4>3
    <3>3. CASE k # h
      <4>1. k \in Stored /\ k \in Height
        BY <1>1, <1>2, <3>3
      <4>2. sapling_witnesses[n][k] # NULL
        BY <3>1, <4>1 DEF IInv, WitnessesUnbroken
      <4>3. ~(k < h - PruneDepth)
        BY <1>2, <3>1, <4>1, WalletAssumption DEF Height
      <4> QED BY <1>5, <3>3, <4>1, <4>2, <4>3
    <3> QED BY <3>2, <3>3
  <2> QED BY <2>1, <2>2
<1>16. MinedInStored'
  <2> SUFFICES ASSUME NEW t \in Tx, Mined(t)'
               PROVE  /\ transactions'[t].block \in Stored'
                      /\ t \in BlockTx[blocks'[transactions'[t].block].hash]
    BY DEF MinedInStored
  <2>1. CASE t \in Relevant(b)
    <3>1. t \in BlockTx[b]
      BY <2>1 DEF Relevant
    <3> QED BY <1>2, <1>3, <2>1, <3>1
  <2>2. CASE t \notin Relevant(b)
    <3>1. Mined(t) /\ transactions'[t] = transactions[t]
      BY <1>3, <2>2
    <3>2. /\ transactions[t].block \in Stored
          /\ t \in BlockTx[blocks[transactions[t].block].hash]
      BY <3>1 DEF IInv, MinedInStored
    <3> QED BY <1>2, <1>8, <3>1, <3>2
  <2> QED BY <2>1, <2>2
<1>17. NoteHeights'
  <2> SUFFICES ASSUME NEW n \in Note, Mined(TxOfNote[n])'
               PROVE  /\ received_notes'[n] # NULL
                      /\ received_notes'[n].height = transactions'[TxOfNote[n]].block
    BY DEF NoteHeights
  <2>1. CASE n \in NewNotes(b)
    BY <1>3, <1>4, <1>7, <2>1
  <2>2. CASE n \notin NewNotes(b)
    <3>1. Mined(TxOfNote[n]) /\ transactions'[TxOfNote[n]] = transactions[TxOfNote[n]]
      BY <1>3, <1>7, <2>2
    <3>2. /\ received_notes[n] # NULL
          /\ received_notes[n].height = transactions[TxOfNote[n]].block
      BY <3>1 DEF IInv, NoteHeights
    <3> QED BY <1>4, <2>2, <3>1, <3>2
  <2> QED BY <2>1, <2>2
<1>18. floor \in Int /\ floor' \in Int /\ floor <= floor' /\ h - PruneDepth <= floor'
  BY <1>1, <1>2, <1>6, WalletAssumption DEF TypeOK, Height
<1>19. FloorBelowTip'
  <2> SUFFICES ASSUME ~deep' PROVE floor' <= h
    BY <1>2 DEF FloorBelowTip
  <2>1. floor <= LastHeight
    BY <1>6 DEF IInv, FloorBelowTip
  <2> QED BY <1>1, <1>6, <1>18, <2>1, WalletAssumption DEF h
<1>20. SpendableUnlessDeep'
  <2> SUFFICES ASSUME ~deep', NEW n \in Note, NEW k \in Stored',
                      Mined(TxOfNote[n])', transactions'[TxOfNote[n]].block <= k,
                      floor' <= k
               PROVE  sapling_witnesses'[n][k] # NULL
    BY DEF SpendableUnlessDeep
  <2>1. CASE n \in NewNotes(b)
    <3>1. h <= k
      BY <1>3, <1>7, <2>1
    <3>2. k = h
      BY <1>1, <1>2, <1>8, <3>1 DEF Height
    <3> QED BY <1>5, <1>9, <2>1, <3>2
  <2>2. CASE n \notin NewNotes(b)
    <3>1. Mined(TxOfNote[n]) /\ transactions'[TxOfNote[n]] = transactions[TxOfNote[n]]
      BY <1>3, <1>7, <2>2
    <3>2. CASE k = h
      <4>1. transactions[TxOfNote[n]].block \in Stored
        BY <1>7, <3>1 DEF IInv, MinedInStored
      <4>2. LastHeight \in Stored /\ transactions[TxOfNote[n]].block <= LastHeight
        BY <1>1, <4>1
      <4>3. floor <= LastHeight /\ ~deep
        BY <1>6 DEF IInv, FloorBelowTip
      <4>4. sapling_witnesses[n][LastHeight] # NULL
        BY <3>1, <4>2, <4>3 DEF IInv, SpendableUnlessDeep
      <4>5. n \in Watched
        BY <1>10, <4>2, <4>4
      <4> QED BY <1>5, <1>9, <3>2, <4>5
    <3>3. CASE k # h
      <4>1. k \in Stored /\ k \in Height
        BY <1>1, <1>2, <3>3
      <4>2. floor <= k /\ ~(k < h - PruneDepth)
        BY <1>2, <1>18, <4>1, WalletAssumption DEF Height
      <4>3. sapling_witnesses[n][k] # NULL
        BY <1>6, <3>1, <4>1, <4>2 DEF IInv, SpendableUnlessDeep
      <4> QED BY <1>5, <3>3, <4>1, <4>2, <4>3
    <3> QED BY <3>2, <3>3
  <2> QED BY <2>1, <2>2
<1> QED BY <1>11, <1>12, <1>13, <1>14, <1>15, <1>16, <1>17, <1>19, <1>20 DEF IInv

-----------------------------------------------------------------------------
(* The theorems *)

\* Every behaviour of the shielded tables satisfies the inductive invariant.
THEOREM InvariantHolds == Spec => []IInv
<1>1. IInv /\ [Next]_vars => IInv'
  <2> SUFFICES ASSUME IInv, [Next]_vars
               PROVE  IInv'
    OBVIOUS
  <2>1. ASSUME NEW b \in Block, AdvanceByBlock(b)
        PROVE  IInv'
    BY <2>1, AdvancePreserves
  <2>2. ASSUME NEW to \in RewindHeight, RewindToHeight(to)
        PROVE  IInv'
    <3>1. to \in Int
      BY WalletAssumption
    <3> QED BY <2>2, <3>1, RewindPreserves
  <2>3. ASSUME NEW tree \in Checkpoint, LoadCheckpoint(tree)
        PROVE  IInv'
    BY <2>3, CheckpointPreserves
  <2>4. CASE UNCHANGED vars
    BY <2>4, StutterPreserves
  <2> QED BY <2>1, <2>2, <2>3, <2>4 DEF Next
<1> QED BY InitIInv, <1>1, PTL DEF Spec

\* The tables keep their types.
THEOREM TypeCorrect == Spec => []TypeOK
<1>1. IInv => TypeOK
  BY DEF IInv
<1> QED BY <1>1, InvariantHolds, PTL

\* The blocks table never has a gap.
THEOREM NoGapInBlocks == Spec => []BlocksContiguous
<1>1. IInv => BlocksContiguous
  BY DEF IInv
<1> QED BY <1>1, InvariantHolds, PTL

\* Every stored witness proves membership under the stored tree of its
\* height, and only for a note whose transaction is mined.
THEOREM WitnessesAlwaysRooted == Spec => []WitnessesRooted
<1>1. IInv => WitnessesRooted
  BY DEF IInv
<1> QED BY <1>1, InvariantHolds, PTL

\* A transaction marked mined is in the block stored at that height.
THEOREM MinedAlwaysInStored == Spec => []MinedInStored
<1>1. IInv => MinedInStored
  BY DEF IInv
<1> QED BY <1>1, InvariantHolds, PTL

\* Unless a rewind went below the pruned heights, a mined note can be spent
\* at every anchor from the pruning floor up.
THEOREM SpendableAlways == Spec => []SpendableUnlessDeep
<1>1. IInv => SpendableUnlessDeep
  BY DEF IInv
<1> QED BY <1>1, InvariantHolds, PTL

\* Every stored commitment tree extends the one below it by its own block.
THEOREM TreesAlwaysChain == Spec => []TreesChain
<1>1. IInv => TreesChain
  BY DEF IInv
<1> QED BY <1>1, InvariantHolds, PTL

\* The line of a note's witnesses, once begun, reaches the stored tip.
THEOREM WitnessesNeverBreakOff == Spec => []WitnessesUnbroken
<1>1. IInv => WitnessesUnbroken
  BY DEF IInv
<1> QED BY <1>1, InvariantHolds, PTL

\* The two records of the height of a mined note agree.
THEOREM NoteHeightsAgree == Spec => []NoteHeights
<1>1. IInv => NoteHeights
  BY DEF IInv
<1> QED BY <1>1, InvariantHolds, PTL

-----------------------------------------------------------------------------
(* Spends on one chain *)

\* What is recorded as a note's spender reveals its nullifier.
SpendersSpend ==
  \A n \in Note : (received_notes[n] # NULL /\ received_notes[n].spent # NULL) =>
    n \in NotesSpent[received_notes[n].spent]

\* SpendsDetected without its premise.
StoredSpends ==
  \A h \in Stored : \A t \in BlockTx[blocks[h].hash] : \A n \in NotesSpent[t] :
    Mined(TxOfNote[n]) => received_notes[n].spent = t /\ Mined(t)

\* A block is stored at its height.
StoredAtHeight == \A h \in Stored : HeightOf[blocks[h].hash] = h

\* The inductive invariant of a worker that never mixes two branches.
SpendInv == IInv /\ Linked /\ StoredAtHeight /\ SpendersSpend /\ StoredSpends

\* Consensus, read from the rows of a blocks table: a nullifier is revealed
\* at one height, above its note.
LEMMA RowsConsensus ==
  ASSUME NEW rows \in [Height -> BlockRow \cup {NULL}],
         NEW on, on = {h \in Height : rows[h] # NULL}, Contiguous(on),
         \A h \in on : h - 1 \in on => PrevHash[rows[h].hash] = rows[h - 1].hash,
         \A h \in on : HeightOf[rows[h].hash] = h,
         NEW i \in on, NEW j \in on,
         NEW s \in BlockTx[rows[i].hash], NEW t \in BlockTx[rows[j].hash]
  PROVE  /\ NotesSpent[s] \cap NotesSpent[t] # {} => i = j
         /\ NotesOf(s) \cap NotesSpent[t] # {} => i < j
<1> DEFINE C == {rows[h].hash : h \in on}
<1>1. \A h \in on : h \in Int /\ rows[h].hash \in Block
  BY LedgerAssumption DEF BlockRow, Height
<1>2. ASSUME NEW k \in on, NEW l \in on
      PROVE  /\ HeightOf[rows[k].hash] = HeightOf[rows[l].hash] => rows[k].hash = rows[l].hash
             /\ HeightOf[rows[l].hash] < HeightOf[rows[k].hash] => PrevHash[rows[k].hash] \in C
  <2>1. HeightOf[rows[k].hash] = k /\ HeightOf[rows[l].hash] = l
    OBVIOUS
  <2>2. ASSUME l < k PROVE PrevHash[rows[k].hash] \in C
    <3>1. PICK lo, hi \in Height : on = lo..hi
      BY DEF Contiguous
    <3>2. lo \in Int /\ hi \in Int
      BY LedgerAssumption DEF Height
    <3>3. k - 1 \in on
      BY <1>1, <2>2, <3>1, <3>2
    <3> QED BY <3>3
  <2> QED BY <2>1, <2>2
<1>3. IsChain(C) /\ C \in SUBSET Block
  BY <1>1, <1>2 DEF IsChain
<1>4. rows[i].hash \in C /\ rows[j].hash \in C
  OBVIOUS
<1> HIDE DEF C
<1>5. /\ NotesSpent[s] \cap NotesSpent[t] # {} => rows[i].hash = rows[j].hash
      /\ NotesOf(s) \cap NotesSpent[t] # {} => HeightOf[rows[i].hash] < HeightOf[rows[j].hash]
  BY <1>3, <1>4, ChainAssumption
<1>6. HeightOf[rows[i].hash] = i /\ HeightOf[rows[j].hash] = j
  OBVIOUS
<1> QED BY <1>5, <1>6

\* A note whose nullifier the block reveals gets its spender; any other row
\* keeps its own as long as that is mined.
LEMMA AdvanceSpent ==
  ASSUME IInv, NEW b \in Block, AdvanceByBlock(b), NEW n \in Note
  PROVE  /\ n \in SpentNotes(b) =>
              /\ received_notes[n] # NULL /\ received_notes'[n] # NULL
              /\ Spender(b, n) \in Relevant(b) /\ n \in NotesSpent[Spender(b, n)]
              /\ received_notes'[n].spent = Spender(b, n)
         /\ (n \notin SpentNotes(b) /\ received_notes'[n] # NULL) =>
              \/ received_notes'[n].spent = NULL
              \/ received_notes[n] # NULL /\ received_notes'[n].spent = received_notes[n].spent
         /\ \A t \in Tx :
              (/\ n \notin SpentNotes(b) /\ received_notes[n] # NULL
               /\ received_notes[n].spent = t /\ Mined(t)') =>
                received_notes'[n] # NULL /\ received_notes'[n].spent = t
<1> DEFINE h     == LastHeight + 1
           mid   == MarkAndReceive(b, h)
           row   == received_notes[n]
           spent == IF n \in SpentNotes(b) THEN Spender(b, n)
                    ELSE IF row = NULL THEN NULL ELSE row.spent
<1>1. /\ h \in Height /\ TypeOK
      /\ transactions' = PutTxMeta(b, h)
      /\ received_notes' = UpdateExpired(mid, transactions', h)
  BY AdvanceTip DEF IInv, AdvanceByBlock
<1>2. \A t \in Relevant(b) : t \in Tx /\ Mined(t)'
  BY <1>1, AdvanceTransactions, LedgerAssumption DEF Relevant
<1>3. row \in NoteRow \cup {NULL}
  BY <1>1 DEF TypeOK
<1>4. n \in SpentNotes(b) => /\ Spender(b, n) \in Relevant(b) /\ row # NULL
                             /\ n \in NotesSpent[Spender(b, n)]
  <2> SUFFICES ASSUME n \in SpentNotes(b)
               PROVE  /\ Spender(b, n) \in Relevant(b) /\ row # NULL
                      /\ n \in NotesSpent[Spender(b, n)]
    OBVIOUS
  <2>1. \E t \in Relevant(b) : n \in SpendsFound(t)
    BY DEF SpentNotes
  <2>2. Spender(b, n) \in Relevant(b) /\ n \in SpendsFound(Spender(b, n))
    BY <2>1 DEF Spender
  <2> QED BY <2>2 DEF SpendsFound, Nullifiers
<1>5. mid[n] = IF n \in NewNotes(b) THEN [height |-> h, spent |-> spent]
               ELSE IF row = NULL THEN NULL ELSE [row EXCEPT !.spent = spent]
  BY DEF MarkAndReceive
<1>6. \/ received_notes'[n] = mid[n]
      \/ /\ mid[n] # NULL /\ received_notes'[n] = [mid[n] EXCEPT !.spent = NULL]
         /\ Expired(transactions', mid[n].spent, h)
  <2>1. received_notes'[n] = IF mid[n] # NULL /\ Expired(transactions', mid[n].spent, h)
                             THEN [mid[n] EXCEPT !.spent = NULL] ELSE mid[n]
    BY <1>1 DEF UpdateExpired
  <2> QED BY <2>1
<1>7. spent \in Tx \cup {NULL}
  BY <1>2, <1>3, <1>4 DEF NoteRow
<1> HIDE DEF mid, spent
<1>8. mid[n] # NULL => /\ mid[n] \in NoteRow /\ mid[n].spent = spent
                       /\ [mid[n] EXCEPT !.spent = NULL] \in NoteRow
                       /\ [mid[n] EXCEPT !.spent = NULL].spent = NULL
  BY <1>1, <1>3, <1>5, <1>7 DEF NoteRow
<1>9. row # NULL => mid[n] # NULL
  <2>1. ASSUME row # NULL PROVE [row EXCEPT !.spent = spent] \in NoteRow
    BY <1>3, <1>7, <2>1 DEF NoteRow
  <2>2. [height |-> h, spent |-> spent] \in NoteRow
    BY <1>1, <1>7 DEF NoteRow
  <2> QED BY <1>5, <2>1, <2>2, RowAssumption
<1>10. \A t \in Tx : Mined(t)' => ~Expired(transactions', t, h)
  BY DEF Expired, Mined
<1>11. CASE n \in SpentNotes(b)
  <2>1. spent = Spender(b, n) /\ mid[n] # NULL /\ mid[n].spent = spent
    BY <1>4, <1>8, <1>9, <1>11 DEF spent
  <2>2. received_notes'[n] = mid[n]
    BY <1>2, <1>4, <1>6, <1>10, <1>11, <2>1
  <2> QED BY <1>4, <1>11, <2>1, <2>2
<1>12. CASE n \notin SpentNotes(b)
  <2>1. spent = IF row = NULL THEN NULL ELSE row.spent
    BY <1>12 DEF spent
  <2>2. received_notes'[n] # NULL =>
          received_notes'[n].spent = NULL \/ received_notes'[n].spent = spent
    BY <1>6, <1>8
  <2>3. ASSUME NEW t \in Tx, row # NULL, row.spent = t, Mined(t)'
        PROVE  received_notes'[n] # NULL /\ received_notes'[n].spent = t
    <3>1. mid[n] # NULL /\ mid[n].spent = t
      BY <1>8, <1>9, <2>1, <2>3
    <3>2. received_notes'[n] = mid[n]
      BY <1>6, <1>10, <2>3, <3>1
    <3> QED BY <3>1, <3>2
  <2> QED BY <1>12, <2>1, <2>2, <2>3
<1> QED BY <1>11, <1>12

\* A scan records every spend the block reveals, and none is lost.
LEMMA AdvanceKeepsSpends ==
  ASSUME SpendInv, NEW b \in Block, AdvanceByBlock(b), Linked'
  PROVE  SpendInv'
<1> DEFINE h == LastHeight + 1
<1>1. IInv' /\ TypeOK /\ TypeOK' /\ BlocksContiguous' /\ Linked /\ IInv
  BY AdvancePreserves DEF SpendInv, IInv
<1>2. /\ h \in Height /\ h \notin Stored
      /\ Stored' = Stored \cup {h} /\ blocks'[h].hash = b
      /\ \A k \in Stored : blocks'[k] = blocks[k]
  <2> DEFINE row == [hash |-> b, sapling_tree |-> Append(LastTree, b)]
  <2>1. row.hash = b
    OBVIOUS
  <2>2. /\ h \in Height /\ h \notin Stored
        /\ \A k \in Height : blocks'[k] = IF k = h THEN row ELSE blocks[k]
        /\ Stored' = Stored \cup {h}
    BY <1>1, AdvanceTip
  <2>3. Stored \subseteq Height
    BY DEF Stored
  <2> HIDE DEF row
  <2> QED BY <2>1, <2>2, <2>3
<1>3. \A t \in Tx : IF t \in Relevant(b)
                    THEN Mined(t)' /\ transactions'[t].block = h
                    ELSE transactions'[t] = transactions[t] /\ (Mined(t)' <=> Mined(t))
  BY <1>1, <1>2, AdvanceTransactions
<1>0. StoredAtHeight'
  BY <1>2 DEF SpendInv, StoredAtHeight, AdvanceByBlock
<1>4. SpendersSpend'
  <2> SUFFICES ASSUME NEW n \in Note, received_notes'[n] # NULL, received_notes'[n].spent # NULL
               PROVE  n \in NotesSpent[received_notes'[n].spent]
    BY DEF SpendersSpend
  <2>1. CASE n \in SpentNotes(b)
    BY <1>1, <2>1, AdvanceSpent
  <2>2. CASE n \notin SpentNotes(b)
    <3>1. received_notes[n] # NULL /\ received_notes'[n].spent = received_notes[n].spent
      BY <1>1, <2>2, AdvanceSpent
    <3> QED BY <3>1 DEF SpendInv, SpendersSpend
  <2> QED BY <2>1, <2>2
<1>5. StoredSpends'
  <2> SUFFICES ASSUME NEW k \in Stored', NEW t \in BlockTx[blocks'[k].hash],
                      NEW n \in NotesSpent[t], Mined(TxOfNote[n])'
               PROVE  received_notes'[n].spent = t /\ Mined(t)'
    BY DEF StoredSpends
  <2>1. blocks'[k].hash \in Block
    BY RowAssumption, <1>1 DEF Stored, TypeOK, BlockRow
  <2>2. t \in Tx /\ n \in Note /\ TxOfNote[n] \in Tx /\ n \in NotesOf(TxOfNote[n])
    BY <2>1, LedgerAssumption DEF NotesOf
  <2>3. \A i, j \in Stored' :
          \A x \in BlockTx[blocks'[i].hash], y \in BlockTx[blocks'[j].hash] :
            /\ NotesSpent[x] \cap NotesSpent[y] # {} => i = j
            /\ NotesOf(x) \cap NotesSpent[y] # {} => i < j
    <3> DEFINE rows == blocks'
               on   == Stored'
    <3>1. /\ rows \in [Height -> BlockRow \cup {NULL}]
          /\ on = {i \in Height : rows[i] # NULL} /\ Contiguous(on)
          /\ \A i \in on : i - 1 \in on => PrevHash[rows[i].hash] = rows[i - 1].hash
          /\ \A i \in on : HeightOf[rows[i].hash] = i
      BY <1>0, <1>1 DEF TypeOK, BlocksContiguous, Linked, Stored, StoredAtHeight
    <3> HIDE DEF rows, on
    <3>2. \A i, j \in on : \A x \in BlockTx[rows[i].hash], y \in BlockTx[rows[j].hash] :
            /\ NotesSpent[x] \cap NotesSpent[y] # {} => i = j
            /\ NotesOf(x) \cap NotesSpent[y] # {} => i < j
      BY <3>1, RowsConsensus
    <3> QED BY <3>2 DEF rows, on
  <2>4. h \in Stored' /\ h \in Int /\ \A i \in Stored' : i \in Int /\ i <= h
    <3>1. Stored' \subseteq Height
      BY DEF Stored
    <3>2. \A i \in Height : i \in Int
      BY LedgerAssumption DEF Height
    <3>3. LastHeight \in Int /\ \A i \in Stored : i <= LastHeight
      BY <1>1, Tip DEF IInv
    <3>4. \A i \in Stored : i \in Int /\ i <= h
      BY <1>2, <3>1, <3>2, <3>3
    <3> QED BY <1>2, <3>2, <3>3, <3>4
  <2>5. TxOfNote[n] \notin Relevant(b)
    <3> SUFFICES ASSUME TxOfNote[n] \in Relevant(b) PROVE FALSE
      OBVIOUS
    <3>1. TxOfNote[n] \in BlockTx[blocks'[h].hash]
      BY <1>2 DEF Relevant
    <3>2. n \in NotesOf(TxOfNote[n]) \cap NotesSpent[t]
      BY <2>2
    <3>3. h < k
      BY <2>3, <2>4, <3>1, <3>2
    <3> QED BY <2>4, <3>3
  <2>6. Mined(TxOfNote[n])
    BY <1>3, <2>2, <2>5
  <2>7. CASE k \in Stored
    <3>1. received_notes[n].spent = t /\ Mined(t)
      BY <1>2, <2>6, <2>7 DEF SpendInv, StoredSpends
    <3>2. received_notes[n] # NULL
      BY <1>1, <2>2, <2>6 DEF IInv, NoteHeights
    <3>3. n \notin SpentNotes(b)
      <4>1. t # NULL
        BY <2>2, NullAssumption
      <4> QED BY <3>1, <4>1 DEF SpentNotes, SpendsFound, Nullifiers
    <3>4. Mined(t)'
      BY <1>3, <2>2, <3>1
    <3> QED BY <1>1, <2>2, <3>1, <3>2, <3>3, <3>4, AdvanceSpent
  <2>8. CASE k = h
    <3>1. t \in BlockTx[b]
      BY <1>2, <2>8
    <3>2. received_notes[n] # NULL
      BY <1>1, <2>2, <2>6 DEF IInv, NoteHeights
    <3>3. n \in Nullifiers
      <4> SUFFICES ASSUME received_notes[n].spent # NULL, Mined(received_notes[n].spent)
                   PROVE  FALSE
        BY <2>2, <3>2 DEF Nullifiers
      <4> DEFINE s == received_notes[n].spent
                 i == transactions[s].block
      <4>1. s \in Tx
        BY <1>1, <2>2, <3>2 DEF TypeOK, NoteRow
      <4>2. i \in Stored /\ s \in BlockTx[blocks[i].hash]
        BY <1>1, <4>1 DEF IInv, MinedInStored
      <4>3. n \in NotesSpent[s]
        BY <2>2, <3>2 DEF SpendInv, SpendersSpend
      <4> HIDE DEF s, i
      <4>4. i \in Stored' /\ s \in BlockTx[blocks'[i].hash] /\ t \in BlockTx[blocks'[h].hash]
        BY <1>2, <3>1, <4>2
      <4>5. i = h
        BY <2>3, <2>4, <4>3, <4>4
      <4> QED BY <1>2, <4>2, <4>5
    <3>4. t \in Relevant(b) /\ n \in SpendsFound(t)
      BY <3>1, <3>3 DEF Relevant, SpendsFound
    <3>5. n \in SpentNotes(b)
      BY <3>4 DEF SpentNotes
    <3>6. Spender(b, n) = t
      <4>1. \A s \in Relevant(b) : n \in SpendsFound(s) => s = t
        BY <3>1, ConsensusAssumption DEF Relevant, SpendsFound
      <4> QED BY <3>4, <4>1 DEF Spender
    <3> QED BY <1>1, <1>3, <2>2, <3>4, <3>5, <3>6, AdvanceSpent
  <2> QED BY <1>2, <2>7, <2>8
<1> QED BY <1>0, <1>1, <1>4, <1>5 DEF SpendInv

\* A rewind unmines no spender of a block it keeps.
LEMMA RewindKeepsSpends ==
  ASSUME SpendInv, NEW to \in Int, RewindToHeight(to)
  PROVE  SpendInv'
<1>1. IInv /\ IInv' /\ UNCHANGED received_notes
  BY RewindPreserves DEF SpendInv, RewindToHeight, vars, tables
<1>2. /\ Stored' \subseteq Stored
      /\ \A h \in Stored' : blocks'[h] = blocks[h]
      /\ \A t \in Tx : Mined(t)' => Mined(t)
      /\ \A t \in Tx : Mined(t) /\ transactions[t].block \in Stored' =>
           transactions'[t] = transactions[t]
  BY <1>1, RewindKeepsLow
<1>3. Linked' /\ StoredAtHeight'
  BY <1>2 DEF SpendInv, Linked, StoredAtHeight
<1>4. SpendersSpend'
  BY <1>1 DEF SpendInv, SpendersSpend
<1>5. StoredSpends'
  <2> SUFFICES ASSUME NEW k \in Stored', NEW t \in BlockTx[blocks'[k].hash],
                      NEW n \in NotesSpent[t], Mined(TxOfNote[n])'
               PROVE  received_notes'[n].spent = t /\ Mined(t)'
    BY DEF StoredSpends
  <2>1. k \in Stored /\ t \in BlockTx[blocks[k].hash] /\ blocks[k].hash \in Block
    BY <1>1, <1>2, RowAssumption DEF IInv, Stored, TypeOK, BlockRow
  <2>2. t \in Tx /\ n \in Note /\ TxOfNote[n] \in Tx
    BY <2>1, LedgerAssumption
  <2>3. received_notes[n].spent = t /\ Mined(t)
    BY <1>2, <2>1, <2>2 DEF SpendInv, StoredSpends
  <2> DEFINE i == transactions[t].block
  <2>4. i \in Stored /\ t \in BlockTx[blocks[i].hash]
    BY <1>1, <2>2, <2>3 DEF IInv, MinedInStored
  <2> HIDE DEF i
  <2>5. i = k
    <3>1. /\ blocks \in [Height -> BlockRow \cup {NULL}]
          /\ Contiguous(Stored) /\ Stored = {g \in Height : blocks[g] # NULL}
          /\ \A g \in Stored : g - 1 \in Stored => PrevHash[blocks[g].hash] = blocks[g - 1].hash
          /\ \A g \in Stored : HeightOf[blocks[g].hash] = g
      BY <1>1 DEF IInv, TypeOK, BlocksContiguous, Stored, SpendInv, Linked, StoredAtHeight
    <3>2. NotesSpent[t] \cap NotesSpent[t] # {}
      OBVIOUS
    <3> QED BY <2>1, <2>4, <3>1, <3>2, RowsConsensus
  <2>6. transactions'[t] = transactions[t]
    BY <1>2, <2>2, <2>3, <2>5 DEF i
  <2> QED BY <1>1, <2>3, <2>6 DEF Mined
<1> QED BY <1>1, <1>3, <1>4, <1>5 DEF SpendInv

LEMMA CheckpointKeepsSpends ==
  ASSUME SpendInv, NEW tree \in Checkpoint, LoadCheckpoint(tree), Linked'
  PROVE  SpendInv'
<1>1. /\ IInv /\ IInv' /\ Stored = {}
      /\ UNCHANGED <<transactions, received_notes>>
  BY CheckpointPreserves DEF SpendInv, LoadCheckpoint
<1>2. \A t \in Tx : ~Mined(t)'
  BY <1>1 DEF IInv, MinedInStored, Mined
<1>0. StoredAtHeight'
  <2> DEFINE h   == Len(tree)
             row == [hash |-> tree[h], sapling_tree |-> tree]
  <2>1. h \in Height /\ blocks' = [blocks EXCEPT ![h] = row]
    BY DEF LoadCheckpoint
  <2>2. h \in 1..Len(tree)
    BY <2>1, LedgerAssumption, WalletAssumption DEF Height
  <2>3. HeightOf[row.hash] = h
    BY <2>2, WalletAssumption DEF IsLine
  <2>4. \A k \in Height : blocks'[k] = IF k = h THEN row ELSE NULL
    BY <1>1, <2>1 DEF IInv, TypeOK, Stored
  <2> HIDE DEF h, row
  <2> QED BY <2>3, <2>4 DEF StoredAtHeight, Stored
<1>3. SpendersSpend'
  BY <1>1 DEF SpendInv, SpendersSpend
<1>4. StoredSpends'
  <2> SUFFICES ASSUME NEW k \in Stored', NEW t \in BlockTx[blocks'[k].hash],
                      NEW n \in NotesSpent[t], Mined(TxOfNote[n])'
               PROVE  FALSE
    BY DEF StoredSpends
  <2>1. blocks'[k].hash \in Block
    BY <1>1, RowAssumption DEF IInv, Stored, TypeOK, BlockRow
  <2>2. TxOfNote[n] \in Tx
    BY <2>1, LedgerAssumption
  <2> QED BY <1>2, <2>2
<1> QED BY <1>0, <1>1, <1>3, <1>4 DEF SpendInv

\* On one chain no spend escapes the scan: every spend of a mined note that
\* a stored block reveals is recorded, against that very transaction, also
\* when a rewind had orphaned another spender, or the same one.
THEOREM SpendsAlwaysDetected == LinkedSpec => []SpendsDetected
<1>1. Init => SpendInv
  <2> SUFFICES ASSUME Init PROVE SpendInv
    OBVIOUS
  <2>1. Stored = {}
    BY DEF Init, Stored
  <2>2. SpendersSpend
    BY DEF Init, SpendersSpend
  <2> QED BY InitIInv, <2>1, <2>2 DEF SpendInv, Linked, StoredAtHeight, StoredSpends
<1>2. SpendInv /\ [Next /\ Linked']_vars => SpendInv'
  <2> SUFFICES ASSUME SpendInv, [Next /\ Linked']_vars
               PROVE  SpendInv'
    OBVIOUS
  <2>1. CASE UNCHANGED vars
    <3>1. IInv'
      BY <2>1, StutterPreserves DEF SpendInv
    <3> QED BY <2>1, <3>1 DEF vars, tables, SpendInv, Linked, StoredAtHeight, SpendersSpend,
                              StoredSpends, Stored, Mined
  <2>2. ASSUME NEW to \in RewindHeight, RewindToHeight(to)
        PROVE  SpendInv'
    BY <2>2, RewindKeepsSpends, WalletAssumption
  <2> QED BY <2>1, <2>2, AdvanceKeepsSpends, CheckpointKeepsSpends DEF Next
<1>3. SpendInv => SpendsDetected
  BY DEF SpendInv, StoredSpends, SpendsDetected
<1> QED BY <1>1, <1>2, <1>3, PTL DEF LinkedSpec

=============================================================================
