--------------------------- MODULE ScanChain_proofs ---------------------------
(***************************************************************************)
(* A sync, proved for every ledger, every set of best chains, every chunk  *)
(* and rewind depth and any number of failures: it implements the          *)
(* specification of the shielded tables and, until a crash, that of the    *)
(* transparent table, and stored blocks are linked.                        *)
(***************************************************************************)
EXTENDS ScanChain, SequenceTheorems, TLAPS

\* The theorems about the shielded tables, for the tables of a sync.
SWP == INSTANCE SaplingWallet_proofs WITH RewindHeight <- RewindTargets

-----------------------------------------------------------------------------
(* The shielded tables of a sync *)

\* What SaplingWallet and Ledger assume of their constants holds here.
LEMMA ShieldedAssumptions ==
  /\ SWP!LedgerAssumption /\ SWP!NullAssumption /\ SWP!PrevAssumption
  /\ SWP!ConsensusAssumption /\ SWP!ChainAssumption
  /\ SWP!WalletAssumption /\ SWP!RowAssumption
<1>1. SWP!LedgerAssumption
  BY LedgerAssumption DEF Height, SWP!Height
<1>2. SWP!NullAssumption
  BY NullAssumption
<1>3. SWP!PrevAssumption
  BY PrevAssumption
<1>4. SWP!ConsensusAssumption
  BY ConsensusAssumption DEF NotesOf, SWP!NotesOf
<1>5. SWP!ChainAssumption
  BY ChainAssumption, Zenon DEF IsChain, SWP!IsChain, NotesOf, SWP!NotesOf
<1>6. SWP!WalletAssumption
  <2>1. RewindTargets \subseteq Int
    BY ScanAssumption, LedgerAssumption DEF RewindTargets
  <2> QED BY <2>1, ScanAssumption DEF IsLine, SWP!IsLine
<1>7. SWP!RowAssumption
  BY ScanRowAssumption DEF SW!BlockRow, SW!TxRow, SW!NoteRow, SW!Tree, SW!Height,
       SWP!BlockRow, SWP!TxRow, SWP!NoteRow, SWP!Tree, SWP!Height
<1> QED BY <1>1, <1>2, <1>3, <1>4, <1>5, <1>6, <1>7

\* The two instances name the same tables and operations.
LEMMA SameShielded ==
  /\ SW!Stored = SWP!Stored /\ SW!LastHeight = SWP!LastHeight
  /\ SW!TypeOK <=> SWP!TypeOK
  /\ SW!vars = SWP!vars
  /\ SW!Init <=> SWP!Init
<1>1. SW!Stored = SWP!Stored
  BY Zenon DEF SW!Stored, SWP!Stored, SW!Height, SWP!Height
<1>2. SW!LastHeight = SWP!LastHeight
  BY Zenon DEF SW!LastHeight, SWP!LastHeight, SW!Highest, SWP!Highest, SW!Max, SWP!Max,
       SW!Stored, SWP!Stored, SW!Height, SWP!Height
<1>3. SW!TypeOK <=> SWP!TypeOK
  BY Zenon DEF SW!TypeOK, SWP!TypeOK, SW!BlockRow, SWP!BlockRow, SW!TxRow, SWP!TxRow,
       SW!NoteRow, SWP!NoteRow, SW!Tree, SWP!Tree, SW!Height, SWP!Height
<1>4. SW!vars = SWP!vars
  BY Zenon DEF SW!vars, SWP!vars, SW!tables, SWP!tables
<1>5. SW!Init <=> SWP!Init
  BY Zenon DEF SW!Init, SWP!Init, SW!Height, SWP!Height
<1> QED BY <1>1, <1>2, <1>3, <1>4, <1>5

LEMMA SameAdvance ==
  ASSUME NEW b \in Block
  PROVE  SW!AdvanceByBlock(b) <=> SWP!AdvanceByBlock(b)
BY Zenon DEF SW!AdvanceByBlock, SWP!AdvanceByBlock, SW!Height, SWP!Height,
     SW!LastHeight, SWP!LastHeight, SW!Highest, SWP!Highest, SW!Stored, SWP!Stored,
     SW!Max, SWP!Max, SW!WitnessClash, SWP!WitnessClash, SW!Watched, SWP!Watched,
     SW!NewNotes, SWP!NewNotes, SW!NotesOf, SWP!NotesOf, SW!Relevant, SWP!Relevant,
     SW!SpendsFound, SWP!SpendsFound, SW!Nullifiers, SWP!Nullifiers,
     SW!Mined, SWP!Mined, SW!LastTree, SWP!LastTree, SW!PutTxMeta, SWP!PutTxMeta,
     SW!UpdateExpired, SWP!UpdateExpired, SW!Expired, SWP!Expired,
     SW!MarkAndReceive, SWP!MarkAndReceive, SW!Spender, SWP!Spender,
     SW!SpentNotes, SWP!SpentNotes, SW!InsertAndPrune, SWP!InsertAndPrune

LEMMA SameRewind ==
  ASSUME NEW to
  PROVE  SW!RewindToHeight(to) <=> SWP!RewindToHeight(to)
BY Zenon DEF SW!RewindToHeight, SWP!RewindToHeight, SW!Stored, SWP!Stored,
     SW!LastHeight, SWP!LastHeight, SW!Highest, SWP!Highest, SW!Max, SWP!Max,
     SW!Height, SWP!Height, SW!vars, SWP!vars, SW!tables, SWP!tables,
     SW!DropWitnesses, SWP!DropWitnesses, SW!Unmine, SWP!Unmine, SW!Mined, SWP!Mined,
     SW!DropBlocks, SWP!DropBlocks

LEMMA SameCheckpoint ==
  ASSUME NEW tree
  PROVE  SW!LoadCheckpoint(tree) <=> SWP!LoadCheckpoint(tree)
BY Zenon DEF SW!LoadCheckpoint, SWP!LoadCheckpoint, SW!Stored, SWP!Stored,
     SW!Height, SWP!Height

-----------------------------------------------------------------------------
(* What the operations do to the stored heights *)

\* MAX(height) of a table without gaps.
LEMMA ShieldedTip ==
  ASSUME SWP!IInv
  PROVE  /\ SW!TypeOK
         /\ SW!LastHeight \in 0..MaxHeight
         /\ SW!Stored \subseteq Height
         /\ SW!Stored = {} => SW!LastHeight = 0
         /\ SW!Stored # {} => SW!LastHeight \in SW!Stored
         /\ \A h \in SW!Stored : h <= SW!LastHeight
         /\ \A g \in SW!Stored, k \in Height :
              g <= k /\ k <= SW!LastHeight => k \in SW!Stored
<1>1. SWP!BlocksContiguous /\ SWP!TypeOK
  BY DEF SWP!IInv
<1>2. /\ SWP!LastHeight \in 0..MaxHeight
      /\ SWP!Stored \subseteq SWP!Height
      /\ SWP!Stored = {} => SWP!LastHeight = 0
      /\ SWP!Stored # {} => SWP!LastHeight \in SWP!Stored
      /\ \A h \in SWP!Stored : h <= SWP!LastHeight
      /\ \A g \in SWP!Stored, k \in SWP!Height :
           g <= k /\ k <= SWP!LastHeight => k \in SWP!Stored
  BY <1>1, ShieldedAssumptions, SWP!Tip
<1>3. SWP!Height = Height
  BY DEF SWP!Height, Height
<1> QED BY <1>1, <1>2, <1>3, SameShielded

\* The stored heights follow blocks.
LEMMA StoredPrimed ==
  /\ SW!Stored' = SWP!Stored' /\ SW!LastHeight' = SWP!LastHeight'
  /\ SW!TypeOK' <=> SWP!TypeOK'
<1>1. SW!Stored' = SWP!Stored'
  BY Zenon DEF SW!Stored, SWP!Stored, SW!Height, SWP!Height
<1>2. SW!LastHeight' = SWP!LastHeight'
  BY Zenon DEF SW!LastHeight, SWP!LastHeight, SW!Highest, SWP!Highest, SW!Max, SWP!Max,
       SW!Stored, SWP!Stored, SW!Height, SWP!Height
<1>3. SW!TypeOK' <=> SWP!TypeOK'
  BY Zenon DEF SW!TypeOK, SWP!TypeOK, SW!BlockRow, SWP!BlockRow, SW!TxRow, SWP!TxRow,
       SW!NoteRow, SWP!NoteRow, SW!Tree, SWP!Tree, SW!Height, SWP!Height
<1> QED BY <1>1, <1>2, <1>3

\* Nothing is written.
LEMMA ShieldedStutter ==
  ASSUME SWP!IInv, UNCHANGED shielded
  PROVE  /\ SWP!IInv'
         /\ SW!Stored' = SW!Stored /\ SW!LastHeight' = SW!LastHeight
         /\ UNCHANGED SW!vars
<1>1. UNCHANGED SWP!vars
  BY DEF shielded, SWP!vars, SWP!tables
<1>2. SWP!IInv'
  BY <1>1, ShieldedAssumptions, SWP!StutterPreserves
<1>3. UNCHANGED SW!vars
  BY DEF shielded, SW!vars, SW!tables
<1>4. SW!Stored' = SW!Stored
  BY DEF shielded, SW!Stored
<1>5. SW!LastHeight' = SW!LastHeight
  BY <1>4 DEF SW!LastHeight
<1> QED BY <1>2, <1>3, <1>4, <1>5

\* A block goes right above the tip.
LEMMA ShieldedAdvance ==
  ASSUME SWP!IInv, NEW b \in Block, SW!AdvanceByBlock(b)
  PROVE  /\ SWP!IInv'
         /\ SW!LastHeight + 1 \in Height
         /\ SW!LastHeight' = SW!LastHeight + 1
         /\ SW!Stored' = SW!Stored \cup {SW!LastHeight + 1}
         /\ SW!LastHeight + 1 \notin SW!Stored
         /\ blocks'[SW!LastHeight + 1].hash = b
         /\ \A k \in SW!Stored : blocks'[k] = blocks[k]
<1>1. SWP!AdvanceByBlock(b)
  BY SameAdvance
<1>2. SWP!IInv'
  BY <1>1, ShieldedAssumptions, SWP!AdvancePreserves
<1> DEFINE h == SWP!LastHeight + 1
           row == [hash |-> b, sapling_tree |-> Append(SWP!LastTree, b)]
<1>3. /\ h \in SWP!Height /\ h \notin SWP!Stored
      /\ \A k \in SWP!Height : blocks'[k] = IF k = h THEN row ELSE blocks[k]
      /\ SWP!Stored' = SWP!Stored \cup {h}
      /\ SWP!LastHeight' = h
  BY <1>1, ShieldedAssumptions, SWP!AdvanceTip
<1>4. SWP!Height = Height /\ SW!Stored \subseteq Height
  BY ShieldedTip DEF SWP!Height, Height
<1>5. \A k \in SW!Stored : k \in Height /\ k # h
  BY <1>3, <1>4, SameShielded
<1> HIDE DEF h
<1> QED BY <1>2, <1>3, <1>4, <1>5, SameShielded, StoredPrimed DEF h

\* A rewind keeps the heights up to its target.
LEMMA ShieldedRewind ==
  ASSUME SWP!IInv, NEW to \in Int, SW!RewindToHeight(to)
  PROVE  /\ SWP!IInv'
         /\ SW!Stored' = {h \in SW!Stored : h <= to}
         /\ \A k \in SW!Stored' : blocks'[k] = blocks[k]
<1>1. SWP!RewindToHeight(to)
  BY SameRewind
<1>2. SWP!IInv'
  BY <1>1, ShieldedAssumptions, SWP!RewindPreserves
<1>3. CASE to >= SW!LastHeight
  <2>1. UNCHANGED SW!vars
    BY <1>3 DEF SW!RewindToHeight
  <2>2. UNCHANGED shielded
    BY <2>1 DEF shielded, SW!vars, SW!tables
  <2>3. \A h \in SW!Stored : h <= to
    BY <1>3, ShieldedTip DEF Height
  <2> QED BY <1>2, <2>2, <2>3, ShieldedStutter DEF shielded
<1>4. CASE ~(to >= SW!LastHeight)
  <2>1. blocks' = [h \in Height |-> IF h > to THEN NULL ELSE blocks[h]]
    BY <1>4 DEF SW!RewindToHeight, SW!DropBlocks, SW!Height, Height
  <2>2. \A h \in Height : h > to <=> ~(h <= to)
    BY LedgerAssumption DEF Height
  <2>3. SW!Stored' = {h \in SW!Stored : h <= to}
    BY <2>1, <2>2 DEF SW!Stored, SW!Height, Height
  <2>4. \A k \in SW!Stored' : blocks'[k] = blocks[k]
    BY <2>1, <2>2, <2>3 DEF SW!Stored, SW!Height, Height
  <2> QED BY <1>2, <2>3, <2>4
<1> QED BY <1>3, <1>4

\* A checkpoint is the only block of an empty table.
LEMMA ShieldedCheckpoint ==
  ASSUME SWP!IInv, NEW tree \in Checkpoint, SW!LoadCheckpoint(tree)
  PROVE  /\ SWP!IInv'
         /\ SW!Stored = {} /\ SW!Stored' = {Len(tree)}
         /\ Len(tree) \in Height
<1>1. SWP!LoadCheckpoint(tree)
  BY SameCheckpoint
<1>2. SWP!IInv'
  BY <1>1, ShieldedAssumptions, SWP!CheckpointPreserves
<1> DEFINE h == Len(tree)
           row == [hash |-> tree[h], sapling_tree |-> tree]
<1>3. /\ SW!Stored = {} /\ h \in Height
      /\ blocks' = [blocks EXCEPT ![h] = row]
  BY DEF SW!LoadCheckpoint, SW!Height, Height
<1>4. row # NULL
  <2>1. tree \in Seq(Block)
    BY ScanAssumption
  <2>2. tree[h] \in Block
    BY <1>3, <2>1, LedgerAssumption, ElementOfSeq DEF Height
  <2>3. row \in SW!BlockRow
    BY <2>1, <2>2 DEF SW!BlockRow, SW!Tree
  <2> QED BY <2>3, ScanRowAssumption
<1>5. \A k \in Height : blocks'[k] = IF k = h THEN row ELSE blocks[k]
  BY <1>3, ShieldedTip DEF SW!TypeOK, SW!Height, Height
<1>6. SW!Stored' = {h}
  BY <1>3, <1>4, <1>5 DEF SW!Stored, SW!Height, Height
<1> QED BY <1>2, <1>3, <1>6

-----------------------------------------------------------------------------
(* The transparent table of a sync *)

\* The theorems about the transparent table, for the table of a sync.
TWP == INSTANCE TransparentWallet_proofs WITH TrpRewindHeight <- RewindTargets

LEMMA TransparentAssumptions ==
  /\ TWP!LedgerAssumption /\ TWP!NullAssumption /\ TWP!PrevAssumption
  /\ TWP!ConsensusAssumption /\ TWP!ChainAssumption
  /\ TWP!TrpAssumption /\ TWP!UtxoRowAssumption
<1>1. TWP!LedgerAssumption
  BY LedgerAssumption DEF Height, TWP!Height
<1>2. TWP!NullAssumption
  BY NullAssumption
<1>3. TWP!PrevAssumption
  BY PrevAssumption
<1>4. TWP!ConsensusAssumption
  BY ConsensusAssumption DEF NotesOf, TWP!NotesOf
<1>5. TWP!ChainAssumption
  BY ChainAssumption, Zenon DEF IsChain, TWP!IsChain, NotesOf, TWP!NotesOf
<1>6. TWP!TrpAssumption
  BY ScanAssumption, LedgerAssumption DEF RewindTargets
<1>7. TWP!UtxoRowAssumption
  BY ScanRowAssumption DEF TW!UtxoRow, TW!Height, TWP!UtxoRow, TWP!Height
<1> QED BY <1>1, <1>2, <1>3, <1>4, <1>5, <1>6, <1>7

LEMMA SameTransparent ==
  /\ TW!TrpTypeOK <=> TWP!TrpTypeOK
  /\ TW!TrpTypeOK' <=> TWP!TrpTypeOK'
<1>1. TW!TrpTypeOK <=> TWP!TrpTypeOK
  BY Zenon DEF TW!TrpTypeOK, TWP!TrpTypeOK, TW!UtxoRow, TWP!UtxoRow, TW!Height, TWP!Height
<1>2. TW!TrpTypeOK' <=> TWP!TrpTypeOK'
  BY Zenon DEF TW!TrpTypeOK, TWP!TrpTypeOK, TW!UtxoRow, TWP!UtxoRow, TW!Height, TWP!Height
<1> QED BY <1>1, <1>2

LEMMA SameScanBlock ==
  ASSUME NEW b \in Block
  PROVE  TW!ScanBlock(b) <=> TWP!ScanBlock(b)
BY Zenon DEF TW!ScanBlock, TWP!ScanBlock, TW!Upsert, TWP!Upsert,
     TW!UtxosCreatedIn, TWP!UtxosCreatedIn, TW!UtxosSpentIn, TWP!UtxosSpentIn,
     TW!UtxosOf, TWP!UtxosOf

LEMMA SameTrpRewind ==
  ASSUME NEW to
  PROVE  TW!TrpRewindToHeight(to) <=> TWP!TrpRewindToHeight(to)
BY Zenon DEF TW!TrpRewindToHeight, TWP!TrpRewindToHeight, TW!Height, TWP!Height

\* The heights scanned so far, after a scan and after a rewind.
LEMMA TransparentScan ==
  ASSUME TW!TrpTypeOK, NEW b \in Block, TW!ScanBlock(b)
  PROVE  /\ TW!TrpTypeOK'
         /\ TW!Scanned' = TW!Scanned \cup {HeightOf[b]}
<1>1. TW!TrpTypeOK'
  BY TransparentAssumptions, TWP!ScanType, SameTransparent, SameScanBlock
<1>2. HeightOf[b] \in Height /\ b # NULL
  BY LedgerAssumption, NullAssumption
<1>3. \A h \in Height : scanned'[h] = IF h = HeightOf[b] THEN b ELSE scanned[h]
  BY <1>2 DEF TW!ScanBlock, TW!TrpTypeOK, TW!Height, Height
<1> QED BY <1>1, <1>2, <1>3 DEF TW!Scanned, TW!Height, Height

LEMMA TransparentRewind ==
  ASSUME TW!TrpTypeOK, NEW to \in Int, TW!TrpRewindToHeight(to)
  PROVE  /\ TW!TrpTypeOK'
         /\ TW!Scanned' = {h \in TW!Scanned : h <= to}
<1>1. TW!TrpTypeOK'
  BY TransparentAssumptions, TWP!RewindType, SameTransparent, SameTrpRewind
<1>2. \A h \in Height : scanned'[h] = IF h > to THEN NULL ELSE scanned[h]
  BY DEF TW!TrpRewindToHeight, TW!Height, Height
<1>3. \A h \in Height : h > to <=> ~(h <= to)
  BY LedgerAssumption DEF Height
<1> QED BY <1>1, <1>2, <1>3 DEF TW!Scanned, TW!Height, Height

LEMMA TransparentStutter ==
  ASSUME TW!TrpTypeOK, UNCHANGED trp
  PROVE  TW!TrpTypeOK' /\ TW!Scanned' = TW!Scanned
BY DEF trp, TW!TrpTypeOK, TW!Scanned

-----------------------------------------------------------------------------
(* The inductive invariant *)

\* The range being scanned starts right above the stored tip it was computed
\* from, and ends at a height zcashd has.
RangeFollows ==
  /\ pc \in {"open", "fetch", "apply", "transparent"} =>
       range.start \in Height /\ range.start < range.end /\ range.end <= TipHeight + 1
  /\ pc = "open" => range.end <= range.start + MaxChunk
  /\ pc \in {"open", "fetch"} => range.start = SW!LastHeight + 1
  /\ pc \in {"apply", "transparent"} =>
       \A k \in Height : range.start <= k /\ k <= SW!LastHeight => k \in SW!Stored

\* What is fetched and applied reaches the end of that range, although the
\* tip was asked for twice.
BatchCovers ==
  /\ pc \notin {"fetch", "apply"} => fetched = << >>
  /\ pc = "fetch" => /\ range.end - 1 <= upto /\ upto <= TipHeight
                     /\ NextFetch <= upto + 1
  /\ pc = "apply" => range.end - 1 <= SW!LastHeight + Len(fetched)
  /\ pc = "transparent" => /\ range.end - 1 <= SW!LastHeight
                           /\ range.start <= height /\ height <= range.end

\* The blocks of a batch are linked with each other, with the chain they are
\* fetched from and, once the first one was compared, with the table.
BatchLinked ==
  /\ SW!Linked
  /\ \A i \in 1..(Len(fetched) - 1) : PrevHash[fetched[i + 1]] = fetched[i]
  /\ pc = "fetch" /\ fetched # << >> =>
       fetched[Len(fetched)] = BlockAt(SW!LastHeight + Len(fetched))
  /\ pc = "apply" /\ fetched # << >> /\ SW!Stored # {} =>
       PrevHash[fetched[1]] = blocks[SW!LastHeight].hash

\* The transparent scan is never ahead of the stored blocks.
ScannedStored ==
  /\ pc # "trprewind" => TW!Scanned \subseteq SW!Stored
  /\ pc = "trprewind" => \A h \in TW!Scanned : h <= target => h \in SW!Stored
  /\ pc \in {"open", "fetch", "apply"} => \A h \in TW!Scanned : h < range.start
  /\ pc = "transparent" => \A h \in TW!Scanned : h < height

SyncInv ==
  /\ TypeOK
  /\ SWP!IInv
  /\ RangeFollows
  /\ BatchCovers
  /\ ~torn => BatchLinked
  /\ crashes = 0 => ScannedStored

-----------------------------------------------------------------------------
(* Arithmetic and chains *)

LEMMA MinOfTwo ==
  ASSUME NEW a \in Int, NEW b \in Int
  PROVE  /\ Min({a, b}) \in {a, b}
         /\ Min({a, b}) <= a /\ Min({a, b}) <= b
<1>1. \E x \in {a, b} : \A y \in {a, b} : x <= y
  <2>1. CASE a <= b
    BY <2>1
  <2>2. CASE ~(a <= b)
    BY <2>2
  <2> QED BY <2>1, <2>2
<1> QED BY <1>1 DEF Min

\* Blocks of a chain are found at their height, and linked.
LEMMA NodeFacts ==
  ASSUME NEW c \in Chains
  PROVE  /\ c \in Seq(Block) /\ Len(c) \in Nat /\ Len(c) <= MaxHeight
         /\ \A h \in Int : 1 <= h /\ h <= Len(c) =>
              /\ c[h] \in Block /\ HeightOf[c[h]] = h /\ h \in Height
              /\ h > 1 => PrevHash[c[h]] = c[h - 1]
<1>1. c \in Seq(Block) /\ Len(c) \in Nat /\ Len(c) <= MaxHeight
  BY ChainsAssumption
<1>2. ASSUME NEW h \in Int, 1 <= h, h <= Len(c)
      PROVE  /\ c[h] \in Block /\ HeightOf[c[h]] = h /\ h \in Height
             /\ h > 1 => PrevHash[c[h]] = c[h - 1]
  <2>1. h \in 1..Len(c)
    BY <1>1, <1>2
  <2>2. c[h] \in Block
    BY <1>1, <2>1, ElementOfSeq
  <2>3. HeightOf[c[h]] = h /\ PrevHash[c[h]] = IF h = 1 THEN NULL ELSE c[h - 1]
    BY <2>1, ChainsAssumption
  <2>4. h \in Height
    BY <1>1, <1>2, LedgerAssumption DEF Height
  <2> QED BY <2>2, <2>3, <2>4
<1> QED BY <1>1, <1>2

-----------------------------------------------------------------------------
(* One step at a time *)

\* What is known of the state a step starts in.
LEMMA Known ==
  ASSUME SyncInv
  PROVE  /\ SW!TypeOK /\ TW!TrpTypeOK /\ SWP!IInv
         /\ MaxHeight \in Nat /\ Height = 1..MaxHeight
         /\ SW!LastHeight \in 0..MaxHeight /\ SW!LastHeight \in Int
         /\ TipHeight \in Nat /\ TipHeight <= MaxHeight
         /\ fetched \in Seq(Block) /\ Len(fetched) \in Nat
         /\ range \in [start : 0..(MaxHeight + 1), end : 0..(MaxHeight + 1)]
         /\ range.start \in Int /\ range.end \in Int
         /\ height \in Int /\ upto \in Int /\ target \in Int
         /\ NextFetch \in Int
<1>1. TypeOK /\ SWP!IInv
  BY DEF SyncInv
<1>2. MaxHeight \in Nat /\ Height = 1..MaxHeight
  BY LedgerAssumption DEF Height
<1>3. SW!LastHeight \in 0..MaxHeight
  BY <1>1, ShieldedTip
<1>4. TipHeight \in Nat /\ TipHeight <= MaxHeight
  BY <1>1, NodeFacts DEF TypeOK, TipHeight
<1>5. fetched \in Seq(Block) /\ Len(fetched) \in Nat
  BY <1>1 DEF TypeOK
<1>6. /\ range \in [start : 0..(MaxHeight + 1), end : 0..(MaxHeight + 1)]
      /\ height \in Int /\ upto \in Int
  BY <1>1, <1>2 DEF TypeOK
<1>7. target \in Int
  BY <1>1, <1>2, ScanAssumption DEF TypeOK, RewindTargets
<1>8. range.start \in Int /\ range.end \in Int
  BY <1>2, <1>6
<1>9. NextFetch \in Int
  BY <1>2, <1>3, <1>5 DEF NextFetch
<1> QED BY <1>1, <1>2, <1>3, <1>4, <1>5, <1>6, <1>7, <1>8, <1>9 DEF TypeOK

\* A step that writes neither table.
LEMMA TablesUnchanged ==
  ASSUME SyncInv, UNCHANGED shielded, UNCHANGED trp
  PROVE  /\ SWP!IInv' /\ SW!TypeOK' /\ TW!TrpTypeOK'
         /\ SW!Stored' = SW!Stored /\ SW!LastHeight' = SW!LastHeight
         /\ TW!Scanned' = TW!Scanned
         /\ SW!Linked' <=> SW!Linked
<1>1. SWP!IInv' /\ SW!Stored' = SW!Stored /\ SW!LastHeight' = SW!LastHeight
  BY ShieldedStutter DEF SyncInv
<1>2. SW!TypeOK'
  BY Known DEF SW!TypeOK, shielded
<1>3. TW!TrpTypeOK' /\ TW!Scanned' = TW!Scanned
  BY Known, TransparentStutter
<1>4. SW!Linked' <=> SW!Linked
  BY <1>1 DEF SW!Linked, shielded
<1> QED BY <1>1, <1>2, <1>3, <1>4

\* The locals a handler leaves behind.
LEMMA ReturnPreserves ==
  ASSUME SyncInv, Return, UNCHANGED <<chain, shielded, trp, torn>>,
         errors' \in 0..MaxErrors, crashes' \in 0..MaxCrashes,
         crashes' = 0 => crashes = 0 /\ pc # "trprewind"
  PROVE  SyncInv'
<1>1. /\ SWP!IInv' /\ SW!TypeOK' /\ TW!TrpTypeOK'
      /\ SW!Stored' = SW!Stored /\ TW!Scanned' = TW!Scanned
      /\ SW!Linked' <=> SW!Linked
  BY TablesUnchanged
<1>2. TypeOK'
  BY <1>1, Known, ScanAssumption DEF SyncInv, TypeOK, Return, NoRange, RewindTargets
<1>3. RangeFollows' /\ BatchCovers'
  BY DEF Return, RangeFollows, BatchCovers
<1>4. ~torn' => BatchLinked'
  BY <1>1 DEF SyncInv, BatchLinked, Return
<1>5. crashes' = 0 => ScannedStored'
  BY <1>1 DEF SyncInv, ScannedStored, Return
<1> QED BY <1>1, <1>2, <1>3, <1>4, <1>5 DEF SyncInv

LEMMA NewBestChainPreserves ==
  ASSUME SyncInv, NewBestChain
  PROVE  SyncInv'
<1> DEFINE last == Len(fetched)
<1>1. /\ chain' \in Chains /\ Len(chain') > Len(chain)
      /\ UNCHANGED <<shielded, trp, pc, caller, range, upto, fetched, height, target,
                     errors, crashes>>
      /\ torn' = (torn \/ FetchedOrphaned(chain'))
  BY DEF NewBestChain, NodeAdvances, worker, faults
<1>2. /\ SWP!IInv' /\ SW!TypeOK' /\ TW!TrpTypeOK'
      /\ SW!Stored' = SW!Stored /\ SW!LastHeight' = SW!LastHeight
      /\ TW!Scanned' = TW!Scanned
      /\ SW!Linked' <=> SW!Linked
  BY <1>1, TablesUnchanged
<1>3. TipHeight' \in Nat /\ TipHeight' > TipHeight /\ TipHeight \in Nat
  BY <1>1, NodeFacts, Known DEF TipHeight
<1>4. TypeOK'
  BY <1>1, <1>2 DEF SyncInv, TypeOK, FetchedOrphaned
<1>5. RangeFollows'
  BY <1>1, <1>2, <1>3, Known DEF SyncInv, RangeFollows
<1>6. BatchCovers'
  BY <1>1, <1>2, <1>3, Known DEF SyncInv, BatchCovers, NextFetch
<1>7. ASSUME ~torn' PROVE BatchLinked'
  <2>1. BatchLinked /\ ~FetchedOrphaned(chain')
    BY <1>1, <1>7 DEF SyncInv
  <2>2. ASSUME pc = "fetch", fetched # << >>
        PROVE  fetched[last] = chain'[SW!LastHeight + last]
    <3>1. last > 0 /\ last \in Int
      BY <2>2, Known, EmptySeq
    <3>2. fetched[last] = chain[SW!LastHeight + last]
      BY <2>1, <2>2 DEF BatchLinked, BlockAt
    <3>3. SW!LastHeight + last <= Len(chain)
      BY <2>2, Known DEF SyncInv, BatchCovers, NextFetch, TipHeight
    <3>4. HeightOf[fetched[last]] = SW!LastHeight + last
      BY <3>1, <3>2, <3>3, Known, NodeFacts DEF SyncInv, TypeOK
    <3> QED BY <2>1, <2>2, <3>4 DEF FetchedOrphaned
  <2> QED BY <1>1, <1>2, <2>1, <2>2 DEF BatchLinked, BlockAt, shielded
<1>8. crashes' = 0 => ScannedStored'
  BY <1>1, <1>2 DEF SyncInv, ScannedStored
<1> QED BY <1>2, <1>4, <1>5, <1>6, <1>7, <1>8 DEF SyncInv

LEMMA LoadCheckpointPreserves ==
  ASSUME SyncInv, LoadCheckpoint
  PROVE  SyncInv'
<1>1. PICK tree \in Checkpoint : SW!LoadCheckpoint(tree)
  BY DEF LoadCheckpoint
<1>2. /\ SWP!IInv' /\ SW!Stored = {} /\ SW!Stored' = {Len(tree)}
      /\ Len(tree) \in Height
  BY <1>1, ShieldedCheckpoint DEF SyncInv
<1>3. /\ pc = "idle"
      /\ UNCHANGED <<chain, trp, pc, caller, range, upto, fetched, height, target,
                     errors, crashes, torn>>
  BY DEF LoadCheckpoint, worker, faults
<1>4. SW!TypeOK'
  BY <1>2, StoredPrimed DEF SWP!IInv
<1>5. TW!TrpTypeOK' /\ TW!Scanned' = TW!Scanned
  BY <1>3, Known, TransparentStutter
<1>6. TypeOK'
  BY <1>3, <1>4, <1>5 DEF SyncInv, TypeOK
<1>7. RangeFollows' /\ BatchCovers'
  BY <1>3 DEF SyncInv, RangeFollows, BatchCovers
<1>8. SW!Linked'
  BY <1>2, Known DEF SW!Linked
<1>9. ~torn' => BatchLinked'
  BY <1>3, <1>8 DEF SyncInv, BatchLinked
<1>10. crashes' = 0 => ScannedStored'
  BY <1>2, <1>3, <1>5 DEF SyncInv, ScannedStored
<1> QED BY <1>2, <1>6, <1>7, <1>9, <1>10 DEF SyncInv

\* The steps that only move the worker.
LEMMA SyncPreserves ==
  ASSUME SyncInv, Sync
  PROVE  SyncInv'
<1>1. /\ pc = "idle" /\ pc' = "range"
      /\ UNCHANGED <<chain, shielded, trp, caller, range, upto, fetched, height, target,
                     errors, crashes, torn>>
  BY DEF Sync, Goto, faults
<1>2. /\ SWP!IInv' /\ SW!TypeOK' /\ TW!TrpTypeOK'
      /\ SW!Stored' = SW!Stored /\ TW!Scanned' = TW!Scanned
      /\ SW!Linked' <=> SW!Linked
  BY <1>1, TablesUnchanged
<1> QED BY <1>1, <1>2 DEF SyncInv, TypeOK, RangeFollows, BatchCovers, BatchLinked,
                         ScannedStored

LEMMA RewindRpcPreserves ==
  ASSUME SyncInv, NEW to \in OperatorRewind, RewindRpc(to)
  PROVE  SyncInv'
<1>1. /\ pc = "idle" /\ pc' = "rewind" /\ target' = to /\ caller' = "rewind"
      /\ UNCHANGED <<chain, shielded, trp, range, upto, fetched, height,
                     errors, crashes, torn>>
  BY DEF RewindRpc, Goto, faults
<1>2. /\ SWP!IInv' /\ SW!TypeOK' /\ TW!TrpTypeOK'
      /\ SW!Stored' = SW!Stored /\ TW!Scanned' = TW!Scanned
      /\ SW!Linked' <=> SW!Linked
  BY <1>1, TablesUnchanged
<1>3. to \in RewindTargets
  BY ScanAssumption, Known DEF RewindTargets
<1> QED BY <1>1, <1>2, <1>3 DEF SyncInv, TypeOK, RangeFollows, BatchCovers, BatchLinked,
                         ScannedStored

LEMMA GetScanRangePreserves ==
  ASSUME SyncInv, GetScanRange
  PROVE  SyncInv'
<1> DEFINE from == SW!LastHeight + 1
           end  == Min({TipHeight + 1, from + MaxChunk})
<1>1. /\ pc = "range" /\ range' = [start |-> from, end |-> end]
      /\ pc' = IF end <= from THEN "notify" ELSE "open"
      /\ UNCHANGED <<chain, shielded, trp, caller, upto, fetched, height, target,
                     errors, crashes, torn>>
  BY DEF GetScanRange, Goto, faults
<1>2. /\ SWP!IInv' /\ SW!TypeOK' /\ TW!TrpTypeOK'
      /\ SW!Stored' = SW!Stored /\ SW!LastHeight' = SW!LastHeight
      /\ TW!Scanned' = TW!Scanned
      /\ SW!Linked' <=> SW!Linked
  BY <1>1, TablesUnchanged
<1>3. MaxChunk \in Nat \ {0}
  BY ScanAssumption
<1>4. /\ from \in 1..(MaxHeight + 1) /\ end \in 0..(MaxHeight + 1)
      /\ end <= TipHeight + 1 /\ end <= from + MaxChunk
  <2>1. TipHeight + 1 \in Int /\ from + MaxChunk \in Int /\ from \in Int
    BY <1>3, Known
  <2>2. /\ end \in {TipHeight + 1, from + MaxChunk}
        /\ end <= TipHeight + 1 /\ end <= from + MaxChunk
    BY <2>1, MinOfTwo
  <2> QED BY <1>3, <2>2, Known
<1> HIDE DEF from, end
<1>5. TypeOK'
  BY <1>1, <1>2, <1>4, Known DEF SyncInv, TypeOK
<1>6. RangeFollows'
  <2>1. pc' = "open" => from < end
    BY <1>1, <1>4, Known
  <2>2. pc' = "open" => from \in Height
    BY <1>4, <2>1, Known
  <2>3. TipHeight' = TipHeight
    BY <1>1 DEF TipHeight
  <2> QED BY <1>1, <1>2, <1>4, <2>1, <2>2, <2>3 DEF RangeFollows, from
<1>7. BatchCovers'
  BY <1>1 DEF SyncInv, BatchCovers
<1>8. ~torn' => BatchLinked'
  BY <1>1, <1>2 DEF SyncInv, BatchLinked
<1>9. crashes' = 0 => ScannedStored'
  <2>1. \A h \in SW!Stored : h < from
    BY Known, ShieldedTip DEF from
  <2> QED BY <1>1, <1>2, <2>1 DEF SyncInv, ScannedStored
<1> QED BY <1>2, <1>5, <1>6, <1>7, <1>8, <1>9 DEF SyncInv

LEMMA OpenBlocksPreserves ==
  ASSUME SyncInv, OpenBlocks
  PROVE  SyncInv'
<1>1. /\ pc = "open" /\ pc' = "fetch"
      /\ upto' = Min({SW!LastHeight + MaxChunk, TipHeight})
      /\ UNCHANGED <<chain, shielded, trp, caller, range, fetched, height, target,
                     errors, crashes, torn>>
  BY DEF OpenBlocks, Goto, faults
<1>2. /\ SWP!IInv' /\ SW!TypeOK' /\ TW!TrpTypeOK'
      /\ SW!Stored' = SW!Stored /\ SW!LastHeight' = SW!LastHeight
      /\ TW!Scanned' = TW!Scanned
      /\ SW!Linked' <=> SW!Linked
  BY <1>1, TablesUnchanged
<1>3. /\ MaxChunk \in Nat \ {0} /\ range.start = SW!LastHeight + 1 /\ fetched = << >>
      /\ range.start < range.end /\ range.end <= TipHeight + 1
      /\ range.end <= range.start + MaxChunk
  BY <1>1, ScanAssumption DEF SyncInv, RangeFollows, BatchCovers
<1>4. /\ upto' \in {SW!LastHeight + MaxChunk, TipHeight}
      /\ upto' <= SW!LastHeight + MaxChunk /\ upto' <= TipHeight
  <2>1. SW!LastHeight + MaxChunk \in Int /\ TipHeight \in Int
    BY <1>3, Known
  <2> QED BY <1>1, <2>1, MinOfTwo
<1>5. upto' \in 0..MaxHeight /\ range.end - 1 <= upto' /\ SW!LastHeight + 1 <= upto' + 1
  BY <1>3, <1>4, Known
<1>6. TypeOK'
  BY <1>1, <1>2, <1>5 DEF SyncInv, TypeOK
<1>7. RangeFollows'
  BY <1>1, <1>2 DEF SyncInv, RangeFollows, TipHeight
<1>8. BatchCovers'
  BY <1>1, <1>2, <1>3, <1>4, <1>5, Known DEF BatchCovers, NextFetch, TipHeight
<1>9. ~torn' => BatchLinked'
  BY <1>1, <1>2, <1>3 DEF SyncInv, BatchLinked
<1>10. crashes' = 0 => ScannedStored'
  BY <1>1, <1>2 DEF SyncInv, ScannedStored
<1> QED BY <1>2, <1>6, <1>7, <1>8, <1>9, <1>10 DEF SyncInv

LEMMA FetchBlockPreserves ==
  ASSUME SyncInv, FetchBlock
  PROVE  SyncInv'
<1> DEFINE b == BlockAt(NextFetch)
           n == Len(fetched)
<1>1. /\ pc = "fetch" /\ NextFetch <= upto /\ fetched' = Append(fetched, b)
      /\ UNCHANGED <<chain, shielded, trp, pc, caller, range, upto, height, target,
                     errors, crashes, torn>>
  BY DEF FetchBlock, faults
<1>2. /\ SWP!IInv' /\ SW!TypeOK' /\ TW!TrpTypeOK'
      /\ SW!Stored' = SW!Stored /\ SW!LastHeight' = SW!LastHeight
      /\ TW!Scanned' = TW!Scanned
      /\ SW!Linked' <=> SW!Linked
  BY <1>1, TablesUnchanged
<1>3. /\ upto <= TipHeight /\ range.end - 1 <= upto
      /\ NextFetch = SW!LastHeight + n + 1
  BY <1>1 DEF SyncInv, BatchCovers, NextFetch
<1>4. /\ b \in Block /\ b = chain[NextFetch]
      /\ NextFetch > 1 => PrevHash[b] = chain[NextFetch - 1]
  <2>1. 1 <= NextFetch /\ NextFetch <= Len(chain)
    BY <1>1, <1>3, Known DEF TipHeight
  <2> QED BY <2>1, Known, NodeFacts DEF SyncInv, TypeOK, BlockAt
<1> HIDE DEF b
<1>5. /\ fetched' \in Seq(Block) /\ Len(fetched') = n + 1 /\ fetched'[n + 1] = b
      /\ \A i \in 1..n : fetched'[i] = fetched[i]
  <2>1. fetched \in Seq(Block) /\ b \in Block
    BY <1>4, Known
  <2> QED BY <1>1, <2>1, AppendProperties
<1>6. TypeOK'
  BY <1>1, <1>2, <1>5 DEF SyncInv, TypeOK
<1>7. RangeFollows'
  BY <1>1, <1>2 DEF SyncInv, RangeFollows, TipHeight
<1>8. BatchCovers'
  BY <1>1, <1>2, <1>3, <1>5, Known DEF BatchCovers, NextFetch, TipHeight
<1>9. ASSUME ~torn' PROVE BatchLinked'
  <2>1. BatchLinked
    BY <1>1, <1>9 DEF SyncInv
  <2>2. ASSUME NEW i \in 1..(Len(fetched') - 1)
        PROVE  PrevHash[fetched'[i + 1]] = fetched'[i]
    <3>1. CASE i = n
      <4>1. NextFetch > 1 /\ NextFetch - 1 = SW!LastHeight + n /\ fetched # << >>
        BY <1>3, <2>2, <3>1, Known, EmptySeq
      <4>2. fetched[n] = chain[NextFetch - 1]
        BY <1>1, <2>1, <4>1 DEF BatchLinked, BlockAt
      <4> QED BY <1>4, <1>5, <2>2, <3>1, <4>1, <4>2
    <3>2. CASE i # n
      <4>1. i \in 1..(n - 1) /\ i \in 1..n /\ i + 1 \in 1..n
        BY <1>5, <2>2, <3>2, Known
      <4> QED BY <1>5, <2>1, <4>1 DEF BatchLinked
    <3> QED BY <3>1, <3>2
  <2>3. fetched'[Len(fetched')] = chain'[SW!LastHeight' + Len(fetched')]
    <3>1. SW!LastHeight + (n + 1) = NextFetch
      BY <1>3, Known
    <3> QED BY <1>1, <1>2, <1>4, <1>5, <3>1
  <2>4. SW!Linked' /\ pc' = "fetch"
    BY <1>1, <1>2, <2>1 DEF BatchLinked
  <2> QED BY <2>2, <2>3, <2>4 DEF BatchLinked, BlockAt
<1>10. crashes' = 0 => ScannedStored'
  BY <1>1, <1>2 DEF SyncInv, ScannedStored
<1> QED BY <1>2, <1>6, <1>7, <1>8, <1>9, <1>10 DEF SyncInv

LEMMA CheckFetchedPreserves ==
  ASSUME SyncInv, CheckFetched
  PROVE  SyncInv'
<1>1. /\ pc = "fetch" /\ NextFetch > upto
      /\ \/ FirstBlockReorged /\ pc' = "rewind" /\ target' = RewindTarget /\ fetched' = << >>
         \/ ~FirstBlockReorged /\ pc' = "apply" /\ UNCHANGED <<target, fetched>>
      /\ UNCHANGED <<chain, shielded, trp, caller, range, upto, height,
                     errors, crashes, torn>>
  BY DEF CheckFetched, Goto, faults
<1>2. /\ SWP!IInv' /\ SW!TypeOK' /\ TW!TrpTypeOK'
      /\ SW!Stored' = SW!Stored /\ SW!LastHeight' = SW!LastHeight
      /\ TW!Scanned' = TW!Scanned
      /\ SW!Linked' <=> SW!Linked
  BY <1>1, TablesUnchanged
<1>3. /\ NextFetch = SW!LastHeight + Len(fetched) + 1 /\ range.end - 1 <= upto
      /\ range.start = SW!LastHeight + 1
  BY <1>1 DEF SyncInv, BatchCovers, RangeFollows, NextFetch
<1>4. TypeOK'
  <2>1. RewindTarget \in RewindTargets
    BY Known, ScanAssumption DEF RewindTarget, RewindTargets
  <2>2. << >> \in Seq(Block)
    OBVIOUS
  <2> QED BY <1>1, <1>2, <2>1, <2>2 DEF SyncInv, TypeOK
<1>5. RangeFollows'
  <2>1. \A k \in Height : ~(range.start <= k /\ k <= SW!LastHeight)
    BY <1>3, Known
  <2> QED BY <1>1, <1>2, <2>1 DEF SyncInv, RangeFollows, TipHeight
<1>6. BatchCovers'
  <2>1. range.end - 1 <= SW!LastHeight + Len(fetched)
    BY <1>1, <1>3, Known
  <2> QED BY <1>1, <1>2, <2>1 DEF SyncInv, BatchCovers
<1>7. ASSUME ~torn' PROVE BatchLinked'
  <2>1. BatchLinked
    BY <1>1, <1>7 DEF SyncInv
  <2>2. CASE pc' = "rewind"
    BY <1>1, <1>2, <2>1, <2>2 DEF BatchLinked
  <2>3. CASE pc' = "apply"
    <3>1. fetched # << >> => Head(fetched) = fetched[1]
      BY Known, HeadTailProperties
    <3> QED BY <1>1, <1>2, <2>1, <2>3, <3>1 DEF BatchLinked, FirstBlockReorged, shielded
  <2> QED BY <1>1, <2>2, <2>3
<1>8. crashes' = 0 => ScannedStored'
  BY <1>1, <1>2 DEF SyncInv, ScannedStored
<1> QED BY <1>2, <1>4, <1>5, <1>6, <1>7, <1>8 DEF SyncInv

LEMMA ApplyBlockPreserves ==
  ASSUME SyncInv, ApplyBlock
  PROVE  SyncInv'
<1> DEFINE b == Head(fetched)
           h == SW!LastHeight + 1
<1>1. /\ pc = "apply" /\ fetched # << >> /\ SW!AdvanceByBlock(b)
      /\ fetched' = Tail(fetched)
      /\ UNCHANGED <<chain, trp, pc, caller, range, upto, height, target,
                     errors, crashes, torn>>
  BY DEF ApplyBlock, faults
<1>2. /\ b \in Block /\ b = fetched[1] /\ fetched' \in Seq(Block)
      /\ Len(fetched) >= 1 /\ Len(fetched') = Len(fetched) - 1
      /\ \A i \in 1..Len(fetched') : fetched'[i] = fetched[i + 1]
  <2>1. fetched \in Seq(Block) /\ fetched # << >>
    BY <1>1, Known
  <2> QED BY <1>1, <2>1, EmptySeq, HeadTailProperties
<1> HIDE DEF b
<1>3. /\ SWP!IInv' /\ h \in Height
      /\ SW!LastHeight' = h /\ SW!Stored' = SW!Stored \cup {h} /\ h \notin SW!Stored
      /\ blocks'[h].hash = b /\ \A k \in SW!Stored : blocks'[k] = blocks[k]
  BY <1>1, <1>2, ShieldedAdvance DEF SyncInv
<1>4. SW!TypeOK'
  BY <1>3, StoredPrimed DEF SWP!IInv
<1>5. TW!TrpTypeOK' /\ TW!Scanned' = TW!Scanned
  BY <1>1, Known, TransparentStutter
<1>6. TypeOK'
  BY <1>1, <1>2, <1>4, <1>5 DEF SyncInv, TypeOK
<1>7. RangeFollows'
  <2>1. \A k \in Height : k <= SW!LastHeight + 1 => k <= SW!LastHeight \/ k = h
    BY Known
  <2> QED BY <1>1, <1>3, <2>1 DEF SyncInv, RangeFollows, TipHeight
<1>8. BatchCovers'
  BY <1>1, <1>2, <1>3, Known DEF SyncInv, BatchCovers
<1>9. ASSUME ~torn' PROVE BatchLinked'
  <2>1. BatchLinked
    BY <1>1, <1>9 DEF SyncInv
  <2>2. SW!Stored \subseteq Height /\ \A k \in SW!Stored : k <= SW!LastHeight
    BY Known, ShieldedTip
  <2>3. ASSUME NEW k \in SW!Stored', k - 1 \in SW!Stored'
        PROVE  PrevHash[blocks'[k].hash] = blocks'[k - 1].hash
    <3>1. CASE k = h
      <4>1. k - 1 = SW!LastHeight /\ SW!LastHeight \in SW!Stored
        BY <1>3, <2>3, <3>1, Known
      <4> QED BY <1>1, <1>2, <1>3, <2>1, <3>1, <4>1 DEF BatchLinked
    <3>2. CASE k # h
      <4>1. k \in SW!Stored /\ k - 1 # h
        BY <1>3, <2>2, <2>3, <3>2, Known
      <4>2. k - 1 \in SW!Stored
        BY <1>3, <2>3, <4>1
      <4> QED BY <1>3, <2>1, <4>1, <4>2 DEF BatchLinked, SW!Linked
    <3> QED BY <3>1, <3>2
  <2>4. SW!Linked'
    BY <2>3 DEF SW!Linked
  <2>5. ASSUME NEW i \in 1..(Len(fetched') - 1)
        PROVE  PrevHash[fetched'[i + 1]] = fetched'[i]
    <3>1. /\ i \in 1..Len(fetched') /\ i + 1 \in 1..Len(fetched')
          /\ i + 1 \in 1..(Len(fetched) - 1)
      BY <1>2, <2>5, Known
    <3>2. PrevHash[fetched[(i + 1) + 1]] = fetched[i + 1]
      BY <2>1, <3>1 DEF BatchLinked
    <3> QED BY <1>2, <3>1, <3>2
  <2>6. ASSUME fetched' # << >>
        PROVE  PrevHash[fetched'[1]] = blocks'[SW!LastHeight'].hash
    <3>1. Len(fetched') >= 1 /\ Len(fetched') \in Int
      BY <1>2, <2>6, EmptySeq
    <3>2. 1 \in 1..Len(fetched') /\ 1 \in 1..(Len(fetched) - 1)
      BY <1>2, <3>1, Known
    <3>3. PrevHash[fetched[1 + 1]] = fetched[1]
      BY <2>1, <3>2 DEF BatchLinked
    <3> QED BY <1>2, <1>3, <3>2, <3>3
  <2> QED BY <1>1, <2>4, <2>5, <2>6 DEF BatchLinked
<1>10. crashes' = 0 => ScannedStored'
  BY <1>1, <1>3, <1>5 DEF SyncInv, ScannedStored
<1> QED BY <1>3, <1>6, <1>7, <1>8, <1>9, <1>10 DEF SyncInv

LEMMA ApplyPanicsPreserves ==
  ASSUME SyncInv, ApplyPanics
  PROVE  SyncInv'
<1>1. /\ pc = "apply" /\ Return
      /\ UNCHANGED <<chain, shielded, trp, torn, errors, crashes>>
  BY DEF ApplyPanics, faults
<1>2. errors' \in 0..MaxErrors /\ crashes' \in 0..MaxCrashes
  BY <1>1 DEF SyncInv, TypeOK
<1> QED BY <1>1, <1>2, ReturnPreserves

\* Notifications are no part of the invariant.
LEMMA OutboxPreserves ==
  ASSUME SyncInv,
         UNCHANGED <<chain, shielded, trp, faults, torn,
                     pc, caller, range, upto, fetched, height, target>>
  PROVE  SyncInv'
<1>1. /\ SWP!IInv' /\ SW!TypeOK' /\ TW!TrpTypeOK'
      /\ SW!Stored' = SW!Stored /\ SW!LastHeight' = SW!LastHeight
      /\ TW!Scanned' = TW!Scanned
      /\ SW!Linked' <=> SW!Linked
  BY TablesUnchanged
<1>2. TypeOK' /\ RangeFollows' /\ BatchCovers'
  BY <1>1 DEF SyncInv, TypeOK, RangeFollows, BatchCovers, NextFetch, TipHeight, faults
<1>3. ~torn' => BatchLinked'
  BY <1>1 DEF SyncInv, BatchLinked, BlockAt, shielded
<1>4. crashes' = 0 => ScannedStored'
  BY <1>1 DEF SyncInv, ScannedStored, faults
<1> QED BY <1>1, <1>2, <1>3, <1>4 DEF SyncInv

LEMMA StartTransparentPreserves ==
  ASSUME SyncInv, StartTransparent
  PROVE  SyncInv'
<1>1. /\ pc = "apply" /\ pc' = "transparent" /\ fetched = << >> /\ height' = range.start
      /\ UNCHANGED <<chain, shielded, trp, caller, range, upto, fetched, target,
                     errors, crashes, torn>>
  BY DEF StartTransparent, Goto, faults
<1>2. /\ SWP!IInv' /\ SW!TypeOK' /\ TW!TrpTypeOK'
      /\ SW!Stored' = SW!Stored /\ SW!LastHeight' = SW!LastHeight
      /\ TW!Scanned' = TW!Scanned
      /\ SW!Linked' <=> SW!Linked
  BY <1>1, TablesUnchanged
<1>3. TypeOK'
  BY <1>1, <1>2, Known DEF SyncInv, TypeOK
<1>4. RangeFollows'
  BY <1>1, <1>2 DEF SyncInv, RangeFollows, TipHeight
<1>5. BatchCovers'
  <2>1. range.end - 1 <= SW!LastHeight + 0 /\ range.start < range.end
    BY <1>1 DEF SyncInv, BatchCovers, RangeFollows
  <2>2. /\ range.end - 1 <= SW!LastHeight
        /\ range.start <= range.start /\ range.start <= range.end
    BY <2>1, Known
  <2> QED BY <1>1, <1>2, <2>2 DEF BatchCovers
<1>6. ~torn' => BatchLinked'
  BY <1>1, <1>2 DEF SyncInv, BatchLinked
<1>7. crashes' = 0 => ScannedStored'
  BY <1>1, <1>2 DEF SyncInv, ScannedStored
<1> QED BY <1>2, <1>3, <1>4, <1>5, <1>6, <1>7 DEF SyncInv

\* The scanned block is at the height it was asked for, above all others
\* scanned, and stored.
LEMMA TransparentBlock ==
  ASSUME SyncInv, pc = "transparent", height < range.end
  PROVE  /\ BlockAt(height) \in Block /\ HeightOf[BlockAt(height)] = height
         /\ height \in Height /\ height \in SW!Stored
         /\ height + 1 \in 0..(MaxHeight + 1) /\ height + 1 <= range.end
<1>1. /\ range.start \in Height /\ range.end <= TipHeight + 1
      /\ range.end - 1 <= SW!LastHeight /\ range.start <= height
      /\ \A k \in Height : range.start <= k /\ k <= SW!LastHeight => k \in SW!Stored
  BY DEF SyncInv, RangeFollows, BatchCovers
<1>2. 1 <= height /\ height <= TipHeight /\ height \in Height /\ height <= SW!LastHeight
  BY <1>1, Known
<1>3. BlockAt(height) \in Block /\ HeightOf[BlockAt(height)] = height
  BY <1>2, Known, NodeFacts DEF SyncInv, TypeOK, BlockAt, TipHeight
<1> QED BY <1>1, <1>2, <1>3, Known

LEMMA ScanTransparentBlockPreserves ==
  ASSUME SyncInv, ScanTransparentBlock
  PROVE  SyncInv'
<1> DEFINE b == BlockAt(height)
<1>1. /\ pc = "transparent" /\ height < range.end /\ height' = height + 1
      /\ TW!ScanBlock(b)
      /\ UNCHANGED <<chain, shielded, pc, caller, range, upto, fetched, target,
                     errors, crashes, torn>>
  BY DEF ScanTransparentBlock, faults
<1>2. /\ b \in Block /\ HeightOf[b] = height /\ height \in SW!Stored
      /\ height' \in 0..(MaxHeight + 1) /\ height' <= range.end
  BY <1>1, TransparentBlock
<1>3. TW!TrpTypeOK' /\ TW!Scanned' = TW!Scanned \cup {height}
  BY <1>1, <1>2, Known, TransparentScan
<1>4. /\ SWP!IInv' /\ SW!TypeOK'
      /\ SW!Stored' = SW!Stored /\ SW!LastHeight' = SW!LastHeight
  BY <1>1, Known, ShieldedStutter DEF SW!TypeOK, shielded
<1>5. TypeOK'
  BY <1>1, <1>2, <1>3, <1>4 DEF SyncInv, TypeOK
<1>6. RangeFollows'
  BY <1>1, <1>4 DEF SyncInv, RangeFollows, TipHeight
<1>7. BatchCovers'
  BY <1>1, <1>2, <1>4, Known DEF SyncInv, BatchCovers
<1>8. ~torn' => BatchLinked'
  BY <1>1, <1>4 DEF SyncInv, BatchLinked, SW!Linked, shielded
<1>9. ASSUME crashes' = 0 PROVE ScannedStored'
  <2>1. ScannedStored
    BY <1>1, <1>9 DEF SyncInv
  <2>2. \A h \in TW!Scanned : h \in Int /\ h < height
    BY <1>1, <2>1, Known DEF ScannedStored, TW!Scanned, TW!Height
  <2>3. \A h \in TW!Scanned' : h < height + 1
    BY <1>3, <2>2, Known
  <2> QED BY <1>1, <1>2, <1>3, <1>4, <2>1, <2>3 DEF ScannedStored
<1> QED BY <1>4, <1>5, <1>6, <1>7, <1>8, <1>9 DEF SyncInv

LEMMA TransparentReorgPreserves ==
  ASSUME SyncInv, TransparentReorg
  PROVE  SyncInv'
<1>1. /\ pc = "transparent" /\ pc' = "rewind" /\ target' = RewindTarget
      /\ UNCHANGED <<chain, shielded, trp, caller, range, upto, fetched, height,
                     errors, crashes, torn>>
  BY DEF TransparentReorg, Goto, faults
<1>2. /\ SWP!IInv' /\ SW!TypeOK' /\ TW!TrpTypeOK'
      /\ SW!Stored' = SW!Stored /\ SW!LastHeight' = SW!LastHeight
      /\ TW!Scanned' = TW!Scanned
      /\ SW!Linked' <=> SW!Linked
  BY <1>1, TablesUnchanged
<1>3. RewindTarget \in RewindTargets
  BY Known, ScanAssumption DEF RewindTarget, RewindTargets
<1> QED BY <1>1, <1>2, <1>3 DEF SyncInv, TypeOK, RangeFollows, BatchCovers, BatchLinked,
                         ScannedStored

LEMMA NextRangePreserves ==
  ASSUME SyncInv, NextRange
  PROVE  SyncInv'
<1>1. /\ pc = "transparent" /\ pc' = "range"
      /\ UNCHANGED <<chain, shielded, trp, caller, range, upto, fetched, height, target,
                     errors, crashes, torn>>
  BY DEF NextRange, Goto, faults
<1>2. /\ SWP!IInv' /\ SW!TypeOK' /\ TW!TrpTypeOK'
      /\ SW!Stored' = SW!Stored /\ SW!LastHeight' = SW!LastHeight
      /\ TW!Scanned' = TW!Scanned
      /\ SW!Linked' <=> SW!Linked
  BY <1>1, TablesUnchanged
<1> QED BY <1>1, <1>2 DEF SyncInv, TypeOK, RangeFollows, BatchCovers, BatchLinked,
                         ScannedStored

LEMMA RewindShieldedPreserves ==
  ASSUME SyncInv, RewindShielded
  PROVE  SyncInv'
<1>1. /\ pc = "rewind" /\ pc' = "trprewind" /\ SW!RewindToHeight(target)
      /\ UNCHANGED <<chain, trp, caller, range, upto, fetched, height, target,
                     errors, crashes, torn>>
  BY DEF RewindShielded, Goto, faults
<1>2. target \in Int
  BY Known
<1>3. /\ SWP!IInv' /\ SW!Stored' = {h \in SW!Stored : h <= target}
      /\ \A k \in SW!Stored' : blocks'[k] = blocks[k]
  BY <1>1, <1>2, ShieldedRewind DEF SyncInv
<1>4. SW!TypeOK'
  BY <1>3, StoredPrimed DEF SWP!IInv
<1>5. TW!TrpTypeOK' /\ TW!Scanned' = TW!Scanned
  BY <1>1, Known, TransparentStutter
<1>6. TypeOK'
  BY <1>1, <1>4, <1>5 DEF SyncInv, TypeOK
<1>7. RangeFollows' /\ BatchCovers'
  BY <1>1 DEF SyncInv, RangeFollows, BatchCovers
<1>8. ~torn' => BatchLinked'
  BY <1>1, <1>3 DEF SyncInv, BatchLinked, SW!Linked
<1>9. crashes' = 0 => ScannedStored'
  BY <1>1, <1>3, <1>5 DEF SyncInv, ScannedStored
<1> QED BY <1>3, <1>6, <1>7, <1>8, <1>9 DEF SyncInv

LEMMA RewindTransparentPreserves ==
  ASSUME SyncInv, RewindTransparent
  PROVE  SyncInv'
<1>1. /\ pc = "trprewind" /\ TW!TrpRewindToHeight(target)
      /\ \/ Return
         \/ pc' = "range" /\ UNCHANGED <<caller, range, upto, fetched, height, target>>
      /\ UNCHANGED <<chain, shielded, errors, crashes, torn>>
  BY DEF RewindTransparent, Goto, faults
<1>2. target \in Int
  BY Known
<1>3. TW!TrpTypeOK' /\ TW!Scanned' = {h \in TW!Scanned : h <= target}
  BY <1>1, <1>2, Known, TransparentRewind
<1>4. /\ SWP!IInv' /\ SW!TypeOK'
      /\ SW!Stored' = SW!Stored /\ SW!LastHeight' = SW!LastHeight
  BY <1>1, Known, ShieldedStutter DEF SW!TypeOK, shielded
<1>5. pc' \in {"idle", "range"} /\ fetched' = << >>
  BY <1>1 DEF Return, SyncInv, BatchCovers
<1>6. TypeOK'
  <2>1. CASE Return
    BY <1>1, <1>3, <1>4, <2>1, Known, ScanAssumption
       DEF SyncInv, TypeOK, Return, NoRange, RewindTargets
  <2>2. CASE pc' = "range" /\ UNCHANGED <<caller, range, upto, fetched, height, target>>
    BY <1>1, <1>3, <1>4, <2>2 DEF SyncInv, TypeOK
  <2> QED BY <1>1, <2>1, <2>2
<1>7. RangeFollows' /\ BatchCovers'
  BY <1>5 DEF RangeFollows, BatchCovers
<1>8. ~torn' => BatchLinked'
  BY <1>1, <1>4, <1>5 DEF SyncInv, BatchLinked, SW!Linked, shielded
<1>9. crashes' = 0 => ScannedStored'
  BY <1>1, <1>3, <1>4, <1>5 DEF SyncInv, ScannedStored
<1> QED BY <1>4, <1>6, <1>7, <1>8, <1>9 DEF SyncInv

LEMMA NotifyPreserves ==
  ASSUME SyncInv, PostAccepted
  PROVE  SyncInv'
<1>1. /\ pc = "notify" /\ pc' = "mark"
      /\ UNCHANGED <<chain, shielded, trp, caller, range, upto, fetched, height, target,
                     errors, crashes, torn>>
  BY DEF PostAccepted, Goto, faults
<1>2. /\ SWP!IInv' /\ SW!TypeOK' /\ TW!TrpTypeOK'
      /\ SW!Stored' = SW!Stored /\ SW!LastHeight' = SW!LastHeight
      /\ TW!Scanned' = TW!Scanned
      /\ SW!Linked' <=> SW!Linked
  BY <1>1, TablesUnchanged
<1> QED BY <1>1, <1>2 DEF SyncInv, TypeOK, RangeFollows, BatchCovers, BatchLinked,
                         ScannedStored

\* Every failure ends the handler where it stands.
LEMMA FailuresPreserve ==
  ASSUME SyncInv, RpcError \/ PostFails \/ Crash \/ SyncDone
  PROVE  SyncInv'
<1>1. errors \in 0..MaxErrors /\ crashes \in 0..MaxCrashes
      /\ MaxErrors \in Nat /\ MaxCrashes \in Nat
  BY ScanAssumption DEF SyncInv, TypeOK
<1>2. CASE RpcError \/ PostFails
  <2>1. /\ Return /\ UNCHANGED <<chain, shielded, trp, crashes, torn>>
        /\ errors < MaxErrors /\ errors' = errors + 1 /\ pc # "trprewind"
    BY <1>2 DEF RpcError, PostFails, Fails
  <2>2. errors' \in 0..MaxErrors
    BY <1>1, <2>1
  <2> QED BY <1>1, <2>1, <2>2, ReturnPreserves
<1>3. CASE Crash
  <2>1. /\ Return /\ UNCHANGED <<chain, shielded, trp, errors, torn>>
        /\ crashes < MaxCrashes /\ crashes' = crashes + 1
    BY <1>3 DEF Crash
  <2>2. crashes' \in 0..MaxCrashes /\ crashes' # 0
    BY <1>1, <2>1
  <2> QED BY <1>1, <2>1, <2>2, ReturnPreserves
<1>4. CASE SyncDone
  <2>1. /\ Return /\ UNCHANGED <<chain, shielded, trp, errors, crashes, torn>>
        /\ pc # "trprewind"
    BY <1>4 DEF SyncDone, faults
  <2> QED BY <1>1, <2>1, ReturnPreserves
<1> QED BY <1>2, <1>3, <1>4

-----------------------------------------------------------------------------
(* Theorems *)

\* Nothing is stored and nothing is under way when the server starts.
LEMMA SyncInit ==
  ASSUME Init
  PROVE  SyncInv
<1>1. SWP!Init
  BY SameShielded DEF Init
<1>2. SWP!IInv
  BY <1>1, ShieldedAssumptions, SWP!InitIInv
<1>3. SW!TypeOK
  BY <1>2, ShieldedTip
<1>4. TW!TrpTypeOK /\ TW!Scanned = {}
  BY DEF Init, TW!TrpInit, TW!TrpTypeOK, TW!Scanned, TW!Height
<1>5. SW!Stored = {}
  BY DEF Init, SW!Init, SW!Stored, SW!Height
<1>6. TypeOK
  <2>1. chain \in Chains
    BY DEF Init, NodeInit
  <2>2. 0 \in RewindTargets /\ 0 \in 0..MaxErrors /\ 0 \in 0..MaxCrashes
        /\ 0 \in 0..MaxHeight /\ 0 \in 0..(MaxHeight + 1)
    BY ScanAssumption, LedgerAssumption DEF RewindTargets
  <2>3. NoRange \in [start : 0..(MaxHeight + 1), end : 0..(MaxHeight + 1)]
    BY <2>2 DEF NoRange
  <2>4. fetched \in Seq(Block)
    BY DEF Init
  <2> QED BY <1>3, <1>4, <2>1, <2>2, <2>3, <2>4 DEF Init, TypeOK
<1>7. RangeFollows /\ BatchCovers
  BY DEF Init, RangeFollows, BatchCovers
<1>8. ~torn => BatchLinked
  BY <1>5 DEF Init, BatchLinked, SW!Linked
<1>9. crashes = 0 => ScannedStored
  BY <1>4 DEF Init, ScannedStored
<1> QED BY <1>2, <1>6, <1>7, <1>8, <1>9 DEF SyncInv

LEMMA StepPreserves ==
  ASSUME SyncInv, [Next]_vars
  PROVE  SyncInv'
<1>1. CASE NewBestChain
  BY <1>1, NewBestChainPreserves
<1>2. CASE LoadCheckpoint
  BY <1>2, LoadCheckpointPreserves
<1>3. CASE Sync
  BY <1>3, SyncPreserves
<1>4. CASE \E to \in OperatorRewind : RewindRpc(to)
  BY <1>4, RewindRpcPreserves
<1>5. CASE GetScanRange \/ OpenBlocks \/ FetchBlock \/ CheckFetched
  BY <1>5, GetScanRangePreserves, OpenBlocksPreserves, FetchBlockPreserves,
     CheckFetchedPreserves
<1>6. CASE ApplyBlock \/ ApplyPanics \/ StartTransparent
  BY <1>6, ApplyBlockPreserves, ApplyPanicsPreserves, StartTransparentPreserves
<1>7. CASE StoreShielded \/ StoreTransparent \/ MarkDelivered
  BY <1>7, OutboxPreserves DEF StoreShielded, StoreTransparent, MarkDelivered
<1>8. CASE ScanTransparentBlock \/ TransparentReorg \/ NextRange
  BY <1>8, ScanTransparentBlockPreserves, TransparentReorgPreserves, NextRangePreserves
<1>9. CASE RewindShielded \/ RewindTransparent
  BY <1>9, RewindShieldedPreserves, RewindTransparentPreserves
<1>10. CASE PostAccepted
  BY <1>10, NotifyPreserves
<1>11. CASE SyncDone \/ RpcError \/ PostFails \/ Crash
  BY <1>11, FailuresPreserve
<1>12. CASE UNCHANGED vars
  BY <1>12, OutboxPreserves DEF vars, worker
<1> QED BY <1>1, <1>2, <1>3, <1>4, <1>5, <1>6, <1>7, <1>8, <1>9, <1>10, <1>11, <1>12
        DEF Next, Work

\* What is read at different times during a sync fits together in every
\* reachable state, whatever the node, the client and failures do.
THEOREM SyncInvariant == Spec => []SyncInv
<1>1. Init => SyncInv
  BY SyncInit
<1>2. SyncInv /\ [Next]_vars => SyncInv'
  BY StepPreserves
<1> QED BY <1>1, <1>2, PTL DEF Spec

\* The tables and the locals of the worker have their types, whatever the
\* node does between two RPCs and wherever the worker is interrupted.
THEOREM TypeCorrect == Spec => []TypeOK
<1>1. SyncInv => TypeOK
  BY DEF SyncInv
<1> QED BY <1>1, SyncInvariant, PTL

\* Comparing the first block of a batch is enough: stored blocks are linked
\* by their hashes as long as no best chain is replaced under a fetch.
THEOREM StoredBlocksLinked == Spec => []LinkedUnlessTorn
<1>1. SyncInv => LinkedUnlessTorn
  BY DEF SyncInv, BatchLinked, LinkedUnlessTorn
<1> QED BY <1>1, SyncInvariant, PTL

\* A sync uses the shielded tables through their three operations only: all
\* that is proved of SaplingWallet holds of every sync, every Rewind RPC and
\* every interruption of them.
THEOREM SyncImplementsShielded == Spec => ShieldedTables
<1>1. Init => SW!Init
  BY DEF Init
<1>2. SyncInv /\ [Next]_vars => [SW!Next]_SW!vars
  <2> SUFFICES ASSUME SyncInv, [Next]_vars
               PROVE  [SW!Next]_SW!vars
    OBVIOUS
  <2>1. CASE ApplyBlock
    <3>1. SW!AdvanceByBlock(Head(fetched)) /\ fetched # << >>
      BY <2>1 DEF ApplyBlock
    <3>2. Head(fetched) \in Block
      BY <3>1, Known, HeadTailProperties
    <3> QED BY <3>1, <3>2 DEF SW!Next
  <2>2. CASE RewindShielded
    BY <2>2 DEF RewindShielded, SW!Next, SyncInv, TypeOK
  <2>3. CASE LoadCheckpoint
    BY <2>3 DEF LoadCheckpoint, SW!Next
  <2>4. CASE ~ApplyBlock /\ ~RewindShielded /\ ~LoadCheckpoint
    <3>1. UNCHANGED shielded
      BY <2>4 DEF Next, Work, vars, NewBestChain, Sync, RewindRpc, GetScanRange, OpenBlocks,
           FetchBlock, CheckFetched, ApplyPanics, StoreShielded, StartTransparent,
           ScanTransparentBlock, TransparentReorg, StoreTransparent, NextRange,
           RewindTransparent, PostAccepted, MarkDelivered, SyncDone, RpcError, PostFails,
           Fails, Crash
    <3> QED BY <3>1, ShieldedStutter DEF SyncInv
  <2> QED BY <2>1, <2>2, <2>3, <2>4
<1> QED BY <1>1, <1>2, SyncInvariant, PTL DEF Spec, ShieldedTables, SW!Spec

\* Until a crash a sync scans transparent blocks upwards only, and rewinds
\* them before it scans them again.
THEOREM SyncImplementsTransparent == Spec => TransparentTable
<1>1. Init => TW!TrpInit
  BY DEF Init
<1>2. SyncInv /\ [Next]_vars => [crashes' > 0 \/ TW!TrpNext]_<<trp, crashes>>
  <2> SUFFICES ASSUME SyncInv, [Next]_vars
               PROVE  crashes' > 0 \/ TW!TrpNext \/ UNCHANGED <<trp, crashes>>
    OBVIOUS
  <2>1. crashes \in Nat
    BY ScanAssumption DEF SyncInv, TypeOK
  <2>2. CASE Crash
    BY <2>1, <2>2 DEF Crash
  <2>3. CASE ScanTransparentBlock
    <3>1. /\ pc = "transparent" /\ height < range.end
          /\ TW!ScanBlock(BlockAt(height)) /\ crashes' = crashes
      BY <2>3 DEF ScanTransparentBlock, faults
    <3>2. BlockAt(height) \in Block /\ HeightOf[BlockAt(height)] = height
      BY <3>1, TransparentBlock
    <3>3. CASE crashes = 0
      <4>1. \A h \in TW!Scanned : h < height
        BY <3>1, <3>3 DEF SyncInv, ScannedStored
      <4> QED BY <3>1, <3>2, <4>1 DEF TW!TrpNext
    <3> QED BY <2>1, <3>1, <3>3
  <2>4. CASE RewindTransparent
    BY <2>4 DEF RewindTransparent, TW!TrpNext, SyncInv, TypeOK
  <2>5. CASE ~Crash /\ ~ScanTransparentBlock /\ ~RewindTransparent
    BY <2>5 DEF Next, Work, vars, faults, NewBestChain, LoadCheckpoint, Sync, RewindRpc,
         GetScanRange, OpenBlocks, FetchBlock, CheckFetched, ApplyBlock, ApplyPanics,
         StoreShielded, StartTransparent, TransparentReorg, StoreTransparent, NextRange,
         RewindShielded, PostAccepted, MarkDelivered, SyncDone, RpcError, PostFails, Fails
  <2> QED BY <2>2, <2>3, <2>4, <2>5
<1> QED BY <1>1, <1>2, SyncInvariant, PTL DEF Spec, TransparentTable

\* Unless a rewind went below the pruned heights, every mined note has a
\* witness at the stored tip in every state of a sync.
THEOREM WitnessedUnlessDeep == Spec => [](~deep => MinedNotesWitnessed)
<1>1. SyncInv => (~deep => MinedNotesWitnessed)
  <2> SUFFICES ASSUME SyncInv, ~deep, NEW n \in Note, SW!Mined(TxOfNote[n])
               PROVE  sapling_witnesses[n][SW!LastHeight] # NULL
    BY DEF MinedNotesWitnessed
  <2>1. /\ SWP!MinedInStored /\ SWP!SpendableUnlessDeep /\ SWP!FloorBelowTip
        /\ SWP!IInv
    BY DEF SyncInv, SWP!IInv
  <2>2. TxOfNote[n] \in Tx
    BY LedgerAssumption
  <2>3. SWP!Mined(TxOfNote[n])
    BY DEF SW!Mined, SWP!Mined
  <2>4. transactions[TxOfNote[n]].block \in SW!Stored
    BY <2>1, <2>2, <2>3, SameShielded DEF SWP!MinedInStored
  <2>5. /\ SW!LastHeight \in SW!Stored
        /\ transactions[TxOfNote[n]].block <= SW!LastHeight
    BY <2>1, <2>4, ShieldedTip
  <2>6. floor <= SW!LastHeight
    BY <2>1, SameShielded DEF SWP!FloorBelowTip
  <2> QED BY <2>1, <2>3, <2>5, <2>6, SameShielded DEF SWP!SpendableUnlessDeep
<1> QED BY <1>1, SyncInvariant, PTL

\* No spend escapes a sync: unless a best chain was replaced under a fetch,
\* every spend of a mined note that a stored block reveals is recorded
\* against that very transaction, whatever was rewound, failed or crashed.
THEOREM SpendsDetectedUnlessTorn == Spec => [](~torn => SW!SpendsDetected)
<1> DEFINE Detected == ~torn => SWP!SpendInv
<1>1. SyncInv => (~torn => SWP!Linked)
  BY SameShielded, Zenon
     DEF SyncInv, BatchLinked, SW!Linked, SWP!Linked, SW!Stored, SWP!Stored, SW!Height, SWP!Height
<1>2. Init /\ SyncInv => Detected
  <2> SUFFICES ASSUME Init, SyncInv, SWP!Linked PROVE SWP!SpendInv
    BY <1>1
  <2>1. SW!Stored = {}
    BY DEF Init, SW!Init, SW!Stored
  <2>2. SWP!SpendersSpend
    BY DEF Init, SW!Init, SWP!SpendersSpend
  <2>3. SWP!StoredSpends /\ SWP!StoredAtHeight
    BY <2>1, SameShielded DEF SWP!StoredSpends, SWP!StoredAtHeight
  <2> QED BY <2>2, <2>3 DEF SWP!SpendInv, SyncInv
<1>3. SyncInv /\ SyncInv' /\ Detected /\ [Next]_vars => Detected'
  <2> SUFFICES ASSUME SyncInv, SyncInv', Detected, [Next]_vars, ~torn'
               PROVE  SWP!SpendInv'
    OBVIOUS
  <2>1. SWP!Linked'
    BY <1>1, PTL
  <2>2. ~torn
    BY DEF vars, Next, Work, NewBestChain, LoadCheckpoint, Sync, RewindRpc, GetScanRange,
         OpenBlocks, FetchBlock, CheckFetched, ApplyBlock, ApplyPanics, StoreShielded,
         StartTransparent, ScanTransparentBlock, TransparentReorg, StoreTransparent, NextRange,
         RewindShielded, RewindTransparent, PostAccepted, MarkDelivered, SyncDone, RpcError,
         PostFails, Fails, Crash
  <2>3. SWP!SpendInv
    BY <2>2
  <2>4. CASE ApplyBlock
    <3>1. SW!AdvanceByBlock(Head(fetched)) /\ fetched # << >>
      BY <2>4 DEF ApplyBlock
    <3>2. Head(fetched) \in Block
      BY <3>1, Known, HeadTailProperties
    <3>3. SWP!AdvanceByBlock(Head(fetched))
      BY <3>1, <3>2, SameAdvance
    <3> QED BY <2>1, <2>3, <3>2, <3>3, ShieldedAssumptions, SWP!AdvanceKeepsSpends
  <2>5. CASE RewindShielded
    <3>1. SW!RewindToHeight(target) /\ target \in RewindTargets
      BY <2>5 DEF RewindShielded, SyncInv, TypeOK
    <3>2. target \in Int
      BY <3>1, ScanAssumption, LedgerAssumption DEF RewindTargets
    <3>3. SWP!RewindToHeight(target)
      BY <3>1, <3>2, SameRewind
    <3> QED BY <2>3, <3>2, <3>3, ShieldedAssumptions, SWP!RewindKeepsSpends
  <2>6. CASE LoadCheckpoint
    <3>1. PICK tree \in Checkpoint : SW!LoadCheckpoint(tree)
      BY <2>6 DEF LoadCheckpoint
    <3>2. SWP!LoadCheckpoint(tree)
      BY <3>1, SameCheckpoint
    <3> QED BY <2>1, <2>3, <3>2, ShieldedAssumptions, SWP!CheckpointKeepsSpends
  <2>7. CASE ~ApplyBlock /\ ~RewindShielded /\ ~LoadCheckpoint
    <3>1. UNCHANGED shielded
      BY <2>7 DEF Next, Work, vars, NewBestChain, Sync, RewindRpc, GetScanRange, OpenBlocks,
           FetchBlock, CheckFetched, ApplyPanics, StoreShielded, StartTransparent,
           ScanTransparentBlock, TransparentReorg, StoreTransparent, NextRange,
           RewindTransparent, PostAccepted, MarkDelivered, SyncDone, RpcError, PostFails,
           Fails, Crash
    <3>2. SWP!SpendersSpend' /\ SWP!StoredSpends' /\ SWP!StoredAtHeight'
      BY <2>3, <3>1 DEF shielded, SWP!SpendInv, SWP!SpendersSpend, SWP!StoredSpends,
           SWP!StoredAtHeight,
           SWP!Stored, SWP!Height, SWP!Mined
    <3>3. SWP!IInv'
      BY DEF SyncInv
    <3> QED BY <2>1, <3>2, <3>3 DEF SWP!SpendInv
  <2> QED BY <2>4, <2>5, <2>6, <2>7
<1>4. Detected => (~torn => SW!SpendsDetected)
  <2> SUFFICES ASSUME SWP!SpendInv PROVE SW!SpendsDetected
    OBVIOUS
  <2>1. SWP!StoredSpends
    BY DEF SWP!SpendInv
  <2> QED BY <2>1, Zenon DEF SWP!StoredSpends, SW!SpendsDetected, SW!Stored, SWP!Stored,
                             SW!Height, SWP!Height, SW!Mined, SWP!Mined
<1> QED BY <1>2, <1>3, <1>4, SyncInvariant, PTL DEF Spec

\* Rewinds of a sync leave no coin behind that an orphaned block created,
\* whichever branches its scans mix, as long as the server does not crash
\* between the two rewinds of a reorganisation.
THEOREM OrphansGoneUntilCrash == Spec => [](crashes = 0 => TW!NoOrphanCoins)
<1> DEFINE Clean == crashes = 0 => TWP!TIInv
<1>1. Init => Clean
  <2>1. TW!TrpInit <=> TWP!TrpInit
    BY Zenon DEF TW!TrpInit, TWP!TrpInit, TW!Height, TWP!Height
  <2> QED BY <2>1, TransparentAssumptions, TWP!InitTIInv DEF Init
<1>2. SyncInv /\ Clean /\ [Next]_vars => Clean'
  <2> SUFFICES ASSUME SyncInv, Clean, [Next]_vars, crashes' = 0
               PROVE  TWP!TIInv'
    OBVIOUS
  <2>1. crashes \in Nat
    BY ScanAssumption DEF SyncInv, TypeOK
  <2>2. crashes = 0
    BY <2>1 DEF vars, faults, Next, Work, NewBestChain, LoadCheckpoint, Sync, RewindRpc,
         GetScanRange, OpenBlocks, FetchBlock, CheckFetched, ApplyBlock, ApplyPanics,
         StoreShielded, StartTransparent, ScanTransparentBlock, TransparentReorg,
         StoreTransparent, NextRange, RewindShielded, RewindTransparent, PostAccepted,
         MarkDelivered, SyncDone, RpcError, PostFails, Fails, Crash
  <2>3. TWP!TIInv
    BY <2>2
  <2>4. CASE ScanTransparentBlock
    <3>1. /\ pc = "transparent" /\ height < range.end
          /\ TW!ScanBlock(BlockAt(height))
      BY <2>4 DEF ScanTransparentBlock
    <3>2. BlockAt(height) \in Block /\ HeightOf[BlockAt(height)] = height
      BY <3>1, TransparentBlock
    <3>3. \A h \in TW!Scanned : h < height
      BY <2>2, <3>1 DEF SyncInv, ScannedStored
    <3>4. TW!Scanned = TWP!Scanned
      BY Zenon DEF TW!Scanned, TWP!Scanned, TW!Height, TWP!Height
    <3>5. TWP!ScanBlock(BlockAt(height))
      BY <3>1, <3>2, SameScanBlock
    <3>6. \A h \in TWP!Scanned : h < HeightOf[BlockAt(height)]
      BY <3>2, <3>3, <3>4
    <3> QED BY <2>3, <3>2, <3>5, <3>6, TransparentAssumptions, TWP!ScanTypeAndHeights
  <2>5. CASE RewindTransparent
    <3>1. TW!TrpRewindToHeight(target)
      BY <2>5 DEF RewindTransparent
    <3>2. target \in Int
      BY Known
    <3>3. TWP!TrpRewindToHeight(target)
      BY <3>1, <3>2, SameTrpRewind
    <3> QED BY <2>3, <3>2, <3>3, TransparentAssumptions, TWP!RewindTypeAndHeights
  <2>6. CASE ~ScanTransparentBlock /\ ~RewindTransparent
    <3>1. UNCHANGED trp
      BY <2>6 DEF Next, Work, vars, NewBestChain, LoadCheckpoint, Sync, RewindRpc,
           GetScanRange, OpenBlocks, FetchBlock, CheckFetched, ApplyBlock, ApplyPanics,
           StoreShielded, StartTransparent, TransparentReorg, StoreTransparent, NextRange,
           RewindShielded, PostAccepted, MarkDelivered, SyncDone, RpcError, PostFails,
           Fails, Crash
    <3> QED BY <2>3, <3>1 DEF trp, TWP!TIInv, TWP!TrpTypeOK, TWP!HeightsCreated,
               TWP!CreatedAt, TWP!Scanned
  <2> QED BY <2>4, <2>5, <2>6
<1>3. Clean => (crashes = 0 => TW!NoOrphanCoins)
  <2> SUFFICES ASSUME TWP!HeightsCreated PROVE TW!NoOrphanCoins
    BY DEF TWP!TIInv
  <2>1. \A u \in Utxo : TW!CreatedAt(u) = TWP!CreatedAt(u)
    BY Zenon DEF TW!CreatedAt, TWP!CreatedAt, TW!Scanned, TWP!Scanned, TW!Height, TWP!Height,
         TW!UtxosCreatedIn, TWP!UtxosCreatedIn, TW!UtxosOf, TWP!UtxosOf
  <2> QED BY <2>1 DEF TWP!HeightsCreated, TW!NoOrphanCoins
<1> QED BY <1>1, <1>2, <1>3, SyncInvariant, PTL DEF Spec

=============================================================================
