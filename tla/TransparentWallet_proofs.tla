---------------------- MODULE TransparentWallet_proofs ----------------------
(***************************************************************************)
(* The safety of the transparent table, proved for every ledger and every  *)
(* sequence of scans and rewinds.                                          *)
(***************************************************************************)
EXTENDS TransparentWallet, TLAPS

\* The height of a row is that of a scanned block that creates the output.
HeightsCreated ==
  \A u \in Utxo : (utxos[u] # NULL /\ utxos[u].height # 0)
    => utxos[u].height \in CreatedAt(u)

\* The columns of a row against the scanned blocks.  The row's height is at
\* or below whatever made or changed it, which is what keeps a rewind from
\* deleting a row it should keep.
RowsReplay ==
  \A u \in Utxo :
    /\ \A c \in CreatedAt(u) : utxos[u] # NULL /\ utxos[u].height <= c
    /\ utxos[u] # NULL => IF utxos[u].spent
                          THEN /\ utxos[u].spent_height \in SpentAt(u)
                               /\ \A c \in CreatedAt(u) : c <= utxos[u].spent_height
                          ELSE utxos[u].spent_height = NULL
    /\ \A c \in CreatedAt(u), s \in SpentAt(u) : c <= s =>
         utxos[u].spent /\ utxos[u].spent_height = s

TIInv == TrpTypeOK /\ HeightsCreated
RIInv == TIInv /\ RowsReplay

-----------------------------------------------------------------------------
(* The scanned blocks *)

\* Scanning b adds its height to the heights of what it creates and spends.
LEMMA ScanHeights ==
  ASSUME NEW b \in Block, TrpTypeOK, \A h \in Scanned : h < HeightOf[b],
         ScanBlock(b), NEW u \in Utxo
  PROVE  /\ HeightOf[b] \in Height /\ b # NULL
         /\ CreatedAt(u)' = IF u \in UtxosCreatedIn(b)
                            THEN CreatedAt(u) \cup {HeightOf[b]} ELSE CreatedAt(u)
         /\ SpentAt(u)' = IF u \in UtxosSpentIn(b)
                          THEN SpentAt(u) \cup {HeightOf[b]} ELSE SpentAt(u)
<1> DEFINE h == HeightOf[b]
<1>1. h \in Height /\ b # NULL /\ h \in Int
  BY LedgerAssumption, NullAssumption DEF Height
<1>2. /\ scanned' = [scanned EXCEPT ![h] = b]
      /\ \A k \in Height : scanned'[k] = IF k = h THEN b ELSE scanned[k]
  BY <1>1 DEF ScanBlock, TrpTypeOK
<1>3. h \notin Scanned
  BY <1>1
<1>4. Scanned' = Scanned \cup {h}
  BY <1>1, <1>2 DEF Scanned
<1>5. \A k \in Scanned' : scanned'[k] = IF k = h THEN b ELSE scanned[k]
  BY <1>2, <1>4 DEF Scanned
<1>6. CreatedAt(u)' = {k \in Scanned' : u \in UtxosCreatedIn(scanned'[k])}
  BY DEF CreatedAt, UtxosCreatedIn, UtxosOf
<1>7. SpentAt(u)' = {k \in Scanned' : u \in UtxosSpentIn(scanned'[k])}
  BY DEF SpentAt, UtxosSpentIn
<1>8. /\ scanned'[h] = b /\ h \in Scanned'
      /\ \A k \in Scanned : k \in Scanned' /\ k # h /\ scanned'[k] = scanned[k]
  BY <1>1, <1>2, <1>3, <1>4 DEF Scanned
<1>9. CreatedAt(u)' = IF u \in UtxosCreatedIn(b)
                     THEN CreatedAt(u) \cup {h} ELSE CreatedAt(u)
  <2>1. \A k : k \in CreatedAt(u)' <=>
              \/ k \in CreatedAt(u)
              \/ k = h /\ u \in UtxosCreatedIn(b)
    BY <1>4, <1>6, <1>8 DEF CreatedAt
  <2> QED BY <2>1
<1>10. SpentAt(u)' = IF u \in UtxosSpentIn(b)
                    THEN SpentAt(u) \cup {h} ELSE SpentAt(u)
  <2>1. \A k : k \in SpentAt(u)' <=>
              \/ k \in SpentAt(u)
              \/ k = h /\ u \in UtxosSpentIn(b)
    BY <1>4, <1>7, <1>8 DEF SpentAt
  <2> QED BY <2>1
<1> QED BY <1>1, <1>9, <1>10

\* A rewind keeps the heights up to its target.
LEMMA RewindHeights ==
  ASSUME NEW to \in Int, TrpTypeOK, TrpRewindToHeight(to), NEW u \in Utxo
  PROVE  /\ CreatedAt(u)' = {k \in CreatedAt(u) : k <= to}
         /\ SpentAt(u)' = {k \in SpentAt(u) : k <= to}
<1>0. Height \subseteq Int
  BY LedgerAssumption DEF Height
<1>1. \A h \in Height : scanned'[h] = IF h > to THEN NULL ELSE scanned[h]
  BY DEF TrpRewindToHeight
<1>2. Scanned' = {k \in Scanned : k <= to}
  <2>1. \A k \in Height : k > to <=> ~(k <= to)
    BY <1>0
  <2>2. \A k : k \in Scanned' <=> k \in Scanned /\ k <= to
    BY <1>1, <2>1 DEF Scanned
  <2> QED BY <2>2
<1>3. \A k \in Scanned' : scanned'[k] = scanned[k]
  BY <1>0, <1>1, <1>2 DEF Scanned
<1>4. CreatedAt(u)' = {k \in Scanned' : u \in UtxosCreatedIn(scanned'[k])}
  BY DEF CreatedAt, UtxosCreatedIn, UtxosOf
<1>5. SpentAt(u)' = {k \in Scanned' : u \in UtxosSpentIn(scanned'[k])}
  BY DEF SpentAt, UtxosSpentIn
<1> QED BY <1>2, <1>3, <1>4, <1>5 DEF CreatedAt, SpentAt

\* The row of an output after a scan.
LEMMA ScanRow ==
  ASSUME NEW b \in Block, TrpTypeOK, ScanBlock(b), NEW u \in Utxo
  PROVE  LET h      == HeightOf[b]
             first  == IF u \in UtxosCreatedIn(b) THEN h ELSE 0
             height == IF utxos[u] = NULL THEN first ELSE utxos[u].height
         IN /\ u \in UtxosSpentIn(b) =>
                 utxos'[u] = [height |-> height, spent |-> TRUE, spent_height |-> h]
            /\ u \notin UtxosSpentIn(b) /\ u \in UtxosCreatedIn(b) =>
                 utxos'[u] = [height |-> height, spent |-> FALSE, spent_height |-> NULL]
            /\ u \notin UtxosSpentIn(b) /\ u \notin UtxosCreatedIn(b) =>
                 utxos'[u] = utxos[u]
  BY DEF ScanBlock, TrpTypeOK, Upsert

\* The height of a row a scan leaves: it never moves once the row exists.
LEMMA ScanRowHeight ==
  ASSUME NEW b \in Block, TrpTypeOK, ScanBlock(b), NEW u \in Utxo
  PROVE  /\ utxos[u] # NULL => utxos'[u].height = utxos[u].height
         /\ utxos[u] = NULL /\ utxos'[u] # NULL =>
              /\ u \in UtxosSpentIn(b) \cup UtxosCreatedIn(b)
              /\ u \in UtxosCreatedIn(b) => utxos'[u].height = HeightOf[b]
              /\ u \notin UtxosCreatedIn(b) => utxos'[u].height = 0
<1> DEFINE first  == IF u \in UtxosCreatedIn(b) THEN HeightOf[b] ELSE 0
           height == IF utxos[u] = NULL THEN first ELSE utxos[u].height
<1> HIDE DEF height
<1>1. CASE u \in UtxosSpentIn(b)
  <2>1. utxos'[u] = [height |-> height, spent |-> TRUE, spent_height |-> HeightOf[b]]
    BY <1>1, ScanRow DEF height
  <2>2. utxos'[u].height = height
    BY <2>1
  <2> QED BY <1>1, <2>2 DEF height
<1>2. CASE u \notin UtxosSpentIn(b) /\ u \in UtxosCreatedIn(b)
  <2>1. utxos'[u] = [height |-> height, spent |-> FALSE, spent_height |-> NULL]
    BY <1>2, ScanRow DEF height
  <2>2. utxos'[u].height = height
    BY <2>1
  <2> QED BY <1>2, <2>2 DEF height
<1>3. CASE u \notin UtxosSpentIn(b) /\ u \notin UtxosCreatedIn(b)
  BY <1>3, ScanRow
<1> QED BY <1>1, <1>2, <1>3

-----------------------------------------------------------------------------
(* Types and heights: true of every scan, also one that mixes branches *)

LEMMA InitTIInv == TrpInit => TIInv
<1> SUFFICES ASSUME TrpInit
             PROVE  TIInv
  OBVIOUS
<1>1. TrpTypeOK
  BY DEF TrpInit, TrpTypeOK
<1>2. HeightsCreated
  BY DEF TrpInit, HeightsCreated
<1> QED BY <1>1, <1>2 DEF TIInv

\* A scan writes rows of the table's type, whatever was scanned before.
LEMMA ScanType ==
  ASSUME NEW b \in Block, TrpTypeOK, ScanBlock(b)
  PROVE  TrpTypeOK'
<1> DEFINE h == HeightOf[b]
<1>1. h \in Height /\ h \in Height \cup {0} /\ h # NULL
  BY LedgerAssumption, NullAssumption DEF Height
<1>2. ASSUME NEW u \in Utxo, NEW g \in Height \cup {0}
      PROVE  (IF utxos[u] = NULL THEN g ELSE utxos[u].height) \in Height \cup {0}
  BY DEF UtxoRow, TrpTypeOK
<1>3. \A u \in Utxo : utxos'[u] \in UtxoRow \cup {NULL}
  <2> TAKE u \in Utxo
  <2> DEFINE g == IF u \in UtxosCreatedIn(b) THEN h ELSE 0
             height == IF utxos[u] = NULL THEN g ELSE utxos[u].height
  <2>0. height \in Height \cup {0}
    BY <1>1, <1>2
  <2> HIDE DEF height
  <2>1. CASE u \in UtxosSpentIn(b)
    <3>1. utxos'[u] = [height |-> height, spent |-> TRUE, spent_height |-> h]
      BY <2>1, ScanRow DEF height
    <3> QED BY <1>1, <2>0, <3>1 DEF UtxoRow
  <2>2. CASE u \notin UtxosSpentIn(b) /\ u \in UtxosCreatedIn(b)
    <3>1. utxos'[u] = [height |-> height, spent |-> FALSE, spent_height |-> NULL]
      BY <2>2, ScanRow DEF height
    <3> QED BY <1>1, <2>0, <3>1 DEF UtxoRow
  <2>3. CASE u \notin UtxosSpentIn(b) /\ u \notin UtxosCreatedIn(b)
    BY <2>3, ScanRow DEF TrpTypeOK
  <2> QED BY <2>1, <2>2, <2>3
<1>4. scanned' \in [Height -> Block \cup {NULL}]
  BY DEF ScanBlock, TrpTypeOK
<1>5. utxos' = [u \in Utxo |-> utxos'[u]]
  BY DEF ScanBlock
<1> QED BY <1>3, <1>4, <1>5 DEF TrpTypeOK

LEMMA ScanTypeAndHeights ==
  ASSUME NEW b \in Block, TIInv, \A h \in Scanned : h < HeightOf[b], ScanBlock(b)
  PROVE  TIInv'
<1> DEFINE h == HeightOf[b]
<1> USE DEF TIInv
<1>1. h \in Height /\ h \in Height \cup {0} /\ h # NULL
  BY LedgerAssumption, NullAssumption DEF Height
<1>3. TrpTypeOK'
  BY ScanType
<1>4. HeightsCreated'
  <2> SUFFICES ASSUME NEW u \in Utxo, utxos'[u] # NULL, utxos'[u].height # 0
               PROVE  utxos'[u].height \in CreatedAt(u)'
    BY DEF HeightsCreated
  <2>1. CreatedAt(u)' = IF u \in UtxosCreatedIn(b)
                       THEN CreatedAt(u) \cup {h} ELSE CreatedAt(u)
    BY ScanHeights
  <2>2. CASE utxos[u] # NULL
    <3>1. utxos'[u].height = utxos[u].height
      BY <2>2, ScanRowHeight
    <3> QED BY <2>1, <2>2, <3>1 DEF HeightsCreated
  <2>3. CASE utxos[u] = NULL
    <3>1. u \in UtxosCreatedIn(b) /\ utxos'[u].height = h
      BY <2>3, ScanRowHeight
    <3> QED BY <2>1, <3>1
  <2> QED BY <2>2, <2>3
<1> QED BY <1>3, <1>4

LEMMA RewindRow ==
  ASSUME NEW to \in Int, TrpTypeOK, TrpRewindToHeight(to), NEW u \in Utxo
  PROVE  /\ utxos'[u] # NULL =>
              /\ utxos[u] # NULL
              /\ utxos[u].height <= to
              /\ utxos'[u].height = utxos[u].height
              /\ utxos'[u] \in UtxoRow
         /\ (utxos[u] # NULL /\ utxos[u].height <= to) => utxos'[u] # NULL
         /\ utxos'[u] # NULL =>
              IF utxos[u].spent_height # NULL /\ utxos[u].spent_height > to
              THEN ~utxos'[u].spent /\ utxos'[u].spent_height = NULL
              ELSE utxos'[u] = utxos[u]
<1>1. /\ utxos'[u] =
           IF utxos[u] = NULL \/ utxos[u].height > to THEN NULL
           ELSE IF utxos[u].spent_height # NULL /\ utxos[u].spent_height > to
           THEN [utxos[u] EXCEPT !.spent = FALSE, !.spent_height = NULL]
           ELSE utxos[u]
      /\ utxos[u] \in UtxoRow \cup {NULL}
  BY DEF TrpRewindToHeight, TrpTypeOK
<1>2. CASE utxos[u] = NULL
  BY <1>1, <1>2
<1>3. CASE utxos[u] # NULL
  <2>1. utxos[u] \in UtxoRow /\ utxos[u].height \in Int
    BY <1>1, <1>3, LedgerAssumption DEF UtxoRow, Height
  <2>2. [utxos[u] EXCEPT !.spent = FALSE, !.spent_height = NULL] \in UtxoRow
    BY <2>1 DEF UtxoRow
  <2>3. /\ [utxos[u] EXCEPT !.spent = FALSE, !.spent_height = NULL].height = utxos[u].height
        /\ ~[utxos[u] EXCEPT !.spent = FALSE, !.spent_height = NULL].spent
        /\ [utxos[u] EXCEPT !.spent = FALSE, !.spent_height = NULL].spent_height = NULL
    BY <2>1 DEF UtxoRow
  <2> QED BY <1>1, <1>3, <2>1, <2>2, <2>3, UtxoRowAssumption
<1> QED BY <1>2, <1>3

\* A rewind keeps rows of the table's type.
LEMMA RewindType ==
  ASSUME NEW to \in Int, TrpTypeOK, TrpRewindToHeight(to)
  PROVE  TrpTypeOK'
<1>1. \A u \in Utxo : utxos'[u] \in UtxoRow \cup {NULL}
  BY RewindRow
<1>2. utxos' = [u \in Utxo |-> utxos'[u]]
  BY DEF TrpRewindToHeight
<1>3. scanned' \in [Height -> Block \cup {NULL}]
  BY DEF TrpRewindToHeight, TrpTypeOK
<1> QED BY <1>1, <1>2, <1>3 DEF TrpTypeOK

LEMMA RewindTypeAndHeights ==
  ASSUME NEW to \in Int, TIInv, TrpRewindToHeight(to)
  PROVE  TIInv'
<1> USE DEF TIInv
<1>1. TrpTypeOK'
  BY RewindType
<1>2. HeightsCreated'
  <2> SUFFICES ASSUME NEW u \in Utxo, utxos'[u] # NULL, utxos'[u].height # 0
               PROVE  utxos'[u].height \in CreatedAt(u)'
    BY DEF HeightsCreated
  <2>1. /\ utxos[u] # NULL /\ utxos[u].height <= to
        /\ utxos'[u].height = utxos[u].height
    BY RewindRow
  <2>2. CreatedAt(u)' = {k \in CreatedAt(u) : k <= to}
    BY RewindHeights
  <2> QED BY <2>1, <2>2 DEF HeightsCreated
<1> QED BY <1>1, <1>2

-----------------------------------------------------------------------------
(* Rows against scans: true of scans that never mix branches *)

LEMMA InitRows == TrpInit => RowsReplay
BY DEF TrpInit, RowsReplay, CreatedAt, SpentAt, Scanned

LEMMA ScanRows ==
  ASSUME NEW b \in Block, RIInv, \A h \in Scanned : h < HeightOf[b],
         ScanBlock(b), OneChain'
  PROVE  RowsReplay'
<1> DEFINE h == HeightOf[b]
<1> SUFFICES ASSUME NEW u \in Utxo
             PROVE  /\ \A c \in CreatedAt(u)' : utxos'[u] # NULL /\ utxos'[u].height <= c
                    /\ utxos'[u] # NULL =>
                         IF utxos'[u].spent
                         THEN /\ utxos'[u].spent_height \in SpentAt(u)'
                              /\ \A c \in CreatedAt(u)' : c <= utxos'[u].spent_height
                         ELSE utxos'[u].spent_height = NULL
                    /\ \A c \in CreatedAt(u)', s \in SpentAt(u)' : c <= s =>
                         utxos'[u].spent /\ utxos'[u].spent_height = s
  BY DEF RowsReplay
<1>1. /\ TrpTypeOK /\ HeightsCreated /\ RowsReplay
      /\ h \in Height /\ h \in Int
      /\ \A k \in Height : k \in Int /\ 0 <= k
  BY LedgerAssumption DEF RIInv, TIInv, Height
<1>2. /\ CreatedAt(u)' = IF u \in UtxosCreatedIn(b)
                         THEN CreatedAt(u) \cup {h} ELSE CreatedAt(u)
      /\ SpentAt(u)' = IF u \in UtxosSpentIn(b)
                       THEN SpentAt(u) \cup {h} ELSE SpentAt(u)
  BY <1>1, ScanHeights
<1>3. \A c \in CreatedAt(u) \cup SpentAt(u) : c < h /\ c \in Int
  BY <1>1 DEF CreatedAt, SpentAt, Scanned
<1>4. /\ \A c, d \in CreatedAt(u)' : c = d
      /\ \A s, t \in SpentAt(u)' : s = t
  BY DEF OneChain
<1>5. \A c \in CreatedAt(u) : utxos[u] # NULL /\ utxos[u].height <= c
  BY <1>1 DEF RowsReplay
<1>6. utxos[u] # NULL => utxos[u].height \in Int /\ utxos[u].height < h
  <2> SUFFICES ASSUME utxos[u] # NULL
               PROVE  utxos[u].height \in Int /\ utxos[u].height < h
    OBVIOUS
  <2>1. utxos[u] \in UtxoRow
    BY <1>1 DEF TrpTypeOK
  <2>2. utxos[u].height \in Int /\ 1 <= h
    BY <1>1, <2>1 DEF UtxoRow, Height
  <2>3. utxos[u].height # 0 => utxos[u].height \in CreatedAt(u)
    BY <1>1 DEF HeightsCreated
  <2> QED BY <1>1, <1>3, <2>2, <2>3
<1> DEFINE first  == IF u \in UtxosCreatedIn(b) THEN h ELSE 0
           height == IF utxos[u] = NULL THEN first ELSE utxos[u].height
<1>7. height \in Int /\ height <= h
  BY <1>1, <1>6
<1>8. \A c \in CreatedAt(u)' : height <= c
  BY <1>2, <1>5, <1>6, <1>7
<1> HIDE DEF height
<1>9. CASE u \in UtxosSpentIn(b)
  <2>1. utxos'[u] = [height |-> height, spent |-> TRUE, spent_height |-> h]
    BY <1>1, <1>9, ScanRow DEF height
  <2>2. utxos'[u].height = height /\ utxos'[u].spent /\ utxos'[u].spent_height = h
    BY <2>1
  <2>3. utxos'[u] # NULL
    <3>1. height \in Height \cup {0}
      BY <1>1 DEF height, TrpTypeOK, UtxoRow
    <3>2. [height |-> height, spent |-> TRUE, spent_height |-> h] \in UtxoRow
      BY <1>1, <3>1 DEF UtxoRow
    <3> QED BY <2>1, <3>2, UtxoRowAssumption
  <2>4. \A s \in SpentAt(u)' : s = h
    BY <1>2, <1>4, <1>9
  <2>5. \A c \in CreatedAt(u)' : c <= h
    <3>1. \A c \in CreatedAt(u) : c <= h
      BY <1>1, <1>3
    <3>2. \A c \in CreatedAt(u)' : c \in CreatedAt(u) \/ c = h
      BY <1>2
    <3> QED BY <1>1, <3>1, <3>2
  <2>6. \A c \in CreatedAt(u)' : utxos'[u] # NULL /\ utxos'[u].height <= c
    BY <1>8, <2>2, <2>3
  <2>7. h \in SpentAt(u)'
    BY <1>2, <1>9
  <2>8. \A c \in CreatedAt(u)', s \in SpentAt(u)' : c <= s =>
          utxos'[u].spent /\ utxos'[u].spent_height = s
    BY <2>2, <2>4
  <2> QED BY <2>2, <2>5, <2>6, <2>7, <2>8
<1>10. CASE u \notin UtxosSpentIn(b) /\ u \in UtxosCreatedIn(b)
  <2>1. utxos'[u] = [height |-> height, spent |-> FALSE, spent_height |-> NULL]
    BY <1>1, <1>10, ScanRow DEF height
  <2>2. utxos'[u].height = height /\ ~utxos'[u].spent /\ utxos'[u].spent_height = NULL
    BY <2>1
  <2>3. utxos'[u] # NULL
    <3>1. height \in Height \cup {0}
      BY <1>1 DEF height, TrpTypeOK, UtxoRow
    <3>2. [height |-> height, spent |-> FALSE, spent_height |-> NULL] \in UtxoRow
      BY <3>1 DEF UtxoRow
    <3> QED BY <2>1, <3>2, UtxoRowAssumption
  <2>4. \A c \in CreatedAt(u)', s \in SpentAt(u)' : ~(c <= s)
    <3>1. \A c \in CreatedAt(u)' : c = h
      BY <1>2, <1>4, <1>10
    <3>2. \A s \in SpentAt(u)' : s < h /\ s \in Int
      BY <1>1, <1>2, <1>3, <1>10
    <3> QED BY <1>1, <3>1, <3>2
  <2> QED BY <1>8, <2>2, <2>3, <2>4
<1>11. CASE u \notin UtxosSpentIn(b) /\ u \notin UtxosCreatedIn(b)
  <2>1. utxos'[u] = utxos[u]
    BY <1>11, <1>1, ScanRow
  <2>2. CreatedAt(u)' = CreatedAt(u) /\ SpentAt(u)' = SpentAt(u)
    BY <1>2, <1>11
  <2> QED BY <1>1, <2>1, <2>2 DEF RowsReplay
<1> QED BY <1>9, <1>10, <1>11

LEMMA RewindRows ==
  ASSUME NEW to \in Int, RIInv, TrpRewindToHeight(to)
  PROVE  RowsReplay'
<1> SUFFICES ASSUME NEW u \in Utxo
             PROVE  /\ \A c \in CreatedAt(u)' : utxos'[u] # NULL /\ utxos'[u].height <= c
                    /\ utxos'[u] # NULL =>
                         IF utxos'[u].spent
                         THEN /\ utxos'[u].spent_height \in SpentAt(u)'
                              /\ \A c \in CreatedAt(u)' : c <= utxos'[u].spent_height
                         ELSE utxos'[u].spent_height = NULL
                    /\ \A c \in CreatedAt(u)', s \in SpentAt(u)' : c <= s =>
                         utxos'[u].spent /\ utxos'[u].spent_height = s
  BY DEF RowsReplay
<1>1. TrpTypeOK /\ RowsReplay /\ \A k \in Height : k \in Int
  BY LedgerAssumption DEF RIInv, TIInv, Height
<1>2. /\ CreatedAt(u)' = {k \in CreatedAt(u) : k <= to}
      /\ SpentAt(u)' = {k \in SpentAt(u) : k <= to}
  BY <1>1, RewindHeights
<1>3. CreatedAt(u) \subseteq Int /\ SpentAt(u) \subseteq Int
  BY <1>1 DEF CreatedAt, SpentAt, Scanned
<1>4. /\ utxos'[u] # NULL =>
           /\ utxos[u] # NULL
           /\ utxos[u].height <= to
           /\ utxos'[u].height = utxos[u].height
      /\ (utxos[u] # NULL /\ utxos[u].height <= to) => utxos'[u] # NULL
      /\ utxos'[u] # NULL =>
           IF utxos[u].spent_height # NULL /\ utxos[u].spent_height > to
           THEN ~utxos'[u].spent /\ utxos'[u].spent_height = NULL
           ELSE utxos'[u] = utxos[u]
  BY <1>1, RewindRow
<1>5. \A c \in CreatedAt(u)' : utxos'[u] # NULL /\ utxos'[u].height <= c
  <2> SUFFICES ASSUME NEW c \in CreatedAt(u)'
               PROVE  utxos'[u] # NULL /\ utxos'[u].height <= c
    OBVIOUS
  <2>1. c \in CreatedAt(u) /\ c <= to /\ c \in Int
    BY <1>2, <1>3
  <2>2. utxos[u] # NULL /\ utxos[u].height <= c
    BY <1>1, <2>1 DEF RowsReplay
  <2>3. utxos[u].height \in Int
    <3>1. utxos[u] \in UtxoRow
      BY <1>1, <2>2 DEF TrpTypeOK
    <3> QED BY <1>1, <3>1 DEF UtxoRow
  <2>4. utxos[u].height <= to
    BY <2>1, <2>2, <2>3
  <2>5. utxos'[u] # NULL
    BY <1>4, <2>2, <2>4
  <2>6. utxos'[u].height = utxos[u].height
    BY <1>4, <2>5
  <2> QED BY <2>2, <2>5, <2>6
<1>6. ASSUME utxos'[u] # NULL
      PROVE  IF utxos'[u].spent
             THEN /\ utxos'[u].spent_height \in SpentAt(u)'
                  /\ \A c \in CreatedAt(u)' : c <= utxos'[u].spent_height
             ELSE utxos'[u].spent_height = NULL
  <2>1. CASE utxos[u].spent_height # NULL /\ utxos[u].spent_height > to
    BY <1>4, <1>6, <2>1
  <2>2. CASE ~(utxos[u].spent_height # NULL /\ utxos[u].spent_height > to)
    <3>1. utxos'[u] = utxos[u] /\ utxos[u] # NULL
      BY <1>4, <1>6, <2>2
    <3>2. CASE utxos[u].spent
      <4>1. /\ utxos[u].spent_height \in SpentAt(u)
            /\ \A c \in CreatedAt(u) : c <= utxos[u].spent_height
        BY <1>1, <3>1, <3>2 DEF RowsReplay
      <4>2. utxos[u].spent_height \in Int /\ utxos[u].spent_height # NULL
        BY <1>3, <4>1, NullAssumption
      <4>3. utxos[u].spent_height <= to
        BY <2>2, <4>2
      <4> QED BY <1>2, <3>1, <3>2, <4>1, <4>3
    <3>3. CASE ~utxos[u].spent
      BY <1>1, <3>1, <3>3 DEF RowsReplay
    <3> QED BY <3>2, <3>3
  <2> QED BY <2>1, <2>2
<1>7. ASSUME NEW c \in CreatedAt(u)', NEW s \in SpentAt(u)', c <= s
      PROVE  utxos'[u].spent /\ utxos'[u].spent_height = s
  <2>1. utxos[u].spent /\ utxos[u].spent_height = s /\ s <= to /\ s \in Int
    BY <1>1, <1>2, <1>3, <1>7 DEF RowsReplay
  <2>2. utxos'[u] = utxos[u]
    BY <1>4, <1>5, <2>1
  <2> QED BY <2>1, <2>2
<1> QED BY <1>5, <1>6, <1>7

-----------------------------------------------------------------------------
(* The theorems *)

\* The columns keep their types, however the scans mix branches.
THEOREM TrpTypeCorrect == TrpSpec => []TrpTypeOK
<1>1. TrpInit => TrpTypeOK
  BY DEF TrpInit, TrpTypeOK
<1>2. TrpTypeOK /\ [TrpNext]_trp_vars => TrpTypeOK'
  <2> SUFFICES ASSUME TrpTypeOK, [TrpNext]_trp_vars
               PROVE  TrpTypeOK'
    OBVIOUS
  <2>1. ASSUME NEW b \in Block, ScanBlock(b)
        PROVE  TrpTypeOK'
    BY <2>1, ScanType
  <2>2. ASSUME NEW to \in TrpRewindHeight, TrpRewindToHeight(to)
        PROVE  TrpTypeOK'
    <3>1. to \in Int
      BY TrpAssumption
    <3> QED BY <2>2, <3>1, RewindType
  <2>3. CASE UNCHANGED trp_vars
    BY <2>3 DEF trp_vars, TrpTypeOK
  <2> QED BY <2>1, <2>2, <2>3 DEF TrpNext
<1> QED BY <1>1, <1>2, PTL DEF TrpSpec

\* Rewinds leave no coin behind that an orphaned block created, however the
\* scans between them mix branches.
THEOREM NoOrphanCoinsEver == TrpSpec => [](TrpTypeOK /\ NoOrphanCoins)
<1>1. TIInv /\ [TrpNext]_trp_vars => TIInv'
  <2> SUFFICES ASSUME TIInv, [TrpNext]_trp_vars
               PROVE  TIInv'
    OBVIOUS
  <2>1. ASSUME NEW b \in Block, \A h \in Scanned : h < HeightOf[b], ScanBlock(b)
        PROVE  TIInv'
    BY <2>1, ScanTypeAndHeights
  <2>2. ASSUME NEW to \in TrpRewindHeight, TrpRewindToHeight(to)
        PROVE  TIInv'
    <3>1. to \in Int
      BY TrpAssumption
    <3> QED BY <2>2, <3>1, RewindTypeAndHeights
  <2>3. CASE UNCHANGED trp_vars
    BY <2>3 DEF trp_vars, TIInv, TrpTypeOK, HeightsCreated, CreatedAt, Scanned
  <2> QED BY <2>1, <2>2, <2>3 DEF TrpNext
<1>2. TIInv => TrpTypeOK /\ NoOrphanCoins
  BY DEF TIInv, HeightsCreated, NoOrphanCoins
<1> QED BY InitTIInv, <1>1, <1>2, PTL DEF TrpSpec

\* A row says what a scan of the scanned blocks in order would say, whatever
\* was scanned and rewound before, as long as branches are never mixed.
THEOREM RowsReplayScans == TrpChainSpec => []UtxosReplayScan
<1>1. RIInv /\ [TrpNext /\ OneChain']_trp_vars => RIInv'
  <2> SUFFICES ASSUME RIInv, [TrpNext /\ OneChain']_trp_vars
               PROVE  RIInv'
    OBVIOUS
  <2> USE DEF RIInv
  <2>1. ASSUME NEW b \in Block, \A h \in Scanned : h < HeightOf[b], ScanBlock(b), OneChain'
        PROVE  RIInv'
    BY <2>1, ScanTypeAndHeights, ScanRows
  <2>2. ASSUME NEW to \in TrpRewindHeight, TrpRewindToHeight(to)
        PROVE  RIInv'
    <3>1. to \in Int
      BY TrpAssumption
    <3> QED BY <2>2, <3>1, RewindTypeAndHeights, RewindRows
  <2>3. CASE UNCHANGED trp_vars
    BY <2>3 DEF trp_vars, TIInv, TrpTypeOK, HeightsCreated, RowsReplay,
         CreatedAt, SpentAt, Scanned
  <2> QED BY <2>1, <2>2, <2>3 DEF TrpNext
<1>2. TrpInit => RIInv
  BY InitTIInv, InitRows DEF RIInv
<1>3. RIInv => UtxosReplayScan
  <2> SUFFICES ASSUME RIInv, NEW u \in Utxo, NEW c \in Height, c \in CreatedAt(u)
               PROVE  LET spends == {s \in SpentAt(u) : c <= s} IN
                      /\ utxos[u] # NULL
                      /\ utxos[u].spent <=> spends # {}
                      /\ utxos[u].spent => spends = {utxos[u].spent_height}
    BY DEF UtxosReplayScan
  <2> DEFINE spends == {s \in SpentAt(u) : c <= s}
  <2>1. utxos[u] # NULL
    BY DEF RIInv, RowsReplay
  <2>2. \A s \in spends : utxos[u].spent /\ utxos[u].spent_height = s
    BY DEF RIInv, RowsReplay
  <2>3. utxos[u].spent => utxos[u].spent_height \in spends
    BY <2>1 DEF RIInv, RowsReplay
  <2>4. utxos[u].spent <=> spends # {}
    BY <2>2, <2>3
  <2>5. utxos[u].spent => spends = {utxos[u].spent_height}
    BY <2>2, <2>3
  <2> QED BY <2>1, <2>4, <2>5
<1> QED BY <1>1, <1>2, <1>3, PTL DEF TrpChainSpec

=============================================================================
