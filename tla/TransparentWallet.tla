-------------------------- MODULE TransparentWallet --------------------------
(***************************************************************************)
(* The utxos table and what writes it: TrpWallet::scan_inputs and          *)
(* scan_outputs for every transaction of a block (trp.rs), and             *)
(* trp_rewind_to_height (db.rs).                                           *)
(*                                                                         *)
(* A block is one step: its statements run back to back under the client   *)
(* lock.  Value and address do not move control; a row whose height is 0   *)
(* is one that scan_inputs made up, with an empty script.  utxos.payment   *)
(* is written only by payments and is left to that module.                 *)
(***************************************************************************)
EXTENDS Ledger

CONSTANT TrpRewindHeight   \* targets the standalone specification rewinds to

ASSUME TrpAssumption == TrpRewindHeight \subseteq Int

VARIABLES
  utxos,      \* utxo |-> [height, spent, spent_height], or NULL
  scanned     \* history: height |-> the block scanned there since, or NULL

trp_vars == <<utxos, scanned>>

UtxoRow == [height : Height \cup {0}, spent : BOOLEAN,
            spent_height : Height \cup {NULL}]

ASSUME UtxoRowAssumption == NULL \notin UtxoRow

Scanned == {h \in Height : scanned[h] # NULL}

TrpInit ==
  /\ utxos = [u \in Utxo |-> NULL]
  /\ scanned = [h \in Height |-> NULL]

\* The definitions whose names start with Faulty are not part of the model:
\* each is a plausible slip in the definition that follows it, and shows
\* that a property would notice.

\* Height 0 in place of NULL for "not spent".
FaultyUpsert(u, height, spent, spent_height) ==
  [height |-> IF utxos[u] = NULL THEN height ELSE utxos[u].height,
   spent |-> spent,
   spent_height |-> IF spent THEN spent_height ELSE 0]

\* upsert_spent_utxo: a conflict keeps the height the row was made with.
Upsert(u, height, spent, spent_height) ==
  [height |-> IF utxos[u] = NULL THEN height ELSE utxos[u].height,
   spent |-> spent,
   spent_height |-> spent_height]

\* The inputs of a transaction come before its outputs, and the transaction
\* that spends an output after the one that creates it: an output created
\* and spent in one block ends up spent.
ScanBlock(b) ==
  LET h == HeightOf[b]
      first(u) == IF u \in UtxosCreatedIn(b) THEN h ELSE 0
  IN
  /\ utxos' = [u \in Utxo |->
       IF u \in UtxosSpentIn(b) THEN Upsert(u, first(u), TRUE, h)
       ELSE IF u \in UtxosCreatedIn(b) THEN Upsert(u, h, FALSE, NULL)
       ELSE utxos[u]]
  /\ scanned' = [scanned EXCEPT ![h] = b]

\* Deletes, and does not unspend.
FaultyTrpRewindToHeight(to) ==
  /\ utxos' = [u \in Utxo |->
       IF utxos[u] = NULL \/ utxos[u].height > to THEN NULL ELSE utxos[u]]
  /\ scanned' = [h \in Height |-> IF h > to THEN NULL ELSE scanned[h]]

\* Unspends, and does not delete.
HoardingTrpRewindToHeight(to) ==
  /\ utxos' = [u \in Utxo |->
       IF utxos[u] # NULL /\ utxos[u].spent_height # NULL /\ utxos[u].spent_height > to
       THEN [utxos[u] EXCEPT !.spent = FALSE, !.spent_height = NULL]
       ELSE utxos[u]]
  /\ scanned' = [h \in Height |-> IF h > to THEN NULL ELSE scanned[h]]

\* Two statements in one database transaction: delete, then unspend.
TrpRewindToHeight(to) ==
  /\ utxos' = [u \in Utxo |->
       IF utxos[u] = NULL \/ utxos[u].height > to THEN NULL
       ELSE IF utxos[u].spent_height # NULL /\ utxos[u].spent_height > to
       THEN [utxos[u] EXCEPT !.spent = FALSE, !.spent_height = NULL]
       ELSE utxos[u]]
  /\ scanned' = [h \in Height |-> IF h > to THEN NULL ELSE scanned[h]]

\* scan_chain only ever scans upwards: a range starts above the stored tip,
\* and a reorganisation rewinds before it scans again.  Heights may be
\* skipped when a scan fails half way.
TrpNext ==
  \/ \E b \in Block : /\ \A h \in Scanned : h < HeightOf[b]
                      /\ ScanBlock(b)
  \/ \E to \in TrpRewindHeight : TrpRewindToHeight(to)

TrpSpec == TrpInit /\ [][TrpNext]_trp_vars

-----------------------------------------------------------------------------
(* Properties *)

\* Every column holds a value of its type.
TrpTypeOK ==
  /\ utxos \in [Utxo -> UtxoRow \cup {NULL}]
  /\ scanned \in [Height -> Block \cup {NULL}]

CreatedAt(u) == {h \in Scanned : u \in UtxosCreatedIn(scanned[h])}
SpentAt(u)   == {h \in Scanned : u \in UtxosSpentIn(scanned[h])}

\* Consensus, if all scanned blocks are of one chain: an output is created
\* once and spent once.
OneChain ==
  \A u \in Utxo :
    /\ \A c, d \in CreatedAt(u) : c = d
    /\ \A s, t \in SpentAt(u) : s = t

\* The scans of a worker that never mixes two branches.
TrpChainSpec == TrpInit /\ [][TrpNext /\ OneChain']_trp_vars

\* Whatever was rewound in between, an output that a scanned block creates
\* has a row, and the row says what a single scan of those blocks in order
\* would say: spent exactly when a block not below the creating one spends
\* it, and at that block's height.
UtxosReplayScan ==
  \A u \in Utxo, c \in Height : c \in CreatedAt(u) =>
    LET spends == {s \in SpentAt(u) : c <= s} IN
    /\ utxos[u] # NULL
    /\ utxos[u].spent <=> spends # {}
    /\ utxos[u].spent => spends = {utxos[u].spent_height}

\* An output no scanned block knows of has no row with a height: a rewind
\* leaves no coin behind that an orphaned block created.
NoOrphanCoins ==
  \A u \in Utxo : (utxos[u] # NULL /\ utxos[u].height # 0) => CreatedAt(u) # {}

=============================================================================
