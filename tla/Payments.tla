------------------------------ MODULE Payments ------------------------------
(***************************************************************************)
(* Payments: prepare_tx, broadcast_tx (transaction.rs), store_payment,     *)
(* mark_paid, cancel_payment, get_balance (db.rs),                        *)
(* against notes and coins that a sync scans and rewinds meanwhile.        *)
(*                                                                         *)
(* A handler holds the client mutex from its first statement to its last,  *)
(* so it is one step; so is each section of a sync under that mutex: a     *)
(* block of either half, or half a rewind (scan.rs).  store_payment runs   *)
(* in no database transaction, and sendrawtransaction cannot be part of    *)
(* one: a failure in the middle keeps what was done.                       *)
(*                                                                         *)
(* Abstractions.  One shielded and one transparent account hold all notes  *)
(* and coins.  Signing is pure and leaves no trace.  Both halves of a sync *)
(* see the same blocks; what happens when they do not is in ScanChain.     *)
(***************************************************************************)
EXTENDS SaplingWallet, TransparentWallet

CONSTANTS
  Payment,       \* ids the payments table hands out, 1, 2, ...
  ValueOf,       \* Note or Utxo -> its value
  Target,        \* bound: amounts asked for, with the fee
  AnchorOffset,  \* ANCHOR_OFFSET of zcash_client_backend, 10
  MaxFaults      \* bound: crashes, failing statements, lost answers

ASSUME PaymentAssumption ==
  /\ Payment \subseteq Nat \ {0}
  /\ ValueOf \in [Note \cup Utxo -> Nat]
  /\ Target \subseteq Nat \ {0}
  /\ AnchorOffset \in Nat \ {0}
  /\ MaxFaults \in Nat
  /\ NULL \notin [paid : BOOLEAN]

VARIABLES
  payments,      \* id |-> [paid], or NULL
  note_payment,  \* received_notes.payment
  utxo_payment,  \* utxos.payment; NULL as well if there is no row
  unsigned,      \* id |-> the UnsignedTx the client was handed, or NULL
  accepted,      \* payments whose transaction zcashd has taken
  phase,         \* what a sync does next: "shielded", "transparent", "rewind"
  next,          \* next height of its transparent half
  target,        \* height its rewind goes to
  faults,        \* how many there were
  asked,         \* history: payments CancelTx was called with
  cancelled,     \* history: those of them it succeeded for
  unanswered,    \* history: payments sent, and the answer lost
  half           \* history: a crash hit between the halves of a rewind

shielded_vars == <<blocks, transactions, received_notes, sapling_witnesses, floor, deep>>
sync_vars     == <<shielded_vars, utxos, scanned, phase, next, target, half>>
client_vars   == <<unsigned, accepted, asked, cancelled, unanswered>>
lock_vars     == <<payments, note_payment, utxo_payment>>
payment_vars  == <<sync_vars, lock_vars, client_vars, faults>>

PaymentInit ==
  /\ Init /\ TrpInit
  /\ payments = [p \in Payment |-> NULL]
  /\ note_payment = [n \in Note |-> NULL]
  /\ utxo_payment = [u \in Utxo |-> NULL]
  /\ unsigned = [p \in Payment |-> NULL]
  /\ accepted = {} /\ unanswered = {} /\ asked = {} /\ cancelled = {}
  /\ phase = "shielded" /\ next = 1 /\ target = 0
  /\ faults = 0 /\ half = FALSE

Fault == faults < MaxFaults /\ faults' = faults + 1

-----------------------------------------------------------------------------
(* Selecting and locking *)

\* The definitions whose names start with Faulty are not part of the model:
\* each is a plausible slip in the definition that follows it, and shows
\* that a property would notice.

\* Counts the offset from the stored tip.
FaultyAnchor == Max({LastHeight - AnchorOffset, Min(Stored)})

\* get_target_and_anchor_heights: AnchorOffset below the block to come,
\* unless that is below the lowest stored block.
Anchor == Max({LastHeight + 1 - AnchorOffset, Min(Stored)})

\* The newest witness.
FaultyWitness(n) == sapling_witnesses[n][LastHeight]

\* The witness stmt_select_sapling_notes joins to a note.
Witness(n) == sapling_witnesses[n][Anchor]

\* Takes notes that a payment holds.
FaultySpendableNotes ==
  {n \in Note : /\ received_notes[n] # NULL
                /\ received_notes[n].spent = NULL
                /\ Mined(TxOfNote[n])
                /\ transactions[TxOfNote[n]].block <= Anchor
                /\ Witness(n) # NULL}

\* stmt_select_sapling_notes
SpendableNotes ==
  {n \in Note : /\ received_notes[n] # NULL
                /\ received_notes[n].spent = NULL
                /\ note_payment[n] = NULL
                /\ Mined(TxOfNote[n])
                /\ transactions[TxOfNote[n]].block <= Anchor
                /\ Witness(n) # NULL}

\* stmt_select_trp_notes: no confirmations are asked for.
SpendableUtxos ==
  {u \in Utxo : utxos[u] # NULL /\ ~utxos[u].spent /\ utxo_payment[u] = NULL}

Total(coins) == MapThenSumSet(LAMBDA c : ValueOf[c], coins)

\* select_notes: shuffle, then take until the sum reaches the amount.
Selections(pool, amount) ==
  {S \in SUBSET pool : /\ Total(S) >= amount
                       /\ \E last \in S : Total(S \ {last}) < amount}

\* PrepareUnsignedTx picks notes or coins by the kind of the account; too
\* few of them is an error that leaves no trace.
Choice ==
  UNION {{[notes |-> S, utxos |-> {}] : S \in Selections(SpendableNotes, amount)}
         \cup {[notes |-> {}, utxos |-> S] : S \in Selections(SpendableUtxos, amount)}
         : amount \in Target}

\* Locks with 0: the id is used before the INSERT returned it.
FaultyStorePayment(p, notes, coins) ==
  /\ payments' = [payments EXCEPT ![p] = [paid |-> FALSE]]
  /\ note_payment' = [n \in Note |-> IF n \in notes THEN 0 ELSE note_payment[n]]
  /\ utxo_payment' = [u \in Utxo |-> IF u \in coins THEN 0 ELSE utxo_payment[u]]

\* The payments row, and the UPDATEs for these notes and coins.
StorePayment(p, notes, coins) ==
  /\ payments' = [payments EXCEPT ![p] = [paid |-> FALSE]]
  /\ note_payment' = [n \in Note |-> IF n \in notes THEN p ELSE note_payment[n]]
  /\ utxo_payment' = [u \in Utxo |-> IF u \in coins THEN p ELSE utxo_payment[u]]

\* The identity column counts up.
FreshId(p) == /\ payments[p] = NULL
              /\ \A q \in Payment : q < p => payments[q] # NULL

\* With an empty blocks table the unwrap of the anchor panics.
PrepareTx(p) ==
  /\ FreshId(p) /\ Stored # {}
  /\ \E c \in Choice :
       /\ StorePayment(p, c.notes, c.utxos)
       /\ unsigned' = [unsigned EXCEPT ![p] =
            [notes |-> c.notes, utxos |-> c.utxos,
             anchor |-> Anchor, hash |-> blocks[Anchor].hash,
             roots |-> {Witness(n) : n \in c.notes}]]
  /\ UNCHANGED <<sync_vars, accepted, asked, cancelled, unanswered, faults>>

\* A statement of store_payment fails, or the answer does not arrive: the
\* row and the locks set so far stay, and the client has no transaction.
PrepareFails(p) ==
  /\ FreshId(p) /\ Stored # {}
  /\ \E c \in Choice : \E notes \in SUBSET c.notes, coins \in SUBSET c.utxos :
       StorePayment(p, notes, coins)
  /\ Fault
  /\ UNCHANGED <<sync_vars, client_vars>>

\* Forgets the transparent coins.
ForgetfulCancelPayment(p) ==
  /\ payments[p] # NULL
  /\ payments' = [payments EXCEPT ![p].paid = FALSE]
  /\ note_payment' = [n \in Note |-> IF note_payment[n] = p THEN NULL ELSE note_payment[n]]
  /\ asked' = asked \cup {p} /\ cancelled' = cancelled \cup {p}
  /\ UNCHANGED <<sync_vars, utxo_payment, unsigned, accepted, unanswered, faults>>

\* CancelTx, at any time, also of a payment that was sent.
CancelPayment(p) ==
  /\ payments[p] # NULL
  /\ payments' = [payments EXCEPT ![p].paid = FALSE]
  /\ utxo_payment' = [u \in Utxo |-> IF utxo_payment[u] = p THEN NULL ELSE utxo_payment[u]]
  /\ note_payment' = [n \in Note |-> IF note_payment[n] = p THEN NULL ELSE note_payment[n]]
  /\ asked' = asked \cup {p} /\ cancelled' = cancelled \cup {p}
  /\ UNCHANGED <<sync_vars, unsigned, accepted, unanswered, faults>>

\* A statement of cancel_payment fails: what the ones before it did stays.
CancelFails(p) ==
  /\ payments[p] # NULL
  /\ payments' \in {payments, [payments EXCEPT ![p].paid = FALSE]}
  /\ \/ utxo_payment' = utxo_payment
     \/ /\ ~payments'[p].paid
        /\ utxo_payment' = [u \in Utxo |-> IF utxo_payment[u] = p THEN NULL ELSE utxo_payment[u]]
  /\ asked' = asked \cup {p}
  /\ Fault
  /\ UNCHANGED <<sync_vars, note_payment, unsigned, accepted, cancelled, unanswered>>

-----------------------------------------------------------------------------
(* Sending *)

Inputs(p) == unsigned[p].notes \cup unsigned[p].utxos

\* zcashd refuses a double spend; a transaction it knows it may take again.
NodeTakes(p) ==
  /\ unsigned[p] # NULL
  /\ \A q \in accepted \ {p} : Inputs(q) \cap Inputs(p) = {}

\* Marks first, sends then: a refusal leaves the mark.
FaultyBroadcastTx(p) ==
  /\ unsigned[p] # NULL
  /\ accepted' \in {accepted, accepted \cup {p}}
  /\ unanswered' = unanswered \ {p}
  /\ payments' = [payments EXCEPT ![p].paid = TRUE]
  /\ UNCHANGED <<sync_vars, note_payment, utxo_payment, unsigned, asked, cancelled, faults>>

\* broadcast_tx, again or after a cancel too: mark_paid has no condition.
BroadcastTx(p) ==
  /\ NodeTakes(p)
  /\ accepted' = accepted \cup {p}
  /\ unanswered' = unanswered \ {p}
  /\ payments' = [payments EXCEPT ![p].paid = TRUE]
  /\ UNCHANGED <<sync_vars, note_payment, utxo_payment, unsigned, asked, cancelled, faults>>

\* zcashd has it; the answer is lost, or the process dies before mark_paid.
BroadcastUnanswered(p) ==
  /\ NodeTakes(p)
  /\ accepted' = accepted \cup {p}
  /\ unanswered' = unanswered \cup {p}
  /\ Fault
  /\ UNCHANGED <<sync_vars, lock_vars, unsigned, asked, cancelled>>

-----------------------------------------------------------------------------
(* The sync, as far as it moves notes and coins under a payment *)

\* One block of the shielded half; the range may end with it.
ScanShielded(b) ==
  /\ phase = "shielded"
  /\ LastHeight \in Stored => PrevHash[b] = blocks[LastHeight].hash
  /\ AdvanceByBlock(b)
  /\ phase' \in {"shielded", "transparent"}
  /\ UNCHANGED <<utxos, scanned, next, target, half, lock_vars, client_vars, faults>>

\* One block of the transparent half; the last one ends the range.
ScanTransparent ==
  /\ phase = "transparent" /\ next \in Stored
  /\ ScanBlock(blocks[next].hash)
  /\ next' = next + 1
  /\ phase' = IF next = LastHeight THEN "shielded" ELSE phase
  /\ UNCHANGED <<shielded_vars, target, half, lock_vars, client_vars, faults>>

\* rewind_to_height, for a reorganisation or for the Rewind RPC.
RewindShielded(to) ==
  /\ phase # "rewind"
  /\ RewindToHeight(to)
  /\ phase' = "rewind" /\ target' = to
  /\ UNCHANGED <<utxos, scanned, next, half, lock_vars, client_vars, faults>>

\* The utxos are left for the next sync.
FaultyRewindTransparent ==
  /\ phase = "rewind"
  /\ phase' = "shielded" /\ next' = LastHeight + 1 /\ target' = 0
  /\ UNCHANGED <<shielded_vars, utxos, scanned, half, lock_vars, client_vars, faults>>

\* A row that is deleted takes its payment with it.
RewindTransparent ==
  /\ phase = "rewind"
  /\ TrpRewindToHeight(target)
  /\ utxo_payment' = [u \in Utxo |-> IF utxos'[u] = NULL THEN NULL ELSE utxo_payment[u]]
  /\ phase' = "shielded" /\ next' = LastHeight + 1 /\ target' = 0
  /\ UNCHANGED <<shielded_vars, half, payments, note_payment, client_vars, faults>>

LoadTree(tree) ==
  /\ LoadCheckpoint(tree)
  /\ next' = Len(tree) + 1
  /\ UNCHANGED <<utxos, scanned, phase, target, half, lock_vars, client_vars, faults>>

\* The server restarts: the next sync goes on from the stored tip.
Crash ==
  /\ phase # "shielded"
  /\ phase' = "shielded" /\ next' = LastHeight + 1 /\ target' = 0
  /\ half' = (half \/ phase = "rewind")
  /\ Fault
  /\ UNCHANGED <<shielded_vars, utxos, scanned, lock_vars, client_vars>>

PaymentNext ==
  \/ \E p \in Payment : \/ PrepareTx(p) \/ PrepareFails(p) \/ CancelPayment(p)
                        \/ CancelFails(p) \/ BroadcastTx(p) \/ BroadcastUnanswered(p)
  \/ \E b \in Block : ScanShielded(b)
  \/ ScanTransparent
  \/ \E to \in RewindHeight : RewindShielded(to)
  \/ RewindTransparent
  \/ \E tree \in Checkpoint : LoadTree(tree)
  \/ Crash

PaymentSpec == PaymentInit /\ [][PaymentNext]_payment_vars

-----------------------------------------------------------------------------
(* What the client can ask *)

\* Asks for one confirmation more.
FaultyTotalCoins(confirmations, tip) ==
  LET deep_enough(height) == height < tip - confirmations IN
  {n \in Note : /\ received_notes[n] # NULL
                /\ received_notes[n].spent = NULL
                /\ deep_enough(received_notes[n].height)}
  \cup {u \in Utxo : /\ utxos[u] # NULL
                     /\ ~utxos[u].spent
                     /\ deep_enough(utxos[u].height)}

\* get_balance.total: the notes and coins it adds up; tip is zcashd's height.
TotalCoins(confirmations, tip) ==
  LET deep_enough(height) == height <= tip - confirmations IN
  {n \in Note : /\ received_notes[n] # NULL
                /\ received_notes[n].spent = NULL
                /\ deep_enough(received_notes[n].height)}
  \cup {u \in Utxo : /\ utxos[u] # NULL
                     /\ ~utxos[u].spent
                     /\ deep_enough(utxos[u].height)}

\* get_balance.available
AvailableCoins(confirmations, tip) ==
  {c \in TotalCoins(confirmations, tip) :
     IF c \in Note THEN note_payment[c] = NULL ELSE utxo_payment[c] = NULL}

-----------------------------------------------------------------------------
(* Properties *)

UnsignedTx == [notes : SUBSET Note, utxos : SUBSET Utxo, anchor : Height,
               hash : Block, roots : SUBSET (Tree \cup {NULL})]

\* Every column and every message holds a value of its type.
PaymentTypeOK ==
  /\ payments \in [Payment -> [paid : BOOLEAN] \cup {NULL}]
  /\ note_payment \in [Note -> Payment \cup {NULL}]
  /\ utxo_payment \in [Utxo -> Payment \cup {NULL}]
  /\ unsigned \in [Payment -> UnsignedTx \cup {NULL}]
  /\ accepted \cup unanswered \cup asked \cup cancelled \subseteq Payment
  /\ phase \in {"shielded", "transparent", "rewind"}
  /\ next \in Nat \ {0} /\ target \in Int
  /\ faults \in 0..MaxFaults /\ half \in BOOLEAN

\* Payments whose transaction the client has and has not tried to cancel.
Outstanding == {p \in Payment : unsigned[p] # NULL} \ asked

\* On no branch does a rewind reach the block this coin is created in.
Settled(u) ==
  \A to \in RewindHeight :
    /\ 0 <= to
    /\ \A b \in Block : u \in UtxosCreatedIn(b) => HeightOf[b] <= to

\* No note is in two outstanding payments, and no coin that is too old to be
\* rewound: whatever is scanned, rewound, cancelled or fails in between, the
\* client never signs two transactions that exclude each other.
PromisedOnce ==
  \A p, q \in Outstanding : p # q =>
    /\ unsigned[p].notes \cap unsigned[q].notes = {}
    /\ \A u \in unsigned[p].utxos \cap unsigned[q].utxos : ~Settled(u)

\* A lock belongs to a payment that was not cancelled: a cancelled payment
\* gives back all it held, also if it was only half stored, and no later
\* step brings its locks back.
LocksAreLive ==
  /\ \A n \in Note : note_payment[n] # NULL =>
       payments[note_payment[n]] # NULL /\ note_payment[n] \notin cancelled
  /\ \A u \in Utxo : utxo_payment[u] # NULL =>
       payments[utxo_payment[u]] # NULL /\ utxo_payment[u] \notin cancelled

\* A payment is marked paid only if zcashd has its transaction, and one that
\* zcashd has is marked unless CancelTx was called or the answer was lost.
PaidIsAccepted ==
  \A p \in Payment :
    /\ payments[p] # NULL /\ payments[p].paid => p \in accepted
    /\ p \in accepted \ (asked \cup unanswered) => payments[p].paid

\* An unsigned transaction stays provable for as long as its anchor block is
\* stored, or stored again: all its witnesses have the root of that block.
AnchorsStand ==
  \A p \in Payment : unsigned[p] # NULL =>
    LET row == blocks[unsigned[p].anchor] IN
    (row # NULL /\ row.hash = unsigned[p].hash) =>
      unsigned[p].roots \subseteq {row.sapling_tree}

\* "Wait for 10 confirmations": a note that has them can be spent, if it is
\* neither spent nor held, unless rewinds left less than the witnesses kept.
ConfirmedNotesSpendable ==
  (~deep /\ floor + AnchorOffset <= LastHeight + 1) =>
    \A n \in Note :
      (/\ Mined(TxOfNote[n])
       /\ LastHeight + 1 - transactions[TxOfNote[n]].block >= AnchorOffset
       /\ received_notes[n].spent = NULL
       /\ note_payment[n] = NULL) => n \in SpendableNotes

\* What prepare_tx may spend, get_balance has counted as available with one
\* confirmation less than the anchor asks for (it counts from zero).
SpendableIsAvailable ==
  (Stored # {} /\ AnchorOffset <= LastHeight) =>
    SpendableNotes \subseteq AvailableCoins(AnchorOffset - 1, LastHeight)

\* Outside a rewind that is under way, or cut short by a crash, every coin
\* with a height is created by the block stored there: prepare_tx takes no
\* coin of an orphaned block.
CoinsOnStoredChain ==
  (phase # "rewind" /\ ~half) =>
    \A u \in SpendableUtxos : utxos[u].height # 0 =>
      /\ blocks[utxos[u].height] # NULL
      /\ u \in UtxosCreatedIn(blocks[utxos[u].height].hash)

=============================================================================
