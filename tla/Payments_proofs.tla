--------------------------- MODULE Payments_proofs ---------------------------
(***************************************************************************)
(* The locking of notes and coins and what ties them to the chain, proved  *)
(* for every ledger, every number of payments and every amount, and the    *)
(* theorems about the shielded tables carried over to a server that        *)
(* handles payments as well.                                               *)
(***************************************************************************)
EXTENDS Payments, SaplingWallet_proofs, TransparentWallet_proofs,
        WellFoundedInduction

\* The functions have their domains, and a payment that is known to anyone
\* has a row.
PaymentTables ==
  /\ payments \in [Payment -> [paid : BOOLEAN] \cup {NULL}]
  /\ note_payment \in [Note -> Payment \cup {NULL}]
  /\ utxo_payment \in [Utxo -> Payment \cup {NULL}]
  /\ TrpTypeOK
  /\ unsigned = [p \in Payment |-> unsigned[p]]
  /\ accepted \subseteq Payment /\ asked \subseteq Payment /\ cancelled \subseteq asked
  /\ \A p \in Payment :
       (unsigned[p] # NULL \/ p \in accepted \cup asked) => payments[p] # NULL

\* A row's height is that of some block that creates the coin, or 0.
RowHeights ==
  \A u \in Utxo : utxos[u] # NULL =>
    \/ utxos[u].height = 0
    \/ \E b \in Block : u \in UtxosCreatedIn(b) /\ utxos[u].height = HeightOf[b]

\* A rewind under way goes where a rewind may go.
TargetAllowed == phase = "rewind" => target \in RewindHeight

\* What is locked is there to be unlocked.
LocksHaveRows == \A u \in Utxo : utxo_payment[u] # NULL => utxos[u] # NULL

\* The inductive core of PromisedOnce: an outstanding payment holds what it
\* was prepared with.
InputsHeld ==
  \A p \in Outstanding :
    /\ \A n \in unsigned[p].notes : n \in Note => note_payment[n] = p
    /\ \A u \in unsigned[p].utxos : u \in Utxo /\ Settled(u) => utxo_payment[u] = p

InputsExist ==
  \A p \in Payment : unsigned[p] # NULL =>
    unsigned[p].notes \subseteq Note /\ unsigned[p].utxos \subseteq Utxo

PInv ==
  /\ PaymentTables /\ RowHeights /\ TargetAllowed /\ LocksHaveRows
  /\ InputsExist /\ InputsHeld /\ LocksAreLive /\ PaidIsAccepted

-----------------------------------------------------------------------------
(* The shielded tables under payments *)

\* Every step of the server is a step of the shielded tables, or none.
LEMMA StepOfTables == [PaymentNext]_payment_vars => [Next]_vars
<1> SUFFICES ASSUME [PaymentNext]_payment_vars PROVE [Next]_vars
  OBVIOUS
<1>1. CASE UNCHANGED payment_vars
  BY <1>1 DEF payment_vars, sync_vars, shielded_vars, vars, tables
<1>2. ASSUME NEW p \in Payment,
             \/ PrepareTx(p) \/ PrepareFails(p) \/ CancelPayment(p) \/ CancelFails(p)
             \/ BroadcastTx(p) \/ BroadcastUnanswered(p)
      PROVE  UNCHANGED vars
  BY <1>2 DEF PrepareTx, PrepareFails, CancelPayment, CancelFails,
              BroadcastTx, BroadcastUnanswered,
              sync_vars, shielded_vars, vars, tables
<1>3. ASSUME NEW b \in Block, ScanShielded(b) PROVE [Next]_vars
  BY <1>3 DEF ScanShielded, Next
<1>4. CASE ScanTransparent
  BY <1>4 DEF ScanTransparent, shielded_vars, vars, tables
<1>5. ASSUME NEW to \in RewindHeight, RewindShielded(to) PROVE [Next]_vars
  BY <1>5 DEF RewindShielded, Next
<1>6. CASE RewindTransparent
  BY <1>6 DEF RewindTransparent, shielded_vars, vars, tables
<1>7. ASSUME NEW tree \in Checkpoint, LoadTree(tree) PROVE [Next]_vars
  BY <1>7 DEF LoadTree, Next
<1>8. CASE Crash
  BY <1>8 DEF Crash, shielded_vars, vars, tables
<1> QED BY <1>1, <1>2, <1>3, <1>4, <1>5, <1>6, <1>7, <1>8 DEF PaymentNext

\* A server that prepares, sends and cancels payments between the blocks of
\* a sync implements SaplingWallet: what is proved there holds here.
THEOREM PaymentsKeepTables == PaymentSpec => Spec
<1>1. PaymentInit => Init
  BY DEF PaymentInit
<1> QED BY <1>1, StepOfTables, PTL DEF PaymentSpec, Spec

-----------------------------------------------------------------------------
(* The initial state *)

\* A payment is not NULL: a lock of NULL is no payment's.
LEMMA PaymentNotNull ==
  ASSUME NEW p \in Payment
  PROVE  p # NULL
<1>1. p \in Int
  BY PaymentAssumption
<1> QED BY <1>1, NullAssumption

LEMMA InitPInv == PaymentInit => PInv
<1> SUFFICES ASSUME PaymentInit PROVE PInv
  OBVIOUS
<1>1. PaymentTables
  <2>1. TrpTypeOK
    BY DEF PaymentInit, TrpInit, TrpTypeOK
  <2> QED BY <2>1 DEF PaymentInit, PaymentTables
<1>2. RowHeights /\ TargetAllowed /\ LocksHaveRows
  BY DEF PaymentInit, TrpInit, RowHeights, TargetAllowed, LocksHaveRows
<1>3. InputsExist /\ InputsHeld /\ LocksAreLive /\ PaidIsAccepted
  BY DEF PaymentInit, InputsExist, InputsHeld, Outstanding, LocksAreLive, PaidIsAccepted
<1> QED BY <1>1, <1>2, <1>3 DEF PInv

-----------------------------------------------------------------------------
(* Prepare, cancel and send *)

\* Only free notes and coins are chosen.
LEMMA ChoiceIsFree ==
  ASSUME NEW c \in Choice
  PROVE  /\ c.notes \subseteq Note /\ c.utxos \subseteq Utxo
         /\ \A n \in c.notes : note_payment[n] = NULL
         /\ \A u \in c.utxos : utxo_payment[u] = NULL /\ utxos[u] # NULL
<1>1. PICK amount \in Target :
        \/ \E S \in Selections(SpendableNotes, amount) : c = [notes |-> S, utxos |-> {}]
        \/ \E S \in Selections(SpendableUtxos, amount) : c = [notes |-> {}, utxos |-> S]
  BY DEF Choice
<1>2. CASE \E S \in Selections(SpendableNotes, amount) : c = [notes |-> S, utxos |-> {}]
  BY <1>2 DEF Selections, SpendableNotes
<1>3. CASE \E S \in Selections(SpendableUtxos, amount) : c = [notes |-> {}, utxos |-> S]
  BY <1>3 DEF Selections, SpendableUtxos
<1> QED BY <1>1, <1>2, <1>3

\* What store_payment leaves, whichever statements it got to.
LEMMA StorePreserves ==
  ASSUME PInv, NEW p \in Payment, FreshId(p), NEW c \in Choice,
         NEW notes \in SUBSET c.notes, NEW coins \in SUBSET c.utxos,
         StorePayment(p, notes, coins),
         UNCHANGED <<utxos, scanned, phase, target, accepted, asked, cancelled, unanswered>>,
         \/ UNCHANGED unsigned
         \/ /\ notes = c.notes /\ coins = c.utxos
            /\ unsigned' = [q \in Payment |-> unsigned'[q]]
            /\ \A q \in Payment : q # p => unsigned'[q] = unsigned[q]
            /\ unsigned'[p].notes = notes /\ unsigned'[p].utxos = coins
  PROVE  PInv'
<1>1. /\ p \in Payment /\ payments[p] = NULL /\ p # NULL
      /\ unsigned[p] = NULL /\ p \notin accepted /\ p \notin asked /\ p \notin cancelled
  BY PaymentNotNull DEF PInv, PaymentTables, FreshId
<1>2. /\ notes \subseteq Note /\ coins \subseteq Utxo
      /\ \A n \in notes : note_payment[n] = NULL
      /\ \A u \in coins : utxo_payment[u] = NULL /\ utxos[u] # NULL
  BY ChoiceIsFree
<1>3. /\ payments' \in [Payment -> [paid : BOOLEAN] \cup {NULL}]
      /\ payments'[p] = [paid |-> FALSE] /\ payments'[p] # NULL
      /\ \A q \in Payment : q # p => payments'[q] = payments[q]
  <2>1. [paid |-> FALSE] \in [paid : BOOLEAN] /\ [paid |-> FALSE] # NULL
    <3>1. FALSE \in BOOLEAN
      OBVIOUS
    <3>2. [paid |-> FALSE] \in [paid : BOOLEAN]
      BY <3>1
    <3> QED BY <3>2, PaymentAssumption
  <2>2. payments' = [payments EXCEPT ![p] = [paid |-> FALSE]] /\ DOMAIN payments = Payment
    BY DEF PInv, PaymentTables, StorePayment
  <2> QED BY <2>1, <2>2 DEF PInv, PaymentTables
<1>4. /\ note_payment' \in [Note -> Payment \cup {NULL}]
      /\ \A n \in Note : note_payment'[n] = IF n \in notes THEN p ELSE note_payment[n]
  BY DEF PInv, PaymentTables, StorePayment
<1>5. /\ utxo_payment' \in [Utxo -> Payment \cup {NULL}]
      /\ \A u \in Utxo : utxo_payment'[u] = IF u \in coins THEN p ELSE utxo_payment[u]
  BY DEF PInv, PaymentTables, StorePayment
<1>6. /\ unsigned' = [q \in Payment |-> unsigned'[q]]
      /\ \A q \in Payment : q # p => unsigned'[q] = unsigned[q]
      /\ unsigned'[p] # NULL => unsigned'[p].notes = notes /\ unsigned'[p].utxos = coins
  BY <1>1 DEF PInv, PaymentTables
<1>7. PaymentTables'
  <2>1. TrpTypeOK'
    BY DEF PInv, PaymentTables, TrpTypeOK
  <2>2. \A q \in Payment :
          (unsigned'[q] # NULL \/ q \in accepted' \cup asked') => payments'[q] # NULL
    BY <1>3, <1>6 DEF PInv, PaymentTables
  <2> QED BY <1>3, <1>4, <1>5, <1>6, <2>1, <2>2 DEF PInv, PaymentTables
<1>8. RowHeights' /\ TargetAllowed'
  BY DEF PInv, RowHeights, TargetAllowed
<1>9. LocksHaveRows'
  BY <1>2, <1>5 DEF PInv, LocksHaveRows
<1>10. InputsExist'
  BY <1>2, <1>6 DEF PInv, InputsExist
<1>11. InputsHeld'
  <2> SUFFICES ASSUME NEW q \in Payment, unsigned'[q] # NULL, q \notin asked
               PROVE  /\ \A n \in unsigned'[q].notes : n \in Note => note_payment'[n] = q
                      /\ \A u \in unsigned'[q].utxos :
                           u \in Utxo /\ Settled(u) => utxo_payment'[u] = q
    BY DEF InputsHeld, Outstanding, Settled
  <2>1. CASE q = p
    BY <1>4, <1>5, <1>6, <2>1
  <2>2. CASE q # p
    <3>1. unsigned'[q] = unsigned[q] /\ q \in Outstanding /\ q # NULL
      BY <1>6, <2>2, PaymentNotNull DEF Outstanding
    <3> QED BY <1>2, <1>4, <1>5, <3>1 DEF PInv, InputsHeld
  <2> QED BY <2>1, <2>2
<1>12. LocksAreLive'
  BY <1>1, <1>3, <1>4, <1>5 DEF PInv, LocksAreLive, PaymentTables
<1>13. PaidIsAccepted'
  BY <1>1, <1>3 DEF PInv, PaidIsAccepted
<1> QED BY <1>7, <1>8, <1>9, <1>10, <1>11, <1>12, <1>13 DEF PInv

LEMMA PreparePreserves ==
  ASSUME PInv, NEW p \in Payment, PrepareTx(p) \/ PrepareFails(p)
  PROVE  PInv'
<1>1. CASE PrepareTx(p)
  <2>1. PICK c \in Choice :
          /\ StorePayment(p, c.notes, c.utxos)
          /\ unsigned' = [unsigned EXCEPT ![p] =
               [notes |-> c.notes, utxos |-> c.utxos,
                anchor |-> Anchor, hash |-> blocks[Anchor].hash,
                roots |-> {Witness(n) : n \in c.notes}]]
    BY <1>1 DEF PrepareTx
  <2>2. /\ unsigned' = [q \in Payment |-> unsigned'[q]]
        /\ \A q \in Payment : q # p => unsigned'[q] = unsigned[q]
        /\ unsigned'[p].notes = c.notes /\ unsigned'[p].utxos = c.utxos
    BY <2>1 DEF PInv, PaymentTables
  <2>3. UNCHANGED <<utxos, scanned, phase, target, accepted, asked, cancelled, unanswered>>
    BY <1>1 DEF PrepareTx, sync_vars
  <2>4. FreshId(p)
    BY <1>1 DEF PrepareTx
  <2> QED BY <2>1, <2>2, <2>3, <2>4, StorePreserves
<1>2. CASE PrepareFails(p)
  <2>1. PICK c \in Choice : \E notes \in SUBSET c.notes, coins \in SUBSET c.utxos :
          StorePayment(p, notes, coins)
    BY <1>2 DEF PrepareFails
  <2>0. PICK notes \in SUBSET c.notes, coins \in SUBSET c.utxos :
          StorePayment(p, notes, coins)
    BY <2>1
  <2>2. UNCHANGED <<utxos, scanned, phase, target, accepted, asked, cancelled, unanswered, unsigned>>
    BY <1>2 DEF PrepareFails, sync_vars, client_vars
  <2>3. FreshId(p)
    BY <1>2 DEF PrepareFails
  <2> QED BY <2>0, <2>2, <2>3, StorePreserves
<1> QED BY <1>1, <1>2

LEMMA CancelPreserves ==
  ASSUME PInv, NEW p \in Payment, CancelPayment(p)
  PROVE  PInv'
<1>1. /\ payments[p] # NULL /\ payments[p] \in [paid : BOOLEAN] /\ p # NULL
      /\ UNCHANGED <<utxos, scanned, phase, target, unsigned, accepted, unanswered>>
      /\ asked' = asked \cup {p} /\ cancelled' = cancelled \cup {p}
  BY PaymentNotNull DEF CancelPayment, sync_vars, PInv, PaymentTables
<1>2. /\ payments' \in [Payment -> [paid : BOOLEAN] \cup {NULL}]
      /\ payments'[p].paid = FALSE /\ payments'[p] # NULL
      /\ \A q \in Payment : q # p => payments'[q] = payments[q]
  BY <1>1, PaymentAssumption DEF CancelPayment, PInv, PaymentTables
<1>3. /\ note_payment' \in [Note -> Payment \cup {NULL}]
      /\ \A n \in Note : note_payment'[n] = IF note_payment[n] = p THEN NULL ELSE note_payment[n]
  BY DEF CancelPayment, PInv, PaymentTables
<1>4. /\ utxo_payment' \in [Utxo -> Payment \cup {NULL}]
      /\ \A u \in Utxo : utxo_payment'[u] = IF utxo_payment[u] = p THEN NULL ELSE utxo_payment[u]
  BY DEF CancelPayment, PInv, PaymentTables
<1>5. PaymentTables'
  BY <1>1, <1>2, <1>3, <1>4 DEF PInv, PaymentTables, TrpTypeOK
<1>6. RowHeights' /\ TargetAllowed' /\ LocksHaveRows' /\ InputsExist'
  BY <1>1, <1>4 DEF PInv, RowHeights, TargetAllowed, LocksHaveRows, InputsExist
<1>7. InputsHeld'
  BY <1>1, <1>3, <1>4 DEF PInv, InputsHeld, Outstanding, Settled
<1>8. LocksAreLive'
  BY <1>1, <1>2, <1>3, <1>4 DEF PInv, LocksAreLive, PaymentTables
<1>9. PaidIsAccepted'
  BY <1>1, <1>2 DEF PInv, PaidIsAccepted
<1> QED BY <1>5, <1>6, <1>7, <1>8, <1>9 DEF PInv

LEMMA CancelFailsPreserves ==
  ASSUME PInv, NEW p \in Payment, CancelFails(p)
  PROVE  PInv'
<1>1. /\ payments[p] # NULL /\ payments[p] \in [paid : BOOLEAN]
      /\ asked' = asked \cup {p}
      /\ UNCHANGED <<utxos, scanned, phase, target, unsigned, accepted, cancelled,
                     unanswered, note_payment>>
  BY DEF CancelFails, sync_vars, PInv, PaymentTables
<1>2. /\ payments' \in [Payment -> [paid : BOOLEAN] \cup {NULL}]
      /\ payments'[p] # NULL
      /\ payments'[p].paid => payments[p].paid
      /\ \A q \in Payment : q # p => payments'[q] = payments[q]
  <2>1. [payments[p] EXCEPT !.paid = FALSE] \in [paid : BOOLEAN]
    BY <1>1
  <2>2. [payments[p] EXCEPT !.paid = FALSE] # NULL /\ ~[payments[p] EXCEPT !.paid = FALSE].paid
    BY <1>1, <2>1, PaymentAssumption
  <2> QED BY <1>1, <2>1, <2>2 DEF CancelFails, PInv, PaymentTables
<1>3. /\ utxo_payment' \in [Utxo -> Payment \cup {NULL}]
      /\ \A u \in Utxo :
           (utxo_payment'[u] = utxo_payment[u] \/ (utxo_payment[u] = p /\ utxo_payment'[u] = NULL))
  BY DEF CancelFails, PInv, PaymentTables
<1>4. PaymentTables'
  BY <1>1, <1>2, <1>3 DEF PInv, PaymentTables, TrpTypeOK
<1>5. RowHeights' /\ TargetAllowed' /\ InputsExist'
  BY <1>1 DEF PInv, RowHeights, TargetAllowed, InputsExist
<1>6. LocksHaveRows' /\ InputsHeld'
  BY <1>1, <1>3 DEF PInv, LocksHaveRows, InputsHeld, Outstanding, Settled
<1>7. LocksAreLive' /\ PaidIsAccepted'
  BY <1>1, <1>2, <1>3 DEF PInv, LocksAreLive, PaidIsAccepted, PaymentTables
<1> QED BY <1>4, <1>5, <1>6, <1>7 DEF PInv

LEMMA SendPreserves ==
  ASSUME PInv, NEW p \in Payment, BroadcastTx(p) \/ BroadcastUnanswered(p)
  PROVE  PInv'
<1>1. /\ unsigned[p] # NULL /\ payments[p] # NULL /\ payments[p] \in [paid : BOOLEAN]
      /\ accepted' = accepted \cup {p}
      /\ UNCHANGED <<utxos, scanned, phase, target, unsigned, note_payment, utxo_payment, asked, cancelled>>
  BY DEF BroadcastTx, BroadcastUnanswered, NodeTakes, sync_vars, lock_vars,
         PInv, PaymentTables
<1>2. /\ payments' \in [Payment -> [paid : BOOLEAN] \cup {NULL}]
      /\ payments'[p] # NULL
      /\ \A q \in Payment : q # p => payments'[q] = payments[q]
      /\ payments'[p].paid \/ p \in unanswered'
      /\ \A q \in Payment : q # p => (q \in unanswered' <=> q \in unanswered)
  <2>1. CASE BroadcastTx(p)
    BY <1>1, <2>1, PaymentAssumption DEF BroadcastTx, PInv, PaymentTables
  <2>2. CASE BroadcastUnanswered(p)
    BY <1>1, <2>2 DEF BroadcastUnanswered, lock_vars, PInv, PaymentTables
  <2> QED BY <2>1, <2>2
<1>3. PaymentTables'
  BY <1>1, <1>2 DEF PInv, PaymentTables, TrpTypeOK
<1>4. RowHeights' /\ TargetAllowed' /\ LocksHaveRows' /\ InputsExist'
  BY <1>1 DEF PInv, RowHeights, TargetAllowed, LocksHaveRows, InputsExist
<1>5. InputsHeld'
  BY <1>1 DEF PInv, InputsHeld, Outstanding, Settled
<1>6. LocksAreLive'
  BY <1>1, <1>2 DEF PInv, LocksAreLive, PaymentTables
<1>7. PaidIsAccepted'
  BY <1>1, <1>2 DEF PInv, PaidIsAccepted
<1> QED BY <1>3, <1>4, <1>5, <1>6, <1>7 DEF PInv

-----------------------------------------------------------------------------
(* The sync *)

\* A step that leaves payments, locks and coins alone.
LEMMA ElsewherePreserves ==
  ASSUME PInv, UNCHANGED <<utxos, scanned, lock_vars, client_vars>>, TargetAllowed'
  PROVE  PInv'
<1>1. PaymentTables' /\ RowHeights' /\ LocksHaveRows' /\ InputsExist'
  BY DEF PInv, lock_vars, client_vars, PaymentTables, TrpTypeOK, RowHeights, LocksHaveRows, InputsExist
<1>2. InputsHeld' /\ LocksAreLive' /\ PaidIsAccepted'
  BY DEF PInv, lock_vars, client_vars, InputsHeld, Outstanding, Settled, LocksAreLive,
         PaidIsAccepted
<1> QED BY <1>1, <1>2 DEF PInv

LEMMA ScanTransparentPreserves ==
  ASSUME PInv, TypeOK, ScanTransparent
  PROVE  PInv'
<1> DEFINE b == blocks[next].hash
<1>1. b \in Block /\ ScanBlock(b)
  BY RowAssumption DEF ScanTransparent, Stored, TypeOK, BlockRow
<1>2. UNCHANGED <<lock_vars, client_vars>> /\ phase' # "rewind"
  BY DEF ScanTransparent
<1> HIDE DEF b
<1>3. TrpTypeOK'
  BY <1>1, ScanType DEF PInv, PaymentTables
<1>4. \A u \in Utxo :
        /\ utxos[u] # NULL => utxos'[u] # NULL /\ utxos'[u].height = utxos[u].height
        /\ utxos[u] = NULL /\ utxos'[u] # NULL =>
             \/ utxos'[u].height = 0
             \/ u \in UtxosCreatedIn(b) /\ utxos'[u].height = HeightOf[b]
  <2> TAKE u \in Utxo
  <2>1. TrpTypeOK
    BY DEF PInv, PaymentTables
  <2>2. utxos[u] # NULL => utxos'[u] # NULL
    <3>1. HeightOf[b] \in Height
      BY <1>1, LedgerAssumption
    <3>2. utxos[u] # NULL => utxos[u].height \in Height \cup {0}
      BY <2>1 DEF TrpTypeOK, UtxoRow
    <3>3. ASSUME utxos[u] # NULL, NEW height, NEW spent \in BOOLEAN,
                 NEW at \in Height \cup {NULL}
          PROVE  Upsert(u, height, spent, at) # NULL
      <4>1. Upsert(u, height, spent, at) \in UtxoRow
        BY <3>2, <3>3 DEF Upsert, UtxoRow
      <4> QED BY <4>1, UtxoRowAssumption
    <3> QED BY <1>1, <3>1, <3>3 DEF ScanBlock
  <2> QED BY <1>1, <2>1, <2>2, ScanRowHeight
<1>5. PaymentTables'
  BY <1>2, <1>3 DEF PInv, PaymentTables, lock_vars, client_vars
<1>6. RowHeights'
  BY <1>1, <1>4 DEF PInv, RowHeights
<1>7. TargetAllowed' /\ LocksHaveRows' /\ InputsExist'
  BY <1>2, <1>4 DEF PInv, TargetAllowed, LocksHaveRows, InputsExist, lock_vars, client_vars
<1>8. InputsHeld' /\ LocksAreLive' /\ PaidIsAccepted'
  BY <1>2 DEF PInv, lock_vars, client_vars, InputsHeld, Outstanding, Settled, LocksAreLive,
              PaidIsAccepted
<1> QED BY <1>5, <1>6, <1>7, <1>8 DEF PInv

\* The row of a settled coin is out of reach of the DELETE, and its lock
\* with it.
LEMMA RewindTransparentPreserves ==
  ASSUME PInv, RewindTransparent
  PROVE  PInv'
<1>1. /\ target \in RewindHeight /\ target \in Int
      /\ TrpTypeOK /\ TrpRewindToHeight(target)
      /\ phase' # "rewind"
      /\ UNCHANGED <<payments, note_payment, client_vars>>
  BY WalletAssumption DEF RewindTransparent, PInv, PaymentTables, TargetAllowed
<1>2. \A u \in Utxo :
        /\ utxos'[u] # NULL => /\ utxos[u] # NULL
                               /\ utxos'[u].height = utxos[u].height
                               /\ utxos'[u] \in UtxoRow
        /\ utxos[u] # NULL /\ utxos[u].height <= target => utxos'[u] # NULL
  BY <1>1, RewindRow
<1>3. \A u \in Utxo : utxo_payment'[u] = IF utxos'[u] = NULL THEN NULL ELSE utxo_payment[u]
  BY DEF RewindTransparent
<1>4. PaymentTables'
  <2>1. TrpTypeOK'
    BY <1>1, RewindType
  <2>2. utxo_payment' \in [Utxo -> Payment \cup {NULL}]
    BY DEF RewindTransparent, PInv, PaymentTables
  <2> QED BY <1>1, <2>1, <2>2 DEF PInv, PaymentTables, client_vars
<1>5. RowHeights' /\ LocksHaveRows'
  BY <1>2, <1>3 DEF PInv, RowHeights, LocksHaveRows
<1>6. TargetAllowed' /\ InputsExist' /\ PaidIsAccepted'
  BY <1>1 DEF PInv, TargetAllowed, InputsExist, PaidIsAccepted, client_vars
<1>7. LocksAreLive'
  BY <1>1, <1>3 DEF PInv, LocksAreLive, client_vars
<1>8. \A u \in Utxo : Settled(u) /\ utxo_payment[u] # NULL => utxo_payment'[u] = utxo_payment[u]
  <2> SUFFICES ASSUME NEW u \in Utxo, Settled(u), utxo_payment[u] # NULL
               PROVE  utxo_payment'[u] = utxo_payment[u]
    OBVIOUS
  <2>1. utxos[u] # NULL
    BY DEF PInv, LocksHaveRows
  <2>2. utxos[u].height <= target
    BY <1>1, <2>1 DEF PInv, RowHeights, Settled
  <2> QED BY <1>2, <1>3, <2>1, <2>2
<1>9. InputsHeld'
  <2> SUFFICES ASSUME NEW q \in Outstanding
               PROVE  /\ \A n \in unsigned[q].notes : n \in Note => note_payment[n] = q
                      /\ \A u \in unsigned[q].utxos :
                           u \in Utxo /\ Settled(u) => utxo_payment'[u] = q
    BY <1>1 DEF InputsHeld, Outstanding, Settled, client_vars
  <2>1. q # NULL
    BY PaymentNotNull DEF Outstanding
  <2> QED BY <1>8, <2>1 DEF PInv, InputsHeld
<1> QED BY <1>4, <1>5, <1>6, <1>7, <1>9 DEF PInv

LEMMA StepPreserves ==
  ASSUME PInv, TypeOK, [PaymentNext]_payment_vars
  PROVE  PInv'
<1>1. CASE UNCHANGED payment_vars
  <2>1. TargetAllowed'
    BY <1>1 DEF payment_vars, sync_vars, PInv, TargetAllowed
  <2>2. UNCHANGED <<utxos, scanned, lock_vars, client_vars>>
    BY <1>1 DEF payment_vars, sync_vars
  <2> QED BY <2>1, <2>2, ElsewherePreserves
<1>2. ASSUME NEW b \in Block, ScanShielded(b) PROVE PInv'
  BY <1>2, ElsewherePreserves DEF ScanShielded, TargetAllowed
<1>3. ASSUME NEW to \in RewindHeight, RewindShielded(to) PROVE PInv'
  BY <1>3, ElsewherePreserves DEF RewindShielded, TargetAllowed
<1>4. ASSUME NEW tree \in Checkpoint, LoadTree(tree) PROVE PInv'
  BY <1>4, ElsewherePreserves DEF LoadTree, PInv, TargetAllowed
<1>5. CASE Crash
  BY <1>5, ElsewherePreserves DEF Crash, TargetAllowed
<1> QED BY <1>1, <1>2, <1>3, <1>4, <1>5, PreparePreserves, CancelPreserves, CancelFailsPreserves,
           SendPreserves,
           ScanTransparentPreserves, RewindTransparentPreserves DEF PaymentNext

-----------------------------------------------------------------------------
(* Theorems *)

\* The invariant holds in every reachable state.
THEOREM LocksHold == PaymentSpec => []PInv
<1>1. PaymentSpec => []TypeOK
  BY PaymentsKeepTables, TypeCorrect, PTL
<1>2. PaymentInit => PInv
  BY InitPInv
<1>3. PInv /\ TypeOK /\ [PaymentNext]_payment_vars => PInv'
  BY StepPreserves
<1> QED BY <1>1, <1>2, <1>3, PTL DEF PaymentSpec

\* The client never signs two transactions that exclude each other: no note,
\* and no coin below every rewind, is in two outstanding payments, however
\* prepare_tx, cancel_tx, blocks, rewinds, crashes and failing statements
\* follow each other.
THEOREM NeverPromisedTwice == PaymentSpec => []PromisedOnce
<1>1. PInv => PromisedOnce
  <2> SUFFICES ASSUME PInv, NEW p \in Outstanding, NEW q \in Outstanding, p # q
               PROVE  /\ unsigned[p].notes \cap unsigned[q].notes = {}
                      /\ \A u \in unsigned[p].utxos \cap unsigned[q].utxos : ~Settled(u)
    BY DEF PromisedOnce
  <2>1. /\ unsigned[p].notes \subseteq Note /\ unsigned[q].notes \subseteq Note
        /\ unsigned[p].utxos \subseteq Utxo /\ unsigned[q].utxos \subseteq Utxo
    BY DEF Outstanding, PInv, InputsExist
  <2> QED BY <2>1 DEF PInv, InputsHeld
<1> QED BY <1>1, LocksHold, PTL

\* Every lock belongs to a payment that has a row and was not cancelled:
\* cancel_payment gives back whatever store_payment got to lock.
THEOREM LocksAlwaysLive == PaymentSpec => []LocksAreLive
<1>1. PInv => LocksAreLive
  BY DEF PInv
<1> QED BY <1>1, LocksHold, PTL

\* The paid column never says more than zcashd does, and says as much unless
\* the payment was cancelled or the answer lost.
THEOREM PaidAlwaysAccepted == PaymentSpec => []PaidIsAccepted
<1>1. PInv => PaidIsAccepted
  BY DEF PInv
<1> QED BY <1>1, LocksHold, PTL
-----------------------------------------------------------------------------
(* The chain under the payments *)

\* Each stored tree is the line of blocks that ends with its own row's block.
TreesAreLines ==
  \A h \in Stored :
    LET tree == blocks[h].sapling_tree IN
    Len(tree) = h /\ tree[h] = blocks[h].hash /\ IsLine(tree)

\* The roots a client was handed are such lines too, of the anchor block.
RootsAreLines ==
  \A p \in Payment : unsigned[p] # NULL =>
    /\ unsigned[p] \in UnsignedTx
    /\ \A root \in unsigned[p].roots :
         /\ root \in Tree /\ Len(root) = unsigned[p].anchor
         /\ root[unsigned[p].anchor] = unsigned[p].hash /\ IsLine(root)

\* Nothing is mined in a checkpoint's block: only a scan mines, and it scans
\* height 1 or the height above a stored one.
MinedAboveCheckpoint ==
  \A t \in Tx : Mined(t) =>
    transactions[t].block = 1 \/ transactions[t].block - 1 \in Stored

\* As long as no crash split a rewind, the blocks the transparent half has
\* scanned are the stored ones, up to where a rewind under way goes.
ScannedIsStored ==
  ~half => \A h \in Height :
    (scanned[h] # NULL /\ (phase = "rewind" => h <= target)) =>
      blocks[h] # NULL /\ blocks[h].hash = scanned[h]

\* And a row with a height is of a coin that the block scanned there creates.
RowsScanned ==
  ~half => \A u \in Utxo : (utxos[u] # NULL /\ utxos[u].height # 0) =>
    /\ scanned[utxos[u].height] # NULL
    /\ u \in UtxosCreatedIn(scanned[utxos[u].height])

\* The worker's variables and the histories have their types.
WorkerTypes ==
  /\ unanswered \subseteq Payment
  /\ phase \in {"shielded", "transparent", "rewind"}
  /\ next \in Nat \ {0} /\ target \in Int
  /\ faults \in 0..MaxFaults /\ half \in BOOLEAN

\* The inductive invariant of the properties that tie payments to the chain.
ChainInv ==
  /\ TreesAreLines /\ RootsAreLines /\ MinedAboveCheckpoint
  /\ ScannedIsStored /\ RowsScanned /\ WorkerTypes

-----------------------------------------------------------------------------
(* Lines of blocks *)

\* Every nonempty set of naturals has a least element.
LEMMA LeastNatural ==
  ASSUME NEW T \in SUBSET Nat, T # {}
  PROVE  \E x \in T : \A y \in T : x <= y
<1> DEFINE R == OpToRel(<, Nat)
<1>1. IsWellFoundedOn(R, Nat)
  BY NatLessThanWellFounded
<1>2. \A x, y \in Nat : x < y => <<x, y>> \in R
  BY DEF OpToRel
<1> HIDE DEF R
<1>3. PICK x \in T : \A y \in T : ~(<<y, x>> \in R)
  BY <1>1, WFMin
<1>4. \A y \in T : ~(y < x)
  <2> SUFFICES ASSUME NEW y \in T, y < x PROVE FALSE
    OBVIOUS
  <2>1. <<y, x>> \in R
    BY <1>2
  <2> QED BY <1>3, <2>1
<1> QED BY <1>4

\* Two lines of one length that end in the same block are the same: going
\* down from the end, the first height at which they differed would have a
\* child with two parents.
LEMMA LineUnique ==
  ASSUME NEW r \in Seq(Block), NEW s \in Seq(Block), IsLine(r), IsLine(s),
         Len(r) = Len(s), Len(r) > 0, r[Len(r)] = s[Len(r)]
  PROVE  r = s
<1> DEFINE len == Len(r)
           D   == {d \in 0..(len - 1) : r[len - d] # s[len - d]}
<1>1. len \in Nat \ {0} /\ D \subseteq Nat
  OBVIOUS
<1>2. CASE D = {}
  <2>1. \A i \in 1..len : r[i] = s[i]
    <3> TAKE i \in 1..len
    <3>1. len - i \in 0..(len - 1) /\ len - (len - i) = i
      BY <1>1
    <3> QED BY <1>2, <3>1
  <2> QED BY <2>1
<1>3. CASE D # {}
  <2>1. PICK d \in D : \A e \in D : d <= e
    BY <1>1, <1>3, LeastNatural
  <2>2. d \in Nat /\ d # 0 /\ d <= len - 1
    BY <1>1, <2>1
  <2> DEFINE i == len - d
  <2>3. i \in 1..len /\ i + 1 \in 1..len /\ i + 1 > 1 /\ (i + 1) - 1 = i
    BY <1>1, <2>2
  <2>0. d - 1 \notin D
    <3> HIDE DEF D
    <3> QED BY <2>1, <2>2
  <2>4. d - 1 \in 0..(len - 1) /\ len - (d - 1) = i + 1
    BY <1>1, <2>2
  <2>5. r[i + 1] = s[i + 1]
    BY <2>0, <2>4
  <2>6. r[i] = PrevHash[r[i + 1]] /\ s[i] = PrevHash[s[i + 1]]
    BY <2>3 DEF IsLine
  <2>7. r[i] # s[i]
    BY <2>1
  <2> QED BY <2>5, <2>6, <2>7
<1> QED BY <1>2, <1>3

-----------------------------------------------------------------------------
(* The anchor *)

\* The larger of two integers.
LEMMA MaxOfTwo ==
  ASSUME NEW a \in Int, NEW b \in Int
  PROVE  /\ Max({a, b}) \in {a, b}
         /\ a <= Max({a, b}) /\ b <= Max({a, b})
<1>1. \E x \in {a, b} : \A y \in {a, b} : x >= y
  <2>1. a >= b \/ b >= a
    OBVIOUS
  <2> QED BY <2>1
<1>2. /\ Max({a, b}) \in {a, b}
      /\ \A y \in {a, b} : Max({a, b}) >= y
  BY <1>1 DEF Max
<1> QED BY <1>2

\* The lowest stored height.
LEMMA LowestStored ==
  ASSUME BlocksContiguous, Stored # {}
  PROVE  /\ Min(Stored) \in Stored
         /\ \A h \in Stored : Min(Stored) <= h
<1>1. PICK lo \in Height, hi \in Height : lo <= hi /\ Stored = lo..hi
  BY DEF BlocksContiguous, Contiguous
<1>2. lo \in Stored /\ \A h \in Stored : lo <= h
  BY <1>1, LedgerAssumption DEF Height
<1> QED BY <1>2 DEF Min

\* The anchor is a stored height: AnchorOffset below the next block, or the
\* lowest height there is.
LEMMA AnchorStored ==
  ASSUME BlocksContiguous, Stored # {}
  PROVE  /\ Anchor \in Stored
         /\ LastHeight + 1 - AnchorOffset <= Anchor
         /\ Anchor = LastHeight + 1 - AnchorOffset \/ Anchor = Min(Stored)
<1>1. /\ LastHeight \in Int /\ LastHeight \in Stored
      /\ \A g \in Stored, k \in Height : g <= k /\ k <= LastHeight => k \in Stored
      /\ Stored \subseteq Height /\ \A h \in Height : h \in Int /\ 1 <= h /\ h <= MaxHeight
  BY Tip, LedgerAssumption DEF Height
<1>2. Min(Stored) \in Stored /\ \A h \in Stored : Min(Stored) <= h
  BY LowestStored
<1>3. AnchorOffset \in Nat \ {0}
  BY PaymentAssumption
<1> DEFINE low == LastHeight + 1 - AnchorOffset
<1>4. low \in Int /\ low <= LastHeight /\ Min(Stored) \in Int /\ 1 <= Min(Stored)
  <2>1. Min(Stored) \in Height
    BY <1>1, <1>2
  <2>2. Min(Stored) \in Int /\ 1 <= Min(Stored)
    BY <1>1, <2>1
  <2> QED BY <1>1, <1>3, <2>2
<1>5. Anchor = Max({low, Min(Stored)})
  BY DEF Anchor
<1> HIDE DEF low
<1>6. /\ Anchor \in {low, Min(Stored)} /\ low <= Anchor /\ Min(Stored) <= Anchor
  BY <1>4, <1>5, MaxOfTwo
<1>7. ASSUME Anchor = low PROVE Anchor \in Stored
  <2>1. low \in Height
    BY <1>1, <1>4, <1>6, <1>7, LedgerAssumption DEF Height
  <2> QED BY <1>1, <1>2, <1>4, <1>6, <1>7, <2>1
<1> QED BY <1>2, <1>6, <1>7 DEF low

\* The witness of a note that may be spent is the tree of the anchor block,
\* and its transaction is mined no later than there.
LEMMA SpendableWitness ==
  ASSUME IInv, Stored # {}, NEW n \in SpendableNotes
  PROVE  /\ n \in Note /\ Witness(n) = blocks[Anchor].sapling_tree
         /\ Mined(TxOfNote[n]) /\ transactions[TxOfNote[n]].block <= Anchor
         /\ received_notes[n].spent = NULL /\ note_payment[n] = NULL
<1>1. Anchor \in Height
  BY AnchorStored, Tip DEF IInv
<1> QED BY <1>1 DEF IInv, SpendableNotes, Witness, WitnessesRooted

-----------------------------------------------------------------------------
(* Steps of the chain *)

LEMMA InitChainInv == PaymentInit => ChainInv
<1> SUFFICES ASSUME PaymentInit PROVE ChainInv
  OBVIOUS
<1>1. TreesAreLines /\ MinedAboveCheckpoint
  BY DEF PaymentInit, Init, TreesAreLines, MinedAboveCheckpoint, Stored, Mined
<1>2. RootsAreLines /\ ScannedIsStored /\ RowsScanned
  BY DEF PaymentInit, TrpInit, RootsAreLines, ScannedIsStored, RowsScanned
<1>3. WorkerTypes
  <2>1. 0 \in 0..MaxFaults
    BY PaymentAssumption
  <2>2. half \in BOOLEAN /\ faults \in 0..MaxFaults
    BY <2>1, Zenon DEF PaymentInit
  <2>3. next \in Nat \ {0} /\ target \in Int
    BY DEF PaymentInit
  <2>4. unanswered \subseteq Payment /\ phase \in {"shielded", "transparent", "rewind"}
    BY DEF PaymentInit
  <2> QED BY <2>2, <2>3, <2>4, Zenon DEF WorkerTypes
<1> QED BY <1>1, <1>2, <1>3 DEF ChainInv

LEMMA FaultCounted ==
  ASSUME faults \in 0..MaxFaults, Fault
  PROVE  faults' \in 0..MaxFaults
BY PaymentAssumption DEF Fault

\* A step that leaves the sync alone.
LEMMA ClientKeepsChain ==
  ASSUME ChainInv, UNCHANGED sync_vars, RootsAreLines',
         unanswered' \subseteq Payment, faults' \in 0..MaxFaults
  PROVE  ChainInv'
<1>1. TreesAreLines' /\ MinedAboveCheckpoint'
  BY DEF ChainInv, sync_vars, shielded_vars, TreesAreLines, MinedAboveCheckpoint, Stored, Mined
<1>2. ScannedIsStored' /\ RowsScanned'
  BY DEF ChainInv, sync_vars, shielded_vars, ScannedIsStored, RowsScanned
<1>3. WorkerTypes'
  BY DEF ChainInv, sync_vars, WorkerTypes
<1> QED BY <1>1, <1>2, <1>3 DEF ChainInv

\* prepare_tx hands out the tree of the anchor, whose line the stored row is.
LEMMA PrepareKeepsChain ==
  ASSUME ChainInv, IInv, PInv, NEW p \in Payment, PrepareTx(p)
  PROVE  ChainInv'
<1>1. PICK c \in Choice :
        unsigned' = [unsigned EXCEPT ![p] =
               [notes |-> c.notes, utxos |-> c.utxos,
                anchor |-> Anchor, hash |-> blocks[Anchor].hash,
                roots |-> {Witness(n) : n \in c.notes}]]
  BY DEF PrepareTx
<1> DEFINE tx == [notes |-> c.notes, utxos |-> c.utxos,
                  anchor |-> Anchor, hash |-> blocks[Anchor].hash,
                  roots |-> {Witness(n) : n \in c.notes}]
<1>2. Stored # {} /\ UNCHANGED <<sync_vars, unanswered, faults>>
  BY DEF PrepareTx
<1>3. Anchor \in Stored /\ Anchor \in Height /\ blocks[Anchor] \in BlockRow
  BY <1>2, AnchorStored, RowAssumption DEF IInv, Stored, TypeOK
<1> DEFINE tree == blocks[Anchor].sapling_tree
<1>4. tree \in Tree /\ blocks[Anchor].hash \in Block
  BY <1>3 DEF BlockRow
<1>5. c.notes \subseteq SpendableNotes /\ c.utxos \subseteq Utxo
  <2>1. PICK amount \in Target :
          \/ \E S \in Selections(SpendableNotes, amount) : c = [notes |-> S, utxos |-> {}]
          \/ \E S \in Selections(SpendableUtxos, amount) : c = [notes |-> {}, utxos |-> S]
    BY DEF Choice
  <2> QED BY <2>1 DEF Selections, SpendableUtxos
<1>6. c.notes \subseteq Note /\ \A n \in c.notes : Witness(n) = tree
  BY <1>2, <1>5, SpendableWitness
<1>7. Len(tree) = Anchor /\ tree[Anchor] = blocks[Anchor].hash /\ IsLine(tree)
  BY <1>3 DEF ChainInv, TreesAreLines
<1>8. tx \in UnsignedTx
  BY <1>3, <1>4, <1>5, <1>6 DEF UnsignedTx
<1>9. \A root \in tx.roots : root = tree
  BY <1>6
<1>10. tx.anchor = Anchor /\ tx.hash = blocks[Anchor].hash
  OBVIOUS
<1>11. unsigned'[p] = tx /\ \A q \in Payment : q # p => unsigned'[q] = unsigned[q]
  BY <1>1 DEF PInv, PaymentTables
<1> HIDE DEF tx, tree
<1>12. RootsAreLines'
  <2> SUFFICES ASSUME NEW q \in Payment, unsigned'[q] # NULL
               PROVE  /\ unsigned'[q] \in UnsignedTx
                      /\ \A root \in unsigned'[q].roots :
                           /\ root \in Tree /\ Len(root) = unsigned'[q].anchor
                           /\ root[unsigned'[q].anchor] = unsigned'[q].hash /\ IsLine(root)
    BY DEF RootsAreLines
  <2>1. CASE q = p
    BY <1>4, <1>7, <1>8, <1>9, <1>10, <1>11, <2>1
  <2>2. CASE q # p
    BY <1>11, <2>2 DEF ChainInv, RootsAreLines
  <2> QED BY <2>1, <2>2
<1> QED BY <1>2, <1>12, ClientKeepsChain DEF ChainInv, WorkerTypes

LEMMA ClientStepsKeepChain ==
  ASSUME ChainInv, NEW p \in Payment,
         \/ PrepareFails(p) \/ CancelPayment(p) \/ CancelFails(p)
         \/ BroadcastTx(p) \/ BroadcastUnanswered(p)
  PROVE  ChainInv'
<1>1. UNCHANGED sync_vars /\ UNCHANGED unsigned
  BY DEF PrepareFails, CancelPayment, CancelFails, BroadcastTx, BroadcastUnanswered, client_vars
<1>2. unanswered' \subseteq Payment
  BY DEF PrepareFails, CancelPayment, CancelFails, BroadcastTx, BroadcastUnanswered, client_vars,
         ChainInv, WorkerTypes
<1>3. faults' \in 0..MaxFaults
  BY FaultCounted
     DEF PrepareFails, CancelPayment, CancelFails, BroadcastTx, BroadcastUnanswered,
         ChainInv, WorkerTypes
<1>4. RootsAreLines'
  BY <1>1 DEF ChainInv, RootsAreLines
<1> QED BY <1>1, <1>2, <1>3, <1>4, ClientKeepsChain

\* A block of the shielded half extends the line of the stored tip.
LEMMA ScanShieldedKeepsChain ==
  ASSUME ChainInv, IInv, NEW b \in Block, ScanShielded(b)
  PROVE  ChainInv'
<1> DEFINE h    == LastHeight + 1
           tree == Append(LastTree, b)
           row  == [hash |-> b, sapling_tree |-> tree]
<1>1. /\ phase = "shielded" /\ AdvanceByBlock(b)
      /\ LastHeight \in Stored => PrevHash[b] = blocks[LastHeight].hash
      /\ phase' \in {"shielded", "transparent"} /\ phase' # "rewind"
      /\ UNCHANGED <<utxos, scanned, next, target, half, unsigned, unanswered, faults>>
      /\ HeightOf[b] = h
  BY DEF ScanShielded, client_vars, AdvanceByBlock
<1>2. /\ h \in Height /\ h \notin Stored /\ blocks[h] = NULL
      /\ \A k \in Height : blocks'[k] = IF k = h THEN row ELSE blocks[k]
      /\ Stored' = Stored \cup {h}
  BY <1>1, AdvanceTip
<1>3. /\ Stored \subseteq Height /\ LastHeight \in Nat
      /\ Stored = {} => LastHeight = 0
      /\ Stored # {} => LastHeight \in Stored
  BY Tip, LedgerAssumption DEF IInv
<1>4. /\ LastTree \in Seq(Block) /\ Len(LastTree) = LastHeight /\ IsLine(LastTree)
      /\ Stored # {} => LastTree[LastHeight] = blocks[LastHeight].hash
  <2>1. LastTree \in Seq(Block)
    BY LastTreeType DEF IInv, Tree
  <2>2. CASE Stored = {}
    BY <1>3, <2>1, <2>2 DEF LastTree, IsLine
  <2>3. CASE Stored # {}
    BY <1>3, <2>1, <2>3 DEF LastTree, ChainInv, TreesAreLines
  <2> QED BY <2>1, <2>2, <2>3
<1>5. /\ Len(tree) = h /\ tree[h] = b
      /\ \A i \in 1..LastHeight : tree[i] = LastTree[i]
  BY <1>3, <1>4
<1>6. IsLine(tree)
  <2> SUFFICES ASSUME NEW i \in 1..h
               PROVE  /\ HeightOf[tree[i]] = i
                      /\ i > 1 => PrevHash[tree[i]] = tree[i - 1]
    BY <1>5 DEF IsLine
  <2>1. CASE i = h
    <3>1. HeightOf[tree[i]] = i
      BY <1>1, <1>5, <2>1
    <3>2. ASSUME i > 1 PROVE PrevHash[tree[i]] = tree[i - 1]
      <4>1. Stored # {} /\ i - 1 = LastHeight /\ LastHeight \in 1..LastHeight
        BY <1>3, <2>1, <3>2
      <4>2. PrevHash[b] = LastTree[LastHeight]
        BY <1>1, <1>3, <1>4, <4>1
      <4> QED BY <1>5, <2>1, <4>1, <4>2
    <3> QED BY <3>1, <3>2
  <2>2. CASE i # h
    <3>1. i \in 1..LastHeight /\ (i > 1 => i - 1 \in 1..LastHeight)
      BY <1>3, <2>2
    <3>2. HeightOf[LastTree[i]] = i /\ (i > 1 => PrevHash[LastTree[i]] = LastTree[i - 1])
      BY <1>4, <3>1 DEF IsLine
    <3> QED BY <1>5, <3>1, <3>2
  <2> QED BY <2>1, <2>2
<1>7. row.hash = b /\ row.sapling_tree = tree
  OBVIOUS
<1> HIDE DEF row, tree
<1>8. TreesAreLines'
  <2> SUFFICES ASSUME NEW k \in Stored'
               PROVE  /\ Len(blocks'[k].sapling_tree) = k
                      /\ blocks'[k].sapling_tree[k] = blocks'[k].hash
                      /\ IsLine(blocks'[k].sapling_tree)
    BY DEF TreesAreLines
  <2>1. CASE k = h
    BY <1>2, <1>5, <1>6, <1>7, <2>1
  <2>2. CASE k # h
    BY <1>2, <1>3, <2>2 DEF ChainInv, TreesAreLines
  <2> QED BY <2>1, <2>2
<1>9. MinedAboveCheckpoint'
  <2> SUFFICES ASSUME NEW t \in Tx, Mined(t)'
               PROVE  transactions'[t].block = 1 \/ transactions'[t].block - 1 \in Stored'
    BY DEF MinedAboveCheckpoint
  <2>1. IF t \in Relevant(b) THEN transactions'[t].block = h
        ELSE transactions'[t] = transactions[t] /\ Mined(t)
    BY <1>1, <1>2, AdvanceTransactions DEF IInv
  <2>2. h = 1 \/ h - 1 \in Stored
    BY <1>3
  <2> QED BY <1>2, <2>1, <2>2 DEF ChainInv, MinedAboveCheckpoint
<1>10. ScannedIsStored'
  <2> SUFFICES ASSUME ~half, NEW k \in Height, scanned[k] # NULL
               PROVE  blocks'[k] # NULL /\ blocks'[k].hash = scanned[k]
    BY <1>1 DEF ScannedIsStored
  <2>1. blocks[k] # NULL /\ blocks[k].hash = scanned[k]
    BY <1>1 DEF ChainInv, ScannedIsStored
  <2> QED BY <1>2, <2>1
<1>11. RowsScanned' /\ RootsAreLines' /\ WorkerTypes'
  BY <1>1 DEF ChainInv, RowsScanned, RootsAreLines, WorkerTypes
<1> QED BY <1>8, <1>9, <1>10, <1>11 DEF ChainInv

\* A block of the transparent half is the stored one of its height.
LEMMA ScanTransparentKeepsChain ==
  ASSUME ChainInv, IInv, PInv, ScanTransparent
  PROVE  ChainInv'
<1> DEFINE b == blocks[next].hash
<1>1. /\ phase = "transparent" /\ next \in Stored /\ ScanBlock(b)
      /\ next' = next + 1 /\ phase' \in {"shielded", "transparent"} /\ phase' # "rewind"
      /\ UNCHANGED <<blocks, transactions, target, half, unsigned, unanswered, faults>>
  BY DEF ScanTransparent, shielded_vars, client_vars
<1>2. next \in Height /\ blocks[next] \in BlockRow /\ b \in Block /\ blocks[next] # NULL
  BY <1>1 DEF Stored, IInv, TypeOK, BlockRow
<1>3. HeightOf[b] = next
  <2> DEFINE tree == blocks[next].sapling_tree
  <2>1. Len(tree) = next /\ tree[next] = b /\ IsLine(tree)
    BY <1>1 DEF ChainInv, TreesAreLines
  <2>2. next \in 1..Len(tree)
    BY <1>2, <2>1, LedgerAssumption DEF Height
  <2> HIDE DEF tree
  <2> QED BY <2>1, <2>2 DEF IsLine
<1>4. TrpTypeOK
  BY DEF PInv, PaymentTables
<1> HIDE DEF b
<1>5. \A k \in Height : scanned'[k] = IF k = next THEN b ELSE scanned[k]
  BY <1>1, <1>3, <1>4 DEF ScanBlock, TrpTypeOK
<1>6. ScannedIsStored'
  <2> SUFFICES ASSUME ~half, NEW k \in Height, scanned'[k] # NULL
               PROVE  blocks[k] # NULL /\ blocks[k].hash = scanned'[k]
    BY <1>1 DEF ScannedIsStored
  <2>1. CASE k = next
    BY <1>2, <1>5, <2>1 DEF b
  <2>2. CASE k # next
    BY <1>1, <1>5, <2>2 DEF ChainInv, ScannedIsStored
  <2> QED BY <2>1, <2>2
<1>7. RowsScanned'
  <2> SUFFICES ASSUME ~half, NEW u \in Utxo, utxos'[u] # NULL, utxos'[u].height # 0
               PROVE  /\ scanned'[utxos'[u].height] # NULL
                      /\ u \in UtxosCreatedIn(scanned'[utxos'[u].height])
    BY <1>1 DEF RowsScanned
  <2>1. b # NULL
    BY <1>2, NullAssumption
  <2>2. CASE utxos[u] = NULL
    <3>1. u \in UtxosCreatedIn(b) /\ utxos'[u].height = next
      BY <1>1, <1>2, <1>3, <1>4, <2>2, ScanRowHeight
    <3> QED BY <1>2, <1>5, <2>1, <3>1
  <2>3. CASE utxos[u] # NULL
    <3> DEFINE k == utxos[u].height
    <3>1. utxos'[u].height = k /\ k # 0
      BY <1>1, <1>2, <1>4, <2>3, ScanRowHeight
    <3>2. k \in Height
      BY <1>4, <2>3, <3>1 DEF TrpTypeOK, UtxoRow
    <3>3. scanned[k] # NULL /\ u \in UtxosCreatedIn(scanned[k])
      BY <2>3, <3>1 DEF ChainInv, RowsScanned
    <3>4. blocks[k] # NULL /\ blocks[k].hash = scanned[k]
      BY <1>1, <3>2, <3>3 DEF ChainInv, ScannedIsStored
    <3>5. scanned'[k] = scanned[k]
      BY <1>5, <3>2, <3>4 DEF b
    <3> QED BY <3>1, <3>3, <3>5
  <2> QED BY <2>2, <2>3
<1>8. TreesAreLines' /\ MinedAboveCheckpoint' /\ RootsAreLines'
  BY <1>1 DEF ChainInv, TreesAreLines, MinedAboveCheckpoint, RootsAreLines, Stored, Mined
<1>9. WorkerTypes'
  BY <1>1 DEF ChainInv, WorkerTypes
<1> QED BY <1>6, <1>7, <1>8, <1>9 DEF ChainInv

LEMMA RewindShieldedKeepsChain ==
  ASSUME ChainInv, IInv, NEW to \in RewindHeight, RewindShielded(to)
  PROVE  ChainInv'
<1>1. /\ phase # "rewind" /\ RewindToHeight(to) /\ to \in Int
      /\ phase' = "rewind" /\ target' = to
      /\ UNCHANGED <<utxos, scanned, next, half, unsigned, unanswered, faults>>
  BY WalletAssumption DEF RewindShielded, client_vars
<1>2. /\ Stored' \subseteq Stored
      /\ \A h \in Stored : h <= to => h \in Stored'
      /\ \A h \in Stored' : blocks'[h] = blocks[h]
      /\ \A t \in Tx : Mined(t)' =>
           /\ Mined(t) /\ transactions'[t].block = transactions[t].block
           /\ transactions[t].block - 1 \in Stored => transactions[t].block - 1 \in Stored'
  BY <1>1, RewindKeepsLow
<1>3. TreesAreLines'
  BY <1>2 DEF ChainInv, TreesAreLines
<1>4. MinedAboveCheckpoint'
  BY <1>2 DEF ChainInv, MinedAboveCheckpoint
<1>5. ScannedIsStored'
  <2> SUFFICES ASSUME ~half, NEW h \in Height, scanned[h] # NULL, h <= to
               PROVE  blocks'[h] # NULL /\ blocks'[h].hash = scanned[h]
    BY <1>1 DEF ScannedIsStored
  <2>1. blocks[h] # NULL /\ blocks[h].hash = scanned[h]
    BY <1>1 DEF ChainInv, ScannedIsStored
  <2>2. h \in Stored'
    BY <1>2, <2>1 DEF Stored
  <2>3. blocks'[h] # NULL
    BY <2>2 DEF Stored
  <2> QED BY <1>2, <2>1, <2>2, <2>3
<1>6. RowsScanned' /\ RootsAreLines' /\ WorkerTypes'
  BY <1>1 DEF ChainInv, RowsScanned, RootsAreLines, WorkerTypes
<1> QED BY <1>3, <1>4, <1>5, <1>6 DEF ChainInv

\* The transparent half forgets the heights the shielded half dropped.
LEMMA RewindTransparentKeepsChain ==
  ASSUME ChainInv, IInv, PInv, RewindTransparent
  PROVE  ChainInv'
<1>1. /\ phase = "rewind" /\ TrpRewindToHeight(target) /\ target \in Int /\ TrpTypeOK
      /\ phase' = "shielded" /\ next' = LastHeight + 1 /\ target' = 0
      /\ UNCHANGED <<blocks, transactions, half, unsigned, unanswered, faults>>
  BY DEF RewindTransparent, shielded_vars, client_vars, ChainInv, WorkerTypes,
         PInv, PaymentTables
<1>2. \A h \in Height : scanned'[h] = IF h > target THEN NULL ELSE scanned[h]
  BY <1>1 DEF TrpRewindToHeight
<1>3. \A h \in Height : h \in Int
  BY LedgerAssumption DEF Height
<1>4. ScannedIsStored'
  <2> SUFFICES ASSUME ~half, NEW h \in Height, scanned'[h] # NULL
               PROVE  blocks[h] # NULL /\ blocks[h].hash = scanned'[h]
    BY <1>1 DEF ScannedIsStored
  <2>1. h <= target /\ scanned'[h] = scanned[h]
    BY <1>1, <1>2, <1>3
  <2> QED BY <2>1 DEF ChainInv, ScannedIsStored
<1>5. RowsScanned'
  <2> SUFFICES ASSUME ~half, NEW u \in Utxo, utxos'[u] # NULL, utxos'[u].height # 0
               PROVE  /\ scanned'[utxos'[u].height] # NULL
                      /\ u \in UtxosCreatedIn(scanned'[utxos'[u].height])
    BY <1>1 DEF RowsScanned
  <2>1. /\ utxos[u] # NULL /\ utxos[u].height <= target
        /\ utxos'[u].height = utxos[u].height
    BY <1>1, RewindRow
  <2>2. utxos[u].height \in Height
    BY <1>1, <2>1 DEF TrpTypeOK, UtxoRow
  <2>3. scanned'[utxos[u].height] = scanned[utxos[u].height]
    BY <1>1, <1>2, <1>3, <2>1, <2>2
  <2> QED BY <2>1, <2>3 DEF ChainInv, RowsScanned
<1>6. TreesAreLines' /\ MinedAboveCheckpoint' /\ RootsAreLines'
  BY <1>1 DEF ChainInv, TreesAreLines, MinedAboveCheckpoint, RootsAreLines, Stored, Mined
<1>7. WorkerTypes'
  <2>1. LastHeight + 1 \in Nat \ {0}
    BY Tip, LedgerAssumption DEF IInv
  <2> QED BY <1>1, <2>1 DEF ChainInv, WorkerTypes
<1> QED BY <1>4, <1>5, <1>6, <1>7 DEF ChainInv

\* A checkpoint is a line, and nothing is mined when it is loaded.
LEMMA LoadTreeKeepsChain ==
  ASSUME ChainInv, IInv, NEW tree \in Checkpoint, LoadTree(tree)
  PROVE  ChainInv'
<1> DEFINE h   == Len(tree)
           row == [hash |-> tree[h], sapling_tree |-> tree]
<1>1. /\ Stored = {} /\ h \in Height
      /\ blocks' = [blocks EXCEPT ![h] = row]
      /\ next' = h + 1
      /\ UNCHANGED <<transactions, utxos, scanned, phase, target, half,
                     unsigned, unanswered, faults>>
  BY DEF LoadTree, LoadCheckpoint, client_vars
<1>2. tree \in Seq(Block) /\ IsLine(tree)
  BY WalletAssumption
<1>3. row.hash = tree[h] /\ row.sapling_tree = tree
  OBVIOUS
<1>4. \A k \in Height : blocks[k] = NULL /\ blocks'[k] = IF k = h THEN row ELSE NULL
  BY <1>1 DEF Stored, IInv, TypeOK
<1> HIDE DEF row
<1>5. Stored' \subseteq {h}
  BY <1>4 DEF Stored
<1>6. TreesAreLines'
  BY <1>1, <1>2, <1>3, <1>4, <1>5 DEF TreesAreLines
<1>7. \A t \in Tx : ~Mined(t)
  BY <1>1 DEF IInv, MinedInStored
<1>8. MinedAboveCheckpoint'
  BY <1>1, <1>7 DEF MinedAboveCheckpoint, Mined
<1>9. ScannedIsStored'
  BY <1>1, <1>4 DEF ChainInv, ScannedIsStored
<1>10. RowsScanned' /\ RootsAreLines'
  BY <1>1 DEF ChainInv, RowsScanned, RootsAreLines
<1>11. WorkerTypes'
  <2>1. h + 1 \in Nat \ {0}
    BY <1>1, LedgerAssumption DEF Height
  <2> QED BY <1>1, <2>1 DEF ChainInv, WorkerTypes
<1> QED BY <1>6, <1>8, <1>9, <1>10, <1>11 DEF ChainInv

LEMMA CrashKeepsChain ==
  ASSUME ChainInv, IInv, Crash
  PROVE  ChainInv'
<1>1. /\ phase' = "shielded" /\ next' = LastHeight + 1 /\ target' = 0
      /\ half' = (half \/ phase = "rewind")
      /\ UNCHANGED <<blocks, transactions, utxos, scanned, unsigned, unanswered>>
  BY DEF Crash, shielded_vars, client_vars
<1>2. faults' \in 0..MaxFaults
  BY FaultCounted DEF Crash, ChainInv, WorkerTypes
<1>3. half' \in BOOLEAN
  BY <1>1
<1>4. TreesAreLines' /\ MinedAboveCheckpoint' /\ RootsAreLines'
  BY <1>1 DEF ChainInv, TreesAreLines, MinedAboveCheckpoint, RootsAreLines, Stored, Mined
<1>5. ScannedIsStored' /\ RowsScanned'
  BY <1>1 DEF ChainInv, ScannedIsStored, RowsScanned
<1>6. WorkerTypes'
  <2>1. LastHeight + 1 \in Nat \ {0}
    BY Tip, LedgerAssumption DEF IInv
  <2> QED BY <1>1, <1>2, <1>3, <2>1 DEF ChainInv, WorkerTypes
<1> QED BY <1>4, <1>5, <1>6 DEF ChainInv

LEMMA StepKeepsChain ==
  ASSUME ChainInv, IInv, PInv, [PaymentNext]_payment_vars
  PROVE  ChainInv'
<1>1. CASE UNCHANGED payment_vars
  <2>1. UNCHANGED sync_vars /\ UNCHANGED <<unsigned, unanswered, faults>>
    BY <1>1 DEF payment_vars, client_vars
  <2>2. RootsAreLines' /\ unanswered' \subseteq Payment /\ faults' \in 0..MaxFaults
    BY <2>1 DEF ChainInv, RootsAreLines, WorkerTypes
  <2> QED BY <2>1, <2>2, ClientKeepsChain
<1>2. CASE PaymentNext
  BY <1>2, PrepareKeepsChain, ClientStepsKeepChain, ScanShieldedKeepsChain,
     ScanTransparentKeepsChain, RewindShieldedKeepsChain, RewindTransparentKeepsChain,
     LoadTreeKeepsChain, CrashKeepsChain DEF PaymentNext
<1> QED BY <1>1, <1>2

-----------------------------------------------------------------------------
(* Theorems about payments and the chain *)

\* The invariants hold in every reachable state.
THEOREM PaymentsFollowChain == PaymentSpec => [](ChainInv /\ IInv /\ PInv)
<1>1. PaymentSpec => []IInv
  BY PaymentsKeepTables, InvariantHolds, PTL
<1>2. PaymentSpec => []PInv
  BY LocksHold
<1>3. PaymentInit => ChainInv
  BY InitChainInv
<1>4. ChainInv /\ IInv /\ PInv /\ [PaymentNext]_payment_vars => ChainInv'
  BY StepKeepsChain
<1> QED BY <1>1, <1>2, <1>3, <1>4, PTL DEF PaymentSpec

\* Every column and every message holds a value of its type.
THEOREM PaymentTypeCorrect == PaymentSpec => []PaymentTypeOK
<1>1. ChainInv /\ IInv /\ PInv => PaymentTypeOK
  <2> SUFFICES ASSUME ChainInv, IInv, PInv PROVE PaymentTypeOK
    OBVIOUS
  <2>1. unsigned \in [Payment -> UnsignedTx \cup {NULL}]
    BY DEF PInv, PaymentTables, ChainInv, RootsAreLines
  <2>2. accepted \cup unanswered \cup asked \cup cancelled \subseteq Payment
    BY DEF PInv, PaymentTables, ChainInv, WorkerTypes
  <2> QED BY <2>1, <2>2 DEF PInv, PaymentTables, ChainInv, WorkerTypes, PaymentTypeOK
<1> QED BY <1>1, PaymentsFollowChain, PTL

\* A signed transaction is worth something for as long as its anchor block
\* is stored, and again when a reorganisation comes back to it: a block has
\* one line of ancestors, so all roots handed out are that block's tree.
THEOREM AnchorsAlwaysStand == PaymentSpec => []AnchorsStand
<1>1. ChainInv /\ IInv => AnchorsStand
  <2> SUFFICES ASSUME ChainInv, IInv, NEW p \in Payment, unsigned[p] # NULL,
                      blocks[unsigned[p].anchor] # NULL,
                      blocks[unsigned[p].anchor].hash = unsigned[p].hash,
                      NEW root \in unsigned[p].roots
               PROVE  root = blocks[unsigned[p].anchor].sapling_tree
    BY DEF AnchorsStand
  <2> DEFINE h    == unsigned[p].anchor
             tree == blocks[h].sapling_tree
  <2>1. /\ root \in Seq(Block) /\ Len(root) = h
        /\ root[h] = unsigned[p].hash /\ IsLine(root)
    BY DEF ChainInv, RootsAreLines, Tree
  <2>2. h \in Height /\ h > 0
    BY LedgerAssumption DEF ChainInv, RootsAreLines, UnsignedTx, Height
  <2>3. h \in Stored /\ tree \in Seq(Block)
    BY <2>2 DEF Stored, IInv, TypeOK, BlockRow, Tree
  <2>4. Len(tree) = h /\ tree[h] = blocks[h].hash /\ IsLine(tree)
    BY <2>3 DEF ChainInv, TreesAreLines
  <2> HIDE DEF tree, h
  <2>5. root = tree
    BY <2>1, <2>2, <2>3, <2>4, LineUnique DEF h
  <2> QED BY <2>5 DEF h, tree
<1> QED BY <1>1, PaymentsFollowChain, PTL

\* A note that is deep enough and neither spent nor held has a witness at the
\* anchor: "wait for 10 confirmations" comes to an end, unless rewinds were
\* deeper than the witnesses kept.
THEOREM ConfirmedAlwaysSpendable == PaymentSpec => []ConfirmedNotesSpendable
<1>1. IInv => ConfirmedNotesSpendable
  <2> SUFFICES ASSUME IInv, ~deep, floor + AnchorOffset <= LastHeight + 1,
                      NEW n \in Note, Mined(TxOfNote[n]),
                      LastHeight + 1 - transactions[TxOfNote[n]].block >= AnchorOffset,
                      received_notes[n].spent = NULL, note_payment[n] = NULL
               PROVE  n \in SpendableNotes
    BY DEF ConfirmedNotesSpendable
  <2> DEFINE h == transactions[TxOfNote[n]].block
  <2>1. TxOfNote[n] \in Tx
    BY LedgerAssumption
  <2>2. h \in Stored /\ received_notes[n] # NULL
    BY <2>1 DEF IInv, MinedInStored, NoteHeights
  <2>3. /\ Anchor \in Stored /\ LastHeight + 1 - AnchorOffset <= Anchor
        /\ Stored \subseteq Height /\ LastHeight \in Int
    BY <2>2, AnchorStored, Tip DEF IInv
  <2>4. h \in Int /\ Anchor \in Int /\ floor \in Int /\ AnchorOffset \in Int
    <3>1. \A k \in Height : k \in Int
      BY LedgerAssumption DEF Height
    <3>2. h \in Int /\ Anchor \in Int
      BY <2>2, <2>3, <3>1
    <3>3. floor \in Int
      BY DEF IInv, TypeOK
    <3>4. AnchorOffset \in Int
      BY PaymentAssumption
    <3> QED BY <3>2, <3>3, <3>4
  <2>5. h <= Anchor /\ floor <= Anchor
    BY <2>3, <2>4
  <2>6. sapling_witnesses[n][Anchor] # NULL
    BY <2>3, <2>5 DEF IInv, SpendableUnlessDeep
  <2> QED BY <2>2, <2>5, <2>6 DEF SpendableNotes, Witness
<1> QED BY <1>1, PaymentsFollowChain, PTL

\* What prepare_tx may take, get_balance counts as available one
\* confirmation earlier; the lowest stored block is no exception, because a
\* checkpoint's block has no transactions in the table.
THEOREM SpendableAlwaysAvailable == PaymentSpec => []SpendableIsAvailable
<1>1. ChainInv /\ IInv => SpendableIsAvailable
  <2> SUFFICES ASSUME ChainInv, IInv, Stored # {}, AnchorOffset <= LastHeight,
                      NEW n \in SpendableNotes
               PROVE  n \in AvailableCoins(AnchorOffset - 1, LastHeight)
    BY DEF SpendableIsAvailable
  <2> DEFINE h == transactions[TxOfNote[n]].block
  <2>1. /\ n \in Note /\ Mined(TxOfNote[n]) /\ h <= Anchor
        /\ received_notes[n].spent = NULL /\ note_payment[n] = NULL
        /\ TxOfNote[n] \in Tx
    BY SpendableWitness, LedgerAssumption
  <2>2. h \in Stored /\ received_notes[n] # NULL /\ received_notes[n].height = h
    BY <2>1 DEF IInv, MinedInStored, NoteHeights
  <2>3. h = 1 \/ h - 1 \in Stored
    BY <2>1 DEF ChainInv, MinedAboveCheckpoint
  <2>4. /\ Anchor = LastHeight + 1 - AnchorOffset \/ Anchor = Min(Stored)
        /\ Min(Stored) \in Stored /\ \A k \in Stored : Min(Stored) <= k
        /\ Stored \subseteq Height /\ LastHeight \in Int /\ AnchorOffset \in Int
        /\ \A k \in Height : k \in Int /\ 1 <= k
    BY AnchorStored, LowestStored, Tip, LedgerAssumption, PaymentAssumption DEF IInv, Height
  <2>5. h \in Int /\ Min(Stored) \in Int /\ 1 <= h
    BY <2>2, <2>4
  <2>6. h <= LastHeight + 1 - AnchorOffset
    <3>1. CASE Anchor = LastHeight + 1 - AnchorOffset
      BY <2>1, <3>1
    <3>2. CASE Anchor = Min(Stored)
      <4>1. ~(h - 1 \in Stored)
        BY <2>1, <2>4, <2>5, <3>2
      <4>2. h = 1
        BY <2>3, <4>1
      <4> QED BY <2>4, <4>2
    <3> QED BY <2>4, <3>1, <3>2
  <2>7. h <= LastHeight - (AnchorOffset - 1)
    BY <2>4, <2>5, <2>6
  <2>8. n \in TotalCoins(AnchorOffset - 1, LastHeight)
    BY <2>1, <2>2, <2>7 DEF TotalCoins
  <2> QED BY <2>1, <2>8 DEF AvailableCoins
<1> QED BY <1>1, PaymentsFollowChain, PTL

\* Between rewinds, and unless a crash cut one in two, a coin with a height
\* that prepare_tx may take is created by the block stored at that height.
THEOREM CoinsAlwaysOnChain == PaymentSpec => []CoinsOnStoredChain
<1>1. ChainInv /\ PInv => CoinsOnStoredChain
  <2> SUFFICES ASSUME ChainInv, PInv, phase # "rewind", ~half,
                      NEW u \in SpendableUtxos, utxos[u].height # 0
               PROVE  /\ blocks[utxos[u].height] # NULL
                      /\ u \in UtxosCreatedIn(blocks[utxos[u].height].hash)
    BY DEF CoinsOnStoredChain
  <2> DEFINE h == utxos[u].height
  <2>1. u \in Utxo /\ utxos[u] # NULL
    BY DEF SpendableUtxos
  <2>2. h \in Height
    BY <2>1 DEF PInv, PaymentTables, TrpTypeOK, UtxoRow
  <2>3. scanned[h] # NULL /\ u \in UtxosCreatedIn(scanned[h])
    BY <2>1 DEF ChainInv, RowsScanned
  <2>4. blocks[h] # NULL /\ blocks[h].hash = scanned[h]
    BY <2>2, <2>3 DEF ChainInv, ScannedIsStored
  <2> QED BY <2>3, <2>4
<1> QED BY <1>1, PaymentsFollowChain, PTL

\* A server whose sync checks the parent of every block it scans never mixes
\* two branches: it implements LinkedSpec, and detects every spend.
THEOREM PaymentsStayLinked == PaymentSpec => LinkedSpec
<1>1. ChainInv /\ IInv => Linked
  <2> SUFFICES ASSUME ChainInv, IInv, NEW h \in Stored, h - 1 \in Stored
               PROVE  PrevHash[blocks[h].hash] = blocks[h - 1].hash
    BY DEF Linked
  <2> DEFINE tree == blocks[h].sapling_tree
             low  == blocks[h - 1].sapling_tree
  <2>1. h \in Height /\ h - 1 \in Height /\ h > 1
    BY LedgerAssumption DEF Stored, Height
  <2>2. /\ Len(tree) = h /\ tree[h] = blocks[h].hash /\ IsLine(tree)
        /\ Len(low) = h - 1 /\ low[h - 1] = blocks[h - 1].hash
    BY DEF ChainInv, TreesAreLines
  <2>3. low \in Seq(Block) /\ blocks[h].hash \in Block
    BY RowAssumption DEF IInv, TypeOK, BlockRow, Stored, Tree
  <2>4. tree = Append(low, blocks[h].hash)
    BY DEF IInv, TreesChain
  <2> HIDE DEF tree, low
  <2>5. PrevHash[tree[h]] = tree[h - 1]
    BY <2>1, <2>2, LedgerAssumption DEF IsLine, Height
  <2>6. tree[h - 1] = low[h - 1]
    BY <2>1, <2>2, <2>3, <2>4, LedgerAssumption DEF Height
  <2> QED BY <2>2, <2>5, <2>6
<1>2. [Next]_vars /\ Linked' => [Next /\ Linked']_vars
  OBVIOUS
<1> QED BY <1>1, <1>2, PaymentsFollowChain, PaymentsKeepTables, PTL DEF Spec, LinkedSpec

\* Between the blocks of a sync, payments and rewinds, no spend goes unseen.
THEOREM PaymentsDetectSpends == PaymentSpec => []SpendsDetected
BY PaymentsStayLinked, SpendsAlwaysDetected, PTL

=============================================================================
