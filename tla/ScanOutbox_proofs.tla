--------------------------- MODULE ScanOutbox_proofs ---------------------------
(***************************************************************************)
(* The notifications of a sync, proved for every ledger, every behaviour   *)
(* of the node and every failure: rows are kept, the listener has what is  *)
(* marked delivered, and every balance change a sync records is in the     *)
(* outbox when the sync ends, as far as failures leave it the chance.      *)
(***************************************************************************)
EXTENDS ScanChain_proofs

\* The balance changes this wallet can come to see.
LedgerEvents ==
  {Box!Received(n) : n \in Note}
  \cup (UNION {{Box!Spent(n, t) : n \in NotesSpent[t]} : t \in Tx})
  \cup {Box!ReceivedUtxo(u) : u \in Utxo}
  \cup {Box!SpentUtxo(u) : u \in Utxo}

Row == [coin : Box!Coin, delivered : BOOLEAN]

-----------------------------------------------------------------------------
(* Inductive invariants *)

\* What is pending is what the step at hand has to write.
PendingType ==
  /\ pc \in {"apply", "transparent"} => pending \subseteq LedgerEvents
  /\ pc = "mark" => /\ pending \subseteq Box!Key
                    /\ pending \subseteq received
                    /\ \A k \in pending : notifications[k] # NULL
  /\ pc \notin {"apply", "transparent", "mark"} => pending = {}

\* A row belongs to an event with its key.
RowsOfEvents ==
  \A k \in Box!Key : notifications[k] # NULL =>
    \E e \in LedgerEvents : Box!KeyOf(e) = k /\ e.coin = notifications[k].coin

OutboxInv ==
  /\ notifications \in [Box!Key -> Row \cup {NULL}]
  /\ PendingType
  /\ RowsOfEvents
  /\ DeliveredWasReceived
  /\ pc \notin {"rewind", "trprewind"} => caller = "sync"

\* The events of the block that was just written are still to be stored.
ShieldedDue(e) == Recorded(e) \/ (pc = "apply" /\ e \in pending)

ShieldedAccounted ==
  \A n \in Note : received_notes[n] # NULL =>
    /\ ShieldedDue(Box!Received(n))
    /\ LET t == received_notes[n].spent IN
       t # NULL => Box!Spent(n, t) \in LedgerEvents /\ ShieldedDue(Box!Spent(n, t))

\* The events of the range being scanned are still to be stored, or were
\* dropped with a range that is about to be rewound.
TransparentDue(e, h) ==
  \/ Recorded(e)
  \/ pc = "transparent" /\ e \in pending /\ h >= range.start
  \/ pc \in {"rewind", "trprewind"} /\ caller = "sync" /\ h > target

TransparentAccounted ==
  \A u \in Utxo : utxos[u] # NULL =>
    /\ utxos[u].height # 0 => TransparentDue(Box!ReceivedUtxo(u), utxos[u].height)
    /\ utxos[u].spent => /\ utxos[u].spent_height # NULL
                         /\ TransparentDue(Box!SpentUtxo(u), utxos[u].spent_height)

-----------------------------------------------------------------------------
(* Events and rows *)

LEMMA KeyTyped ==
  ASSUME NEW e, e.coin \in Box!Coin, e.tx \in Tx, e.outgoing \in BOOLEAN
  PROVE  Box!KeyOf(e) \in Box!Key
<1>1. (IF e.outgoing /\ e.coin \in Note THEN SpendIndex[e.coin] ELSE OutputIndex[e.coin])
        \in Box!Index
  BY DEF Box!Index
<1> QED BY <1>1 DEF Box!KeyOf, Box!Key

LEMMA EventKeys ==
  ASSUME NEW e \in LedgerEvents
  PROVE  Box!KeyOf(e) \in Box!Key /\ e.coin \in Box!Coin
<1>1. e.coin \in Box!Coin /\ e.tx \in Tx /\ e.outgoing \in BOOLEAN
  <2>1. CASE \E n \in Note : e = Box!Received(n)
    BY <2>1, LedgerAssumption DEF Box!Received, Box!Coin
  <2>2. CASE \E t \in Tx : \E n \in NotesSpent[t] : e = Box!Spent(n, t)
    <3>1. PICK t \in Tx : \E n \in NotesSpent[t] : e = Box!Spent(n, t)
      BY <2>2
    <3> QED BY <3>1, LedgerAssumption DEF Box!Spent, Box!Coin
  <2>3. CASE \E u \in Utxo : e = Box!ReceivedUtxo(u)
    BY <2>3, LedgerAssumption DEF Box!ReceivedUtxo, Box!Coin
  <2>4. CASE \E u \in Utxo : e = Box!SpentUtxo(u)
    BY <2>4, LedgerAssumption DEF Box!SpentUtxo, Box!Coin
  <2> QED BY <2>1, <2>2, <2>3, <2>4 DEF LedgerEvents
<1> QED BY <1>1, KeyTyped

\* What a block gives rise to are events of the ledger.
LEMMA BlockEvents ==
  ASSUME NEW b \in Block
  PROVE  /\ ShieldedEvents(b) \subseteq LedgerEvents
         /\ TransparentEvents(b) \subseteq LedgerEvents
<1>1. BlockTx[b] \subseteq Tx
  BY LedgerAssumption
<1>2. ShieldedEvents(b) \subseteq LedgerEvents
  <2> SUFFICES ASSUME NEW e \in ShieldedEvents(b) PROVE e \in LedgerEvents
    OBVIOUS
  <2>1. PICK t \in SW!Relevant(b) :
          \/ \E n \in SW!SpendsFound(t) : e = Box!Spent(n, t)
          \/ \E n \in NotesOf(t) : e = Box!Received(n)
    BY DEF ShieldedEvents
  <2>2. t \in Tx
    BY <1>1 DEF SW!Relevant
  <2>3. SW!SpendsFound(t) \subseteq NotesSpent[t] /\ NotesOf(t) \subseteq Note
    BY DEF SW!SpendsFound, NotesOf
  <2>4. CASE \E n \in SW!SpendsFound(t) : e = Box!Spent(n, t)
    <3>1. e \in {Box!Spent(n, t) : n \in NotesSpent[t]}
      BY <2>3, <2>4
    <3> QED BY <2>2, <3>1 DEF LedgerEvents
  <2>5. CASE \E n \in NotesOf(t) : e = Box!Received(n)
    BY <2>3, <2>5 DEF LedgerEvents
  <2> QED BY <2>1, <2>4, <2>5
<1>3. TransparentEvents(b) \subseteq LedgerEvents
  <2>1. UtxosSpentIn(b) \subseteq Utxo /\ UtxosCreatedIn(b) \subseteq Utxo
    BY <1>1, LedgerAssumption DEF UtxosSpentIn, UtxosCreatedIn, UtxosOf
  <2> QED BY <2>1 DEF TransparentEvents, LedgerEvents
<1> QED BY <1>2, <1>3

\* What a step may do to the rows there are.
Kept ==
  \A k \in Box!Key : notifications[k] # NULL =>
    /\ notifications'[k] # NULL
    /\ notifications'[k].coin = notifications[k].coin
    /\ notifications[k].delivered => notifications'[k].delivered

\* Storing an event adds a row or finds one.
LEMMA StoreRow ==
  ASSUME notifications \in [Box!Key -> Row \cup {NULL}],
         NEW e \in LedgerEvents, Box!StoreNotification(e)
  PROVE  /\ notifications' \in [Box!Key -> Row \cup {NULL}]
         /\ notifications'[Box!KeyOf(e)] # NULL
         /\ \A k \in Box!Key : notifications[k] # NULL => notifications'[k] = notifications[k]
         /\ \A k \in Box!Key : notifications[k] = NULL /\ notifications'[k] # NULL =>
              k = Box!KeyOf(e) /\ notifications'[k] = [coin |-> e.coin, delivered |-> FALSE]
<1> DEFINE key == Box!KeyOf(e)
           row == [coin |-> e.coin, delivered |-> FALSE]
<1>1. key \in Box!Key /\ row \in Row /\ row # NULL
  <2>1. key \in Box!Key /\ e.coin \in Box!Coin
    BY EventKeys
  <2>2. row \in Row
    BY <2>1 DEF Row
  <2>3. NULL \notin Row
    BY ScanRowAssumption DEF Row
  <2> HIDE DEF row, key
  <2> QED BY <2>1, <2>2, <2>3
<1>2. notifications' = IF notifications[key] # NULL THEN notifications
                       ELSE [notifications EXCEPT ![key] = row]
  BY DEF Box!StoreNotification
<1> HIDE DEF key, row
<1> QED BY <1>1, <1>2 DEF key, row

\* Marking a row changes nothing but the mark.
LEMMA MarkRow ==
  ASSUME notifications \in [Box!Key -> Row \cup {NULL}],
         NEW key \in Box!Key, notifications[key] # NULL, Box!MarkDelivered(key)
  PROVE  /\ notifications' \in [Box!Key -> Row \cup {NULL}]
         /\ \A k \in Box!Key : k # key => notifications'[k] = notifications[k]
         /\ notifications'[key] # NULL
         /\ notifications'[key].coin = notifications[key].coin
         /\ notifications'[key].delivered
<1> DEFINE row == [notifications[key] EXCEPT !.delivered = TRUE]
<1>1. /\ row \in [coin : Box!Coin, delivered : BOOLEAN]
      /\ row.coin = notifications[key].coin /\ row.delivered
  <2>1. ASSUME NEW r \in [coin : Box!Coin, delivered : BOOLEAN]
        PROVE  /\ [r EXCEPT !.delivered = TRUE] \in [coin : Box!Coin, delivered : BOOLEAN]
               /\ [r EXCEPT !.delivered = TRUE].coin = r.coin
               /\ [r EXCEPT !.delivered = TRUE].delivered
    OBVIOUS
  <2> QED BY <2>1 DEF Row
<1>2. row \in Row /\ row # NULL
  BY <1>1, ScanRowAssumption DEF Row
<1>3. notifications' = [notifications EXCEPT ![key] = row]
  BY DEF Box!MarkDelivered
<1> HIDE DEF row
<1> QED BY <1>1, <1>2, <1>3

\* Two events of one kind of coin with the same key are of one coin: only the
\* shielded and the transparent outputs of one transaction share keys.
LEMMA KeysTellCoinsApart ==
  ASSUME NEW e \in LedgerEvents, NEW f \in LedgerEvents,
         Box!KeyOf(e) = Box!KeyOf(f), (e.coin \in Note) <=> (f.coin \in Note)
  PROVE  e.coin = f.coin
<1> DEFINE IsReceived(g) == \E n \in Note : g = Box!Received(n)
           IsSpent(g) == \E t \in Tx : \E n \in NotesSpent[t] : g = Box!Spent(n, t)
           IsReceivedUtxo(g) == \E u \in Utxo : g = Box!ReceivedUtxo(u)
           IsSpentUtxo(g) == \E u \in Utxo : g = Box!SpentUtxo(u)
<1>1. ASSUME NEW g \in LedgerEvents
      PROVE  IsReceived(g) \/ IsSpent(g) \/ IsReceivedUtxo(g) \/ IsSpentUtxo(g)
  BY <1>1 DEF LedgerEvents
<1>2. ASSUME NEW g \in LedgerEvents
      PROVE  /\ IsReceived(g) => g.coin \in Note /\ ~g.outgoing
             /\ IsSpent(g) => g.coin \in Note /\ g.outgoing
             /\ IsReceivedUtxo(g) => g.coin \notin Note /\ ~g.outgoing
             /\ IsSpentUtxo(g) => g.coin \notin Note /\ g.outgoing
  BY LedgerAssumption, IndexAssumption DEF Box!Received, Box!Spent, Box!ReceivedUtxo, Box!SpentUtxo
<1>3. /\ e.tx = f.tx /\ e.outgoing = f.outgoing
      /\ (IF e.outgoing /\ e.coin \in Note THEN SpendIndex[e.coin] ELSE OutputIndex[e.coin])
         = (IF f.outgoing /\ f.coin \in Note THEN SpendIndex[f.coin] ELSE OutputIndex[f.coin])
  BY DEF Box!KeyOf
<1>4. CASE IsReceived(e) /\ IsReceived(f)
  BY <1>3, <1>4, IndexAssumption DEF Box!Received
<1>5. CASE IsSpent(e) /\ IsSpent(f)
  <2>1. PICK t \in Tx : \E n \in NotesSpent[t] : e = Box!Spent(n, t)
    BY <1>5
  <2>2. PICK m \in NotesSpent[t] : e = Box!Spent(m, t)
    BY <2>1
  <2>3. PICK n \in NotesSpent[t] : f = Box!Spent(n, t)
    <3>1. PICK s \in Tx : \E n \in NotesSpent[s] : f = Box!Spent(n, s)
      BY <1>5
    <3>2. s = t
      BY <1>3, <2>2, <3>1 DEF Box!Spent
    <3> QED BY <3>1, <3>2
  <2>4. SpendIndex[m] = SpendIndex[n]
    BY <1>3, <2>2, <2>3, LedgerAssumption DEF Box!Spent
  <2> QED BY <2>2, <2>3, <2>4, IndexAssumption DEF Box!Spent
<1>6. CASE IsReceivedUtxo(e) /\ IsReceivedUtxo(f)
  BY <1>3, <1>6, IndexAssumption DEF Box!ReceivedUtxo
<1>7. CASE IsSpentUtxo(e) /\ IsSpentUtxo(f)
  BY <1>3, <1>7, IndexAssumption DEF Box!SpentUtxo
<1> HIDE DEF IsReceived, IsSpent, IsReceivedUtxo, IsSpentUtxo
<1> QED BY <1>1, <1>2, <1>3, <1>4, <1>5, <1>6, <1>7

\* Storing an event makes it known.
LEMMA StoredIsRecorded ==
  ASSUME OutboxInv, NEW e \in LedgerEvents, Box!StoreNotification(e)
  PROVE  Recorded(e)'
<1> DEFINE key == Box!KeyOf(e)
<1>1. key \in Box!Key /\ notifications'[key] # NULL
  BY StoreRow, EventKeys DEF OutboxInv
<1>2. CASE notifications[key] # NULL
  <2>1. notifications'[key] = notifications[key]
    BY <1>1, <1>2, StoreRow DEF OutboxInv
  <2>2. PICK f \in LedgerEvents : Box!KeyOf(f) = key /\ f.coin = notifications[key].coin
    BY <1>1, <1>2 DEF OutboxInv, RowsOfEvents
  <2>3. f.coin # e.coin => (f.coin \in Note) # (e.coin \in Note)
    BY <2>2, KeysTellCoinsApart
  <2> QED BY <1>1, <2>1, <2>2, <2>3 DEF Recorded
<1>3. CASE notifications[key] = NULL
  <2>1. notifications'[key] = [coin |-> e.coin, delivered |-> FALSE]
    BY <1>1, <1>3, StoreRow DEF OutboxInv
  <2>2. notifications'[key].coin = e.coin
    BY <2>1
  <2> QED BY <1>1, <2>2 DEF Recorded
<1> QED BY <1>2, <1>3

\* A known event stays known.
LEMMA RecordedStays ==
  ASSUME NEW e, Recorded(e),
         \/ Kept /\ Box!KeyOf(e) \in Box!Key
         \/ UNCHANGED notifications
  PROVE  Recorded(e)'
BY DEF Kept, Recorded

-----------------------------------------------------------------------------
(* Rows are kept, and delivered rows were received *)

LEMMA RowsUnchanged ==
  ASSUME OutboxInv, UNCHANGED notifications, received \subseteq received',
         PendingType',
         pc' \notin {"rewind", "trprewind"} => caller' = "sync"
  PROVE  OutboxInv' /\ Kept
<1>1. RowsOfEvents' /\ DeliveredWasReceived'
  BY DEF OutboxInv, RowsOfEvents, DeliveredWasReceived
<1>2. Kept
  BY DEF Kept
<1> QED BY <1>1, <1>2 DEF OutboxInv

\* A step that stores one of the events it has to.
LEMMA StorePreserves ==
  ASSUME OutboxInv, NEW e \in pending, pc \in {"apply", "transparent"},
         Box!StoreNotification(e), pending' = pending \ {e},
         UNCHANGED <<received, pc, caller>>
  PROVE  OutboxInv' /\ Kept
<1>1. e \in LedgerEvents /\ pending' \subseteq LedgerEvents
  BY DEF OutboxInv, PendingType
<1>2. /\ notifications' \in [Box!Key -> Row \cup {NULL}]
      /\ \A k \in Box!Key : notifications[k] # NULL => notifications'[k] = notifications[k]
      /\ \A k \in Box!Key : notifications[k] = NULL /\ notifications'[k] # NULL =>
           k = Box!KeyOf(e) /\ notifications'[k] = [coin |-> e.coin, delivered |-> FALSE]
  BY <1>1, StoreRow DEF OutboxInv
<1>3. Kept
  BY <1>2 DEF Kept
<1>4. RowsOfEvents'
  <2> SUFFICES ASSUME NEW k \in Box!Key, notifications'[k] # NULL
               PROVE  \E f \in LedgerEvents :
                        Box!KeyOf(f) = k /\ f.coin = notifications'[k].coin
    BY DEF RowsOfEvents
  <2>1. CASE notifications[k] = NULL
    <3>1. k = Box!KeyOf(e) /\ notifications'[k] = [coin |-> e.coin, delivered |-> FALSE]
      BY <1>2, <2>1
    <3>2. notifications'[k].coin = e.coin
      BY <3>1
    <3> QED BY <1>1, <3>1, <3>2
  <2>2. CASE notifications[k] # NULL
    BY <1>2, <2>2 DEF OutboxInv, RowsOfEvents
  <2> QED BY <2>1, <2>2
<1>5. DeliveredWasReceived'
  <2> SUFFICES ASSUME NEW k \in Box!Key, notifications'[k] # NULL, notifications'[k].delivered
               PROVE  k \in received
    BY DEF DeliveredWasReceived
  <2>1. notifications[k] # NULL
    <3>1. ASSUME notifications[k] = NULL PROVE FALSE
      <4>1. notifications'[k] = [coin |-> e.coin, delivered |-> FALSE]
        BY <1>2, <3>1
      <4>2. ~notifications'[k].delivered
        BY <4>1
      <4> QED BY <4>2
    <3> QED BY <3>1
  <2> QED BY <1>2, <2>1 DEF OutboxInv, DeliveredWasReceived
<1>6. PendingType'
  BY <1>1 DEF PendingType
<1> QED BY <1>2, <1>3, <1>4, <1>5, <1>6 DEF OutboxInv

LEMMA MarkPreserves ==
  ASSUME OutboxInv, MarkDelivered
  PROVE  OutboxInv' /\ Kept
<1>1. PICK key \in pending : Box!MarkDelivered(key) /\ pending' = pending \ {key}
  BY DEF MarkDelivered
<1>2. pc = "mark" /\ UNCHANGED <<received, pc, caller>>
  BY DEF MarkDelivered
<1>3. /\ key \in Box!Key /\ key \in received /\ notifications[key] # NULL
      /\ pending \subseteq Box!Key /\ pending \subseteq received
      /\ \A k \in pending : notifications[k] # NULL
  BY <1>1, <1>2 DEF OutboxInv, PendingType
<1>4. /\ notifications' \in [Box!Key -> Row \cup {NULL}]
      /\ \A k \in Box!Key : k # key => notifications'[k] = notifications[k]
      /\ notifications'[key] # NULL
      /\ notifications'[key].coin = notifications[key].coin
      /\ notifications'[key].delivered
  BY <1>1, <1>3, MarkRow DEF OutboxInv
<1>5. Kept
  BY <1>4 DEF Kept
<1>6. RowsOfEvents'
  <2>1. \A k \in Box!Key : notifications'[k] # NULL =>
          notifications[k] # NULL /\ notifications'[k].coin = notifications[k].coin
    BY <1>3, <1>4
  <2> QED BY <2>1 DEF OutboxInv, RowsOfEvents
<1>7. DeliveredWasReceived'
  BY <1>2, <1>3, <1>4 DEF OutboxInv, DeliveredWasReceived
<1>8. PendingType'
  BY <1>1, <1>2, <1>3, <1>4 DEF PendingType
<1> QED BY <1>2, <1>4, <1>5, <1>6, <1>7, <1>8 DEF OutboxInv

\* A POST the listener accepts covers exactly the undelivered rows.
LEMMA PostPreserves ==
  ASSUME OutboxInv, PostAccepted
  PROVE  OutboxInv' /\ Kept
<1>1. /\ received' = received \cup Box!Undelivered /\ pending' = Box!Undelivered
      /\ pc = "notify" /\ pc' = "mark" /\ UNCHANGED <<notifications, caller>>
  BY DEF PostAccepted, Box!ListenerAccepts, Goto
<1>2. PendingType'
  BY <1>1 DEF PendingType, Box!Undelivered
<1>3. caller' = "sync"
  BY <1>1 DEF OutboxInv
<1> QED BY <1>1, <1>2, <1>3, RowsUnchanged

\* Steps that end the handler or move on with nothing pending.
LEMMA ReturnKeepsRows ==
  ASSUME OutboxInv, Return, UNCHANGED notifications, received \subseteq received'
  PROVE  OutboxInv' /\ Kept
<1>1. PendingType' /\ caller' = "sync"
  BY DEF Return, PendingType
<1> QED BY <1>1, RowsUnchanged

\* Every step of the worker, of the node and of the client, and every failure.
LEMMA OutboxStep ==
  ASSUME SyncInv, OutboxInv, [Next]_vars
  PROVE  OutboxInv' /\ Kept
<1>1. CASE StoreShielded \/ StoreTransparent
  <2>1. /\ \E e \in pending : Box!StoreNotification(e) /\ pending' = pending \ {e}
        /\ pc \in {"apply", "transparent"} /\ UNCHANGED <<received, pc, caller>>
    BY <1>1 DEF StoreShielded, StoreTransparent
  <2> QED BY <2>1, StorePreserves
<1>2. CASE MarkDelivered
  BY <1>2, MarkPreserves
<1>3. CASE PostAccepted
  BY <1>3, PostPreserves
<1>4. CASE SyncDone \/ ApplyPanics \/ RpcError \/ PostFails \/ Crash
  BY <1>4, ReturnKeepsRows DEF SyncDone, ApplyPanics, RpcError, PostFails, Crash, Fails,
     outbox, Box!ListenerAccepts
<1>5. CASE RewindTransparent
  <2>1. /\ UNCHANGED <<notifications, received>>
        /\ \/ Return
           \/ pc' = "range" /\ UNCHANGED <<caller, pending>> /\ caller # "rewind"
    BY <1>5 DEF RewindTransparent, Goto, outbox
  <2>2. CASE Return
    BY <2>1, <2>2, ReturnKeepsRows
  <2>3. CASE pc' = "range" /\ UNCHANGED <<caller, pending>> /\ caller # "rewind"
    <3>1. pending = {} /\ caller = "sync"
      BY <1>5, <2>3 DEF RewindTransparent, OutboxInv, PendingType, SyncInv, TypeOK
    <3>2. PendingType' /\ caller' = "sync"
      BY <2>3, <3>1 DEF PendingType
    <3> QED BY <2>1, <3>2, RowsUnchanged
  <2> QED BY <2>1, <2>2, <2>3
<1>6. CASE ApplyBlock
  <2>1. /\ pc = "apply" /\ fetched # << >> /\ pending' = ShieldedEvents(Head(fetched))
        /\ UNCHANGED <<notifications, received, pc, caller>>
    BY <1>6 DEF ApplyBlock, outbox
  <2>2. Head(fetched) \in Block
    BY <2>1, Known, HeadTailProperties
  <2>3. PendingType'
    BY <2>1, <2>2, BlockEvents DEF PendingType
  <2> QED BY <2>1, <2>3, RowsUnchanged DEF OutboxInv
<1>7. CASE ScanTransparentBlock
  <2>1. /\ pc = "transparent" /\ height < range.end
        /\ pending' = pending \cup TransparentEvents(BlockAt(height))
        /\ UNCHANGED <<notifications, received, pc, caller>>
    BY <1>7 DEF ScanTransparentBlock, outbox
  <2>2. BlockAt(height) \in Block
    BY <2>1, TransparentBlock
  <2>3. PendingType'
    BY <2>1, <2>2, BlockEvents DEF PendingType, OutboxInv
  <2> QED BY <2>1, <2>3, RowsUnchanged DEF OutboxInv
<1>8. CASE \/ NewBestChain \/ LoadCheckpoint \/ UNCHANGED vars
  <2>1. UNCHANGED <<notifications, received, pc, caller, pending>>
    BY <1>8 DEF NewBestChain, LoadCheckpoint, vars, outbox, worker
  <2>2. PendingType'
    BY <2>1 DEF OutboxInv, PendingType
  <2> QED BY <2>1, <2>2, RowsUnchanged DEF OutboxInv
<1>9. CASE \/ Sync \/ (\E to \in OperatorRewind : RewindRpc(to))
           \/ GetScanRange \/ OpenBlocks \/ FetchBlock \/ CheckFetched
           \/ RewindShielded
  <2>1. /\ UNCHANGED <<notifications, received, pending>>
        /\ pc \in {"idle", "range", "open", "fetch", "rewind"}
        /\ pc' \in {"range", "rewind", "notify", "open", "fetch", "apply", "trprewind"}
        /\ \/ UNCHANGED caller /\ (pc = "rewind" => pc' = "trprewind")
           \/ pc' = "rewind"
    BY <1>9 DEF Sync, RewindRpc, GetScanRange, OpenBlocks, FetchBlock, CheckFetched,
       RewindShielded, Goto, outbox
  <2>2. pending = {} /\ PendingType'
    BY <2>1 DEF OutboxInv, PendingType
  <2>3. pc' \notin {"rewind", "trprewind"} => caller' = "sync"
    BY <2>1 DEF OutboxInv
  <2> QED BY <2>1, <2>2, <2>3, RowsUnchanged
<1>10. CASE StartTransparent \/ NextRange \/ TransparentReorg
  <2>1. /\ UNCHANGED <<notifications, received, caller>> /\ pending' = {}
        /\ pc \in {"apply", "transparent"} /\ pc' \in {"transparent", "range", "rewind"}
    BY <1>10 DEF StartTransparent, NextRange, TransparentReorg, Goto, outbox
  <2>2. PendingType' /\ caller' = "sync"
    BY <2>1 DEF OutboxInv, PendingType
  <2> QED BY <2>1, <2>2, RowsUnchanged
<1> QED BY <1>1, <1>2, <1>3, <1>4, <1>5, <1>6, <1>7, <1>8, <1>9, <1>10 DEF Next, Work

LEMMA OutboxInit ==
  ASSUME Init
  PROVE  OutboxInv
BY DEF Init, Box!OutboxInit, OutboxInv, PendingType, RowsOfEvents, DeliveredWasReceived

LEMMA OutboxInvariant == Spec => [](SyncInv /\ OutboxInv)
<1>1. Init => SyncInv /\ OutboxInv
  BY SyncInit, OutboxInit
<1>2. SyncInv /\ OutboxInv /\ [Next]_vars => SyncInv' /\ OutboxInv'
  BY StepPreserves, OutboxStep
<1> QED BY <1>1, <1>2, PTL DEF Spec

\* A row is marked delivered only after a POST that held it was accepted.
THEOREM DeliveredIsReceived == Spec => []DeliveredWasReceived
<1>1. SyncInv /\ OutboxInv => DeliveredWasReceived
  BY DEF OutboxInv
<1> QED BY <1>1, OutboxInvariant, PTL

\* No step removes a notification, hands it to another coin or makes it
\* undelivered again: not a rescan, not a lost answer, not a crash.
THEOREM NotificationsAreKept == Spec => RowsAreKept
<1>1. SyncInv /\ OutboxInv /\ [Next]_vars => Kept
  BY OutboxStep
<1>2. Kept => [\A k \in Box!Key : notifications[k] # NULL =>
                 /\ notifications'[k] # NULL
                 /\ notifications'[k].coin = notifications[k].coin
                 /\ notifications[k].delivered => notifications'[k].delivered]_vars
  BY DEF Kept
<1> QED BY <1>1, <1>2, OutboxInvariant, PTL DEF Spec, RowsAreKept

-----------------------------------------------------------------------------
(* Shielded balance changes *)

LEMMA NoteKeys ==
  ASSUME NEW n \in Note
  PROVE  /\ Box!Received(n) \in LedgerEvents
         /\ Box!KeyOf(Box!Received(n)) \in Box!Key
         /\ \A t \in Tx : Box!KeyOf(Box!Spent(n, t)) \in Box!Key
<1>1. Box!Received(n) \in LedgerEvents
  BY DEF LedgerEvents
<1>2. ASSUME NEW t \in Tx PROVE Box!KeyOf(Box!Spent(n, t)) \in Box!Key
  <2>1. /\ Box!Spent(n, t).coin \in Box!Coin /\ Box!Spent(n, t).tx \in Tx
        /\ Box!Spent(n, t).outgoing \in BOOLEAN
    BY DEF Box!Spent, Box!Coin
  <2> QED BY <2>1, KeyTyped
<1> QED BY <1>1, <1>2, EventKeys

\* A scanned block makes rows for its new notes, and records the spends it
\* finds; both have their event.
LEMMA AdvanceRow ==
  ASSUME SW!TypeOK, NEW b \in Block, SW!AdvanceByBlock(b),
         NEW n \in Note, received_notes'[n] # NULL
  PROVE  /\ \/ received_notes[n] # NULL
            \/ Box!Received(n) \in ShieldedEvents(b)
         /\ LET t == received_notes'[n].spent IN
              \/ t = NULL
              \/ received_notes[n] # NULL /\ t = received_notes[n].spent
              \/ Box!Spent(n, t) \in ShieldedEvents(b)
<1> DEFINE h == SW!LastHeight + 1
           spent == IF n \in SW!SpentNotes(b) THEN SW!Spender(b, n)
                    ELSE IF received_notes[n] = NULL THEN NULL ELSE received_notes[n].spent
           marked == SW!MarkAndReceive(b, h)
<1>1. received_notes' = SW!UpdateExpired(marked, SW!PutTxMeta(b, h), h)
  BY DEF SW!AdvanceByBlock
<1>2. marked[n] = IF n \in SW!NewNotes(b) THEN [height |-> h, spent |-> spent]
                  ELSE IF received_notes[n] = NULL THEN NULL
                  ELSE [received_notes[n] EXCEPT !.spent = spent]
  BY DEF SW!MarkAndReceive
<1>3. received_notes[n] # NULL => received_notes[n] \in SW!NoteRow
  BY DEF SW!TypeOK
<1>4. marked[n] # NULL => /\ marked[n].spent = spent
                          /\ [marked[n] EXCEPT !.spent = NULL].spent = NULL
  <2>1. CASE n \in SW!NewNotes(b)
    BY <1>2, <2>1
  <2>2. CASE n \notin SW!NewNotes(b)
    BY <1>2, <1>3, <2>2 DEF SW!NoteRow
  <2> QED BY <2>1, <2>2
<1> HIDE DEF marked, spent
<1>5. received_notes'[n] \in {marked[n], [marked[n] EXCEPT !.spent = NULL]}
      /\ marked[n] # NULL
  BY <1>1 DEF SW!UpdateExpired
<1>6. received_notes'[n].spent \in {NULL, spent}
  BY <1>4, <1>5
<1>7. received_notes[n] # NULL \/ n \in SW!NewNotes(b)
  BY <1>2, <1>5
<1>8. n \in SW!NewNotes(b) => Box!Received(n) \in ShieldedEvents(b)
  BY DEF SW!NewNotes, ShieldedEvents, SW!NotesOf, NotesOf
<1>9. n \in SW!SpentNotes(b) => Box!Spent(n, SW!Spender(b, n)) \in ShieldedEvents(b)
  <2> SUFFICES ASSUME n \in SW!SpentNotes(b)
               PROVE  Box!Spent(n, SW!Spender(b, n)) \in ShieldedEvents(b)
    OBVIOUS
  <2>1. \E t \in SW!Relevant(b) : n \in SW!SpendsFound(t)
    BY DEF SW!SpentNotes
  <2>2. SW!Spender(b, n) \in SW!Relevant(b) /\ n \in SW!SpendsFound(SW!Spender(b, n))
    BY <2>1 DEF SW!Spender
  <2> QED BY <2>2 DEF ShieldedEvents
<1> QED BY <1>6, <1>7, <1>8, <1>9 DEF spent

\* A step that writes no shielded row keeps what is known, and may only
\* drop a pending event by storing it, or by crashing.
LEMMA AccountedStays ==
  ASSUME SyncInv, ShieldedAccounted, Kept, UNCHANGED received_notes,
         \A e \in LedgerEvents : pc = "apply" /\ e \in pending =>
           (pc' = "apply" /\ e \in pending') \/ Recorded(e)',
         pc = "apply" => pending \subseteq LedgerEvents
  PROVE  ShieldedAccounted'
<1> SUFFICES ASSUME NEW n \in Note, received_notes[n] # NULL
             PROVE  /\ ShieldedDue(Box!Received(n))'
                    /\ \A t : t = received_notes[n].spent /\ t # NULL =>
                         ShieldedDue(Box!Spent(n, t))'
  BY DEF ShieldedAccounted
<1>1. ASSUME NEW e, Box!KeyOf(e) \in Box!Key, ShieldedDue(e)
      PROVE  ShieldedDue(e)'
  <2>1. CASE Recorded(e)
    BY <1>1, <2>1, RecordedStays DEF ShieldedDue
  <2>2. CASE pc = "apply" /\ e \in pending
    BY <2>2 DEF ShieldedDue
  <2> QED BY <1>1, <2>1, <2>2 DEF ShieldedDue
<1>2. ShieldedDue(Box!Received(n))'
  BY <1>1, NoteKeys DEF ShieldedAccounted
<1>3. ASSUME NEW t, t = received_notes[n].spent, t # NULL
      PROVE  ShieldedDue(Box!Spent(n, t))'
  <2>1. received_notes[n] \in SW!NoteRow
    BY Known DEF SW!TypeOK
  <2>2. t \in Tx
    BY <1>3, <2>1 DEF SW!NoteRow
  <2> QED BY <1>1, <1>3, <2>2, NoteKeys DEF ShieldedAccounted
<1> QED BY <1>2, <1>3

LEMMA ShieldedStep ==
  ASSUME SyncInv, OutboxInv, [Next]_vars,
         crashes = 0 => ShieldedAccounted
  PROVE  crashes' = 0 => ShieldedAccounted'
<1> SUFFICES ASSUME crashes' = 0 PROVE ShieldedAccounted'
  OBVIOUS
<1>1. Kept /\ PendingType
  BY OutboxStep DEF OutboxInv
<1>2. ~Crash /\ crashes = 0
  <2>1. crashes \in Nat
    BY ScanAssumption DEF SyncInv, TypeOK
  <2>2. ~Crash
    BY <2>1 DEF Crash
  <2>3. UNCHANGED crashes
    BY <2>2 DEF Next, Work, vars, faults, NewBestChain, LoadCheckpoint, Sync, RewindRpc,
       GetScanRange, OpenBlocks, FetchBlock, CheckFetched, ApplyBlock, ApplyPanics,
       StoreShielded, StartTransparent, ScanTransparentBlock, TransparentReorg,
       StoreTransparent, NextRange, RewindShielded, RewindTransparent, PostAccepted,
       MarkDelivered, SyncDone, RpcError, PostFails, Fails
  <2> QED BY <2>2, <2>3
<1>3. ShieldedAccounted
  BY <1>2
<1>4. CASE ApplyBlock
  <2> DEFINE b == Head(fetched)
  <2>1. /\ pc = "apply" /\ pc' = "apply" /\ pending = {} /\ fetched # << >>
        /\ pending' = ShieldedEvents(b) /\ SW!AdvanceByBlock(b)
        /\ UNCHANGED notifications
    BY <1>4 DEF ApplyBlock, outbox
  <2>2. b \in Block
    BY <2>1, Known, HeadTailProperties
  <2> HIDE DEF b
  <2>3. ASSUME NEW e, e \in ShieldedEvents(b) \/ ShieldedDue(e)
        PROVE  ShieldedDue(e)'
    BY <2>1, <2>3 DEF ShieldedDue, Recorded
  <2> SUFFICES ASSUME NEW n \in Note, received_notes'[n] # NULL
               PROVE  /\ ShieldedDue(Box!Received(n))'
                      /\ \A t : t = received_notes'[n].spent /\ t # NULL =>
                           Box!Spent(n, t) \in LedgerEvents /\ ShieldedDue(Box!Spent(n, t))'
    <3>1. LedgerEvents' = LedgerEvents
      BY DEF LedgerEvents
    <3> QED BY <3>1 DEF ShieldedAccounted
  <2>4. received_notes[n] # NULL \/ Box!Received(n) \in ShieldedEvents(b)
    BY <2>1, <2>2, Known, AdvanceRow
  <2>5. ASSUME NEW t, t = received_notes'[n].spent, t # NULL
        PROVE  \/ received_notes[n] # NULL /\ t = received_notes[n].spent
               \/ Box!Spent(n, t) \in ShieldedEvents(b)
    BY <2>1, <2>2, <2>5, Known, AdvanceRow
  <2>6. ShieldedDue(Box!Received(n))'
    BY <1>3, <2>3, <2>4 DEF ShieldedAccounted
  <2>7. ASSUME NEW t, t = received_notes'[n].spent, t # NULL
        PROVE  Box!Spent(n, t) \in LedgerEvents /\ ShieldedDue(Box!Spent(n, t))'
    BY <1>3, <2>2, <2>3, <2>5, <2>7, BlockEvents DEF ShieldedAccounted
  <2> QED BY <2>6, <2>7
<1>5. CASE StoreShielded \/ StoreTransparent
  <2>1. PICK e \in pending : Box!StoreNotification(e) /\ pending' = pending \ {e}
    BY <1>5 DEF StoreShielded, StoreTransparent
  <2>2. pc \in {"apply", "transparent"} /\ UNCHANGED <<pc, received_notes>>
    BY <1>5 DEF StoreShielded, StoreTransparent, shielded
  <2>3. pending \subseteq LedgerEvents
    BY <1>1, <2>2 DEF PendingType
  <2>4. Recorded(e)'
    BY <2>1, <2>3, StoredIsRecorded
  <2> QED BY <1>1, <1>3, <2>1, <2>2, <2>3, <2>4, AccountedStays
<1>6. CASE ~ApplyBlock /\ ~StoreShielded /\ ~StoreTransparent
  <2>1. UNCHANGED received_notes
    BY <1>2, <1>6 DEF Next, Work, vars, shielded, NewBestChain, LoadCheckpoint,
       SW!LoadCheckpoint, Sync, RewindRpc, GetScanRange, OpenBlocks, FetchBlock,
       CheckFetched, ApplyPanics, StartTransparent, ScanTransparentBlock,
       TransparentReorg, NextRange, RewindShielded, SW!RewindToHeight, SW!vars, SW!tables,
       RewindTransparent, PostAccepted, MarkDelivered, SyncDone, RpcError, PostFails, Fails
  <2>2. pc = "apply" => pending = {} \/ (pc' = "apply" /\ pending' = pending)
    BY <1>2, <1>6 DEF Next, Work, vars, worker, NewBestChain, LoadCheckpoint, Sync,
       RewindRpc, GetScanRange, OpenBlocks, FetchBlock, CheckFetched, ApplyPanics,
       StartTransparent, ScanTransparentBlock, TransparentReorg, NextRange,
       RewindShielded, RewindTransparent, PostAccepted, MarkDelivered, SyncDone, RpcError,
       PostFails
  <2> QED BY <1>1, <1>3, <2>1, <2>2, AccountedStays DEF PendingType
<1> QED BY <1>4, <1>5, <1>6

\* Every note of a mined transaction, and every spend of one that was found,
\* has a row in the outbox when a sync ends, its own or one of the same
\* transaction's transparent coins: whatever was rewound, and whichever RPC,
\* POST or block failed.  Only a crash between the commit of a block and its
\* notifications loses one.
THEOREM ShieldedChangesRecorded == Spec => []ShieldedRecorded
<1> DEFINE Inv == SyncInv /\ OutboxInv /\ (crashes = 0 => ShieldedAccounted)
<1>1. Init => Inv
  BY SyncInit, OutboxInit DEF Init, SW!Init, ShieldedAccounted
<1>2. Inv /\ [Next]_vars => Inv'
  BY StepPreserves, OutboxStep, ShieldedStep
<1>3. Inv => ShieldedRecorded
  <2> SUFFICES ASSUME Inv, pc = "idle", crashes = 0, NEW n \in Note,
                      SW!Mined(TxOfNote[n])
               PROVE  /\ Recorded(Box!Received(n))
                      /\ LET t == received_notes[n].spent IN
                         (t # NULL => Recorded(Box!Spent(n, t)))
    BY DEF ShieldedRecorded
  <2>1. received_notes[n] # NULL
    BY DEF SyncInv, SWP!IInv, SWP!NoteHeights, SW!Mined, SWP!Mined
  <2> QED BY <2>1 DEF ShieldedAccounted, ShieldedDue
<1> QED BY <1>1, <1>2, <1>3, PTL DEF Spec

-----------------------------------------------------------------------------
(* Transparent balance changes *)

LEMMA UtxoKeys ==
  ASSUME NEW u \in Utxo
  PROVE  /\ Box!ReceivedUtxo(u) \in LedgerEvents /\ Box!SpentUtxo(u) \in LedgerEvents
         /\ Box!KeyOf(Box!ReceivedUtxo(u)) \in Box!Key
         /\ Box!KeyOf(Box!SpentUtxo(u)) \in Box!Key
<1>1. Box!ReceivedUtxo(u) \in LedgerEvents /\ Box!SpentUtxo(u) \in LedgerEvents
  BY DEF LedgerEvents
<1> QED BY <1>1, EventKeys

\* The columns of a row.
LEMMA UtxoColumns ==
  ASSUME SyncInv, NEW u \in Utxo, utxos[u] # NULL
  PROVE  /\ utxos[u].height \in Int
         /\ utxos[u].spent_height # NULL => utxos[u].spent_height \in Int
<1>1. utxos[u] \in TW!UtxoRow
  BY Known DEF TW!TrpTypeOK
<1>2. /\ utxos[u].height \in TW!Height \cup {0}
      /\ utxos[u].spent_height \in TW!Height \cup {NULL}
  BY <1>1 DEF TW!UtxoRow
<1>3. TW!Height \subseteq Int
  BY Known DEF TW!Height
<1>4. /\ \A x \in TW!Height \cup {0} : x \in Int
      /\ \A x \in TW!Height \cup {NULL} : x # NULL => x \in Int
  BY <1>3
<1> QED BY <1>2, <1>4, Zenon

\* A step that writes no transparent row.
LEMMA TransparentStays ==
  ASSUME SyncInv, TransparentAccounted, Kept, UNCHANGED utxos,
         \A e \in LedgerEvents, h \in Int :
           ~Recorded(e) /\ TransparentDue(e, h) => TransparentDue(e, h)'
  PROVE  TransparentAccounted'
<1>1. ASSUME NEW e \in LedgerEvents, NEW h \in Int, TransparentDue(e, h)
      PROVE  TransparentDue(e, h)'
  <2>1. CASE Recorded(e)
    BY <2>1, EventKeys, RecordedStays DEF TransparentDue
  <2> QED BY <1>1, <2>1
<1> SUFFICES ASSUME NEW u \in Utxo, utxos[u] # NULL
             PROVE  /\ utxos[u].height # 0 =>
                         TransparentDue(Box!ReceivedUtxo(u), utxos[u].height)'
                    /\ utxos[u].spent =>
                         /\ utxos[u].spent_height # NULL
                         /\ TransparentDue(Box!SpentUtxo(u), utxos[u].spent_height)'
  BY DEF TransparentAccounted, TransparentDue, Recorded
<1> QED BY <1>1, UtxoKeys, UtxoColumns DEF TransparentAccounted

\* A scanned block has the events of the coins it creates and spends, and
\* writes no other height.
LEMMA ScanRows ==
  ASSUME NEW b \in Block, TW!ScanBlock(b), NEW u \in Utxo, utxos'[u] # NULL
  PROVE  /\ utxos'[u].height # 0 =>
              \/ utxos[u] # NULL /\ utxos'[u].height = utxos[u].height
              \/ /\ Box!ReceivedUtxo(u) \in TransparentEvents(b)
                 /\ utxos'[u].height = HeightOf[b]
         /\ utxos'[u].spent =>
              \/ /\ utxos[u] # NULL /\ utxos[u].spent
                 /\ utxos'[u].spent_height = utxos[u].spent_height
              \/ /\ Box!SpentUtxo(u) \in TransparentEvents(b)
                 /\ utxos'[u].spent_height = HeightOf[b]
<1> DEFINE h == HeightOf[b]
           first == IF u \in UtxosCreatedIn(b) THEN h ELSE 0
<1>1. utxos'[u] = IF u \in UtxosSpentIn(b) THEN TW!Upsert(u, first, TRUE, h)
                  ELSE IF u \in UtxosCreatedIn(b) THEN TW!Upsert(u, h, FALSE, NULL)
                  ELSE utxos[u]
  BY Zenon DEF TW!ScanBlock, TW!UtxosSpentIn, TW!UtxosCreatedIn, UtxosSpentIn,
     UtxosCreatedIn, TW!UtxosOf, UtxosOf
<1>2. CASE u \in UtxosSpentIn(b)
  <2>1. /\ utxos'[u].height = IF utxos[u] = NULL THEN first ELSE utxos[u].height
        /\ utxos'[u].spent_height = h
    BY <1>1, <1>2 DEF TW!Upsert
  <2>2. Box!SpentUtxo(u) \in TransparentEvents(b)
    BY <1>2 DEF TransparentEvents
  <2>3. u \in UtxosCreatedIn(b) => Box!ReceivedUtxo(u) \in TransparentEvents(b)
    BY DEF TransparentEvents
  <2> QED BY <2>1, <2>2, <2>3
<1>3. CASE u \notin UtxosSpentIn(b) /\ u \in UtxosCreatedIn(b)
  <2>1. /\ utxos'[u].height = IF utxos[u] = NULL THEN h ELSE utxos[u].height
        /\ ~utxos'[u].spent
    BY <1>1, <1>3 DEF TW!Upsert
  <2>2. Box!ReceivedUtxo(u) \in TransparentEvents(b)
    BY <1>3 DEF TransparentEvents
  <2> QED BY <2>1, <2>2
<1>4. CASE u \notin UtxosSpentIn(b) /\ u \notin UtxosCreatedIn(b)
  BY <1>1, <1>4
<1> QED BY <1>2, <1>3, <1>4

\* A rewind leaves rows and spends of heights up to its target only.
LEMMA RewindRows ==
  ASSUME SyncInv, TW!TrpRewindToHeight(target), NEW u \in Utxo, utxos'[u] # NULL
  PROVE  /\ utxos[u] # NULL /\ utxos'[u].height = utxos[u].height
         /\ ~(utxos[u].height > target)
         /\ utxos'[u].spent =>
              /\ utxos[u].spent /\ utxos'[u].spent_height = utxos[u].spent_height
              /\ utxos[u].spent_height # NULL => ~(utxos[u].spent_height > target)
<1>1. utxos'[u] = IF utxos[u] = NULL \/ utxos[u].height > target THEN NULL
                  ELSE IF utxos[u].spent_height # NULL /\ utxos[u].spent_height > target
                  THEN [utxos[u] EXCEPT !.spent = FALSE, !.spent_height = NULL]
                  ELSE utxos[u]
  BY DEF TW!TrpRewindToHeight
<1>2. utxos[u] # NULL /\ ~(utxos[u].height > target)
  BY <1>1
<1>3. utxos[u] \in TW!UtxoRow
  BY <1>2, Known DEF TW!TrpTypeOK
<1>4. CASE utxos[u].spent_height # NULL /\ utxos[u].spent_height > target
  <2>1. utxos'[u] = [utxos[u] EXCEPT !.spent = FALSE, !.spent_height = NULL]
    BY <1>1, <1>2, <1>4
  <2>2. utxos'[u].height = utxos[u].height /\ ~utxos'[u].spent
    BY <1>3, <2>1 DEF TW!UtxoRow
  <2> QED BY <1>2, <2>2
<1>5. CASE ~(utxos[u].spent_height # NULL /\ utxos[u].spent_height > target)
  BY <1>1, <1>2, <1>5
<1> QED BY <1>4, <1>5

LEMMA TransparentStep ==
  ASSUME SyncInv, OutboxInv, [Next]_vars,
         errors + crashes = 0 => TransparentAccounted
  PROVE  errors' + crashes' = 0 => TransparentAccounted'
<1> SUFFICES ASSUME errors' + crashes' = 0 PROVE TransparentAccounted'
  OBVIOUS
<1>1. Kept /\ PendingType
  BY OutboxStep DEF OutboxInv
<1>2. ~Crash /\ ~RpcError /\ ~PostFails /\ errors + crashes = 0
  <2>1. errors \in Nat /\ crashes \in Nat
    BY ScanAssumption DEF SyncInv, TypeOK
  <2>2. errors' \in Nat /\ crashes' \in Nat
    BY StepPreserves, ScanAssumption DEF SyncInv, TypeOK
  <2>3. errors' = 0 /\ crashes' = 0
    <3>1. \A m, n \in Nat : m + n = 0 => m = 0 /\ n = 0
      OBVIOUS
    <3> QED BY <2>2, <3>1
  <2>4. ~Crash /\ ~RpcError /\ ~PostFails
    BY <2>1, <2>3 DEF Crash, RpcError, PostFails, Fails
  <2>5. UNCHANGED <<errors, crashes>>
    BY <2>4 DEF Next, Work, vars, faults, NewBestChain, LoadCheckpoint, Sync, RewindRpc,
       GetScanRange, OpenBlocks, FetchBlock, CheckFetched, ApplyBlock, ApplyPanics,
       StoreShielded, StartTransparent, ScanTransparentBlock, TransparentReorg,
       StoreTransparent, NextRange, RewindShielded, RewindTransparent, PostAccepted,
       MarkDelivered, SyncDone
  <2> QED BY <2>4, <2>5
<1>3. TransparentAccounted
  BY <1>2
<1>4. CASE ScanTransparentBlock
  <2> DEFINE b == BlockAt(height)
  <2>1. /\ pc = "transparent" /\ pc' = "transparent" /\ height < range.end
        /\ TW!ScanBlock(b) /\ pending' = pending \cup TransparentEvents(b)
        /\ UNCHANGED <<notifications, range>>
    BY <1>4 DEF ScanTransparentBlock, outbox
  <2>2. b \in Block /\ HeightOf[b] = height
    BY <2>1, TransparentBlock
  <2>3. height >= range.start
    BY <2>1, Known DEF SyncInv, BatchCovers
  <2> HIDE DEF b
  <2>4. ASSUME NEW e, NEW h, TransparentDue(e, h)
        PROVE  TransparentDue(e, h)'
    BY <2>1, <2>4 DEF TransparentDue, Recorded
  <2>5. ASSUME NEW e \in TransparentEvents(b), NEW h, h = height
        PROVE  TransparentDue(e, h)'
    BY <2>1, <2>3, <2>5 DEF TransparentDue
  <2> SUFFICES ASSUME NEW u \in Utxo, utxos'[u] # NULL
               PROVE  /\ \A h : h = utxos'[u].height /\ h # 0 =>
                           TransparentDue(Box!ReceivedUtxo(u), h)'
                      /\ \A h : utxos'[u].spent /\ h = utxos'[u].spent_height =>
                           h # NULL /\ TransparentDue(Box!SpentUtxo(u), h)'
    BY DEF TransparentAccounted, TransparentDue, Recorded
  <2>6. ASSUME NEW h, h = utxos'[u].height, h # 0
        PROVE  TransparentDue(Box!ReceivedUtxo(u), h)'
    BY <1>3, <2>1, <2>2, <2>4, <2>5, <2>6, ScanRows DEF TransparentAccounted
  <2>7. ASSUME NEW h, utxos'[u].spent, h = utxos'[u].spent_height
        PROVE  h # NULL /\ TransparentDue(Box!SpentUtxo(u), h)'
    <3>1. height # NULL
      BY Known, NullAssumption
    <3> QED BY <1>3, <2>1, <2>2, <2>4, <2>5, <2>7, <3>1, ScanRows DEF TransparentAccounted
  <2> QED BY <2>6, <2>7
<1>5. CASE RewindTransparent
  <2>1. /\ pc = "trprewind" /\ TW!TrpRewindToHeight(target) /\ UNCHANGED notifications
    BY <1>5 DEF RewindTransparent, outbox
  <2>2. ASSUME NEW e, NEW h, TransparentDue(e, h), ~(h > target)
        PROVE  TransparentDue(e, h)'
    BY <2>1, <2>2 DEF TransparentDue, Recorded
  <2> SUFFICES ASSUME NEW u \in Utxo, utxos'[u] # NULL
               PROVE  /\ \A h : h = utxos'[u].height /\ h # 0 =>
                           TransparentDue(Box!ReceivedUtxo(u), h)'
                      /\ \A h : utxos'[u].spent /\ h = utxos'[u].spent_height =>
                           h # NULL /\ TransparentDue(Box!SpentUtxo(u), h)'
    BY DEF TransparentAccounted, TransparentDue, Recorded
  <2>3. ASSUME NEW h, h = utxos'[u].height, h # 0
        PROVE  TransparentDue(Box!ReceivedUtxo(u), h)'
    BY <1>3, <2>1, <2>2, <2>3, RewindRows DEF TransparentAccounted
  <2>4. ASSUME NEW h, utxos'[u].spent, h = utxos'[u].spent_height
        PROVE  h # NULL /\ TransparentDue(Box!SpentUtxo(u), h)'
    BY <1>3, <2>1, <2>2, <2>4, RewindRows DEF TransparentAccounted
  <2> QED BY <2>3, <2>4
<1>6. CASE StoreShielded \/ StoreTransparent
  <2>1. PICK e \in pending : Box!StoreNotification(e) /\ pending' = pending \ {e}
    BY <1>6 DEF StoreShielded, StoreTransparent
  <2>2. pc \in {"apply", "transparent"} /\ UNCHANGED <<pc, utxos, caller, range, target>>
    BY <1>6 DEF StoreShielded, StoreTransparent, trp
  <2>3. Recorded(e)'
    BY <1>1, <2>1, <2>2, StoredIsRecorded DEF PendingType
  <2>4. ASSUME NEW f \in LedgerEvents, NEW h \in Int, ~Recorded(f), TransparentDue(f, h)
        PROVE  TransparentDue(f, h)'
    BY <2>1, <2>2, <2>3, <2>4 DEF TransparentDue
  <2> QED BY <1>1, <1>3, <2>2, <2>4, TransparentStays
<1>7. CASE TransparentReorg
  <2>1. /\ pc = "transparent" /\ pc' = "rewind" /\ caller = "sync"
        /\ target' = range.start - RewindDepth /\ UNCHANGED <<utxos, caller>>
    BY <1>7 DEF TransparentReorg, Goto, RewindTarget, trp, OutboxInv
  <2>2. ASSUME NEW f \in LedgerEvents, NEW h \in Int, ~Recorded(f), TransparentDue(f, h)
        PROVE  TransparentDue(f, h)'
    <3>1. h >= range.start
      BY <2>1, <2>2 DEF TransparentDue
    <3>2. h > range.start - RewindDepth
      BY <3>1, ScanAssumption, Known
    <3> QED BY <2>1, <3>2 DEF TransparentDue
  <2> QED BY <1>1, <1>3, <2>1, <2>2, TransparentStays
<1>8. CASE RewindShielded
  <2>1. pc = "rewind" /\ pc' = "trprewind" /\ UNCHANGED <<utxos, caller, target>>
    BY <1>8 DEF RewindShielded, Goto, trp
  <2>2. ASSUME NEW f \in LedgerEvents, NEW h \in Int, ~Recorded(f), TransparentDue(f, h)
        PROVE  TransparentDue(f, h)'
    BY <2>1, <2>2 DEF TransparentDue
  <2> QED BY <1>1, <1>3, <2>1, <2>2, TransparentStays
<1>9. CASE ~ScanTransparentBlock /\ ~RewindTransparent /\ ~StoreShielded
           /\ ~StoreTransparent /\ ~TransparentReorg /\ ~RewindShielded
  <2>1. UNCHANGED utxos
    BY <1>2, <1>9 DEF Next, Work, vars, trp, NewBestChain, LoadCheckpoint, Sync, RewindRpc,
       GetScanRange, OpenBlocks, FetchBlock, CheckFetched, ApplyBlock, ApplyPanics,
       StartTransparent, NextRange, PostAccepted, MarkDelivered, SyncDone
  <2>2. \/ pc \notin {"transparent", "rewind", "trprewind"}
        \/ pc = "transparent" /\ pending = {}
        \/ UNCHANGED <<pc, pending, range, caller, target>>
    BY <1>2, <1>9 DEF Next, Work, vars, worker, NewBestChain, LoadCheckpoint, Sync,
       RewindRpc, GetScanRange, OpenBlocks, FetchBlock, CheckFetched, ApplyBlock,
       ApplyPanics, StartTransparent, NextRange, PostAccepted, MarkDelivered, SyncDone
  <2>3. ASSUME NEW f \in LedgerEvents, NEW h \in Int, ~Recorded(f), TransparentDue(f, h)
        PROVE  TransparentDue(f, h)'
    BY <2>2, <2>3 DEF TransparentDue
  <2> QED BY <1>1, <1>3, <2>1, <2>3, TransparentStays
<1> QED BY <1>4, <1>5, <1>6, <1>7, <1>8, <1>9

\* As long as nothing fails, every transparent coin received and every one
\* spent has a row between syncs, its own or one of the same transaction's
\* notes, also when the range that saw it was cut short by a reorganisation:
\* the rewind reaches below that range.
THEOREM TransparentChangesRecorded == Spec => []TransparentRecorded
<1> DEFINE Inv == SyncInv /\ OutboxInv
                  /\ (errors + crashes = 0 => TransparentAccounted)
<1>1. Init => Inv
  BY SyncInit, OutboxInit DEF Init, TW!TrpInit, TransparentAccounted
<1>2. Inv /\ [Next]_vars => Inv'
  BY StepPreserves, OutboxStep, TransparentStep
<1>3. Inv => TransparentRecorded
  BY DEF TransparentAccounted, TransparentDue, TransparentRecorded
<1> QED BY <1>1, <1>2, <1>3, PTL DEF Spec

===============================================================================
