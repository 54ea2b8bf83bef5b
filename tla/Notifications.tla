---------------------------- MODULE Notifications ----------------------------
(***************************************************************************)
(* The notifications table as an outbox: store_notification (db.rs), and   *)
(* notify_tx (notification.rs), which posts every undelivered row in one   *)
(* request and marks them once the listener answered with success.         *)
(*                                                                         *)
(* A balance change is an event [coin, tx, outgoing].  Its row is found by *)
(* the columns of the notification_output constraint: for a transparent    *)
(* spend, scan_inputs fills in the transaction and output it spends.       *)
(***************************************************************************)
EXTENDS Ledger

CONSTANT OutputIndex   \* coin -> its index among the outputs of its transaction
CONSTANT SpendIndex    \* note -> its index among the shielded spends of the spender

Coin  == Note \cup Utxo
Index == {OutputIndex[c] : c \in Coin} \cup {SpendIndex[n] : n \in Note}

Received(n)        == [coin |-> n, tx |-> TxOfNote[n], outgoing |-> FALSE]
Spent(n, t)        == [coin |-> n, tx |-> t, outgoing |-> TRUE]
ReceivedUtxo(u)    == [coin |-> u, tx |-> TxOfUtxo[u], outgoing |-> FALSE]
SpentUtxo(u)       == [coin |-> u, tx |-> TxOfUtxo[u], outgoing |-> TRUE]

Key == Tx \X Index \X BOOLEAN

KeyOf(e) ==
  <<e.tx,
    IF e.outgoing /\ e.coin \in Note THEN SpendIndex[e.coin] ELSE OutputIndex[e.coin],
    e.outgoing>>

VARIABLES
  notifications,   \* key |-> [coin, delivered], or NULL
  received         \* external: keys the listener has accepted

outbox == <<notifications, received>>

OutboxInit ==
  /\ notifications = [k \in Key |-> NULL]
  /\ received = {}

\* Not part of the model: a plausible slip, ON CONFLICT DO UPDATE.
FaultyStoreNotification(e) ==
  notifications' =
    [notifications EXCEPT ![KeyOf(e)] = [coin |-> e.coin, delivered |-> FALSE]]

\* ON CONFLICT ON CONSTRAINT notification_output DO NOTHING
StoreNotification(e) ==
  notifications' =
    IF notifications[KeyOf(e)] # NULL THEN notifications
    ELSE [notifications EXCEPT ![KeyOf(e)] = [coin |-> e.coin, delivered |-> FALSE]]

Undelivered == {k \in Key : notifications[k] # NULL /\ ~notifications[k].delivered}

\* The listener has the request; its answer may still be lost.
ListenerAccepts(batch) == received' = received \cup batch

MarkDelivered(k) ==
  notifications' = [notifications EXCEPT ![k] = [@ EXCEPT !.delivered = TRUE]]

=============================================================================
