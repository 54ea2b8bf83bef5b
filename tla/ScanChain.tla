------------------------------ MODULE ScanChain ------------------------------
(***************************************************************************)
(* One sync of the server: scan_chain (scan.rs) driving the shielded       *)
(* tables, the transparent table and the outbox, one RPC or one database   *)
(* transaction per step, against a zcashd whose best chain may change      *)
(* between any two steps.                                                  *)
(*                                                                         *)
(*   range -> open -> fetch -> apply -> transparent -> range -> ...        *)
(*                      \---------\----> rewind -> trprewind ^             *)
(*   range -> notify -> mark -> idle                                       *)
(*                                                                         *)
(* The sync and rewind handlers both hold data_mutex (zams.rs), so one     *)
(* worker stands for all of them.  A step that fails, a panic and a crash  *)
(* of the process all lose the worker's memory and keep the tables.        *)
(***************************************************************************)
EXTENDS ZcashNode

CONSTANTS
  PruneDepth,    \* 100 in advance_by_block
  RewindDepth,   \* 10 in scan_chain
  MaxChunk,      \* MAX_CHUNK, 1000
  Checkpoint,    \* tree states that may be loaded while setting up
  OperatorRewind,\* heights the Rewind RPC is called with
  OutputIndex, SpendIndex,
  MaxErrors,     \* bound: RPCs and POSTs that fail
  MaxCrashes,    \* bound: crashes of the server
  MaxFaults      \* bound: both together

ASSUME ScanAssumption ==
  /\ PruneDepth \in Nat /\ RewindDepth \in Nat \ {0} /\ MaxChunk \in Nat \ {0}
  /\ MaxErrors \in Nat /\ MaxCrashes \in Nat /\ MaxFaults \in Nat
  /\ Checkpoint \subseteq Seq(Block)
  /\ \A tree \in Checkpoint : IsLine(tree)
  /\ OperatorRewind \subseteq 0..MaxHeight

VARIABLES
  blocks, transactions, received_notes, sapling_witnesses, \* shielded tables
  floor, deep,
  utxos, scanned,                                          \* transparent table
  notifications, received,                                 \* outbox, listener
  pc,          \* where the worker is
  caller,      \* the handler it runs: "sync" or "rewind"
  range,       \* heights to scan, [start, end), from get_scan_range
  upto,        \* last height with_blocks fetches
  fetched,     \* blocks fetched and not yet applied
  height,      \* next height of the transparent scan
  pending,     \* events, or rows, this step still has to write
  target,      \* height to rewind to
  errors, crashes,   \* how many there were
  torn         \* history: the best chain was replaced under a fetch

\* All a rewind can be asked for: range.start - RewindDepth may be negative.
RewindTargets == (0 - RewindDepth)..MaxHeight

SW   == INSTANCE SaplingWallet WITH RewindHeight <- RewindTargets
TW   == INSTANCE TransparentWallet WITH TrpRewindHeight <- RewindTargets
Box  == INSTANCE Notifications

\* "No such row" is not a row.
ASSUME ScanRowAssumption ==
  /\ NULL \notin SW!BlockRow /\ NULL \notin SW!TxRow /\ NULL \notin SW!NoteRow
  /\ NULL \notin TW!UtxoRow
  /\ NULL \notin [coin : Box!Coin, delivered : BOOLEAN]

\* The outputs of one kind of a transaction, and the notes it spends, are
\* numbered within it.
ASSUME IndexAssumption ==
  /\ Note \cap Utxo = {}
  /\ \A m, n \in Note :
       TxOfNote[m] = TxOfNote[n] /\ OutputIndex[m] = OutputIndex[n] => m = n
  /\ \A u, v \in Utxo :
       TxOfUtxo[u] = TxOfUtxo[v] /\ OutputIndex[u] = OutputIndex[v] => u = v
  /\ \A t \in Tx : \A m, n \in NotesSpent[t] : SpendIndex[m] = SpendIndex[n] => m = n

shielded == <<blocks, transactions, received_notes, sapling_witnesses, floor, deep>>
trp      == <<utxos, scanned>>
outbox   == <<notifications, received>>
worker   == <<pc, caller, range, upto, fetched, height, pending, target>>
faults   == <<errors, crashes>>
vars     == <<chain, shielded, trp, outbox, worker, faults, torn>>

NoRange == [start |-> 0, end |-> 0]

-----------------------------------------------------------------------------
Init ==
  /\ NodeInit
  /\ SW!Init
  /\ TW!TrpInit
  /\ Box!OutboxInit
  /\ pc = "idle" /\ caller = "sync" /\ range = NoRange /\ upto = 0
  /\ fetched = << >> /\ height = 0 /\ pending = {} /\ target = 0
  /\ errors = 0 /\ crashes = 0
  /\ torn = FALSE

\* The worker's locals go out of scope.
Return ==
  /\ pc' = "idle" /\ caller' = "sync" /\ range' = NoRange /\ upto' = 0
  /\ fetched' = << >> /\ height' = 0 /\ pending' = {} /\ target' = 0

Goto(next) == pc' = next

\* The blocks fetched so far are no longer on the best chain.
FetchedOrphaned(c) ==
  /\ pc = "fetch" /\ fetched # << >>
  /\ c[HeightOf[fetched[Len(fetched)]]] # fetched[Len(fetched)]

NewBestChain ==
  /\ NodeAdvances
  /\ torn' = (torn \/ FetchedOrphaned(chain'))
  /\ UNCHANGED <<shielded, trp, outbox, worker, faults>>

\* cli load-checkpoint, during set-up: before the first sync.
LoadCheckpoint ==
  /\ pc = "idle"
  /\ \E tree \in Checkpoint :
       /\ Len(tree) <= TipHeight
       /\ tree = SubSeq(chain, 1, Len(tree))
       /\ SW!LoadCheckpoint(tree)
  /\ UNCHANGED <<chain, trp, outbox, worker, faults, torn>>

Sync ==
  /\ pc = "idle"
  /\ Goto("range")
  /\ UNCHANGED <<chain, shielded, trp, outbox, faults, torn,
                 caller, range, upto, fetched, height, pending, target>>

\* The Rewind RPC; with an empty blocks table it panics, see SaplingWallet.
RewindRpc(to) ==
  /\ pc = "idle" /\ SW!Stored # {}
  /\ Goto("rewind")
  /\ caller' = "rewind"
  /\ target' = to
  /\ UNCHANGED <<chain, shielded, trp, outbox, faults, torn,
                 range, upto, fetched, height, pending>>

GetScanRange ==
  /\ pc = "range"
  /\ LET from == SW!LastHeight + 1
         end  == Min({TipHeight + 1, from + MaxChunk})
     IN /\ range' = [start |-> from, end |-> end]
        /\ Goto(IF end <= from THEN "notify" ELSE "open")
  /\ UNCHANGED <<chain, shielded, trp, outbox, faults, torn,
                 caller, upto, fetched, height, pending, target>>

\* scan_cached_blocks reads last_height, with_blocks asks for the tip again.
OpenBlocks ==
  /\ pc = "open"
  /\ upto' = Min({SW!LastHeight + MaxChunk, TipHeight})
  /\ Goto("fetch")
  /\ UNCHANGED <<chain, shielded, trp, outbox, faults, torn,
                 caller, range, fetched, height, pending, target>>

\* The definitions whose names start with Faulty are not part of the model:
\* each is a plausible slip in the definition that follows it, and shows
\* that a property would notice.

\* Rewinds to the stored tip.
FaultyRewindTarget == range.start - 1

\* Where a reorganisation found while scanning this range rewinds to.
RewindTarget == range.start - RewindDepth

NextFetch == SW!LastHeight + Len(fetched) + 1

FetchBlock ==
  /\ pc = "fetch" /\ NextFetch <= upto
  /\ fetched' = Append(fetched, BlockAt(NextFetch))
  /\ UNCHANGED <<chain, shielded, trp, outbox, faults, torn,
                 pc, caller, range, upto, height, pending, target>>

\* Never compares.
FaultyFirstBlockReorged == FALSE

\* Only the first block is compared with the stored tip.
FirstBlockReorged ==
  /\ fetched # << >> /\ SW!Stored # {}
  /\ PrevHash[Head(fetched)] # blocks[SW!LastHeight].hash

CheckFetched ==
  /\ pc = "fetch" /\ NextFetch > upto
  /\ IF FirstBlockReorged
     THEN Goto("rewind") /\ target' = RewindTarget /\ fetched' = << >>
     ELSE Goto("apply") /\ UNCHANGED <<target, fetched>>
  /\ UNCHANGED <<chain, shielded, trp, outbox, faults, torn,
                 caller, range, upto, height, pending>>

\* Notifies of incoming notes only.
FaultyShieldedEvents(b) ==
  UNION {{Box!Received(n) : n \in NotesOf(t)} : t \in SW!Relevant(b)}

\* advance_by_block collects its notifications while it writes the block.
ShieldedEvents(b) ==
  UNION {{Box!Spent(n, t) : n \in SW!SpendsFound(t)}
         \cup {Box!Received(n) : n \in NotesOf(t)} : t \in SW!Relevant(b)}

ApplyBlock ==
  /\ pc = "apply" /\ pending = {} /\ fetched # << >>
  /\ SW!AdvanceByBlock(Head(fetched))
  /\ fetched' = Tail(fetched)
  /\ pending' = ShieldedEvents(Head(fetched))
  /\ UNCHANGED <<chain, trp, outbox, faults, torn,
                 pc, caller, range, upto, height, target>>

\* store_notification, after the block's transaction has committed.
StoreShielded ==
  /\ pc = "apply"
  /\ \E e \in pending : Box!StoreNotification(e) /\ pending' = pending \ {e}
  /\ UNCHANGED <<chain, shielded, trp, received, faults, torn,
                 pc, caller, range, upto, fetched, height, target>>

StartTransparent ==
  /\ pc = "apply" /\ pending = {} /\ fetched = << >>
  /\ Goto("transparent")
  /\ height' = range.start
  /\ UNCHANGED <<chain, shielded, trp, outbox, faults, torn,
                 caller, range, upto, fetched, pending, target>>

\* Every block is compared with the stored block below it, if there is one.
TransparentReorged(b) ==
  /\ height - 1 \in SW!Stored
  /\ PrevHash[b] # NULL
  /\ PrevHash[b] # blocks[height - 1].hash

\* Notifies of incoming outputs only.
FaultyTransparentEvents(b) == {Box!ReceivedUtxo(u) : u \in UtxosCreatedIn(b)}

TransparentEvents(b) ==
  {Box!SpentUtxo(u) : u \in UtxosSpentIn(b)}
  \cup {Box!ReceivedUtxo(u) : u \in UtxosCreatedIn(b)}

ScanTransparentBlock ==
  /\ pc = "transparent" /\ height < range.end
  /\ LET b == BlockAt(height) IN
     /\ ~TransparentReorged(b)
     /\ TW!ScanBlock(b)
     /\ pending' = pending \cup TransparentEvents(b)
  /\ height' = height + 1
  /\ UNCHANGED <<chain, shielded, outbox, faults, torn,
                 pc, caller, range, upto, fetched, target>>

\* The notifications gathered so far are dropped with the scan.
TransparentReorg ==
  /\ pc = "transparent" /\ height < range.end
  /\ TransparentReorged(BlockAt(height))
  /\ Goto("rewind") /\ target' = RewindTarget /\ pending' = {}
  /\ UNCHANGED <<chain, shielded, trp, outbox, faults, torn,
                 caller, range, upto, fetched, height>>

\* The transparent notifications are stored once the whole range is scanned.
StoreTransparent ==
  /\ pc = "transparent" /\ height = range.end
  /\ \E e \in pending : Box!StoreNotification(e) /\ pending' = pending \ {e}
  /\ UNCHANGED <<chain, shielded, trp, received, faults, torn,
                 pc, caller, range, upto, fetched, height, target>>

NextRange ==
  /\ pc = "transparent" /\ height = range.end /\ pending = {}
  /\ Goto("range")
  /\ UNCHANGED <<chain, shielded, trp, outbox, faults, torn,
                 caller, range, upto, fetched, height, pending, target>>

\* Drops the blocks in a transaction of their own.
FaultyRewindShielded ==
  /\ pc = "rewind"
  /\ blocks' = SW!DropBlocks(target)
  /\ Goto("trprewind")
  /\ UNCHANGED <<chain, transactions, received_notes, sapling_witnesses, floor, deep,
                 trp, outbox, faults, torn,
                 caller, range, upto, fetched, height, pending, target>>

RewindShielded ==
  /\ pc = "rewind"
  /\ SW!RewindToHeight(target)
  /\ Goto("trprewind")
  /\ UNCHANGED <<chain, trp, outbox, faults, torn,
                 caller, range, upto, fetched, height, pending, target>>

\* Rewinds the shielded tables only.
FaultyRewindTransparent ==
  /\ pc = "trprewind"
  /\ IF caller = "rewind" THEN Return
     ELSE Goto("range") /\ UNCHANGED <<caller, range, upto, fetched, height,
                                       pending, target>>
  /\ UNCHANGED <<chain, shielded, trp, outbox, faults, torn>>

RewindTransparent ==
  /\ pc = "trprewind"
  /\ TW!TrpRewindToHeight(target)
  /\ IF caller = "rewind" THEN Return
     ELSE Goto("range") /\ UNCHANGED <<caller, range, upto, fetched, height,
                                       pending, target>>
  /\ UNCHANGED <<chain, shielded, outbox, faults, torn>>

\* Forgets to mark what was accepted.
FaultyPostAccepted ==
  /\ pc = "notify" /\ Box!Undelivered # {}
  /\ Box!ListenerAccepts(Box!Undelivered)
  /\ Return
  /\ UNCHANGED <<chain, shielded, trp, notifications, faults, torn>>

\* notify_tx: one POST for everything undelivered.
PostAccepted ==
  /\ pc = "notify" /\ Box!Undelivered # {}
  /\ Box!ListenerAccepts(Box!Undelivered)
  /\ pending' = Box!Undelivered
  /\ Goto("mark")
  /\ UNCHANGED <<chain, shielded, trp, notifications, faults, torn,
                 caller, range, upto, fetched, height, target>>

MarkDelivered ==
  /\ pc = "mark"
  /\ \E k \in pending : Box!MarkDelivered(k) /\ pending' = pending \ {k}
  /\ UNCHANGED <<chain, shielded, trp, received, faults, torn,
                 pc, caller, range, upto, fetched, height, target>>

SyncDone ==
  /\ \/ pc = "notify" /\ Box!Undelivered = {}
     \/ pc = "mark" /\ pending = {}
  /\ Return
  /\ UNCHANGED <<chain, shielded, trp, outbox, faults, torn>>

-----------------------------------------------------------------------------
(* What goes wrong.  Every failure ends the handler where it stands.       *)

Fails ==
  /\ errors < MaxErrors /\ errors + crashes < MaxFaults
  /\ errors' = errors + 1
  /\ Return
  /\ UNCHANGED <<chain, shielded, trp, crashes, torn>>

\* An RPC to zcashd fails and ? returns the error to the client.
RpcError ==
  /\ \/ pc \in {"range", "open"}
     \/ pc = "fetch" /\ NextFetch <= upto
     \/ pc = "transparent" /\ height < range.end
  /\ Fails
  /\ UNCHANGED outbox

\* Takes an answer that is not a success for one.
FaultyPostFails ==
  /\ pc = "notify" /\ Box!Undelivered # {}
  /\ errors < MaxErrors /\ errors + crashes < MaxFaults
  /\ errors' = errors + 1
  /\ pending' = Box!Undelivered
  /\ Goto("mark")
  /\ UNCHANGED <<chain, shielded, trp, outbox, crashes, torn,
                 caller, range, upto, fetched, height, target>>

\* The POST is refused, or accepted while its answer is lost; scan_chain
\* ignores the result.
PostFails ==
  /\ pc = "notify" /\ Box!Undelivered # {}
  /\ Fails
  /\ UNCHANGED notifications
  /\ UNCHANGED received \/ Box!ListenerAccepts(Box!Undelivered)

Crash ==
  /\ pc # "idle" /\ crashes < MaxCrashes /\ errors + crashes < MaxFaults
  /\ crashes' = crashes + 1
  /\ Return
  /\ UNCHANGED <<chain, shielded, trp, outbox, errors, torn>>

\* with_row(cb).unwrap(): the block's transaction rolled back.
ApplyPanics ==
  /\ pc = "apply" /\ pending = {} /\ fetched # << >>
  /\ SW!WitnessClash(Head(fetched))
  /\ Return
  /\ UNCHANGED <<chain, shielded, trp, outbox, faults, torn>>

-----------------------------------------------------------------------------
Work ==
  \/ GetScanRange \/ OpenBlocks \/ FetchBlock \/ CheckFetched
  \/ ApplyBlock \/ ApplyPanics \/ StoreShielded
  \/ StartTransparent \/ ScanTransparentBlock \/ TransparentReorg
  \/ StoreTransparent \/ NextRange
  \/ RewindShielded \/ RewindTransparent
  \/ PostAccepted \/ MarkDelivered \/ SyncDone

Next ==
  \/ NewBestChain
  \/ LoadCheckpoint
  \/ Sync
  \/ \E to \in OperatorRewind : RewindRpc(to)
  \/ Work
  \/ RpcError \/ PostFails \/ Crash

Spec == Init /\ [][Next]_vars

\* The client keeps calling Sync (zcashd's blocknotify does, on every block)
\* and a handler that can go on does.
FairSpec == Spec /\ WF_vars(Sync) /\ WF_vars(Work)

-----------------------------------------------------------------------------
(* Properties *)

\* The components' tables and the worker's locals have their types.
TypeOK ==
  /\ chain \in Chains
  /\ SW!TypeOK
  /\ TW!TrpTypeOK
  /\ pc \in {"idle", "range", "open", "fetch", "apply", "transparent",
             "rewind", "trprewind", "notify", "mark"}
  /\ caller \in {"sync", "rewind"}
  /\ range \in [start : 0..(MaxHeight + 1), end : 0..(MaxHeight + 1)]
  /\ upto \in 0..MaxHeight
  /\ fetched \in Seq(Block)
  /\ height \in 0..(MaxHeight + 1)
  /\ target \in RewindTargets
  /\ errors \in 0..MaxErrors /\ crashes \in 0..MaxCrashes
  /\ torn \in BOOLEAN

\* Every step of the worker is a step of the shielded tables' specification
\* or leaves them alone: what is proved of SaplingWallet holds here.
ShieldedTables == SW!Spec

\* Stored blocks are linked by their hashes, although only the first block
\* of each batch is compared with the table; the exception is a best chain
\* that is replaced while a batch is being fetched.
LinkedUnlessTorn == ~torn => SW!Linked

\* The listener has received whatever is marked delivered.
DeliveredWasReceived ==
  \A k \in Box!Key : (notifications[k] # NULL /\ notifications[k].delivered)
    => k \in received

Notified(e) ==
  /\ notifications[Box!KeyOf(e)] # NULL
  /\ notifications[Box!KeyOf(e)].coin = e.coin

\* The event has a row, its own or one of the wallet's other half: the shielded
\* and the transparent outputs of a transaction are numbered separately, and
\* of two with one number only the first is stored.
Recorded(e) ==
  /\ notifications[Box!KeyOf(e)] # NULL
  /\ notifications[Box!KeyOf(e)].coin # e.coin =>
       (notifications[Box!KeyOf(e)].coin \in Note) # (e.coin \in Note)

\* Between syncs every note of a mined transaction is recorded in the outbox,
\* and so is every spend found, whatever fails short of a crash.
ShieldedRecorded ==
  pc = "idle" /\ crashes = 0 => \A n \in Note : SW!Mined(TxOfNote[n]) =>
    /\ Recorded(Box!Received(n))
    /\ LET t == received_notes[n].spent IN
       (t # NULL => Recorded(Box!Spent(n, t)))

\* No notification is ever removed, handed to another coin or made
\* undelivered again, also when its block is rewound and scanned again.
RowsAreKept ==
  [][\A k \in Box!Key : notifications[k] # NULL =>
       /\ notifications'[k] # NULL
       /\ notifications'[k].coin = notifications[k].coin
       /\ notifications[k].delivered => notifications'[k].delivered]_vars

\* Every stored notification is delivered in the end, if failures stop.
EventuallyDelivered ==
  \A k \in Box!Key :
    (notifications[k] # NULL) ~> (notifications[k] # NULL /\ notifications[k].delivered)

InSync ==
  /\ SW!LastHeight = Len(chain)
  /\ blocks[SW!LastHeight].hash = chain[Len(chain)]

\* When the best chain and the failures settle, the stored tip becomes and
\* stays the best chain's tip, whatever was rewound on the way.
EventuallyInSync == <>[]InSync

\* Every mined note has a witness at the stored tip, so that it can be spent
\* once it is ANCHOR_OFFSET deep: rollbacks stay within the pruning depth.
MinedNotesWitnessed ==
  \A n \in Note : SW!Mined(TxOfNote[n]) =>
    sapling_witnesses[n][SW!LastHeight] # NULL

\* Until a crash every step is a step of the transparent table's
\* specification: blocks are scanned upwards, and rewound before rescans.
TransparentTable ==
  TW!TrpInit /\ [][crashes' > 0 \/ TW!TrpNext]_<<trp, crashes>>

\* Between syncs an output of a tracked address that a stored block creates
\* is in the table.
TransparentComplete ==
  pc = "idle" => \A h \in SW!Stored :
    \A u \in UtxosCreatedIn(blocks[h].hash) : utxos[u] # NULL

\* Between syncs, as long as nothing fails, every coin received at or spent
\* from a transparent account is recorded in the outbox.
TransparentRecorded ==
  pc = "idle" /\ errors + crashes = 0 => \A u \in Utxo : utxos[u] # NULL =>
    /\ utxos[u].height # 0 => Recorded(Box!ReceivedUtxo(u))
    /\ utxos[u].spent => Recorded(Box!SpentUtxo(u))

\* The listener is to be told of every change of a transparent account's
\* balance.
TransparentNotified ==
  pc = "idle" => \A u \in Utxo : utxos[u] # NULL =>
    /\ utxos[u].height # 0 => Notified(Box!ReceivedUtxo(u))
    /\ utxos[u].spent => Notified(Box!SpentUtxo(u))

=============================================================================
