------------------------------- MODULE Deposits -------------------------------
(***************************************************************************)
(* Which deposits a sync credits while keys and addresses are imported and *)
(* generated: scan_chain (scan.rs) reads the viewing keys, then the tip,   *)
(* then applies the blocks (put_received_note looks the account of every   *)
(* decrypted note up by address and key), then loads the transparent       *)
(* addresses and scans the same range for their coins.                     *)
(*                                                                         *)
(*   range -> keys -> tip -> apply -> transparent -> range -> ... -> idle  *)
(*                                                                         *)
(* zcashd's chain only grows here (ScanChain has the reorganisations), so  *)
(* a block is whom it pays.  A sync's statements run on the server's       *)
(* connection, under its client mutex, hence not within the server's own   *)
(* generate_address.                                                       *)
(***************************************************************************)
EXTENDS Accounts, Sequences, FiniteSetsExt

CONSTANTS
  Server,       \* the server's connection
  Elsewhere,    \* addresses others may know that ZAMS did not give out
  MaxChunk,     \* MAX_CHUNK, 1000
  MaxHeight,    \* bound: blocks
  MaxFaults     \* bound: syncs that fail and generate_address that stop

ASSUME DepositAssumption ==
  /\ Server \in Connection
  /\ Elsewhere \subseteq Address
  /\ MaxChunk \in Nat \ {0} /\ MaxHeight \in Nat /\ MaxFaults \in Nat

VARIABLES
  chain,      \* zcashd: the address each block pays, or NULL
  last,       \* MAX(height) of blocks
  credited,   \* heights whose payment is in received_notes or utxos
  pc,         \* where the sync is
  range,      \* [start, end) of get_scan_range
  keys,       \* viewing keys this iteration decrypts with
  upto,       \* last height with_blocks fetches
  addresses,  \* TrpWallet's map
  height,     \* next height of the transparent scan
  failures,   \* syncs that failed
  promised,   \* history: heights that pay an account there was at the time
  raced,      \* history: heights mined between the two reads of the tip
  skipped     \* history: heights stored by a sync that ended before scanning them

sync    == <<pc, range, keys, upto, addresses, height>>
history == <<promised, raced, skipped>>
vars    == <<account_vars, chain, last, credited, sync, failures, history>>

NoRange == [start |-> 1, end |-> 1]

Init ==
  /\ AccountInit
  /\ chain = << >> /\ last = 0 /\ credited = {}
  /\ pc = "idle" /\ range = NoRange /\ keys = {} /\ upto = 0
  /\ addresses = {} /\ height = 1 /\ failures = 0
  /\ promised = {} /\ raced = {} /\ skipped = {}

\* The row a payment to this address is booked on exists.
Owned(a) ==
  /\ a # NULL /\ Registered(a)
  /\ accounts[a].fvk = IF a \in Shielded THEN a[1] ELSE NULL

Mine(payee) ==
  /\ Len(chain) < MaxHeight
  /\ payee = NULL \/ Owned(payee) \/ payee \in Elsewhere
  /\ chain' = Append(chain, payee)
  /\ promised' = IF Owned(payee) THEN promised \cup {Len(chain')} ELSE promised
  /\ UNCHANGED <<account_vars, last, credited, sync, failures, raced, skipped>>

Account ==
  /\ Accounting /\ failures + stops' <= MaxFaults
  /\ UNCHANGED <<chain, last, credited, sync, failures, history>>

Sync ==
  /\ pc = "idle"
  /\ pc' = "range"
  /\ UNCHANGED <<account_vars, chain, last, credited, range, keys, upto, addresses,
                 height, failures, history>>

\* The sync's memory is lost.
Return ==
  /\ pc' = "idle" /\ range' = NoRange /\ keys' = {} /\ upto' = 0
  /\ addresses' = {} /\ height' = 1

Unscanned == (IF pc = "transparent" THEN height ELSE range.start)..last

\* What was stored and not yet scanned for transparent coins will not be
\* scanned by a later sync.
End ==
  /\ Return
  /\ skipped' = skipped \cup (IF pc = "range" THEN {} ELSE Unscanned)
  /\ UNCHANGED <<account_vars, chain, last, credited, promised, raced>>

\* Leaves the tip itself out.
FaultyGetScanRange ==
  /\ pc = "range" /\ Idle(Server)
  /\ LET end == Min({Len(chain), last + 1 + MaxChunk}) IN
     IF end <= last + 1 THEN Return
     ELSE /\ pc' = "keys" /\ range' = [start |-> last + 1, end |-> end]
          /\ UNCHANGED <<keys, upto, addresses, height>>
  /\ UNCHANGED <<account_vars, chain, last, credited, failures, history>>

GetScanRange ==
  /\ pc = "range" /\ Idle(Server)
  /\ LET end == Min({Len(chain) + 1, last + 1 + MaxChunk}) IN
     IF end <= last + 1 THEN Return
     ELSE /\ pc' = "keys" /\ range' = [start |-> last + 1, end |-> end]
          /\ UNCHANGED <<keys, upto, addresses, height>>
  /\ UNCHANGED <<account_vars, chain, last, credited, failures, history>>

\* get_extended_full_viewing_keys decodes every key or fails.
Undecodable == \E k \in Malformed : Imported(k)

ReadKeys ==
  /\ pc = "keys" /\ Idle(Server) /\ ~Undecodable
  /\ keys' = {k \in Key : Imported(k)}
  /\ pc' = "tip"
  /\ UNCHANGED <<account_vars, chain, last, credited, range, upto, addresses, height,
                 failures, history>>

KeysFail ==
  /\ pc = "keys" /\ Idle(Server) /\ Undecodable
  /\ End
  /\ UNCHANGED failures

ReadTip ==
  /\ pc = "tip"
  /\ upto' = Min({Len(chain), last + MaxChunk})
  /\ raced' = raced \cup range.end..upto'
  /\ pc' = "apply"
  /\ UNCHANGED <<account_vars, chain, last, credited, range, keys, addresses, height,
                 failures, promised, skipped>>

\* The note of the next block decrypts under one of the keys read.
Decrypted == chain[last + 1] \in Shielded /\ chain[last + 1][1] \in keys

ApplyBlock ==
  /\ pc = "apply" /\ last < upto /\ Idle(Server)
  /\ Decrypted => Owned(chain[last + 1])
  /\ last' = last + 1
  /\ credited' = IF Decrypted THEN credited \cup {last + 1} ELSE credited
  /\ UNCHANGED <<account_vars, chain, sync, failures, history>>

\* query_one finds no account: the block is rolled back, the sync panics.
ApplyPanics ==
  /\ pc = "apply" /\ last < upto /\ Idle(Server)
  /\ Decrypted /\ ~Owned(chain[last + 1])
  /\ End
  /\ UNCHANGED failures

\* Takes the range for (start, end).
FaultyLoadAddresses ==
  /\ pc = "apply" /\ last = upto /\ Idle(Server)
  /\ addresses' = addresses \cup {a \in Address : Registered(a) /\ accounts[a].fvk = NULL}
  /\ height' = range.start + 1
  /\ pc' = "transparent"
  /\ UNCHANGED <<account_vars, chain, last, credited, range, keys, upto, failures, history>>

LoadAddresses ==
  /\ pc = "apply" /\ last = upto /\ Idle(Server)
  /\ addresses' = addresses \cup {a \in Address : Registered(a) /\ accounts[a].fvk = NULL}
  /\ height' = range.start
  /\ pc' = "transparent"
  /\ UNCHANGED <<account_vars, chain, last, credited, range, keys, upto, failures, history>>

ScanTransparent ==
  /\ pc = "transparent" /\ height < range.end /\ Idle(Server)
  /\ credited' = IF chain[height] \in addresses \cap Transparent
                 THEN credited \cup {height} ELSE credited
  /\ height' = height + 1
  /\ UNCHANGED <<account_vars, chain, last, pc, range, keys, upto, addresses, failures,
                 history>>

NextRange ==
  /\ pc = "transparent" /\ height >= range.end
  /\ pc' = "range" /\ range' = NoRange /\ keys' = {} /\ upto' = 0 /\ height' = 1
  /\ UNCHANGED <<account_vars, chain, last, credited, addresses, failures, history>>

\* An RPC or a statement fails, or the server dies.
SyncFails ==
  /\ pc # "idle" /\ failures + stops < MaxFaults
  /\ failures' = failures + 1
  /\ End

\* Whatever lies above is scanned again, for the accounts there are by then.
Rewind(to) ==
  /\ pc = "idle" /\ Idle(Server) /\ to < last
  /\ last' = to
  /\ credited' = {h \in credited : h <= to}
  /\ promised' = promised \cup {h \in (to + 1)..Len(chain) : Owned(chain[h])}
  /\ raced'   = {h \in raced : h <= to}
  /\ skipped' = {h \in skipped : h <= to}
  /\ UNCHANGED <<account_vars, chain, sync, failures>>

Work ==
  \/ GetScanRange \/ ReadKeys \/ KeysFail \/ ReadTip
  \/ ApplyBlock \/ ApplyPanics
  \/ LoadAddresses \/ ScanTransparent \/ NextRange

Next ==
  \/ Account
  \/ \E payee \in Address \cup {NULL} : Mine(payee)
  \/ Sync \/ Work \/ SyncFails
  \/ \E to \in 0..MaxHeight : Rewind(to)

Spec == Init /\ [][Next]_vars

Generates(c) == (UpdateDiversifier(c) \/ InsertAccount(c))
                /\ UNCHANGED <<chain, last, credited, sync, failures, history>>

\* The client keeps calling Sync, and a handler that can go on does.
FairSpec == Spec /\ WF_vars(Sync) /\ WF_vars(Work) /\ WF_vars(Generates(Server))

-----------------------------------------------------------------------------
(* Properties *)

\* The tables and the sync's memory have their types.
DepositTypeOK ==
  /\ AccountTypeOK
  /\ chain \in Seq(Address \cup {NULL})
  /\ last \in 0..Len(chain) /\ credited \subseteq 1..last
  /\ pc \in {"idle", "range", "keys", "tip", "apply", "transparent"}
  /\ range \in [start : 1..(last + 1), end : 1..(Len(chain) + 1)]
  /\ keys \subseteq Key \ Malformed /\ upto \in 0..Len(chain)
  /\ addresses \subseteq Address /\ height \in 1..(Len(chain) + 1)
  /\ failures \in 0..MaxFaults

\* A scanned block that paid an account is credited to it, whatever was
\* imported, generated or rewound around it.  Two things lose deposits until
\* somebody rewinds: a block that arrives between the two reads of the tip,
\* and a transparent coin below a point where a sync stopped.
CreditedUnlessRaced ==
  pc = "idle" => \A h \in promised : h <= last =>
    \/ h \in credited \/ h \in raced
    \/ h \in skipped /\ chain[h] \in Transparent

\* What no later sync gets past: a key that does not decode, or a payment to
\* an address of an imported key that has no account.
Stalled ==
  \/ Undecodable
  \/ last < Len(chain) /\ chain[last + 1] \in Shielded
     /\ Imported(chain[last + 1][1]) /\ ~Owned(chain[last + 1])

\* Syncs catch up with zcashd again and again unless they are stalled.
CatchesUp == []<>(last = Len(chain) \/ Stalled)

\* Nothing stalls them: what the viewing keys decrypt belongs to an account.
EventuallyScanned == []<>(last = Len(chain))

=============================================================================
