------------------------------- MODULE Accounts -------------------------------
(***************************************************************************)
(* The viewing keys and accounts of the wallet (tables fvks and accounts): *)
(* import_fvk, import_address and generate_address (db.rs), called from    *)
(* the server's handlers and from the command line client.                 *)
(*                                                                         *)
(* generate_address is a SELECT, an UPDATE and an INSERT, each committed   *)
(* on its own: the server runs the three under its client mutex, but the   *)
(* command line client has a connection of its own, and either may stop    *)
(* half way.  Rows are never deleted and have unique keys, so a key stands *)
(* for its id_fvk and an address for its account.  A diversified address   *)
(* is the pair of its key and diversifier index; the two i64 columns hold  *)
(* an index below 2^63 exactly, far above what can be generated.           *)
(***************************************************************************)
EXTENDS Integers, FiniteSets

CONSTANTS
  NULL,
  Key,          \* strings imported as viewing keys
  Malformed,    \* those that do not decode: import_fvk takes any string
  Valid,        \* Key -> diversifier indices that give an address
  Transparent,  \* transparent addresses
  ByHand,       \* addresses imported as such, diversified ones too
  Connection,   \* connections to the database: the server's and a client's
  MaxStops      \* bound: generate_address that stop half way

Shielded == UNION {{k} \X Valid[k] : k \in Key}
Address  == Shielded \cup Transparent

ASSUME AccountAssumption ==
  /\ Malformed \subseteq Key
  /\ Valid \in [Key -> SUBSET Nat]
  /\ ByHand \subseteq Address
  /\ NULL \notin Key /\ NULL \notin Nat
  /\ NULL \notin [fvk : Key \cup {NULL}]
  /\ NULL \notin [key : Key, index : Nat, step : {"update", "insert"}]
  /\ MaxStops \in Nat

VARIABLES
  fvks,        \* key |-> its diversifier index, or NULL
  accounts,    \* address |-> [fvk], fvk = NULL for a transparent account, or NULL
  running,     \* connection |-> the generate_address it runs, or NULL
  issued,      \* history: addresses generate_address has returned
  reissued,    \* history: one of them twice
  overlapped,  \* history: two connections generated from one key at a time
  stops        \* how often generate_address stopped half way

account_vars == <<fvks, accounts, running, issued, reissued, overlapped, stops>>

AccountInit ==
  /\ fvks = [k \in Key |-> NULL]
  /\ accounts = [a \in Address |-> NULL]
  /\ running = [c \in Connection |-> NULL]
  /\ issued = {} /\ reissued = FALSE /\ overlapped = FALSE /\ stops = 0

Registered(a) == accounts[a] # NULL
Imported(k)   == fvks[k] # NULL
Idle(c)       == running[c] = NULL

\* Definitions whose names start with Faulty are not part of the model: each
\* is a plausible slip in the definition that follows it.

ImportFvk(c, k) ==
  /\ Idle(c)
  /\ fvks' = IF Imported(k) THEN fvks ELSE [fvks EXCEPT ![k] = 0]
  /\ UNCHANGED <<accounts, running, issued, reissued, overlapped, stops>>

\* ON CONFLICT also sets fvk, to the NULL of the new row.
FaultyImportAddress(c, a) ==
  /\ Idle(c)
  /\ accounts' = [accounts EXCEPT ![a] = [fvk |-> NULL]]
  /\ UNCHANGED <<fvks, running, issued, reissued, overlapped, stops>>

ImportAddress(c, a) ==
  /\ Idle(c)
  /\ accounts' = IF Registered(a) THEN accounts
                 ELSE [accounts EXCEPT ![a] = [fvk |-> NULL]]
  /\ UNCHANGED <<fvks, running, issued, reissued, overlapped, stops>>

\* Tries the stored diversifier before it increments.
FaultyUnused(k) == {i \in Valid[k] : i >= fvks[k]}

\* Valid diversifiers after the stored one: the index is incremented first.
Unused(k) == {i \in Valid[k] : i > fvks[k]}

\* Another connection has read the key's index and not yet stored its own.
Overlaps(c, k) ==
  \E d \in Connection \ {c} :
    ~Idle(d) /\ running[d].key = k /\ running[d].step = "update"

\* Takes the next valid diversifier.
SelectDiversifier(c, k) ==
  /\ Idle(c) /\ Imported(k) /\ k \notin Malformed
  /\ \E i \in Unused(k) :
       /\ \A j \in Unused(k) : i <= j
       /\ running' = [running EXCEPT ![c] = [key |-> k, index |-> i, step |-> "update"]]
  /\ overlapped' = (overlapped \/ Overlaps(c, k))
  /\ UNCHANGED <<fvks, accounts, issued, reissued, stops>>

UpdateDiversifier(c) ==
  /\ ~Idle(c) /\ running[c].step = "update"
  /\ fvks' = [fvks EXCEPT ![running[c].key] = running[c].index]
  /\ running' = [running EXCEPT ![c] = [@ EXCEPT !.step = "insert"]]
  /\ UNCHANGED <<accounts, issued, reissued, overlapped, stops>>

\* Stores the diversifier index where the row's id_fvk belongs.
FaultyInsertAccount(c) ==
  /\ ~Idle(c) /\ running[c].step = "insert"
  /\ LET a == <<running[c].key, running[c].index>> IN
     /\ accounts' = [accounts EXCEPT ![a] = [fvk |-> running[c].index]]
     /\ issued' = issued \cup {a}
     /\ reissued' = (reissued \/ a \in issued)
  /\ running' = [running EXCEPT ![c] = NULL]
  /\ UNCHANGED <<fvks, overlapped, stops>>

InsertAccount(c) ==
  /\ ~Idle(c) /\ running[c].step = "insert"
  /\ LET a == <<running[c].key, running[c].index>> IN
     /\ accounts' = [accounts EXCEPT ![a] = [fvk |-> running[c].key]]
     /\ issued' = issued \cup {a}
     /\ reissued' = (reissued \/ a \in issued)
  /\ running' = [running EXCEPT ![c] = NULL]
  /\ UNCHANGED <<fvks, overlapped, stops>>

\* A statement fails, or the process dies: what is committed stays.
Stop(c) ==
  /\ ~Idle(c) /\ stops < MaxStops
  /\ stops' = stops + 1
  /\ running' = [running EXCEPT ![c] = NULL]
  /\ UNCHANGED <<fvks, accounts, issued, reissued, overlapped>>

Accounting ==
  \E c \in Connection :
    \/ \E k \in Key : ImportFvk(c, k) \/ SelectDiversifier(c, k)
    \/ \E a \in ByHand : ImportAddress(c, a)
    \/ UpdateDiversifier(c) \/ InsertAccount(c) \/ Stop(c)

-----------------------------------------------------------------------------
(* Properties *)

\* The tables and the generate_address under way have their types.
AccountTypeOK ==
  /\ fvks \in [Key -> Nat \cup {NULL}]
  /\ accounts \in [Address -> [fvk : Key \cup {NULL}] \cup {NULL}]
  /\ running \in [Connection ->
                    [key : Key, index : Nat, step : {"update", "insert"}] \cup {NULL}]
  /\ issued \subseteq Shielded
  /\ reissued \in BOOLEAN /\ overlapped \in BOOLEAN
  /\ stops \in 0..MaxStops

\* NewAccount returns a different address at each call, also after calls that
\* stopped half way, keys imported again and addresses imported by hand; the
\* exception is a server and a client generating from one key at a time.
FreshUnlessOverlapped == ~overlapped => ~reissued

\* An address that was given out stays an account of its viewing key: what is
\* paid to it is credited, whatever is imported later.
IssuedStayRegistered ==
  \A a \in issued : Registered(a) /\ accounts[a].fvk = a[1]

=============================================================================
