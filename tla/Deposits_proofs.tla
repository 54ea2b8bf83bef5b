---------------------------- MODULE Deposits_proofs ----------------------------
(***************************************************************************)
(* Deposits are credited and addresses stay with their accounts, proved    *)
(* for any number of keys, addresses, connections and blocks.              *)
(***************************************************************************)
EXTENDS Deposits, Accounts_proofs

\* What there was an account for when it was mined, there still is.
PromisesOwned == \A h \in promised : h \in 1..Len(chain) /\ Owned(chain[h])

\* A stored block that pays an account is credited, or one of the exceptions,
\* or the sync will still scan it for transparent coins.
Covered ==
  \A h \in promised : h <= last =>
    \/ h \in credited \/ h \in raced
    \/ /\ chain[h] \notin Shielded
       /\ \/ h \in skipped
          \/ pc \notin {"idle", "range"} /\ h \in Unscanned

\* How the range, the tip and what was read of the keys and addresses go
\* together at each point of a sync.
RangeFollows ==
  /\ pc = "idle" => range = NoRange
  /\ pc \in {"keys", "tip"} =>
       /\ range.start = last + 1
       /\ range.end <= last + 1 + MaxChunk
  /\ pc \in {"apply", "transparent"} =>
       /\ last <= upto /\ range.end <= upto + 1
       /\ \A h \in range.end..upto : h \in raced
  /\ pc = "transparent" => last = upto /\ range.start <= height

KeysRead ==
  pc \in {"tip", "apply"} =>
    \A h \in promised : h < range.end /\ chain[h] \in Shielded => chain[h][1] \in keys

AddressesRead ==
  pc = "transparent" =>
    \A h \in promised : h < range.end /\ chain[h] \notin Shielded => chain[h] \in addresses

IInv ==
  /\ DepositTypeOK /\ AccountIInv
  /\ PromisesOwned /\ Covered /\ RangeFollows /\ KeysRead /\ AddressesRead

-----------------------------------------------------------------------------
(* Facts *)

LEMMA MinOfTwo ==
  ASSUME NEW x \in Int, NEW y \in Int
  PROVE  Min({x, y}) = IF x <= y THEN x ELSE y
<1>1. CASE x <= y
  <2>1. x \in {x, y} /\ \A z \in {x, y} : x <= z
    BY <1>1
  <2>2. \A m \in {x, y} : (\A z \in {x, y} : m <= z) => m = x
    BY <1>1
  <2> QED
    BY <1>1, <2>1, <2>2 DEF Min
<1>2. CASE ~(x <= y)
  <2>1. y \in {x, y} /\ \A z \in {x, y} : y <= z
    BY <1>2
  <2>2. \A m \in {x, y} : (\A z \in {x, y} : m <= z) => m = y
    BY <1>2
  <2> QED
    BY <1>2, <2>1, <2>2 DEF Min
<1> QED
  BY <1>1, <1>2

\* The numbers of a state, and what the blocks hold.
LEMMA Bounds ==
  ASSUME DepositTypeOK
  PROVE  /\ Len(chain) \in Nat
         /\ last \in Nat /\ last <= Len(chain)
         /\ range.start \in Nat /\ 1 <= range.start /\ range.start <= last + 1
         /\ range.end \in Nat /\ 1 <= range.end /\ range.end <= Len(chain) + 1
         /\ upto \in Nat /\ upto <= Len(chain)
         /\ height \in Nat /\ 1 <= height /\ height <= Len(chain) + 1
         /\ \A h \in 1..Len(chain) : chain[h] \in Address \cup {NULL}
<1>1. /\ chain \in Seq(Address \cup {NULL}) /\ Len(chain) \in Nat
      /\ last \in 0..Len(chain) /\ upto \in 0..Len(chain) /\ height \in 1..(Len(chain) + 1)
      /\ range.start \in 1..(last + 1) /\ range.end \in 1..(Len(chain) + 1)
  BY DEF DepositTypeOK
<1> QED
  BY <1>1

\* What an account promises and what an imported key decrypts.
LEMMA OwnedAddress ==
  ASSUME IInv, NEW a \in Address, Owned(a)
  PROVE  /\ a \in Shielded => a[1] \in Key /\ Imported(a[1])
         /\ a \notin Shielded => accounts[a].fvk = NULL /\ a \in Transparent
<1>1. Registered(a) /\ accounts[a].fvk = IF a \in Shielded THEN a[1] ELSE NULL
  BY DEF Owned
<1>2. ASSUME a \in Shielded PROVE a[1] \in Key /\ Imported(a[1])
  <2>1. a[1] \in Key /\ accounts[a].fvk = a[1]
    BY <1>1, <1>2, ShieldedPairs
  <2>2. accounts[a].fvk # NULL
    BY <2>1, AccountAssumption
  <2> QED
    BY <1>1, <2>1, <2>2 DEF IInv, AccountIInv, OwnersImported
<1> QED
  BY <1>1, <1>2 DEF Address

LEMMA AccountsStay ==
  ASSUME AccountIInv, UNCHANGED account_vars
  PROVE  AccountIInv' /\ \A a : Owned(a)' <=> Owned(a)
<1>1. UNCHANGED <<fvks, accounts, running, issued, reissued, overlapped, stops>>
  BY DEF account_vars
<1> QED
  BY <1>1 DEF AccountIInv, AccountTypeOK, IssuedStayRegistered, Generating, OwnersImported,
     Fresh, IssuedBelow, UpdatesAbove, InsertsNew, Apart, Registered, Imported, Idle, Owned

\* An account of an address stays its account.
LEMMA AccountsGrow ==
  ASSUME AccountIInv, Grown, NEW a \in Address, Owned(a)
  PROVE  Owned(a)'
<1>1. /\ a # NULL /\ Registered(a)
      /\ accounts[a].fvk = IF a \in Shielded THEN a[1] ELSE NULL
  BY DEF Owned
<1>2. a \in Shielded => accounts[a].fvk # NULL
  BY <1>1, ShieldedPairs, AccountAssumption
<1>3. accounts'[a] = accounts[a]
  BY <1>1, <1>2 DEF Grown
<1> QED
  BY <1>1, <1>3 DEF Owned, Registered

-----------------------------------------------------------------------------
(* Steps *)

LEMMA InitIInv == Init => IInv
<1> SUFFICES ASSUME Init PROVE IInv
  OBVIOUS
<1>1. /\ AccountInit /\ chain = << >> /\ last = 0 /\ credited = {} /\ pc = "idle"
      /\ range = NoRange /\ keys = {} /\ upto = 0 /\ addresses = {} /\ height = 1
      /\ failures = 0 /\ promised = {}
  BY DEF Init
<1>2. AccountIInv
  BY <1>1, AccountInitial
<1>3. DepositTypeOK
  BY <1>1, <1>2, DepositAssumption DEF DepositTypeOK, AccountIInv, NoRange
<1>4. PromisesOwned /\ Covered /\ RangeFollows /\ KeysRead /\ AddressesRead
  BY <1>1 DEF PromisesOwned, Covered, RangeFollows, KeysRead, AddressesRead
<1> QED
  BY <1>2, <1>3, <1>4 DEF IInv

LEMMA AccountKeeps == ASSUME IInv, Account PROVE IInv'
<1>1. Accounting /\ UNCHANGED <<chain, last, credited, sync, failures, history>>
  BY DEF Account
<1>2. /\ UNCHANGED <<chain, last, credited, pc, range, keys, upto, addresses, height>>
      /\ UNCHANGED <<failures, promised, raced, skipped>>
  BY <1>1 DEF sync, history
<1>3. AccountIInv' /\ Grown
  BY <1>1, AccountingKeeps DEF IInv
<1>4. DepositTypeOK'
  BY <1>2, <1>3 DEF IInv, DepositTypeOK, AccountIInv
<1>5. PromisesOwned'
  <2> SUFFICES ASSUME NEW h \in promised
               PROVE  h \in 1..Len(chain) /\ Owned(chain[h])'
    BY <1>2 DEF PromisesOwned
  <2>1. h \in 1..Len(chain) /\ Owned(chain[h]) /\ chain[h] \in Address
    BY Bounds DEF IInv, PromisesOwned, Owned
  <2>2. \A a \in Address : Owned(a) => Owned(a)'
    BY <1>3, AccountsGrow DEF IInv
  <2> QED
    BY <1>2, <2>1, <2>2 DEF Owned
<1>6. Covered' /\ RangeFollows' /\ KeysRead' /\ AddressesRead'
  BY <1>2 DEF IInv, Covered, Unscanned, RangeFollows, KeysRead, AddressesRead
<1> QED
  BY <1>3, <1>4, <1>5, <1>6 DEF IInv

LEMMA MineKeeps == ASSUME IInv, NEW payee \in Address \cup {NULL}, Mine(payee) PROVE IInv'
<1>1. /\ UNCHANGED <<account_vars, last, credited, failures, raced, skipped>>
      /\ UNCHANGED <<pc, range, keys, upto, addresses, height>>
      /\ chain' = Append(chain, payee)
      /\ promised' \subseteq promised \cup {Len(chain')}
      /\ promised' # promised => Owned(payee)
  BY DEF Mine, sync
<1>2. /\ chain' \in Seq(Address \cup {NULL})
      /\ Len(chain') = Len(chain) + 1 /\ chain'[Len(chain')] = payee
      /\ \A h \in 1..Len(chain) : chain'[h] = chain[h]
  BY <1>1 DEF IInv, DepositTypeOK
<1>3. AccountIInv' /\ \A a : Owned(a)' <=> Owned(a)
  BY <1>1, AccountsStay DEF IInv
<1>4. DepositTypeOK'
  <2>1. /\ last \in 0..Len(chain') /\ upto \in 0..Len(chain')
        /\ height \in 1..(Len(chain') + 1) /\ range.end \in 1..(Len(chain') + 1)
    BY <1>2, Bounds DEF IInv
  <2>2. range \in [start : 1..(last + 1), end : 1..(Len(chain') + 1)]
    BY <2>1 DEF IInv, DepositTypeOK
  <2> QED
    BY <1>1, <1>2, <1>3, <2>1, <2>2 DEF IInv, DepositTypeOK, AccountIInv
<1>5. ASSUME NEW h \in promised'
      PROVE  \/ h \in promised /\ h \in 1..Len(chain) /\ chain'[h] = chain[h] /\ h < Len(chain')
             \/ h = Len(chain') /\ chain'[h] = payee /\ Owned(payee)
  BY <1>1, <1>2, Bounds DEF IInv, PromisesOwned
<1>6. PromisesOwned'
  <2> SUFFICES ASSUME NEW h \in promised'
               PROVE  h \in 1..Len(chain') /\ Owned(chain'[h])
    BY <1>1 DEF PromisesOwned, Owned, Registered, account_vars
  <2> QED
    BY <1>2, <1>5, Bounds DEF IInv, PromisesOwned
<1>7. Covered' /\ KeysRead' /\ AddressesRead'
  BY <1>1, <1>2, <1>5, Bounds DEF IInv, Covered, Unscanned, KeysRead, AddressesRead
<1>8. RangeFollows'
  BY <1>1 DEF IInv, RangeFollows
<1> QED
  BY <1>3, <1>4, <1>6, <1>7, <1>8 DEF IInv

\* A sync that ends hands what it has not scanned to skipped.
LEMMA Ends ==
  ASSUME IInv, Return, UNCHANGED <<account_vars, chain, last, credited, promised, raced>>,
         skipped \subseteq skipped', failures' \in 0..MaxFaults,
         pc \notin {"idle", "range"} => Unscanned \subseteq skipped'
  PROVE  IInv'
<1>1. /\ pc' = "idle" /\ range' = NoRange /\ keys' = {} /\ upto' = 0
      /\ addresses' = {} /\ height' = 1
  BY DEF Return
<1>2. AccountIInv' /\ \A a : Owned(a)' <=> Owned(a)
  BY AccountsStay DEF IInv
<1>3. DepositTypeOK'
  <2>1. NoRange \in [start : 1..(last + 1), end : 1..(Len(chain) + 1)]
    BY Bounds DEF IInv, NoRange
  <2>2. 1 \in 1..(Len(chain) + 1) /\ 0 \in 0..Len(chain)
    BY Bounds DEF IInv
  <2> QED
    BY <1>1, <1>2, <2>1, <2>2 DEF IInv, DepositTypeOK, AccountIInv
<1>4. PromisesOwned' /\ Covered'
  BY <1>1, <1>2 DEF IInv, PromisesOwned, Covered, Owned, Registered, account_vars
<1>5. RangeFollows' /\ KeysRead' /\ AddressesRead'
  BY <1>1 DEF RangeFollows, KeysRead, AddressesRead, NoRange
<1> QED
  BY <1>2, <1>3, <1>4, <1>5 DEF IInv

\* A step of a sync that goes on.
LEMMA GoesOn ==
  ASSUME IInv, UNCHANGED <<account_vars, chain, failures, promised>>, DepositTypeOK'
  PROVE  AccountIInv' /\ PromisesOwned' /\ \A h \in promised : Owned(chain[h])
<1>1. AccountIInv' /\ \A a : Owned(a)' <=> Owned(a)
  BY AccountsStay DEF IInv
<1> QED
  BY <1>1 DEF IInv, PromisesOwned, Owned, Registered, account_vars

LEMMA SyncKeeps == ASSUME IInv, Sync PROVE IInv'
<1>1. /\ pc = "idle" /\ pc' = "range"
      /\ UNCHANGED <<account_vars, chain, last, credited, range, keys, upto, addresses,
                     height, failures, promised, raced, skipped>>
  BY DEF Sync, history
<1>2. DepositTypeOK'
  BY <1>1, AccountsStay DEF IInv, DepositTypeOK, AccountIInv
<1>3. Covered' /\ RangeFollows' /\ KeysRead' /\ AddressesRead'
  BY <1>1 DEF IInv, Covered, RangeFollows, KeysRead, AddressesRead
<1> QED
  BY <1>1, <1>2, <1>3, GoesOn DEF IInv

LEMMA GetScanRangeKeeps == ASSUME IInv, GetScanRange PROVE IInv'
<1> DEFINE end == Min({Len(chain) + 1, last + 1 + MaxChunk})
<1>1. pc = "range" /\ UNCHANGED <<account_vars, chain, last, credited, failures, promised,
                                  raced, skipped>>
  BY DEF GetScanRange, history
<1>2. /\ end \in Nat /\ end <= Len(chain) + 1 /\ end <= last + 1 + MaxChunk /\ 1 <= end
  <2> DEFINE x == Len(chain) + 1
             y == last + 1 + MaxChunk
  <2>1. x \in Nat /\ y \in Nat /\ 1 <= x /\ 1 <= y
    BY Bounds, DepositAssumption DEF IInv
  <2> HIDE DEF x, y
  <2>2. Min({x, y}) = IF x <= y THEN x ELSE y
    BY <2>1, MinOfTwo
  <2>3. Min({x, y}) \in Nat /\ Min({x, y}) <= x /\ Min({x, y}) <= y /\ 1 <= Min({x, y})
    BY <2>1, <2>2
  <2> QED
    BY <2>3 DEF x, y
<1>3. CASE end <= last + 1
  <2>1. Return
    BY <1>3 DEF GetScanRange
  <2>2. failures \in 0..MaxFaults
    BY DEF IInv, DepositTypeOK
  <2> QED
    BY <1>1, <2>1, <2>2, Ends
<1>4. CASE ~(end <= last + 1)
  <2>1. /\ pc' = "keys" /\ range' = [start |-> last + 1, end |-> end]
        /\ UNCHANGED <<keys, upto, addresses, height>>
    BY <1>4 DEF GetScanRange
  <2> HIDE DEF end
  <2>2. /\ range'.start = last + 1 /\ range'.end = end
        /\ range' \in [start : 1..(last + 1), end : 1..(Len(chain) + 1)]
    BY <1>2, <2>1, Bounds DEF IInv
  <2>3. DepositTypeOK'
    BY <1>1, <2>1, <2>2, AccountsStay DEF IInv, DepositTypeOK, AccountIInv
  <2>4. Covered'
    BY <1>1, <2>1 DEF IInv, Covered
  <2>5. RangeFollows' /\ KeysRead' /\ AddressesRead'
    BY <1>1, <1>2, <2>1, <2>2 DEF RangeFollows, KeysRead, AddressesRead
  <2> QED
    BY <1>1, <2>3, <2>4, <2>5, GoesOn DEF IInv
<1> QED
  BY <1>3, <1>4

LEMMA ReadKeysKeeps == ASSUME IInv, ReadKeys PROVE IInv'
<1>1. /\ pc = "keys" /\ pc' = "tip" /\ ~Undecodable
      /\ keys' = {k \in Key : Imported(k)}
      /\ UNCHANGED <<account_vars, chain, last, credited, range, upto, addresses, height,
                     failures, promised, raced, skipped>>
  BY DEF ReadKeys, history
<1>2. DepositTypeOK'
  <2>1. keys' \subseteq Key \ Malformed
    BY <1>1 DEF Undecodable
  <2> QED
    BY <1>1, <2>1, AccountsStay DEF IInv, DepositTypeOK, AccountIInv
<1>3. KeysRead'
  <2> SUFFICES ASSUME NEW h \in promised, chain[h] \in Shielded
               PROVE  chain[h][1] \in keys'
    BY <1>1 DEF KeysRead
  <2>1. Owned(chain[h]) /\ chain[h] \in Address
    BY Bounds DEF IInv, PromisesOwned, Owned
  <2> QED
    BY <1>1, <2>1, OwnedAddress
<1>4. Covered' /\ RangeFollows' /\ AddressesRead'
  BY <1>1 DEF IInv, Covered, Unscanned, RangeFollows, AddressesRead
<1> QED
  BY <1>1, <1>2, <1>3, <1>4, GoesOn DEF IInv

LEMMA ReadTipKeeps == ASSUME IInv, ReadTip PROVE IInv'
<1>1. /\ pc = "tip" /\ pc' = "apply"
      /\ upto' = Min({Len(chain), last + MaxChunk})
      /\ raced' = raced \cup range.end..upto'
      /\ UNCHANGED <<account_vars, chain, last, credited, range, keys, addresses, height,
                     failures, promised, skipped>>
  BY DEF ReadTip
<1>2. /\ upto' \in Nat /\ upto' <= Len(chain) /\ last <= upto' /\ range.end <= upto' + 1
  <2> DEFINE x == Len(chain)
             y == last + MaxChunk
  <2>1. /\ x \in Nat /\ y \in Nat /\ last \in Nat /\ last <= x /\ last <= y
        /\ range.end \in Nat /\ range.end <= x + 1 /\ range.end <= y + 1
    BY <1>1, Bounds, DepositAssumption DEF IInv, RangeFollows
  <2>2. upto' = Min({x, y})
    BY <1>1
  <2> HIDE DEF x, y
  <2>3. upto' = IF x <= y THEN x ELSE y
    BY <2>1, <2>2, MinOfTwo
  <2>4. upto' \in Nat /\ upto' <= x /\ last <= upto' /\ range.end <= upto' + 1
    BY <2>1, <2>3
  <2> QED
    BY <2>4 DEF x
<1>3. DepositTypeOK'
  <2>1. upto' \in 0..Len(chain)
    BY <1>2, Bounds DEF IInv
  <2> QED
    BY <1>1, <2>1, AccountsStay DEF IInv, DepositTypeOK, AccountIInv
<1>4. Covered' /\ KeysRead' /\ AddressesRead'
  BY <1>1 DEF IInv, Covered, Unscanned, KeysRead, AddressesRead
<1>5. RangeFollows'
  BY <1>1, <1>2 DEF RangeFollows
<1> QED
  BY <1>1, <1>3, <1>4, <1>5, GoesOn DEF IInv

LEMMA ApplyBlockKeeps == ASSUME IInv, ApplyBlock PROVE IInv'
<1>1. /\ pc = "apply" /\ last < upto /\ last' = last + 1
      /\ credited' = IF Decrypted THEN credited \cup {last + 1} ELSE credited
      /\ UNCHANGED <<account_vars, chain, pc, range, keys, upto, addresses, height>>
      /\ UNCHANGED <<failures, promised, raced, skipped>>
  BY DEF ApplyBlock, sync, history
<1>2. /\ last \in Nat /\ last + 1 \in 1..Len(chain) /\ last + 1 <= upto
      /\ range.start <= last + 1 /\ range.start \in Nat /\ range.end \in Nat /\ upto \in Nat
  BY <1>1, Bounds DEF IInv
<1>3. DepositTypeOK'
  <2>1. last' \in 0..Len(chain) /\ credited' \subseteq 1..last'
    BY <1>1, <1>2, Bounds DEF IInv, DepositTypeOK
  <2>2. range \in [start : 1..(last' + 1), end : 1..(Len(chain) + 1)]
    BY <1>1, <1>2 DEF IInv, DepositTypeOK
  <2> QED
    BY <1>1, <2>1, <2>2, AccountsStay DEF IInv, DepositTypeOK, AccountIInv
<1>4. Covered'
  <2> SUFFICES ASSUME NEW h \in promised, h <= last + 1
               PROVE  \/ h \in credited' \/ h \in raced
                      \/ /\ chain[h] \notin Shielded
                         /\ h \in skipped \/ h \in range.start..(last + 1)
    BY <1>1 DEF Covered, Unscanned
  <2>1. h \in Nat
    BY Bounds DEF IInv, PromisesOwned
  <2>2. CASE h <= last
    <3>1. \/ h \in credited \/ h \in raced
          \/ chain[h] \notin Shielded /\ (h \in skipped \/ h \in range.start..last)
      BY <1>1, <2>2 DEF IInv, Covered, Unscanned
    <3> QED
      BY <1>1, <1>2, <2>1, <3>1
  <2>3. CASE h = last + 1
    <3>1. CASE chain[h] \notin Shielded
      BY <1>2, <2>3, <3>1
    <3>2. CASE chain[h] \in Shielded /\ h < range.end
      <4>1. Decrypted
        BY <1>1, <2>3, <3>2 DEF IInv, KeysRead, Decrypted
      <4> QED
        BY <1>1, <2>3, <4>1
    <3>3. CASE ~(h < range.end)
      <4>1. h \in range.end..upto
        BY <1>2, <2>1, <2>3, <3>3
      <4> QED
        BY <1>1, <4>1 DEF IInv, RangeFollows
    <3> QED
      BY <3>1, <3>2, <3>3
  <2> QED
    BY <1>2, <2>1, <2>2, <2>3
<1>5. RangeFollows'
  BY <1>1, <1>2 DEF IInv, RangeFollows
<1>6. KeysRead' /\ AddressesRead'
  BY <1>1 DEF IInv, KeysRead, AddressesRead
<1> QED
  BY <1>1, <1>3, <1>4, <1>5, <1>6, GoesOn DEF IInv

LEMMA LoadAddressesKeeps == ASSUME IInv, LoadAddresses PROVE IInv'
<1>1. /\ pc = "apply" /\ pc' = "transparent" /\ last = upto /\ height' = range.start
      /\ addresses' = addresses \cup {a \in Address : Registered(a) /\ accounts[a].fvk = NULL}
      /\ UNCHANGED <<account_vars, chain, last, credited, range, keys, upto, failures,
                     promised, raced, skipped>>
  BY DEF LoadAddresses, history
<1>2. DepositTypeOK'
  <2>1. height' \in 1..(Len(chain) + 1) /\ addresses' \subseteq Address
    BY <1>1, Bounds DEF IInv, DepositTypeOK
  <2> QED
    BY <1>1, <2>1, AccountsStay DEF IInv, DepositTypeOK, AccountIInv
<1>3. AddressesRead'
  <2> SUFFICES ASSUME NEW h \in promised, chain[h] \notin Shielded
               PROVE  chain[h] \in addresses'
    BY <1>1 DEF AddressesRead
  <2>1. Owned(chain[h]) /\ chain[h] \in Address
    BY Bounds DEF IInv, PromisesOwned, Owned
  <2>2. Registered(chain[h]) /\ accounts[chain[h]].fvk = NULL
    BY <2>1, OwnedAddress DEF Owned
  <2> QED
    BY <1>1, <2>1, <2>2
<1>4. Covered' /\ KeysRead'
  BY <1>1 DEF IInv, Covered, Unscanned, KeysRead
<1>5. RangeFollows'
  BY <1>1, Bounds DEF IInv, RangeFollows
<1> QED
  BY <1>1, <1>2, <1>3, <1>4, <1>5, GoesOn DEF IInv

LEMMA ScanTransparentKeeps == ASSUME IInv, ScanTransparent PROVE IInv'
<1>1. /\ pc = "transparent" /\ height < range.end /\ height' = height + 1
      /\ credited' = IF chain[height] \in addresses \cap Transparent
                     THEN credited \cup {height} ELSE credited
      /\ UNCHANGED <<account_vars, chain, last, pc, range, keys, upto, addresses, failures,
                     promised, raced, skipped>>
  BY DEF ScanTransparent, history
<1>2. /\ height \in Nat /\ last \in Nat /\ range.end \in Nat /\ range.start \in Nat
      /\ 1 <= height /\ height <= last /\ range.start <= height
      /\ range.end <= Len(chain) + 1 /\ Len(chain) \in Nat
  BY <1>1, Bounds DEF IInv, RangeFollows
<1>3. DepositTypeOK'
  <2>1. height' \in 1..(Len(chain) + 1) /\ credited' \subseteq 1..last
    BY <1>1, <1>2 DEF IInv, DepositTypeOK
  <2> QED
    BY <1>1, <2>1, AccountsStay DEF IInv, DepositTypeOK, AccountIInv
<1>4. Covered'
  <2> SUFFICES ASSUME NEW h \in promised, h <= last
               PROVE  \/ h \in credited' \/ h \in raced
                      \/ /\ chain[h] \notin Shielded
                         /\ h \in skipped \/ h \in (height + 1)..last
    BY <1>1 DEF Covered, Unscanned
  <2>1. \/ h \in credited \/ h \in raced
        \/ chain[h] \notin Shielded /\ (h \in skipped \/ h \in height..last)
    BY <1>1 DEF IInv, Covered, Unscanned
  <2>2. h \in Nat /\ Owned(chain[h]) /\ chain[h] \in Address
    BY Bounds DEF IInv, PromisesOwned, Owned
  <2>3. CASE h = height /\ chain[h] \notin Shielded
    <3>1. chain[h] \in addresses
      BY <1>1, <2>3 DEF IInv, AddressesRead
    <3> QED
      BY <1>1, <2>2, <2>3, <3>1, OwnedAddress
  <2> QED
    BY <1>1, <1>2, <2>1, <2>2, <2>3
<1>5. RangeFollows' /\ KeysRead' /\ AddressesRead'
  BY <1>1, <1>2 DEF IInv, RangeFollows, KeysRead, AddressesRead
<1> QED
  BY <1>1, <1>3, <1>4, <1>5, GoesOn DEF IInv

LEMMA NextRangeKeeps == ASSUME IInv, NextRange PROVE IInv'
<1>1. /\ pc = "transparent" /\ pc' = "range" /\ height >= range.end
      /\ range' = NoRange /\ keys' = {} /\ upto' = 0 /\ height' = 1
      /\ UNCHANGED <<account_vars, chain, last, credited, addresses, failures, promised,
                     raced, skipped>>
  BY DEF NextRange, history
<1>2. DepositTypeOK'
  <2>1. NoRange \in [start : 1..(last + 1), end : 1..(Len(chain) + 1)]
    BY Bounds DEF IInv, NoRange
  <2>2. 1 \in 1..(Len(chain) + 1) /\ 0 \in 0..Len(chain)
    BY Bounds DEF IInv
  <2> QED
    BY <1>1, <2>1, <2>2, AccountsStay DEF IInv, DepositTypeOK, AccountIInv
<1>3. Covered'
  <2> SUFFICES ASSUME NEW h \in promised, h <= last
               PROVE  \/ h \in credited \/ h \in raced
                      \/ chain[h] \notin Shielded /\ h \in skipped
    BY <1>1 DEF Covered
  <2>1. \/ h \in credited \/ h \in raced
        \/ chain[h] \notin Shielded /\ (h \in skipped \/ h \in height..last)
    BY <1>1 DEF IInv, Covered, Unscanned
  <2>2. h \in height..last => h \in range.end..upto
    BY <1>1, Bounds DEF IInv, RangeFollows
  <2> QED
    BY <1>1, <2>1, <2>2 DEF IInv, RangeFollows
<1>4. RangeFollows' /\ KeysRead' /\ AddressesRead'
  BY <1>1 DEF RangeFollows, KeysRead, AddressesRead
<1> QED
  BY <1>1, <1>2, <1>3, <1>4, GoesOn DEF IInv

LEMMA EndKeeps == ASSUME IInv, KeysFail \/ ApplyPanics \/ SyncFails PROVE IInv'
<1>1. End /\ pc # "idle" /\ failures' \in 0..MaxFaults
  <2>1. CASE KeysFail \/ ApplyPanics
    BY <2>1 DEF KeysFail, ApplyPanics, IInv, DepositTypeOK
  <2>2. CASE SyncFails
    <3>1. failures \in Nat /\ stops \in Nat /\ failures' = failures + 1
          /\ failures + stops < MaxFaults
      BY <2>2 DEF SyncFails, IInv, DepositTypeOK, AccountTypeOK
    <3> QED
      BY <2>2, <3>1, DepositAssumption DEF SyncFails
  <2> QED
    BY <2>1, <2>2
<1>2. /\ Return /\ UNCHANGED <<account_vars, chain, last, credited, promised, raced>>
      /\ skipped \subseteq skipped'
      /\ pc # "range" => Unscanned \subseteq skipped'
  BY <1>1 DEF End
<1> QED
  BY <1>1, <1>2, Ends

LEMMA RewindKeeps == ASSUME IInv, NEW to \in 0..MaxHeight, Rewind(to) PROVE IInv'
<1>1. /\ pc = "idle" /\ to < last /\ last' = to
      /\ credited' = {h \in credited : h <= to}
      /\ promised' = promised \cup {h \in (to + 1)..Len(chain) : Owned(chain[h])}
      /\ raced' = {h \in raced : h <= to} /\ skipped' = {h \in skipped : h <= to}
      /\ UNCHANGED <<account_vars, chain, pc, range, keys, upto, addresses, height, failures>>
  BY DEF Rewind, sync
<1>2. AccountIInv' /\ \A a : Owned(a)' <=> Owned(a)
  BY <1>1, AccountsStay DEF IInv
<1>3. to \in Nat /\ to \in 0..Len(chain)
  BY <1>1, Bounds, DepositAssumption DEF IInv
<1>4. DepositTypeOK'
  <2>1. last' \in 0..Len(chain) /\ credited' \subseteq 1..last'
    <3>1. credited \subseteq 1..last /\ last \in Nat
      BY Bounds DEF IInv, DepositTypeOK
    <3>2. \A h \in credited' : h \in 1..to
      BY <1>1, <1>3, <3>1
    <3> QED
      BY <1>1, <1>3, <3>2
  <2>2. range \in [start : 1..(last' + 1), end : 1..(Len(chain) + 1)]
    <3>1. range = NoRange
      BY <1>1 DEF IInv, RangeFollows
    <3> QED
      BY <1>1, <1>3, <3>1, Bounds DEF IInv, NoRange
  <2> QED
    BY <1>1, <1>2, <2>1, <2>2 DEF IInv, DepositTypeOK, AccountIInv
<1>5. PromisesOwned'
  <2> SUFFICES ASSUME NEW h \in promised'
               PROVE  h \in 1..Len(chain) /\ Owned(chain[h])
    BY <1>1 DEF PromisesOwned, Owned, Registered, account_vars
  <2>1. CASE h \in promised
    BY <2>1 DEF IInv, PromisesOwned
  <2>2. CASE h \in (to + 1)..Len(chain) /\ Owned(chain[h])
    BY <1>3, <2>2, Bounds DEF IInv
  <2> QED
    BY <1>1, <2>1, <2>2
<1>6. Covered'
  <2> SUFFICES ASSUME NEW h \in promised', h <= to
               PROVE  \/ h \in credited' \/ h \in raced'
                      \/ chain[h] \notin Shielded /\ h \in skipped'
    BY <1>1 DEF Covered
  <2>1. h \in promised
    BY <1>1, <1>3
  <2>2. h \in Nat
    BY <2>1, Bounds DEF IInv, PromisesOwned
  <2>3. h <= last
    BY <1>1, <1>3, <2>2, Bounds DEF IInv
  <2> QED
    BY <1>1, <2>1, <2>3 DEF IInv, Covered
<1>7. RangeFollows' /\ KeysRead' /\ AddressesRead'
  BY <1>1 DEF IInv, RangeFollows, KeysRead, AddressesRead
<1> QED
  BY <1>2, <1>4, <1>5, <1>6, <1>7 DEF IInv

LEMMA NextIInv == IInv /\ [Next]_vars => IInv'
<1> SUFFICES ASSUME IInv, [Next]_vars PROVE IInv'
  OBVIOUS
<1>1. CASE UNCHANGED vars
  <2>1. /\ UNCHANGED <<account_vars, chain, last, credited, failures>>
        /\ UNCHANGED <<pc, range, keys, upto, addresses, height, promised, raced, skipped>>
    BY <1>1 DEF vars, sync, history
  <2>2. DepositTypeOK'
    BY <2>1, AccountsStay DEF IInv, DepositTypeOK, AccountIInv
  <2>3. Covered' /\ RangeFollows' /\ KeysRead' /\ AddressesRead'
    BY <2>1 DEF IInv, Covered, Unscanned, RangeFollows, KeysRead, AddressesRead
  <2> QED
    BY <2>1, <2>2, <2>3, GoesOn DEF IInv
<1>2. CASE Account
  BY <1>2, AccountKeeps
<1>3. ASSUME NEW payee \in Address \cup {NULL}, Mine(payee) PROVE IInv'
  BY <1>3, MineKeeps
<1>4. CASE Sync
  BY <1>4, SyncKeeps
<1>5. CASE GetScanRange
  BY <1>5, GetScanRangeKeeps
<1>6. CASE ReadKeys
  BY <1>6, ReadKeysKeeps
<1>7. CASE ReadTip
  BY <1>7, ReadTipKeeps
<1>8. CASE ApplyBlock
  BY <1>8, ApplyBlockKeeps
<1>9. CASE LoadAddresses
  BY <1>9, LoadAddressesKeeps
<1>10. CASE ScanTransparent
  BY <1>10, ScanTransparentKeeps
<1>11. CASE NextRange
  BY <1>11, NextRangeKeeps
<1>12. CASE KeysFail \/ ApplyPanics \/ SyncFails
  BY <1>12, EndKeeps
<1>13. ASSUME NEW to \in 0..MaxHeight, Rewind(to) PROVE IInv'
  BY <1>13, RewindKeeps
<1> QED
  BY <1>1, <1>2, <1>3, <1>4, <1>5, <1>6, <1>7, <1>8, <1>9, <1>10, <1>11, <1>12, <1>13
  DEF Next, Work

LEMMA Inductive == Spec => []IInv
BY InitIInv, NextIInv, PTL DEF Spec

-----------------------------------------------------------------------------
(* Theorems *)

\* The tables of keys and accounts, the credited blocks and the memory of a
\* sync keep their types.
THEOREM DepositTypeCorrect == Spec => []DepositTypeOK
<1>1. IInv => DepositTypeOK
  BY DEF IInv
<1> QED
  BY <1>1, Inductive, PTL

\* However often generate_address stops half way and whatever is imported,
\* no address is given out twice unless two connections generate from one key
\* at a time.
THEOREM AddressesAreFresh == Spec => []FreshUnlessOverlapped
<1>1. IInv => FreshUnlessOverlapped
  BY DEF IInv, AccountIInv, Fresh, FreshUnlessOverlapped
<1> QED
  BY <1>1, Inductive, PTL

\* An address that was given out stays an account of its viewing key, also
\* when connections overlap.
THEOREM IssuedAlwaysRegistered == Spec => []IssuedStayRegistered
<1>1. IInv => IssuedStayRegistered
  BY DEF IInv, AccountIInv
<1> QED
  BY <1>1, Inductive, PTL

\* Every scanned block that paid an account is credited between syncs, but
\* for the blocks mined between the two reads of the tip and the transparent
\* coins above a point where a sync stopped.
THEOREM DepositsAreCredited == Spec => []CreditedUnlessRaced
<1>1. ASSUME IInv PROVE CreditedUnlessRaced
  <2> SUFFICES ASSUME pc = "idle", NEW h \in promised, h <= last
               PROVE  \/ h \in credited \/ h \in raced
                      \/ h \in skipped /\ chain[h] \in Transparent
    BY DEF CreditedUnlessRaced
  <2>1. Owned(chain[h]) /\ chain[h] \in Address
    BY <1>1, Bounds DEF IInv, PromisesOwned, Owned
  <2> QED
    BY <1>1, <2>1, OwnedAddress DEF IInv, Covered
<1> QED
  BY <1>1, Inductive, PTL

=============================================================================
