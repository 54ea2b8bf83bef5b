---------------------------- MODULE Accounts_proofs ----------------------------
(***************************************************************************)
(* The accounts table, proved for any number of keys, addresses and        *)
(* connections: every step of the handlers and of the command line client  *)
(* keeps AccountIInv.  Deposits_proofs draws the conclusions for its       *)
(* specification.                                                          *)
(***************************************************************************)
EXTENDS Accounts, TLAPS

Generation == [key : Key, index : Nat, step : {"update", "insert"}]

\* A generate_address under way has an imported key and a valid index.
Generating ==
  \A c \in Connection : ~Idle(c) =>
    /\ Imported(running[c].key)
    /\ running[c].index \in Valid[running[c].key]

\* An account's viewing key is the one of its address, and in fvks.
OwnersImported ==
  \A a \in Address : Registered(a) /\ accounts[a].fvk # NULL =>
    a \in Shielded /\ accounts[a].fvk = a[1] /\ Imported(a[1])

\* Until two connections overlap, the stored diversifier is the last one
\* given out or about to be, and those being generated are new and differ.
IssuedBelow ==
  \A a \in issued : Imported(a[1]) /\ a[2] <= fvks[a[1]]

UpdatesAbove ==
  \A c \in Connection : ~Idle(c) /\ running[c].step = "update" =>
    running[c].index > fvks[running[c].key]

InsertsNew ==
  \A c \in Connection : ~Idle(c) /\ running[c].step = "insert" =>
    /\ running[c].index <= fvks[running[c].key]
    /\ <<running[c].key, running[c].index>> \notin issued

Apart ==
  \A c, d \in Connection :
    c # d /\ ~Idle(c) /\ ~Idle(d) /\ running[c].key = running[d].key
          /\ running[c].step = running[d].step =>
      /\ running[c].step = "insert"
      /\ running[c].index # running[d].index

Fresh == ~overlapped => ~reissued /\ IssuedBelow /\ UpdatesAbove /\ InsertsNew /\ Apart

AccountIInv ==
  /\ AccountTypeOK /\ IssuedStayRegistered
  /\ Generating /\ OwnersImported /\ Fresh

-----------------------------------------------------------------------------
(* Addresses *)

\* A diversified address is a key with one of its valid indices.
LEMMA ShieldedPairs ==
  /\ \A a \in Shielded : a[1] \in Key /\ a[2] \in Valid[a[1]] /\ a[2] \in Nat
                         /\ a = <<a[1], a[2]>>
  /\ \A k \in Key : \A i \in Valid[k] : <<k, i>> \in Shielded /\ <<k, i>> \in Address
<1>1. ASSUME NEW a \in Shielded
      PROVE  a[1] \in Key /\ a[2] \in Valid[a[1]] /\ a[2] \in Nat /\ a = <<a[1], a[2]>>
  <2>1. PICK k \in Key : a \in {k} \X Valid[k]
    BY DEF Shielded
  <2>2. a = <<a[1], a[2]>> /\ a[1] = k /\ a[2] \in Valid[k]
    BY <2>1
  <2>3. Valid[k] \subseteq Nat
    BY AccountAssumption
  <2> QED
    BY <2>2, <2>3
<1>2. ASSUME NEW k \in Key, NEW i \in Valid[k]
      PROVE  <<k, i>> \in Shielded /\ <<k, i>> \in Address
  <2>1. <<k, i>> \in {k} \X Valid[k]
    OBVIOUS
  <2> QED
    BY <2>1 DEF Shielded, Address
<1> QED
  BY <1>1, <1>2

\* What a connection that is not idle runs.
LEMMA RunningRow ==
  ASSUME AccountIInv, NEW c \in Connection, ~Idle(c)
  PROVE  /\ running[c] \in Generation
         /\ running[c].key \in Key /\ running[c].index \in Nat
         /\ running[c].step \in {"update", "insert"}
         /\ Imported(running[c].key) /\ fvks[running[c].key] \in Nat
         /\ running[c].index \in Valid[running[c].key]
<1>1. running[c] \in Generation
  BY DEF AccountIInv, AccountTypeOK, Idle, Generation
<1>2. /\ running[c].key \in Key /\ running[c].index \in Nat
      /\ running[c].step \in {"update", "insert"}
  BY <1>1 DEF Generation
<1>3. Imported(running[c].key) /\ running[c].index \in Valid[running[c].key]
  BY DEF AccountIInv, Generating
<1>4. fvks[running[c].key] \in Nat
  BY <1>2, <1>3 DEF AccountIInv, AccountTypeOK, Imported
<1> QED
  BY <1>1, <1>2, <1>3, <1>4

LEMMA AccountInitial == AccountInit => AccountIInv
<1> SUFFICES ASSUME AccountInit PROVE AccountIInv
  OBVIOUS
<1>1. /\ \A k \in Key : ~Imported(k)
      /\ \A a \in Address : ~Registered(a)
      /\ \A c \in Connection : Idle(c)
      /\ issued = {}
  BY DEF AccountInit, Imported, Registered, Idle
<1>2. AccountTypeOK
  <2>1. /\ fvks \in [Key -> Nat \cup {NULL}]
        /\ accounts \in [Address -> [fvk : Key \cup {NULL}] \cup {NULL}]
        /\ running \in [Connection -> Generation \cup {NULL}]
        /\ issued \subseteq Shielded
    BY DEF AccountInit
  <2>2. reissued \in BOOLEAN /\ overlapped \in BOOLEAN
    BY DEF AccountInit
  <2>3. stops \in 0..MaxStops
    BY AccountAssumption DEF AccountInit
  <2> QED
    BY <2>1, <2>2, <2>3 DEF AccountTypeOK, Generation
<1>3. IssuedStayRegistered /\ Generating /\ OwnersImported
  BY <1>1 DEF IssuedStayRegistered, Generating, OwnersImported
<1>4. Fresh
  <2>1. ~reissued
    BY DEF AccountInit
  <2> QED
    BY <1>1, <2>1 DEF Fresh, IssuedBelow, UpdatesAbove, InsertsNew, Apart
<1> QED
  BY <1>2, <1>3, <1>4 DEF AccountIInv
-----------------------------------------------------------------------------
(* Steps *)

\* Keys stay imported, and an account changes only when its address, imported
\* by hand before, is given out.
Grown ==
  /\ \A k \in Key : Imported(k) => Imported(k)'
  /\ \A a \in Address : Registered(a) =>
       \/ accounts'[a] = accounts[a]
       \/ a \in Shielded /\ accounts[a].fvk = NULL /\ Registered(a)'

LEMMA ImportFvkKeeps ==
  ASSUME AccountIInv, NEW c \in Connection, NEW k \in Key, ImportFvk(c, k)
  PROVE  AccountIInv' /\ Grown
<1>1. /\ fvks' \in [Key -> Nat \cup {NULL}]
      /\ \A j \in Key : Imported(j) => fvks'[j] = fvks[j] /\ Imported(j)'
  BY DEF AccountIInv, AccountTypeOK, ImportFvk, Imported
<1>2. UNCHANGED <<accounts, running, issued, reissued, overlapped, stops>>
  BY DEF ImportFvk
<1>3. AccountTypeOK'
  BY <1>1, <1>2 DEF AccountIInv, AccountTypeOK
<1>4. IssuedStayRegistered' /\ Grown
  BY <1>1, <1>2 DEF AccountIInv, IssuedStayRegistered, Registered, Grown
<1>5. Generating'
  BY <1>1, <1>2, RunningRow DEF Generating, Idle, AccountIInv
<1>6. OwnersImported'
  BY <1>1, <1>2, ShieldedPairs DEF AccountIInv, OwnersImported, Registered
<1>7. Fresh'
  <2> SUFFICES ASSUME ~overlapped
               PROVE  (~reissued /\ IssuedBelow /\ UpdatesAbove /\ InsertsNew /\ Apart)'
    BY <1>2 DEF Fresh
  <2>1. ~reissued /\ IssuedBelow /\ UpdatesAbove /\ InsertsNew /\ Apart
    BY DEF AccountIInv, Fresh
  <2>2. IssuedBelow'
    BY <1>1, <1>2, <2>1, ShieldedPairs DEF IssuedBelow, AccountIInv, AccountTypeOK
  <2>3. UpdatesAbove' /\ InsertsNew'
    BY <1>1, <1>2, <2>1, RunningRow DEF UpdatesAbove, InsertsNew, Idle
  <2>4. Apart' /\ ~reissued'
    BY <1>2, <2>1 DEF Apart, Idle
  <2> QED
    BY <2>2, <2>3, <2>4
<1> QED
  BY <1>3, <1>4, <1>5, <1>6, <1>7 DEF AccountIInv

LEMMA ImportAddressKeeps ==
  ASSUME AccountIInv, NEW c \in Connection, NEW a \in Address, ImportAddress(c, a)
  PROVE  AccountIInv' /\ Grown
<1>1. UNCHANGED <<fvks, running, issued, reissued, overlapped, stops>>
  BY DEF ImportAddress
<1>2. /\ accounts' \in [Address -> [fvk : Key \cup {NULL}] \cup {NULL}]
      /\ \A b \in Address : Registered(b) => accounts'[b] = accounts[b] /\ Registered(b)'
      /\ \A b \in Address : Registered(b)' => accounts'[b] = accounts[b] \/ accounts'[b].fvk = NULL
  BY DEF AccountIInv, AccountTypeOK, ImportAddress, Registered
<1>3. AccountTypeOK'
  BY <1>1, <1>2 DEF AccountIInv, AccountTypeOK
<1>4. IssuedStayRegistered' /\ Grown
  <2>1. \A b \in issued : b \in Address
    BY DEF AccountIInv, AccountTypeOK, Address
  <2> QED
    BY <1>1, <1>2, <2>1 DEF AccountIInv, IssuedStayRegistered, Grown, Imported
<1>5. Generating' /\ Fresh'
  BY <1>1 DEF AccountIInv, Generating, Idle, Imported, Fresh, IssuedBelow, UpdatesAbove,
              InsertsNew, Apart
<1>6. OwnersImported'
  BY <1>1, <1>2 DEF AccountIInv, OwnersImported, Imported, Registered
<1> QED
  BY <1>3, <1>4, <1>5, <1>6 DEF AccountIInv

LEMMA SelectKeeps ==
  ASSUME AccountIInv, NEW c \in Connection, NEW k \in Key, SelectDiversifier(c, k)
  PROVE  AccountIInv' /\ Grown
<1> PICK i \in Unused(k) :
      running' = [running EXCEPT ![c] = [key |-> k, index |-> i, step |-> "update"]]
  BY DEF SelectDiversifier
<1> DEFINE row == [key |-> k, index |-> i, step |-> "update"]
<1>1. /\ UNCHANGED <<fvks, accounts, issued, reissued, stops>>
      /\ Idle(c) /\ Imported(k)
      /\ overlapped' = (overlapped \/ Overlaps(c, k))
  BY DEF SelectDiversifier
<1>2. i \in Valid[k] /\ i \in Nat /\ i > fvks[k] /\ fvks[k] \in Nat
  <2>1. fvks[k] \in Nat
    BY <1>1 DEF AccountIInv, AccountTypeOK, Imported
  <2> QED
    BY <2>1, AccountAssumption DEF Unused
<1>3. /\ row \in Generation /\ row # NULL
      /\ row.key = k /\ row.index = i /\ row.step = "update"
  BY <1>2, AccountAssumption DEF Generation
<1>4. /\ running' \in [Connection -> Generation \cup {NULL}]
      /\ running'[c] = row
      /\ \A d \in Connection : d # c => running'[d] = running[d]
  BY <1>3 DEF AccountIInv, AccountTypeOK, Generation
<1> HIDE DEF row
<1>5. AccountTypeOK'
  <2>1. overlapped' \in BOOLEAN
    BY <1>1 DEF AccountIInv, AccountTypeOK
  <2> QED
    BY <1>1, <1>4, <2>1 DEF AccountIInv, AccountTypeOK, Generation
<1>6. IssuedStayRegistered' /\ OwnersImported' /\ Grown
  BY <1>1 DEF AccountIInv, IssuedStayRegistered, OwnersImported, Registered, Imported, Grown
<1>7. Generating'
  BY <1>1, <1>2, <1>3, <1>4 DEF AccountIInv, Generating, Idle, Imported
<1>8. Fresh'
  <2> SUFFICES ASSUME ~overlapped'
               PROVE  (~reissued /\ IssuedBelow /\ UpdatesAbove /\ InsertsNew /\ Apart)'
    BY DEF Fresh
  <2>1. ~overlapped /\ ~Overlaps(c, k)
    BY <1>1
  <2>2. ~reissued /\ IssuedBelow /\ UpdatesAbove /\ InsertsNew /\ Apart
    BY <2>1 DEF AccountIInv, Fresh
  <2>3. ~reissued' /\ IssuedBelow'
    BY <1>1, <2>2 DEF IssuedBelow, Imported
  <2>4. UpdatesAbove' /\ InsertsNew'
    BY <1>1, <1>2, <1>3, <1>4, <2>2 DEF UpdatesAbove, InsertsNew, Idle
  <2>5. \A d \in Connection : d # c /\ ~Idle(d) /\ running[d].key = k
                              => running[d].step # "update"
    BY <2>1 DEF Overlaps
  <2>6. Apart'
    BY <1>1, <1>3, <1>4, <2>2, <2>5 DEF Apart, Idle
  <2> QED
    BY <2>3, <2>4, <2>6
<1> QED
  BY <1>5, <1>6, <1>7, <1>8 DEF AccountIInv

LEMMA UpdateKeeps ==
  ASSUME AccountIInv, NEW c \in Connection, UpdateDiversifier(c)
  PROVE  AccountIInv' /\ Grown
<1> DEFINE k == running[c].key
           i == running[c].index
           row == [running[c] EXCEPT !.step = "insert"]
<1>1. /\ UNCHANGED <<accounts, issued, reissued, overlapped, stops>>
      /\ ~Idle(c) /\ running[c].step = "update"
      /\ fvks' = [fvks EXCEPT ![k] = i]
      /\ running' = [running EXCEPT ![c] = row]
  BY DEF UpdateDiversifier
<1>2. /\ running[c] \in Generation /\ k \in Key /\ i \in Nat
      /\ Imported(k) /\ fvks[k] \in Nat /\ i \in Valid[k]
  BY <1>1, RunningRow
<1>3. /\ row \in Generation /\ row # NULL
      /\ row.key = k /\ row.index = i /\ row.step = "insert"
  BY <1>2, AccountAssumption DEF Generation
<1>4. /\ running' \in [Connection -> Generation \cup {NULL}]
      /\ running'[c] = row
      /\ \A d \in Connection : d # c => running'[d] = running[d]
  BY <1>1, <1>3 DEF AccountIInv, AccountTypeOK, Generation
<1> HIDE DEF row
<1>5. /\ fvks' \in [Key -> Nat \cup {NULL}]
      /\ fvks'[k] = i
      /\ \A j \in Key : j # k => fvks'[j] = fvks[j]
      /\ \A j \in Key : Imported(j) => Imported(j)'
  BY <1>1, <1>2, AccountAssumption DEF AccountIInv, AccountTypeOK, Imported
<1> HIDE DEF k, i
<1>6. AccountTypeOK'
  BY <1>1, <1>4, <1>5 DEF AccountIInv, AccountTypeOK, Generation
<1>7. IssuedStayRegistered' /\ Grown
  BY <1>1, <1>5 DEF AccountIInv, IssuedStayRegistered, Registered, Grown
<1>8. OwnersImported'
  BY <1>1, <1>5, ShieldedPairs DEF AccountIInv, OwnersImported, Registered
<1>9. \A d \in Connection : d # c /\ ~Idle(d)' =>
        /\ ~Idle(d) /\ running[d].key \in Key /\ Imported(running[d].key)'
        /\ running[d].index \in Valid[running[d].key] /\ running[d].index \in Nat
        /\ running[d].step \in {"update", "insert"}
  BY <1>4, <1>5, RunningRow DEF Idle
<1>10. Generating'
  BY <1>2, <1>3, <1>4, <1>5, <1>9 DEF Generating
<1>11. Fresh'
  <2> SUFFICES ASSUME ~overlapped
               PROVE  (~reissued /\ IssuedBelow /\ UpdatesAbove /\ InsertsNew /\ Apart)'
    BY <1>1 DEF Fresh
  <2>1. ~reissued /\ IssuedBelow /\ UpdatesAbove /\ InsertsNew /\ Apart
    BY DEF AccountIInv, Fresh
  <2>2. i > fvks[k]
    BY <1>1, <2>1 DEF UpdatesAbove, k, i
  <2>3. IssuedBelow'
    <3> SUFFICES ASSUME NEW a \in issued
                 PROVE  Imported(a[1])' /\ a[2] <= fvks'[a[1]]
      BY <1>1 DEF IssuedBelow
    <3>1. a[1] \in Key /\ a[2] \in Nat /\ Imported(a[1]) /\ a[2] <= fvks[a[1]]
      BY <2>1, ShieldedPairs DEF IssuedBelow, AccountIInv, AccountTypeOK
    <3> QED
      BY <1>2, <1>5, <2>2, <3>1
  <2>4. \A d \in Connection : d # c /\ ~Idle(d)' /\ running[d].step = "update"
                              => running[d].key # k
    BY <1>1, <1>9, <2>1 DEF Apart, k
  <2>5. UpdatesAbove'
    BY <1>3, <1>4, <1>5, <1>9, <2>1, <2>4 DEF UpdatesAbove
  <2>6. <<k, i>> \notin issued
    BY <1>2, <2>1, <2>2 DEF IssuedBelow
  <2>7. InsertsNew'
    <3> SUFFICES ASSUME NEW d \in Connection, ~Idle(d)', running'[d].step = "insert"
                 PROVE  /\ running'[d].index <= fvks'[running'[d].key]
                        /\ <<running'[d].key, running'[d].index>> \notin issued
      BY <1>1 DEF InsertsNew
    <3>1. CASE d = c
      BY <1>2, <1>3, <1>4, <1>5, <2>6, <3>1
    <3>2. CASE d # c
      <4>1. /\ running[d].index <= fvks[running[d].key]
            /\ <<running[d].key, running[d].index>> \notin issued
        BY <1>4, <1>9, <2>1, <3>2 DEF InsertsNew
      <4> QED
        BY <1>2, <1>4, <1>5, <1>9, <2>2, <3>2, <4>1
    <3> QED
      BY <3>1, <3>2
  <2>8. Apart'
    <3> SUFFICES ASSUME NEW d \in Connection, NEW e \in Connection, d # e,
                        ~Idle(d)', ~Idle(e)', running'[d].key = running'[e].key,
                        running'[d].step = running'[e].step
                 PROVE  running'[d].step = "insert" /\ running'[d].index # running'[e].index
      BY DEF Apart
    <3>1. CASE d # c /\ e # c
      BY <1>4, <1>9, <2>1, <3>1 DEF Apart
    <3>2. \A f \in Connection : f # c /\ ~Idle(f)' /\ running'[f].key = k
                                      /\ running'[f].step = "insert"
                                => running'[f].index # i
      <4> SUFFICES ASSUME NEW f \in Connection, f # c, ~Idle(f)', running'[f].key = k,
                          running'[f].step = "insert"
                   PROVE  running'[f].index # i
        OBVIOUS
      <4>1. running[f].index <= fvks[k] /\ running'[f].index = running[f].index
            /\ running[f].index \in Nat
        BY <1>4, <1>9, <2>1 DEF InsertsNew
      <4> QED
        BY <1>2, <2>2, <4>1
    <3>3. CASE d = c
      BY <1>3, <1>4, <3>2, <3>3
    <3>4. CASE e = c
      BY <1>3, <1>4, <3>2, <3>4
    <3> QED
      BY <3>1, <3>3, <3>4
  <2> QED
    BY <1>1, <2>1, <2>3, <2>5, <2>7, <2>8
<1> QED
  BY <1>6, <1>7, <1>8, <1>10, <1>11 DEF AccountIInv

LEMMA InsertKeeps ==
  ASSUME AccountIInv, NEW c \in Connection, InsertAccount(c)
  PROVE  AccountIInv' /\ Grown
<1> DEFINE k == running[c].key
           i == running[c].index
           a == <<k, i>>
<1>1. /\ UNCHANGED <<fvks, overlapped, stops>>
      /\ ~Idle(c) /\ running[c].step = "insert"
      /\ accounts' = [accounts EXCEPT ![a] = [fvk |-> k]]
      /\ issued' = issued \cup {a}
      /\ reissued' = (reissued \/ a \in issued)
      /\ running' = [running EXCEPT ![c] = NULL]
  BY DEF InsertAccount
<1>2. k \in Key /\ i \in Nat /\ Imported(k) /\ fvks[k] \in Nat /\ i \in Valid[k]
  BY <1>1, RunningRow
<1>3. a \in Shielded /\ a \in Address /\ a[1] = k /\ a[2] = i
  BY <1>2, ShieldedPairs
<1>4. [fvk |-> k] \in [fvk : Key \cup {NULL}] /\ [fvk |-> k] # NULL /\ [fvk |-> k].fvk = k
      /\ k # NULL
  BY <1>2, AccountAssumption
<1> HIDE DEF a, k, i
<1>5. /\ accounts' \in [Address -> [fvk : Key \cup {NULL}] \cup {NULL}]
      /\ accounts'[a] = [fvk |-> k]
      /\ \A b \in Address : b # a => accounts'[b] = accounts[b]
  BY <1>1, <1>3, <1>4 DEF AccountIInv, AccountTypeOK
<1>6. /\ running' \in [Connection -> Generation \cup {NULL}]
      /\ \A d \in Connection : ~Idle(d)' => d # c /\ ~Idle(d) /\ running'[d] = running[d]
  BY <1>1 DEF AccountIInv, AccountTypeOK, Generation, Idle
<1>7. AccountTypeOK'
  <2>1. reissued' \in BOOLEAN
    BY <1>1 DEF AccountIInv, AccountTypeOK
  <2> QED
    BY <1>1, <1>3, <1>5, <1>6, <2>1 DEF AccountIInv, AccountTypeOK, Generation
<1>8. IssuedStayRegistered'
  <2> SUFFICES ASSUME NEW b \in issued'
               PROVE  Registered(b)' /\ accounts'[b].fvk = b[1]
    BY DEF IssuedStayRegistered
  <2>1. CASE b = a
    BY <1>3, <1>4, <1>5, <2>1 DEF Registered
  <2>2. CASE b # a
    <3>1. b \in issued /\ b \in Address
      BY <1>1, <2>2 DEF AccountIInv, AccountTypeOK, Address
    <3> QED
      BY <1>5, <2>2, <3>1 DEF AccountIInv, IssuedStayRegistered, Registered
  <2> QED
    BY <2>1, <2>2
<1>9. OwnersImported' /\ Generating'
  BY <1>1, <1>2, <1>3, <1>4, <1>5, <1>6 DEF AccountIInv, OwnersImported, Registered, Imported,
                                            Generating
<1>10. Grown
  <2>1. Registered(a) => accounts'[a] = accounts[a] \/ accounts[a].fvk = NULL
    <3> SUFFICES ASSUME Registered(a), accounts[a].fvk # NULL
                 PROVE  accounts'[a] = accounts[a]
      OBVIOUS
    <3>1. accounts[a] \in [fvk : Key \cup {NULL}] /\ accounts[a].fvk = k
      BY <1>3 DEF AccountIInv, AccountTypeOK, OwnersImported, Registered
    <3>2. accounts[a] = [fvk |-> k]
      BY <3>1
    <3> QED
      BY <1>5, <3>2
  <2>2. accounts'[a] # NULL
    BY <1>4, <1>5
  <2> QED
    BY <1>1, <1>3, <1>5, <2>1, <2>2 DEF Grown, Imported, Registered
<1>11. Fresh'
  <2> SUFFICES ASSUME ~overlapped
               PROVE  (~reissued /\ IssuedBelow /\ UpdatesAbove /\ InsertsNew /\ Apart)'
    BY <1>1 DEF Fresh
  <2>1. ~reissued /\ IssuedBelow /\ UpdatesAbove /\ InsertsNew /\ Apart
    BY DEF AccountIInv, Fresh
  <2>2. i <= fvks[k] /\ a \notin issued
    BY <1>1, <2>1 DEF InsertsNew, a, k, i
  <2>3. ~reissued'
    BY <1>1, <2>1, <2>2
  <2>4. IssuedBelow'
    BY <1>1, <1>2, <1>3, <2>1, <2>2 DEF IssuedBelow, Imported
  <2>5. UpdatesAbove' /\ Apart'
    BY <1>1, <1>6, <2>1 DEF UpdatesAbove, Apart
  <2>6. InsertsNew'
    <3> SUFFICES ASSUME NEW d \in Connection, ~Idle(d)', running'[d].step = "insert"
                 PROVE  /\ running'[d].index <= fvks'[running'[d].key]
                        /\ <<running'[d].key, running'[d].index>> \notin issued'
      BY DEF InsertsNew
    <3>1. d # c /\ ~Idle(d) /\ running'[d] = running[d] /\ running[d].step = "insert"
      BY <1>6
    <3>2. running[d].key # k \/ running[d].index # i
      BY <1>1, <2>1, <3>1 DEF Apart, k, i
    <3>3. <<running[d].key, running[d].index>> # a
      BY <3>2 DEF a
    <3> QED
      BY <1>1, <2>1, <3>1, <3>3 DEF InsertsNew
  <2> QED
    BY <2>3, <2>4, <2>5, <2>6
<1> QED
  BY <1>7, <1>8, <1>9, <1>10, <1>11 DEF AccountIInv

LEMMA StopKeeps ==
  ASSUME AccountIInv, NEW c \in Connection, Stop(c)
  PROVE  AccountIInv' /\ Grown
<1>1. /\ UNCHANGED <<fvks, accounts, issued, reissued, overlapped>>
      /\ stops' = stops + 1 /\ stops < MaxStops
      /\ running' = [running EXCEPT ![c] = NULL]
  BY DEF Stop
<1>2. /\ running' \in [Connection -> Generation \cup {NULL}]
      /\ \A d \in Connection : ~Idle(d)' => ~Idle(d) /\ running'[d] = running[d]
  BY <1>1 DEF AccountIInv, AccountTypeOK, Generation, Idle
<1>3. stops' \in 0..MaxStops
  BY <1>1, AccountAssumption DEF AccountIInv, AccountTypeOK
<1>4. AccountTypeOK'
  BY <1>1, <1>2, <1>3 DEF AccountIInv, AccountTypeOK, Generation
<1>5. IssuedStayRegistered' /\ OwnersImported' /\ Generating' /\ Grown
  BY <1>1, <1>2 DEF AccountIInv, IssuedStayRegistered, OwnersImported, Generating, Grown,
                    Registered, Imported
<1>6. Fresh'
  BY <1>1, <1>2 DEF AccountIInv, Fresh, IssuedBelow, UpdatesAbove, InsertsNew, Apart, Imported
<1> QED
  BY <1>4, <1>5, <1>6 DEF AccountIInv

\* Whatever any connection does.
LEMMA AccountingKeeps == AccountIInv /\ Accounting => AccountIInv' /\ Grown
<1> SUFFICES ASSUME AccountIInv, Accounting
             PROVE  AccountIInv' /\ Grown
  OBVIOUS
<1> PICK c \in Connection :
      \/ \E k \in Key : ImportFvk(c, k) \/ SelectDiversifier(c, k)
      \/ \E a \in ByHand : ImportAddress(c, a)
      \/ UpdateDiversifier(c) \/ InsertAccount(c) \/ Stop(c)
  BY DEF Accounting
<1>1. ASSUME NEW k \in Key, ImportFvk(c, k) \/ SelectDiversifier(c, k)
      PROVE  AccountIInv' /\ Grown
  BY <1>1, ImportFvkKeeps, SelectKeeps
<1>2. ASSUME NEW a \in ByHand, ImportAddress(c, a)
      PROVE  AccountIInv' /\ Grown
  <2>1. a \in Address
    BY AccountAssumption
  <2> QED
    BY <1>2, <2>1, ImportAddressKeeps
<1>3. CASE UpdateDiversifier(c) \/ InsertAccount(c) \/ Stop(c)
  BY <1>3, UpdateKeeps, InsertKeeps, StopKeeps
<1> QED
  BY <1>1, <1>2, <1>3

=============================================================================
