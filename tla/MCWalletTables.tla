---------------------------- MODULE MCWalletTables ----------------------------
(***************************************************************************)
(* The shielded tables and the table utxos, each by itself: neither half   *)
(* of the wallet reads the other's tables, so each is driven while the     *)
(* other holds no blocks.  Two branches fork above a1; [] are shielded     *)
(* transactions, () are transparent ones.                                  *)
(*                                                                         *)
(*   a1 [t1: n1]  - a2 [t2: n1 -> n2] - a3 [t4: n3]    - a4       - a5     *)
(*     \ (s1: u1)                          (s2: u1 ->)    (s4: u3)   (s5)  *)
(*      \                                                                  *)
(*       b2         - b3 [t3: n1 ->]        - b4 [t4: n3] - b5 (s4: u3)    *)
(*         (s2: u1 ->)   (s3: u2) (s6: u2 ->)                              *)
(*                                                                         *)
(* t2 and t3 spend the same note on different branches, and t4 is mined    *)
(* again one block higher after a reorganisation.  u1 is spent at height 3 *)
(* or 2; u2 is created and spent within b3; u3 is created at height 4, or  *)
(* at 5 when a reorganisation delays it, and spent by s5 on branch a.      *)
(***************************************************************************)
EXTENDS SaplingWallet, TransparentWallet, TLC

CONSTANTS a1, a2, a3, a4, a5, b2, b3, b4, b5,
          t1, t2, t3, t4, s1, s2, s3, s4, s5, s6, n1, n2, n3, u1, u2, u3

MCBlock == {a1, a2, a3, a4, a5, b2, b3, b4, b5}
MCTx    == {t1, t2, t3, t4, s1, s2, s3, s4, s5, s6}
MCNote  == {n1, n2, n3}
MCUtxo  == {u1, u2, u3}

MCHeightOf == a1 :> 1 @@ a2 :> 2 @@ a3 :> 3 @@ a4 :> 4 @@ a5 :> 5
              @@ b2 :> 2 @@ b3 :> 3 @@ b4 :> 4 @@ b5 :> 5
MCPrevHash == a1 :> NULL @@ a2 :> a1 @@ a3 :> a2 @@ a4 :> a3 @@ a5 :> a4
              @@ b2 :> a1 @@ b3 :> b2 @@ b4 :> b3 @@ b5 :> b4
MCBlockTx  == a1 :> {t1, s1} @@ a2 :> {t2} @@ a3 :> {t4, s2} @@ a4 :> {s4}
              @@ a5 :> {s5} @@ b2 :> {s2} @@ b3 :> {t3, s3, s6} @@ b4 :> {t4}
              @@ b5 :> {s4}

MCTxOfNote   == n1 :> t1 @@ n2 :> t2 @@ n3 :> t4
MCNotesSpent == t2 :> {n1} @@ t3 :> {n1} @@ [t \in MCTx |-> {}]
MCTxOfUtxo   == u1 :> s1 @@ u2 :> s3 @@ u3 :> s4
MCUtxosSpent == s2 :> {u1} @@ s5 :> {u3} @@ s6 :> {u2} @@ [t \in MCTx |-> {}]
MCExpiryOf   == [t \in MCTx |-> IF t \in {t1, t2, t3, t4} THEN 4 ELSE 5]

MCRewindHeight    == 0..4
MCTrpRewindHeight == -1..4
MCCheckpoint      == {<<a1, a2>>}

TablesInit == Init /\ TrpInit

TablesNext ==
  \/ Scanned = {} /\ Next /\ UNCHANGED trp_vars
  \/ Stored = {} /\ TrpNext /\ OneChain' /\ UNCHANGED vars

TablesSpec == TablesInit /\ [][TablesNext]_<<vars, trp_vars>>
=============================================================================
