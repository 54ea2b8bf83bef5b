----------------------------- MODULE MCPayments -----------------------------
(***************************************************************************)
(* Two branches that fork above a1.  n1, n2 and u1 are below every rewind; *)
(* n1 is spent on both branches, by different transactions and at          *)
(* different heights; u1 is spent, u2 is created on both.                  *)
(*                                                                         *)
(*   a1 (t1: n1 n2 u1) -- a2 (t2: u2) -- a3 (t3: n1 ->) (t5: u1 ->)        *)
(*      \---------------- b2 (t2: u2) (t4: n1 ->, u1 ->)                   *)
(***************************************************************************)
EXTENDS Payments, TLC

CONSTANTS a1, a2, a3, b2, t1, t2, t3, t4, t5, n1, n2, u1, u2

MCBlock == {a1, a2, a3, b2}
MCTx    == {t1, t2, t3, t4, t5}
MCNote  == {n1, n2}
MCUtxo  == {u1, u2}

MCHeightOf == a1 :> 1 @@ a2 :> 2 @@ a3 :> 3 @@ b2 :> 2
MCPrevHash == a1 :> NULL @@ a2 :> a1 @@ a3 :> a2 @@ b2 :> a1
MCBlockTx  == a1 :> {t1} @@ a2 :> {t2} @@ a3 :> {t3, t5} @@ b2 :> {t2, t4}
MCTxOfNote   == n1 :> t1 @@ n2 :> t1
MCNotesSpent == t3 :> {n1} @@ t4 :> {n1} @@ [t \in MCTx |-> {}]
MCExpiryOf   == [t \in MCTx |-> 3]
MCTxOfUtxo   == u1 :> t1 @@ u2 :> t2
MCUtxosSpent == t4 :> {u1} @@ t5 :> {u1} @@ [t \in MCTx |-> {}]

MCValueOf == n1 :> 2 @@ n2 :> 1 @@ u1 :> 2 @@ u2 :> 2

MCRewindHeight == {1, 2}
MCCheckpoint   == {<<a1>>}
=============================================================================
