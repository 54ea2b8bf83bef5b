----------------------------- MODULE MCScanChain -----------------------------
(***************************************************************************)
(* Two branches that fork above a1; [] are shielded transactions, () are   *)
(* transparent ones.                                                       *)
(*                                                                         *)
(* a1 [t1: n1] (t5: u1) - a2 [t2: n1 -> n2] [t4: n3] - a3 (t6: u1 ->) - a4 *)
(*     \- b2 [t3: n1 -> n4](t3: -> u2) - b3 [t4: n3] (t6: u1 ->)           *)
(*                                                       - b4 (t7: u2 ->)  *)
(*                                                                         *)
(* t2 and t3 spend the same note on different branches, t4 is one block    *)
(* higher on branch b, and u1 is spent at the same height on both.  t3 is  *)
(* what prepare_tx makes of a payment to a tracked transparent address:    *)
(* the change n4 is its first shielded output and the payment u2 its       *)
(* first transparent one, so that the two share a key of the outbox, and   *)
(* so do the spends of n1 and of u2.                                       *)
(***************************************************************************)
EXTENDS ScanChain, TLC

CONSTANTS a1, a2, a3, a4, b2, b3, b4,
          t1, t2, t3, t4, t5, t6, t7, n1, n2, n3, n4, u1, u2

MCBlock == {a1, a2, a3, a4, b2, b3, b4}
MCTx    == {t1, t2, t3, t4, t5, t6, t7}
MCNote  == {n1, n2, n3, n4}
MCUtxo  == {u1, u2}

MCHeightOf == a1 :> 1 @@ a2 :> 2 @@ a3 :> 3 @@ a4 :> 4 @@ b2 :> 2 @@ b3 :> 3 @@ b4 :> 4
MCPrevHash == a1 :> NULL @@ a2 :> a1 @@ a3 :> a2 @@ a4 :> a3
              @@ b2 :> a1 @@ b3 :> b2 @@ b4 :> b3
MCBlockTx  == a1 :> {t1, t5} @@ a2 :> {t2, t4} @@ a3 :> {t6}
              @@ b2 :> {t3} @@ b3 :> {t4, t6} @@ b4 :> {t7}
              @@ [b \in MCBlock |-> {}]

MCTxOfNote   == n1 :> t1 @@ n2 :> t2 @@ n3 :> t4 @@ n4 :> t3
MCNotesSpent == t2 :> {n1} @@ t3 :> {n1} @@ [t \in MCTx |-> {}]
MCExpiryOf   == [t \in MCTx |-> 4]
MCTxOfUtxo   == u1 :> t5 @@ u2 :> t3
MCUtxosSpent == t6 :> {u1} @@ t7 :> {u2} @@ [t \in MCTx |-> {}]

\* Among the outputs of its kind, and among the spends.
MCOutputIndex == [c \in MCNote \cup MCUtxo |-> 0]
MCSpendIndex  == [n \in MCNote |-> 0]

MCChains == {<<a1>>, <<a1, a2>>, <<a1, a2, a3>>, <<a1, a2, a3, a4>>,
             <<a1, b2, b3>>, <<a1, b2, b3, b4>>}
Shallow  == {<<a1>>, <<a1, a2, a3>>, <<a1, b2, b3, b4>>}

NoCheckpoint == {}
MCCheckpoint == {<<a1>>}
Operator     == {1}
NoOperator   == {}
=============================================================================
