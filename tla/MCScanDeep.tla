----------------------------- MODULE MCScanDeep ------------------------------
(***************************************************************************)
(* A chunk longer than the witness window, as MAX_CHUNK (1000) is longer   *)
(* than 100: three blocks are in sync when the tip is four blocks further  *)
(* up, and a fork replaces the top two of those while the transparent scan *)
(* is half way.                                                            *)
(*                                                                         *)
(*   a1 [t1: n1] -- a2 -- a3 -- a4 -- a5 -- a6 -- a7                       *)
(*                                      \-- b6 -- b7 -- b8                 *)
(***************************************************************************)
EXTENDS ScanChain, TLC

CONSTANTS a1, a2, a3, a4, a5, a6, a7, b6, b7, b8, t1, n1

MCBlock == {a1, a2, a3, a4, a5, a6, a7, b6, b7, b8}
MCTx    == {t1}
MCNote  == {n1}

MCHeightOf == a1 :> 1 @@ a2 :> 2 @@ a3 :> 3 @@ a4 :> 4 @@ a5 :> 5 @@ a6 :> 6
              @@ a7 :> 7 @@ b6 :> 6 @@ b7 :> 7 @@ b8 :> 8
MCPrevHash == a1 :> NULL @@ a2 :> a1 @@ a3 :> a2 @@ a4 :> a3 @@ a5 :> a4
              @@ a6 :> a5 @@ a7 :> a6 @@ b6 :> a5 @@ b7 :> b6 @@ b8 :> b7
MCBlockTx  == a1 :> {t1} @@ [b \in MCBlock |-> {}]

MCTxOfNote   == n1 :> t1
MCNotesSpent == t1 :> {}
MCExpiryOf   == t1 :> 8
NoUtxo       == {}
NoTxOf       == [u \in NoUtxo |-> t1]

MCIndex      == n1 :> 0
MCChains     == {<<a1, a2, a3>>, <<a1, a2, a3, a4, a5, a6, a7>>,
                 <<a1, a2, a3, a4, a5, b6, b7, b8>>}
NoCheckpoint == {}
NoOperator   == {}
=============================================================================
