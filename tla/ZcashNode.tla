------------------------------ MODULE ZcashNode ------------------------------
(***************************************************************************)
(* The zcashd this wallet polls (external).  It serves its current best    *)
(* chain, which it may extend or replace between any two RPCs.  Heights    *)
(* are positions in the chain.                                             *)
(***************************************************************************)
EXTENDS Ledger

CONSTANT Chains   \* the chains that may be best at some time

VARIABLE chain    \* the current best chain

ASSUME ChainsAssumption ==
  /\ Chains \subseteq Seq(Block)
  /\ Chains # {}
  /\ \A c \in Chains :
       /\ Len(c) <= MaxHeight
       /\ \A i \in 1..Len(c) :
            /\ HeightOf[c[i]] = i
            /\ PrevHash[c[i]] = IF i = 1 THEN NULL ELSE c[i - 1]

NodeInit == chain \in {c \in Chains : \A d \in Chains : Len(c) <= Len(d)}

\* getblockcount
TipHeight == Len(chain)

\* getblock <height>
BlockAt(h) == chain[h]

\* The best chain has more work than the one it replaces, here: is longer.
NodeAdvances ==
  \E c \in Chains : Len(c) > Len(chain) /\ chain' = c

=============================================================================
