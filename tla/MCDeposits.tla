------------------------------ MODULE MCDeposits ------------------------------
(***************************************************************************)
(* Two connections, the server's and a command line client's; one viewing  *)
(* key with two valid diversifiers, one string that is no key, and one     *)
(* transparent address.                                                    *)
(***************************************************************************)
EXTENDS Deposits, TLC

CONSTANTS server, cli, k1, bad, taddr

MCKey         == {k1, bad}
MCMalformed   == {bad}
MCValid       == k1 :> {1, 3} @@ bad :> {}
OneKey        == {k1}
NoneMalformed == {}
OneValid      == k1 :> {1, 3}
MCTransparent == {taddr}
MCConnection  == {server, cli}

MCByHand      == {taddr, <<k1, 1>>}

\* An address that another wallet with the key has shown.
MCElsewhere == {<<k1, 3>>}
=============================================================================
