------------------------ MODULE MCWalletSynchronizer ------------------------
(***************************************************************************)
(* Two consumers of a daemon with two branches, for model checking:        *)
(*                                                                         *)
(*   g --- a1 --- a2                                                       *)
(*   \---- b1 --- b2 --- b3                                                *)
(***************************************************************************)
EXTENDS WalletSynchronizer

CONSTANTS g, a1, a2, b1, b2, b3

MCBranches == {<<g, a1, a2>>, <<g, b1, b2, b3>>}
MCLoadedBranches == {<<g, a1, a2>>}
=============================================================================
