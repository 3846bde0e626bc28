---------------------------- MODULE MCBlockStorage ----------------------------
(***************************************************************************)
(* Two chains of three blocks that part after the genesis block: a2 of one *)
(* cell has to make room for b2 of two and back.                           *)
(***************************************************************************)
EXTENDS BlockStorage, TLC

CONSTANTS g, a1, a2, b1, b2

MCItems == {g, a1, a2, b1, b2}
MCSize == g :> 1 @@ a1 :> 1 @@ a2 :> 1 @@ b1 :> 1 @@ b2 :> 2
MCParent == a1 :> g @@ a2 :> a1 @@ b1 :> g @@ b2 :> b1
=============================================================================
