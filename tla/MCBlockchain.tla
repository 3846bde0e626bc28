---------------------------- MODULE MCBlockchain ----------------------------
(***************************************************************************)
(* A tree of ten blocks for model checking:                                *)
(*                                                                         *)
(*   g --- a1 --- a2 (t1) --- a3 (t2)                                      *)
(*   |       |      \---- e3                                               *)
(*   |       \--- c2 (t3)                                                  *)
(*   \---- b1 --- b2 (t1) --- b3 (t2)                                      *)
(*                      \---- d3                                           *)
(*                                                                         *)
(* t1 and t3 spend the same output.  t2 spends the coinbase of a1 and so   *)
(* is invalid after b1, whose coinbase has the same global index there.    *)
(***************************************************************************)
EXTENDS Blockchain, TLC

CONSTANTS g, a1, a2, a3, b1, b2, b3, c2, d3, e3, p1, p2, q1, q2, t1, t2, t3, k1, k2

MCBlocks == {g, a1, a2, a3, b1, b2, b3, c2, d3, e3}
MCTxs == {t1, t2, t3}
MCKeyImages == {k1, k2}

MCBranch ==
    g :> <<g>> @@ a1 :> <<g, a1>> @@ a2 :> <<g, a1, a2>> @@ a3 :> <<g, a1, a2, a3>>
    @@ b1 :> <<g, b1>> @@ b2 :> <<g, b1, b2>> @@ b3 :> <<g, b1, b2, b3>>
    @@ c2 :> <<g, a1, c2>> @@ d3 :> <<g, b1, b2, d3>> @@ e3 :> <<g, a1, a2, e3>>

MCDifficulty ==
    g :> 1 @@ a1 :> 3 @@ a2 :> 5 @@ a3 :> 7 @@ b1 :> 2 @@ b2 :> 5 @@ b3 :> 8 @@ c2 :> 6 @@ d3 :> 8 @@ e3 :> 7

MCBlockTxs ==
    [b \in MCBlocks |-> CASE b \in {a2, b2} -> <<t1>>
                          [] b \in {a3, b3} -> <<t2>>
                          [] b = c2 -> <<t3>>
                          [] OTHER -> <<>>]

MCImages == t1 :> {k1} @@ t2 :> {k2} @@ t3 :> {k1}
MCRing == [t \in MCTxs |-> IF t = t2 THEN {[index |-> 1, owner |-> a1]}
                                     ELSE {[index |-> 0, owner |-> g]}]

NoPoints == [h \in {} |-> g]

-----------------------------------------------------------------------------
\* The same tree on a checkpoint at height 2: the genesis block has the children
\* p1 and q1, each with one child, and a1 and b1 follow p2, the checkpoint's
\* block.  q1 is heavier than p2: only the checkpoint makes p2 the main chain.
TallBlocks == MCBlocks \cup {p1, p2, q1, q2}

TallBranch ==
    p1 :> <<g, p1>> @@ p2 :> <<g, p1, p2>> @@ q1 :> <<g, q1>> @@ q2 :> <<g, q1, q2>> @@ g :> <<g>>
    @@ [b \in MCBlocks |-> <<g, p1, p2>> \o Tail(MCBranch[b])]

TallDifficulty ==
    p1 :> 2 @@ p2 :> 3 @@ q1 :> 5 @@ q2 :> 6 @@ g :> 1
    @@ [b \in MCBlocks |-> MCDifficulty[b] + 2]

TallBlockTxs == [b \in TallBlocks |-> IF b \in MCBlocks THEN MCBlockTxs[b] ELSE <<>>]

TallRing == [t \in MCTxs |-> IF t = t2 THEN {[index |-> 3, owner |-> a1]}
                                       ELSE {[index |-> 0, owner |-> g]}]

PointAtP2 == 2 :> p2
=============================================================================
