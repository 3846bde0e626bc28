------------------------- MODULE MCTransactionPool --------------------------
(***************************************************************************)
(* Two transactions that spend the same inputs over a small tree:          *)
(*                                                                         *)
(*   g --- a1                                                              *)
(*   \---- b1 --- b2 (t1)                                                  *)
(*                                                                         *)
(* t2 spends an output of a1, and is invalid once b2 has replaced it.      *)
(***************************************************************************)
EXTENDS TransactionPool, TLC

CONSTANTS g, a1, b1, b2, t1, t2, k1, o1

MCBlocks == {g, a1, b1, b2}
MCBranch == g :> <<g>> @@ a1 :> <<g, a1>> @@ b1 :> <<g, b1>> @@ b2 :> <<g, b1, b2>>
MCBlockTxs == [b \in MCBlocks |-> IF b = b2 THEN <<t1>> ELSE <<>>]
MCImages == [t \in {t1, t2} |-> {k1}]
MCMsigs == [t \in {t1, t2} |-> {o1}]
MCSource == t1 :> g @@ t2 :> a1
MCFeeOrder == <<t2, t1>>
MCBlobSize == t1 :> 1 @@ t2 :> 2
MCSizeLimit == t1 :> 3 @@ t2 :> 2
=============================================================================
