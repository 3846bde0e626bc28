----------------------------- MODULE MCTransfers -----------------------------
(***************************************************************************)
(* A wallet with two spend keys, for model checking.  p pays to both; own  *)
(* and other both spend the first output of p, one sent by this wallet,    *)
(* one by another with the same keys; again pays to that output's key a    *)
(* second time; coinbase is a transaction of somebody else, in every block.*)
(*                                                                         *)
(*   a1 (p) --- a2 (own)                                                   *)
(*   b1 ------- b2 (p) --- b3 (other)                                      *)
(***************************************************************************)
EXTENDS Transfers

CONSTANTS s1, s2, coinbase, p, own, other, again, k1, k2, k3, k4, k5, a1, a2, b1, b2, b3, c1

Out(k, s, type) == [key |-> k, to |-> s, amount |-> 1, type |-> type]
In(k, type) == [key |-> k, amount |-> 1, type |-> type]

MCTx == [t \in {coinbase, p, own, other, again} |->
            CASE t = coinbase -> [outs |-> <<>>, ins |-> <<>>]
              [] t = p        -> [outs |-> <<Out(k5, s1, "multi"), Out(k1, s1, "key"), Out(k2, s2, "key")>>, ins |-> <<>>]
              [] t = own      -> [outs |-> <<Out(k3, s2, "key")>>, ins |-> <<In(k1, "key"), In(k5, "multi")>>]
              [] t = other    -> [outs |-> <<Out(k4, s1, "key")>>, ins |-> <<In(k1, "key"), In(k2, "key")>>]
              [] t = again    -> [outs |-> <<Out(k1, s1, "key")>>, ins |-> <<>>]]
MCBlockTxs == [b \in {a1, a2, b1, b2, b3, c1} |->
            CASE b = a1 -> <<coinbase, p>>
              [] b = a2 -> <<coinbase, own>>
              [] b = b1 -> <<coinbase>>
              [] b = b2 -> <<coinbase, p>>
              [] b = b3 -> <<coinbase, other>>
              [] b = c1 -> <<coinbase, p, own>>]
MCBranches == {<<a1, a2>>, <<b1, b2, b3>>}
\* a block that also spends what it pays
MCSameBlock == {<<c1>>, <<b1, b2>>}
=============================================================================
