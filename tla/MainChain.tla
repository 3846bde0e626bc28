----------------------------- MODULE MainChain ------------------------------
(***************************************************************************)
(* What the main chain promises to its users, with no indices, pool or     *)
(* alternative chains: it grows by one block, or is replaced in one step   *)
(* by another branch that does not lose a transaction or a checkpoint.     *)
(***************************************************************************)
EXTENDS Integers, Sequences

CONSTANTS Blocks, Txs, Genesis, Branch, CumulativeDifficulty, BlockTxs, Images, Points

VARIABLE chain

LastBlock == chain[Len(chain)]
TxsOf(b) == {BlockTxs[b][i] : i \in 1 .. Len(BlockTxs[b])}
ConfirmedIn(c) == UNION {TxsOf(c[i]) : i \in 1 .. Len(c)}
SpentIn(c) == UNION {Images[t] : t \in ConfirmedIn(c)}

\* No transaction is confirmed twice and no key image spent twice.
Spendable(c) ==
    \A i, j \in 1 .. Len(c) : \A x \in 1 .. Len(BlockTxs[c[i]]), y \in 1 .. Len(BlockTxs[c[j]]) :
        <<i, x>> # <<j, y>> =>
            /\ BlockTxs[c[i]][x] # BlockTxs[c[j]][y]
            /\ Images[BlockTxs[c[i]][x]] \cap Images[BlockTxs[c[j]][y]] = {}

PassesCheckpoints(c) == \A h \in DOMAIN Points : h < Len(c) => c[h + 1] = Points[h]

Init == chain = <<Genesis>>

Grow(b) == chain' = Append(chain, b) /\ chain' = Branch[b]

\* The new branch is heavier, unless it ends in a checkpoint.
Replace(b) ==
    /\ \A i \in 1 .. Len(chain) : chain[i] # b
    /\ \/ CumulativeDifficulty[LastBlock] < CumulativeDifficulty[b]
       \/ Len(Branch[b]) - 1 \in DOMAIN Points
    /\ ConfirmedIn(chain) \subseteq ConfirmedIn(Branch[b])
    /\ chain' = Branch[b]

Next ==
    \E b \in Blocks :
        /\ Grow(b) \/ Replace(b)
        /\ Spendable(chain')
        /\ PassesCheckpoints(chain')

Spec == Init /\ [][Next]_chain
=============================================================================
