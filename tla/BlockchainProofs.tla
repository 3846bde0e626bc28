-------------------------- MODULE BlockchainProofs --------------------------
(***************************************************************************)
(* Proofs about Blockchain, for every tree of blocks, every choice of      *)
(* transactions, key images and checkpoints and every window: the indices  *)
(* stay exact through growth, chain switches and failed chain switches.    *)
(***************************************************************************)
EXTENDS Blockchain, TLAPS

(***************************************************************************)
(* Facts about sequences                                                   *)
(***************************************************************************)
\* The items of a sequence over a set are in the set.
LEMMA ItemOf ==
    ASSUME NEW X, NEW s \in Seq(X), NEW i \in 1 .. Len(s)
    PROVE  s[i] \in X
  OBVIOUS

\* A sequence with one item more, by its length and items.
LEMMA Appended ==
    ASSUME NEW X, NEW s \in Seq(X), NEW x \in X
    PROVE  /\ Append(s, x) \in Seq(X) /\ Append(s, x) # <<>> /\ Len(Append(s, x)) = Len(s) + 1
           /\ \A i \in 1 .. Len(s) : Append(s, x)[i] = s[i]
           /\ Append(s, x)[Len(s) + 1] = x
  OBVIOUS

\* Two sequences joined, by their length and items.
LEMMA Joined ==
    ASSUME NEW X, NEW s \in Seq(X), NEW t \in Seq(X)
    PROVE  /\ s \o t \in Seq(X) /\ Len(s \o t) = Len(s) + Len(t)
           /\ \A i \in 1 .. Len(s) + Len(t) : (s \o t)[i] = IF i <= Len(s) THEN s[i] ELSE t[i - Len(s)]
  OBVIOUS

\* Nothing behind a sequence leaves it as it is.
LEMMA JoinedEmpty ==
    ASSUME NEW X, NEW s \in Seq(X)
    PROVE  s \o <<>> = s
  OBVIOUS

\* Sequences with the same items are the same.
LEMMA SameItems ==
    ASSUME NEW X, NEW s \in Seq(X), NEW t \in Seq(X), Len(s) = Len(t), \A i \in 1 .. Len(s) : s[i] = t[i]
    PROVE  s = t
  OBVIOUS

\* A part of a sequence, by its length and items.
LEMMA Cut ==
    ASSUME NEW X, NEW s \in Seq(X), NEW a \in 1 .. Len(s) + 1, NEW z \in a - 1 .. Len(s)
    PROVE  /\ SubSeq(s, a, z) \in Seq(X) /\ Len(SubSeq(s, a, z)) = z - a + 1
           /\ \A i \in 1 .. z - a + 1 : SubSeq(s, a, z)[i] = s[a + i - 1]
  OBVIOUS

\* All of a sequence is the sequence.
LEMMA CutWhole ==
    ASSUME NEW X, NEW s \in Seq(X)
    PROVE  SubSeq(s, 1, Len(s)) = s
  OBVIOUS

(***************************************************************************)
(* The inductive invariant                                                 *)
(***************************************************************************)
\* Types of what pushBlock and popBlock change.
ChainTypes ==
    /\ m_blocks \in Seq([id : Blocks, out : Nat])
    /\ Len(m_blocks) > 0
    /\ DOMAIN m_transactionMap \subseteq Blocks \cup Txs
    /\ \A o \in DOMAIN m_transactionMap : m_transactionMap[o] \in Where
    /\ spentKeyImages \subseteq KeyImages
    /\ m_outputs \in Seq(Where)
    /\ m_transactions \subseteq Txs
    /\ keptByBlock \subseteq m_transactions

\* Each block is at its height.
AtHeight == \A i \in 1 .. Len(m_blocks) : Len(Branch[m_blocks[i].id]) = i

\* No key image is spent by two transactions of the chain.
SpentOnce ==
    \A i, j \in 1 .. Len(m_blocks) :
        \A p \in 1 .. NTx(m_blocks[i].id), q \in 1 .. NTx(m_blocks[j].id) :
            i # j \/ p # q =>
                Images[BlockTxs[m_blocks[i].id][p]] \cap Images[BlockTxs[m_blocks[j].id][q]] = {}

ChainInv ==
    ChainTypes /\ AtHeight /\ IndexExact /\ SpentOnce /\ PoolOutsideChain /\ CheckpointsHold

\* How far a switch has come: it stays above the split, knows a block to push for
\* every height it has still to fill, and what the subscriber has is no shorter
\* than the chain it was told of.
SwitchInv ==
    /\ m_alternative_chains \subseteq Blocks
    /\ phase \in {"idle", "disconnect", "connect", "undo", "restore"}
    /\ alt_chain \in Seq(Blocks) /\ disconnected_chain \in Seq(Blocks)
    /\ discard \in BOOLEAN
    /\ seen \in Seq(Blocks)
    /\ phase = "idle" => Len(m_blocks) <= Len(seen)
    /\ phase # "idle" => Len(alt_chain) > 0 /\ split_height > 0
    /\ phase = "disconnect" =>
           /\ split_height < Len(m_blocks)
           /\ Len(m_blocks) + Len(disconnected_chain) <= Len(seen)
    /\ phase \in {"connect", "undo", "restore"} =>
           /\ split_height <= Len(m_blocks)
           /\ Len(disconnected_chain) > 0
           /\ split_height + Len(disconnected_chain) <= Len(seen)
    /\ phase = "connect" => Len(m_blocks) <= split_height + Len(alt_chain)
    /\ phase = "undo" => split_height < Len(m_blocks)
    /\ phase = "restore" => Len(m_blocks) < split_height + Len(disconnected_chain)

(***************************************************************************)
(* Facts about the constants                                               *)
(***************************************************************************)
\* The transactions of a block, by position.
LEMMA BlockFacts ==
    ASSUME NEW b \in Blocks
    PROVE  /\ Branch[b] \in Seq(Blocks) /\ Len(Branch[b]) \in Nat /\ Len(Branch[b]) > 0
           /\ BlockTxs[b] \in Seq(Txs) /\ NTx(b) \in Nat
           /\ \A p \in 1 .. NTx(b) : BlockTxs[b][p] \in Txs /\ Owner(b, p) = BlockTxs[b][p]
           /\ \A p \in 0 .. NTx(b) : Owner(b, p) \in Blocks \cup Txs
           /\ Owner(b, 0) = b
           /\ \A p \in 1 .. NTx(b) : Images[BlockTxs[b][p]] \subseteq KeyImages
  <1>1. Branch[b] \in Seq(Blocks) /\ Len(Branch[b]) > 0
    BY BlocksAssumption
  <1>2. Len(Branch[b]) \in Nat
    BY <1>1
  <1>3. BlockTxs[b] \in Seq(Txs)
    BY BlocksAssumption
  <1>4. NTx(b) \in Nat /\ \A p \in 1 .. NTx(b) : BlockTxs[b][p] \in Txs
    BY <1>3 DEF NTx
  <1>5. \A p \in 1 .. NTx(b) : Owner(b, p) = BlockTxs[b][p]
    BY <1>4 DEF Owner
  <1>6. Owner(b, 0) = b
    BY DEF Owner
  <1>7. \A p \in 0 .. NTx(b) : Owner(b, p) \in Blocks \cup Txs
    BY <1>4 DEF Owner
  <1>8. \A p \in 1 .. NTx(b) : Images[BlockTxs[b][p]] \subseteq KeyImages
    BY <1>4, TxsAssumption
  <1> QED
    BY <1>1, <1>2, <1>3, <1>4, <1>5, <1>6, <1>7, <1>8

\* A coinbase is not one of the other transactions.
LEMMA CoinbaseNames ==
    \A o : o \in Blocks => o \notin Txs
  <1>1. Blocks \cap Txs = {}
    BY BlocksAssumption
  <1> QED
    BY <1>1

\* The parent of a block is one below it.
LEMMA ParentHeight ==
    ASSUME NEW b \in Blocks, b # Genesis
    PROVE  /\ Len(Branch[b]) > 1
           /\ Parent(b) \in Blocks
           /\ Len(Branch[Parent(b)]) = Len(Branch[b]) - 1
  <1> DEFINE n == Len(Branch[b])
  <1>1. Branch[b] \in Seq(Blocks) /\ n \in Nat /\ n > 0
    BY BlockFacts
  <1>2. Branch[b][1] = Genesis /\ Branch[b][n] = b
    BY BlocksAssumption
  <1>3. n > 1
    BY <1>1, <1>2
  <1>4. n - 1 \in 1 .. n
    BY <1>1, <1>3
  <1>5. Parent(b) = Branch[b][n - 1] /\ Parent(b) \in Blocks
    BY <1>1, <1>4 DEF Parent, Height
  <1>6. Branch[Parent(b)] = SubSeq(Branch[b], 1, n - 1)
    <2>1. \A i \in 1 .. n : Branch[Branch[b][i]] = SubSeq(Branch[b], 1, i)
      BY BlocksAssumption
    <2> QED
      BY <1>4, <1>5, <2>1
  <1>7. Len(SubSeq(Branch[b], 1, n - 1)) = n - 1
    BY <1>1, <1>3
  <1> QED
    BY <1>3, <1>5, <1>6, <1>7

(***************************************************************************)
(* pushBlock                                                               *)
(***************************************************************************)
\* What IndexExact says of the entries of m_blocks.
LEMMA ChainFacts ==
    ASSUME ChainInv, NEW i \in 1 .. Len(m_blocks)
    PROVE  /\ Len(m_blocks) \in Nat /\ Len(m_outputs) \in Nat
           /\ m_blocks[i] \in [id : Blocks, out : Nat]
           /\ m_blocks[i].id \in Blocks /\ m_blocks[i].out \in Nat
           /\ NTx(m_blocks[i].id) \in Nat
  <1>1. m_blocks \in Seq([id : Blocks, out : Nat]) /\ m_outputs \in Seq(Where)
    BY DEF ChainInv, ChainTypes
  <1>2. m_blocks[i] \in [id : Blocks, out : Nat]
    BY <1>1, ItemOf, Zenon
  <1>3. m_blocks[i].id \in Blocks /\ m_blocks[i].out \in Nat
    BY <1>2
  <1>4. NTx(m_blocks[i].id) \in Nat
    BY <1>3, BlockFacts
  <1>5. Len(m_blocks) \in Nat /\ Len(m_outputs) \in Nat
    BY <1>1
  <1> QED
    BY <1>2, <1>3, <1>4, <1>5

\* None of the transactions of a block that passes the first checks is indexed
\* yet: pushTransaction, whose result pushBlock ignores, cannot fail.
LEMMA PushIsFresh ==
    ASSUME ChainInv, NEW b \in Blocks, Prevalidated(b)
    PROVE  /\ Len(Branch[b]) = Len(m_blocks) + 1
           /\ \A p \in 0 .. NTx(b) : Owner(b, p) \notin DOMAIN m_transactionMap
           /\ \A p, q \in 0 .. NTx(b) : Owner(b, p) = Owner(b, q) => p = q
  <1> USE DEF ChainInv
  <1>1. Len(m_blocks) \in Nat /\ Len(m_blocks) > 0
    BY DEF ChainTypes
  <1>2. TailId \in Blocks /\ Len(Branch[TailId]) = Len(m_blocks)
    BY <1>1, ChainFacts DEF TailId, AtHeight
  <1>3. Len(Branch[b]) = Len(m_blocks) + 1
    <2>1. b # Genesis /\ Parent(b) = TailId
      BY DEF Prevalidated
    <2>2. Len(Branch[Parent(b)]) = Len(Branch[b]) - 1 /\ Len(Branch[b]) \in Nat
      BY <2>1, ParentHeight, BlockFacts
    <2> QED
      BY <1>1, <1>2, <2>1, <2>2
  <1>4. ASSUME NEW o \in DOMAIN m_transactionMap, o \in Blocks
        PROVE  \E i \in 1 .. Len(m_blocks) : m_blocks[i].id = o
    <2>1. PICK i \in 1 .. Len(m_blocks) : \E p \in 0 .. NTx(m_blocks[i].id) : Owner(m_blocks[i].id, p) = o
      BY <1>4 DEF IndexExact
    <2>2. PICK p \in 0 .. NTx(m_blocks[i].id) : Owner(m_blocks[i].id, p) = o
      BY <2>1
    <2>3. m_blocks[i].id \in Blocks /\ NTx(m_blocks[i].id) \in Nat
      BY ChainFacts
    <2>4. p = 0
      <3>1. SUFFICES ASSUME p # 0 PROVE FALSE
        OBVIOUS
      <3>2. p \in 1 .. NTx(m_blocks[i].id)
        BY <2>3, <3>1
      <3>3. o \in Txs
        BY <2>2, <2>3, <3>2, BlockFacts, Zenon
      <3> QED
        BY <1>4, <3>3, CoinbaseNames
    <2> QED
      BY <2>2, <2>4 DEF Owner
  <1>5. ASSUME NEW o \in DOMAIN m_transactionMap, o \in Txs
        PROVE  \E i \in 1 .. Len(m_blocks) : o \in BlockTxSet(m_blocks[i].id)
    <2>1. PICK i \in 1 .. Len(m_blocks) : \E p \in 0 .. NTx(m_blocks[i].id) : Owner(m_blocks[i].id, p) = o
      BY <1>5 DEF IndexExact
    <2>2. PICK p \in 0 .. NTx(m_blocks[i].id) : Owner(m_blocks[i].id, p) = o
      BY <2>1
    <2>3. m_blocks[i].id \in Blocks /\ NTx(m_blocks[i].id) \in Nat
      BY ChainFacts
    <2>4. p # 0
      BY <1>5, <2>2, <2>3, BlockFacts, CoinbaseNames
    <2>5. p \in 1 .. NTx(m_blocks[i].id)
      BY <2>3, <2>4
    <2>6. BlockTxs[m_blocks[i].id][p] = o
      BY <2>2, <2>4 DEF Owner
    <2> QED
      BY <2>5, <2>6 DEF BlockTxSet
  <1>6. b \notin DOMAIN m_transactionMap
    <2>1. SUFFICES ASSUME b \in DOMAIN m_transactionMap PROVE FALSE
      OBVIOUS
    <2>2. PICK i \in 1 .. Len(m_blocks) : m_blocks[i].id = b
      BY <1>4, <2>1
    <2>3. Len(Branch[b]) = i
      BY <2>2 DEF AtHeight
    <2> QED
      BY <1>1, <1>3, <2>3
  <1>7. \A p \in 1 .. NTx(b) : BlockTxs[b][p] \in Txs /\ BlockTxs[b][p] \in m_transactions
    BY BlockFacts DEF Prevalidated, loadTransactions
  <1>8. \A p \in 1 .. NTx(b) : BlockTxs[b][p] \notin DOMAIN m_transactionMap
    BY <1>5, <1>7 DEF PoolOutsideChain
  <1>9. \A p \in 0 .. NTx(b) : Owner(b, p) \notin DOMAIN m_transactionMap
    BY <1>6, <1>8, BlockFacts DEF Owner
  <1>10. \A p, q \in 0 .. NTx(b) : Owner(b, p) = Owner(b, q) => p = q
    <2>1. NTx(b) \in Nat
      BY BlockFacts
    <2>2. \A p, q \in 1 .. NTx(b) : BlockTxs[b][p] = BlockTxs[b][q] => p = q
      BY <2>1 DEF Prevalidated, loadTransactions
    <2>3. \A p \in 1 .. NTx(b) : BlockTxs[b][p] # b
      BY <1>7, CoinbaseNames
    <2> QED
      BY <2>1, <2>2, <2>3 DEF Owner
  <1> QED
    BY <1>3, <1>9, <1>10

\* pushBlock keeps the invariant of the chain.
LEMMA PushKeeps ==
    ASSUME ChainInv, NEW b \in Blocks, pushBlock(b)
    PROVE  ChainInv'
  <1> DEFINE n == Len(m_blocks)
             N == NTx(b)
             M == Len(m_outputs)
             new == [p \in 1 .. N + 1 |-> [block |-> n, transaction |-> p - 1]]
             owners == {Owner(b, p) : p \in 0 .. N}
             entry == [id |-> b, out |-> M]
  <1>1. Prevalidated(b) /\ \A i \in 1 .. N : InputsValid(b, i)
    BY DEF pushBlock, Valid, AllInputsValid
  <1>2. /\ n \in Nat /\ n > 0 /\ N \in Nat /\ M \in Nat
        /\ m_blocks \in Seq([id : Blocks, out : Nat]) /\ m_outputs \in Seq(Where)
    BY BlockFacts DEF ChainInv, ChainTypes
  <1>3. /\ Len(Branch[b]) = n + 1
        /\ \A p \in 0 .. N : Owner(b, p) \notin DOMAIN m_transactionMap
        /\ \A p, q \in 0 .. N : Owner(b, p) = Owner(b, q) => p = q
    BY <1>1, PushIsFresh
  <1>4. m_blocks' = Append(m_blocks, entry)
    BY DEF pushBlock
  <1>5. /\ m_blocks' \in Seq([id : Blocks, out : Nat])
        /\ Len(m_blocks') = n + 1
        /\ \A i \in 1 .. n : m_blocks'[i] = m_blocks[i]
        /\ m_blocks'[n + 1] = entry
    <2>1. entry \in [id : Blocks, out : Nat]
      BY <1>2
    <2> QED
      BY <1>2, <1>4, <2>1, Appended
  <1>6. new \in Seq(Where) /\ Len(new) = N + 1 /\ \A p \in 1 .. N + 1 : new[p] = [block |-> n, transaction |-> p - 1]
    <2>1. \A p \in 1 .. N + 1 : [block |-> n, transaction |-> p - 1] \in Where
      BY <1>2 DEF Where
    <2>2. new \in [1 .. N + 1 -> Where] /\ N + 1 \in Nat
      BY <1>2, <2>1
    <2>3. \A p \in 1 .. N + 1 : new[p] = [block |-> n, transaction |-> p - 1]
      OBVIOUS
    <2> HIDE DEF new
    <2>4. new \in Seq(Where) /\ Len(new) = N + 1
      BY <2>2
    <2> QED
      BY <2>3, <2>4
  <1>7. m_outputs' = m_outputs \o new
    BY DEF pushBlock, pushTransactions
  <1>8. /\ m_outputs' \in Seq(Where)
        /\ Len(m_outputs') = M + N + 1
        /\ \A i \in 1 .. M : m_outputs'[i] = m_outputs[i]
        /\ \A p \in 0 .. N : m_outputs'[M + p + 1] = [block |-> n, transaction |-> p]
    <2> HIDE DEF new
    <2>1. /\ m_outputs' \in Seq(Where)
          /\ Len(m_outputs') = M + (N + 1)
          /\ \A i \in 1 .. M + (N + 1) : m_outputs'[i] = IF i <= M THEN m_outputs[i] ELSE new[i - M]
      <3>1. /\ m_outputs \o new \in Seq(Where)
            /\ Len(m_outputs \o new) = Len(m_outputs) + Len(new)
            /\ \A i \in 1 .. Len(m_outputs) + Len(new) :
                   (m_outputs \o new)[i] = IF i <= Len(m_outputs) THEN m_outputs[i] ELSE new[i - Len(m_outputs)]
        BY <1>2, <1>6, Joined, Zenon
      <3> QED
        BY <1>6, <1>7, <3>1
    <2>2. \A p \in 0 .. N : /\ M + p + 1 \in 1 .. M + (N + 1)
                            /\ ~(M + p + 1 <= M)
                            /\ M + p + 1 - M = p + 1
                            /\ p + 1 \in 1 .. N + 1
      BY <1>2
    <2>3. \A p \in 0 .. N : new[p + 1] = [block |-> n, transaction |-> p]
      BY <1>2, <1>6, <2>2, SMTT(30)
    <2>4. \A p \in 0 .. N : m_outputs'[M + p + 1] = new[p + 1]
      BY <2>1, <2>2
    <2>5. \A i \in 1 .. M : m_outputs'[i] = m_outputs[i]
      BY <1>2, <2>1
    <2>6. Len(m_outputs') = M + N + 1
      BY <1>2, <2>1
    <2> QED
      BY <2>1, <2>3, <2>4, <2>5, <2>6, Zenon
  <1> HIDE DEF new, entry
  <1>9. /\ DOMAIN m_transactionMap' = DOMAIN m_transactionMap \cup owners
        /\ \A o \in DOMAIN m_transactionMap : m_transactionMap'[o] = m_transactionMap[o]
        /\ \A p \in 0 .. N : m_transactionMap'[Owner(b, p)] = [block |-> n, transaction |-> p]
    <2>1. m_transactionMap' =
           [o \in DOMAIN m_transactionMap \cup owners |->
               IF o \in DOMAIN m_transactionMap THEN m_transactionMap[o]
               ELSE [block |-> n, transaction |-> CHOOSE p \in 0 .. N : Owner(b, p) = o]]
      BY DEF pushBlock, pushTransactions
    <2>2. ASSUME NEW p \in 0 .. N
          PROVE  (CHOOSE q \in 0 .. N : Owner(b, q) = Owner(b, p)) = p
      BY <1>3
    <2>3. \A p \in 0 .. N : Owner(b, p) \in owners
      OBVIOUS
    <2> HIDE DEF owners
    <2> QED
      BY <1>3, <2>1, <2>2, <2>3
  <1>10. spentKeyImages' = spentKeyImages \cup UNION {Images[BlockTxs[b][i]] : i \in 1 .. N}
    BY DEF pushBlock, pushTransactions
  <1>11. m_transactions' = m_transactions \ BlockTxSet(b) /\ keptByBlock' = keptByBlock \ BlockTxSet(b)
    BY DEF pushBlock
  <1>12. \A i \in 1 .. n : m_blocks[i].id \in Blocks /\ m_blocks[i].out \in Nat /\ NTx(m_blocks[i].id) \in Nat
    BY ChainFacts
  <1>13. m_blocks'[n + 1].id = b /\ m_blocks'[n + 1].out = M
    BY <1>5 DEF entry
  <1>14. \A i \in 1 .. Len(m_blocks') : i \in 1 .. n \/ i = n + 1
    BY <1>2, <1>5
  <1>15. ChainTypes'
    <2>1. DOMAIN m_transactionMap' \subseteq Blocks \cup Txs
      BY <1>9, BlockFacts DEF ChainInv, ChainTypes
    <2>2. \A o \in DOMAIN m_transactionMap' : m_transactionMap'[o] \in Where
      <3>1. \A o \in DOMAIN m_transactionMap : m_transactionMap'[o] \in Where
        BY <1>9 DEF ChainInv, ChainTypes
      <3>2. \A p \in 0 .. N : m_transactionMap'[Owner(b, p)] \in Where
        <4>1. \A p \in 0 .. N : [block |-> n, transaction |-> p] \in Where
          BY <1>2 DEF Where
        <4> QED
          BY <1>9, <4>1, Zenon
      <3> QED
        BY <1>9, <3>1, <3>2
    <2>3. spentKeyImages' \subseteq KeyImages
      BY <1>10, BlockFacts DEF ChainInv, ChainTypes
    <2>4. m_transactions' \subseteq Txs /\ keptByBlock' \subseteq m_transactions'
      BY <1>11 DEF ChainInv, ChainTypes
    <2> QED
      BY <1>2, <1>5, <1>8, <2>1, <2>2, <2>3, <2>4, SMTT(30) DEF ChainTypes
  <1>16. AtHeight'
    BY <1>2, <1>3, <1>5, <1>13, <1>14, ZenonT(30) DEF AtHeight, ChainInv
  <1>17. IndexExact'
    <2>1. ASSUME NEW i \in 1 .. n, NEW p \in 0 .. NTx(m_blocks[i].id)
          PROVE  /\ Owner(m_blocks[i].id, p) \in DOMAIN m_transactionMap'
                 /\ m_transactionMap'[Owner(m_blocks[i].id, p)] = [block |-> i - 1, transaction |-> p]
                 /\ m_blocks[i].out + p + 1 \in 1 .. M
                 /\ m_outputs'[m_blocks[i].out + p + 1] = [block |-> i - 1, transaction |-> p]
      <3>1. /\ Owner(m_blocks[i].id, p) \in DOMAIN m_transactionMap
            /\ m_transactionMap[Owner(m_blocks[i].id, p)] = [block |-> i - 1, transaction |-> p]
            /\ m_blocks[i].out + p + 1 \in DOMAIN m_outputs
            /\ m_outputs[m_blocks[i].out + p + 1] = [block |-> i - 1, transaction |-> p]
        BY DEF ChainInv, IndexExact
      <3>2. DOMAIN m_outputs = 1 .. M
        BY <1>2
      <3> QED
        BY <1>8, <1>9, <3>1, <3>2
    <2>2. ASSUME NEW p \in 0 .. N
          PROVE  /\ Owner(b, p) \in DOMAIN m_transactionMap'
                 /\ m_transactionMap'[Owner(b, p)] = [block |-> (n + 1) - 1, transaction |-> p]
                 /\ M + p + 1 \in 1 .. M + N + 1
                 /\ m_outputs'[M + p + 1] = [block |-> (n + 1) - 1, transaction |-> p]
      BY <1>2, <1>8, <1>9, SMTT(30)
    <2>3. DOMAIN m_outputs' = 1 .. M + N + 1
      BY <1>8
    <2>4. \A i \in 1 .. Len(m_blocks') : \A p \in 0 .. NTx(m_blocks'[i].id) :
           /\ Owner(m_blocks'[i].id, p) \in DOMAIN m_transactionMap'
           /\ m_transactionMap'[Owner(m_blocks'[i].id, p)] = [block |-> i - 1, transaction |-> p]
           /\ m_blocks'[i].out + p + 1 \in DOMAIN m_outputs'
           /\ m_outputs'[m_blocks'[i].out + p + 1] = [block |-> i - 1, transaction |-> p]
      <3>1. TAKE i \in 1 .. Len(m_blocks')
      <3>2. CASE i \in 1 .. n
        <4>1. m_blocks'[i] = m_blocks[i]
          BY <1>5, <3>2
        <4>2. 1 .. M \subseteq 1 .. M + N + 1
          BY <1>2
        <4> QED
          BY <2>1, <2>3, <3>2, <4>1, <4>2
      <3>3. CASE i = n + 1
        BY <1>13, <2>2, <2>3, <3>3, SMTT(30)
      <3> QED
        BY <1>14, <3>2, <3>3
    <2>5. \A o \in DOMAIN m_transactionMap' :
           \E i \in 1 .. Len(m_blocks') : \E p \in 0 .. NTx(m_blocks'[i].id) : Owner(m_blocks'[i].id, p) = o
      <3>1. TAKE o \in DOMAIN m_transactionMap'
      <3>2. CASE o \in DOMAIN m_transactionMap
        <4>1. PICK i \in 1 .. n : \E p \in 0 .. NTx(m_blocks[i].id) : Owner(m_blocks[i].id, p) = o
          BY <3>2 DEF ChainInv, IndexExact
        <4>2. m_blocks'[i] = m_blocks[i] /\ i \in 1 .. Len(m_blocks')
          BY <1>2, <1>5, SMTT(30)
        <4> QED
          BY <4>1, <4>2
      <3>3. CASE o \in owners
        <4>1. n + 1 \in 1 .. Len(m_blocks')
          BY <1>2, <1>5
        <4> QED
          BY <1>13, <3>3, <4>1
      <3> QED
        BY <1>9, <3>2, <3>3, Zenon
    <2>6. \A i \in 1 .. Len(m_blocks') :
           m_blocks'[i].out + NTx(m_blocks'[i].id) + 1
               = IF i = Len(m_blocks') THEN Len(m_outputs') ELSE m_blocks'[i + 1].out
      <3>1. TAKE i \in 1 .. Len(m_blocks')
      <3>2. CASE i = n + 1
        BY <1>2, <1>5, <1>8, <1>13, <3>2, SMTT(30)
      <3>3. CASE i = n
        <4>1. n \in 1 .. n /\ m_blocks'[n] = m_blocks[n]
          BY <1>2, <1>5, SMTT(30)
        <4>2. m_blocks[n].out + NTx(m_blocks[n].id) + 1 = M
          BY <4>1 DEF ChainInv, IndexExact
        <4> QED
          BY <1>2, <1>5, <1>13, <3>3, <4>1, <4>2
      <3>4. CASE i \in 1 .. n /\ i # n
        <4>1. i + 1 \in 1 .. n /\ m_blocks'[i] = m_blocks[i] /\ m_blocks'[i + 1] = m_blocks[i + 1]
          <5>1. n \in Nat
            BY <1>2
          <5>2. i + 1 \in 1 .. n
            <6> HIDE DEF n
            <6> QED
              BY <3>4, <5>1
          <5>3. \A j \in 1 .. n : m_blocks'[j] = m_blocks[j]
            BY <1>5
          <5> HIDE DEF n
          <5> QED
            BY <3>4, <5>2, <5>3
        <4>2. m_blocks[i].out + NTx(m_blocks[i].id) + 1 = m_blocks[i + 1].out
          BY <3>4 DEF ChainInv, IndexExact
        <4> QED
          BY <1>2, <1>5, <3>4, <4>1, <4>2
      <3> QED
        BY <1>14, <3>2, <3>3, <3>4
    <2>7. \A k \in KeyImages :
           k \in spentKeyImages' <=>
               \E i \in 1 .. Len(m_blocks') : \E p \in 1 .. NTx(m_blocks'[i].id) :
                   k \in Images[BlockTxs[m_blocks'[i].id][p]]
      <3>1. TAKE k \in KeyImages
      <3>2. k \in spentKeyImages <=> \E i \in 1 .. n : \E p \in 1 .. NTx(m_blocks[i].id) :
                   k \in Images[BlockTxs[m_blocks[i].id][p]]
        BY DEF ChainInv, IndexExact
      <3>3. k \in spentKeyImages' <=> k \in spentKeyImages \/ \E p \in 1 .. N : k \in Images[BlockTxs[b][p]]
        BY <1>10
      <3>4. \A i \in 1 .. n : m_blocks'[i] = m_blocks[i] /\ i \in 1 .. Len(m_blocks')
        BY <1>2, <1>5
      <3>5. n + 1 \in 1 .. Len(m_blocks')
        BY <1>2, <1>5
      <3> QED
        BY <1>13, <1>14, <3>2, <3>3, <3>4, <3>5, SMTT(30)
    <2> QED
      BY <2>4, <2>5, <2>6, <2>7 DEF IndexExact
  <1>18. SpentOnce'
    <2>1. \A i \in 1 .. n : m_blocks'[i] = m_blocks[i]
      BY <1>5
    <2>2. ASSUME NEW i \in 1 .. n, NEW p \in 1 .. NTx(m_blocks[i].id), NEW q \in 1 .. N
          PROVE  Images[BlockTxs[m_blocks[i].id][p]] \cap Images[BlockTxs[b][q]] = {}
      <3>1. Images[BlockTxs[b][q]] \cap spentKeyImages = {}
        BY <1>1 DEF InputsValid, checkTransactionInputs
      <3>2. Images[BlockTxs[m_blocks[i].id][p]] \subseteq KeyImages
        BY <1>12, BlockFacts, SMTT(30)
      <3>3. Images[BlockTxs[m_blocks[i].id][p]] \subseteq spentKeyImages
        BY <3>2 DEF ChainInv, IndexExact
      <3> QED
        BY <3>1, <3>3
    <2>3. ASSUME NEW p \in 1 .. N, NEW q \in 1 .. N, p # q
          PROVE  Images[BlockTxs[b][p]] \cap Images[BlockTxs[b][q]] = {}
      <3>1. CASE p < q
        <4>1. p \in 1 .. q - 1
          BY <1>2, <3>1
        <4> QED
          BY <1>1, <4>1 DEF InputsValid
      <3>2. CASE q < p
        <4>1. q \in 1 .. p - 1
          BY <1>2, <3>2
        <4> QED
          BY <1>1, <4>1 DEF InputsValid
      <3> QED
        BY <1>2, <2>3, <3>1, <3>2
    <2>4. ASSUME NEW i \in 1 .. n, NEW j \in 1 .. n,
                 NEW p \in 1 .. NTx(m_blocks[i].id), NEW q \in 1 .. NTx(m_blocks[j].id), i # j \/ p # q
          PROVE  Images[BlockTxs[m_blocks[i].id][p]] \cap Images[BlockTxs[m_blocks[j].id][q]] = {}
      BY <2>4, SMTT(30) DEF ChainInv, SpentOnce
    <2>5. SUFFICES ASSUME NEW i \in 1 .. Len(m_blocks'), NEW j \in 1 .. Len(m_blocks'),
                          NEW p \in 1 .. NTx(m_blocks'[i].id), NEW q \in 1 .. NTx(m_blocks'[j].id), i # j \/ p # q
                   PROVE  Images[BlockTxs[m_blocks'[i].id][p]] \cap Images[BlockTxs[m_blocks'[j].id][q]] = {}
      BY Zenon DEF SpentOnce
    <2>6. CASE i \in 1 .. n /\ j \in 1 .. n
      BY <2>1, <2>4, <2>5, <2>6, ZenonT(30)
    <2>7. CASE i \in 1 .. n /\ j = n + 1
      BY <1>13, <2>1, <2>2, <2>7, Zenon
    <2>8. CASE i = n + 1 /\ j \in 1 .. n
      <3>1. Images[BlockTxs[m_blocks[j].id][q]] \cap Images[BlockTxs[b][p]] = {}
        BY <1>13, <2>1, <2>2, <2>8
      <3> QED
        BY <1>13, <2>1, <2>8, <3>1, SMTT(30)
    <2>9. CASE i = n + 1 /\ j = n + 1
      BY <1>13, <2>3, <2>5, <2>9, Zenon
    <2> QED
      BY <1>14, <2>6, <2>7, <2>8, <2>9
  <1>19. PoolOutsideChain'
    <2>1. \A i \in 1 .. n : m_blocks'[i] = m_blocks[i] /\ BlockTxSet(m_blocks[i].id) \cap m_transactions = {}
      BY <1>5 DEF ChainInv, PoolOutsideChain
    <2>2. BlockTxSet(b) \cap m_transactions' = {} /\ m_transactions' \subseteq m_transactions
      BY <1>11
    <2> QED
      BY <1>13, <1>14, <2>1, <2>2 DEF PoolOutsideChain
  <1>20. CheckpointsHold'
    <2>1. n \in DOMAIN Points => b = Points[n]
      BY <1>1, <1>2, ParametersAssumption DEF Prevalidated, is_in_checkpoint_zone, check_block
    <2>2. \A i \in 1 .. n : i - 1 \in DOMAIN Points => m_blocks'[i].id = Points[i - 1]
      BY <1>5, SMTT(30) DEF ChainInv, CheckpointsHold
    <2>3. n + 1 - 1 \in DOMAIN Points => m_blocks'[n + 1].id = Points[n + 1 - 1]
      BY <1>2, <1>13, <2>1
    <2> QED
      BY <1>14, <2>2, <2>3 DEF CheckpointsHold
  <1> QED
    BY <1>15, <1>16, <1>17, <1>18, <1>19, <1>20 DEF ChainInv

(***************************************************************************)
(* popBlock                                                                *)
(***************************************************************************)
\* popBlock keeps the invariant of the chain: every transaction finds its own
\* outputs at the end of m_outputs, and takes away no image another one spent.
LEMMA PopKeeps ==
    ASSUME ChainInv, popBlock, Len(m_blocks) > 1
    PROVE  ChainInv'
  <1> DEFINE n == Len(m_blocks)
             b == TailId
             N == NTx(b)
             M == Len(m_outputs)
             owners == {Owner(b, p) : p \in 0 .. N}
  <1>1. /\ n \in Nat /\ n > 1 /\ M \in Nat
        /\ m_blocks \in Seq([id : Blocks, out : Nat]) /\ m_outputs \in Seq(Where)
    BY DEF ChainInv, ChainTypes
  <1>2. n \in 1 .. n /\ b = m_blocks[n].id
    BY <1>1 DEF TailId
  <1>3. \A i \in 1 .. n : m_blocks[i].id \in Blocks /\ m_blocks[i].out \in Nat /\ NTx(m_blocks[i].id) \in Nat
    BY ChainFacts
  <1>4. b \in Blocks /\ N \in Nat
    BY <1>2, <1>3
  <1>5. m_blocks' = SubSeq(m_blocks, 1, n - 1)
    BY DEF popBlock
  <1>6. /\ m_blocks' \in Seq([id : Blocks, out : Nat])
        /\ Len(m_blocks') = n - 1
        /\ \A i \in 1 .. n - 1 : m_blocks'[i] = m_blocks[i]
    <2>1. \A i \in 1 .. n - 1 : m_blocks[i] \in [id : Blocks, out : Nat]
      <3>1. \A i \in 1 .. n - 1 : i \in 1 .. Len(m_blocks)
        BY <1>1
      <3> QED
        BY <1>1, <3>1, ItemOf, Zenon
    <2> QED
      BY <1>1, <1>5, <2>1, Cut
  <1>7. \A i \in 1 .. n - 1 : i \in 1 .. n /\ i # n
    BY <1>1
  <1>8. m_blocks[n].out + N + 1 = M /\ M - N \in Nat /\ M - N > 0
    <2>1. m_blocks[n].out + N + 1 = M
      BY <1>2 DEF ChainInv, IndexExact
    <2> QED
      BY <1>1, <1>2, <1>3, <1>4, <2>1, SMTT(40)
  <1>9. m_outputs' = SubSeq(m_outputs, 1, M - N - 1)
    <2>1. \A p \in 0 .. N : /\ m_blocks[n].out + p + 1 \in DOMAIN m_outputs
                            /\ m_outputs[m_blocks[n].out + p + 1] = [block |-> n - 1, transaction |-> p]
      BY <1>2 DEF ChainInv, IndexExact
    <2>2. \A p \in 0 .. N : m_blocks[n].out + p + 1 = M - N + p
      <3> DEFINE out == m_blocks[n].out
      <3>1. out \in Nat /\ out + N + 1 = M
        BY <1>2, <1>3, <1>8
      <3> HIDE DEF out, N, M
      <3>2. \A p \in 0 .. N : out + p + 1 = M - N + p
        BY <1>1, <1>4, <3>1
      <3> QED
        BY <3>2 DEF out
    <2>3. m_outputs' = popOutputs(n - 1, N)
      BY DEF popBlock
    <2> QED
      BY <2>1, <2>2, <2>3, Zenon DEF popOutputs
  <1>10. /\ m_outputs' \in Seq(Where)
         /\ Len(m_outputs') = m_blocks[n].out
         /\ \A i \in 1 .. m_blocks[n].out : m_outputs'[i] = m_outputs[i]
    <2>1. M - N - 1 = m_blocks[n].out /\ M - N - 1 \in Int
      <3> DEFINE out == m_blocks[n].out
      <3>1. out \in Nat /\ out + N + 1 = M /\ M \in Nat /\ N \in Nat
        BY <1>1, <1>2, <1>3, <1>4, <1>8
      <3> HIDE DEF out, N, M
      <3>2. M - N - 1 = out /\ M - N - 1 \in Int
        BY <3>1
      <3> QED
        BY <3>2 DEF out
    <2>2. \A i \in 1 .. m_blocks[n].out : i \in 1 .. M
      <3>1. m_blocks[n].out \in Nat
        BY <1>2, <1>3
      <3> HIDE DEF n, N, M
      <3> QED
        BY <1>1, <1>4, <1>8, <3>1, SMTT(30)
    <2>3. \A i \in 1 .. m_blocks[n].out : m_outputs[i] \in Where
      BY <1>1, <2>2, ItemOf
    <2>4. m_outputs' = SubSeq(m_outputs, 1, m_blocks[n].out) /\ m_blocks[n].out \in Nat
      BY <1>2, <1>3, <1>9, <2>1, SMTT(30)
    <2> QED
      BY <2>3, <2>4, Cut
  <1>11. /\ DOMAIN m_transactionMap' = DOMAIN m_transactionMap \ owners
         /\ \A o \in DOMAIN m_transactionMap' : m_transactionMap'[o] = m_transactionMap[o]
    BY DEF popBlock
  <1>12. spentKeyImages' = spentKeyImages \ UNION {Images[t] : t \in BlockTxSet(b)}
    BY DEF popBlock
  <1>13. m_transactions' = m_transactions \cup BlockTxSet(b) /\ keptByBlock' = keptByBlock \cup BlockTxSet(b)
    BY DEF popBlock
  <1>14. ASSUME NEW i \in 1 .. n, NEW p \in 0 .. NTx(m_blocks[i].id)
         PROVE  /\ Owner(m_blocks[i].id, p) \in DOMAIN m_transactionMap
                /\ m_transactionMap[Owner(m_blocks[i].id, p)] = [block |-> i - 1, transaction |-> p]
                /\ m_blocks[i].out + p + 1 \in DOMAIN m_outputs
                /\ m_outputs[m_blocks[i].out + p + 1] = [block |-> i - 1, transaction |-> p]
    BY DEF ChainInv, IndexExact
  <1>15. ASSUME NEW i \in 1 .. n - 1, NEW p \in 0 .. NTx(m_blocks[i].id)
         PROVE  Owner(m_blocks[i].id, p) \notin owners
    <2>1. SUFFICES ASSUME NEW q \in 0 .. N, Owner(m_blocks[i].id, p) = Owner(b, q) PROVE FALSE
      OBVIOUS
    <2>2. [block |-> i - 1, transaction |-> p] = [block |-> n - 1, transaction |-> q]
      <3>1. m_transactionMap[Owner(m_blocks[i].id, p)] = [block |-> i - 1, transaction |-> p]
        BY <1>7, <1>14
      <3>2. m_transactionMap[Owner(m_blocks[n].id, q)] = [block |-> n - 1, transaction |-> q]
        BY <1>2, <1>14
      <3> QED
        BY <1>2, <2>1, <3>1, <3>2
    <2>3. i - 1 = n - 1
      BY <2>2
    <2> QED
      BY <1>1, <2>3
  <1>16. BlockTxSet(b) = {BlockTxs[b][p] : p \in 1 .. N} /\ BlockTxSet(b) \subseteq Txs
    BY <1>4, BlockFacts DEF BlockTxSet
  <1>17. ChainTypes'
    <2>1. DOMAIN m_transactionMap' \subseteq Blocks \cup Txs
      BY <1>11 DEF ChainInv, ChainTypes
    <2>2. \A o \in DOMAIN m_transactionMap' : m_transactionMap'[o] \in Where
      BY <1>11 DEF ChainInv, ChainTypes
    <2>3. spentKeyImages' \subseteq KeyImages
      BY <1>12 DEF ChainInv, ChainTypes
    <2>4. m_transactions' \subseteq Txs /\ keptByBlock' \subseteq m_transactions'
      BY <1>13, <1>16 DEF ChainInv, ChainTypes
    <2>5. Len(m_blocks') > 0
      BY <1>1, <1>6
    <2> QED
      BY <1>6, <1>10, <2>1, <2>2, <2>3, <2>4, <2>5 DEF ChainTypes
  <1>18. AtHeight'
    BY <1>6, <1>7, SMTT(30) DEF AtHeight, ChainInv
  <1>19. IndexExact'
    <2>1. \A i \in 1 .. n - 1 : m_blocks[i].out + NTx(m_blocks[i].id) + 1 = m_blocks[i + 1].out
      <3>1. \A i \in 1 .. n - 1 : i \in 1 .. n /\ i # Len(m_blocks)
        BY <1>7
      <3> QED
        BY <3>1, SMTT(30) DEF ChainInv, IndexExact
    <2>2. ASSUME NEW i \in 1 .. n - 1, NEW p \in 0 .. NTx(m_blocks[i].id)
          PROVE  /\ Owner(m_blocks[i].id, p) \in DOMAIN m_transactionMap'
                 /\ m_transactionMap'[Owner(m_blocks[i].id, p)] = [block |-> i - 1, transaction |-> p]
                 /\ m_blocks[i].out + p + 1 \in DOMAIN m_outputs'
                 /\ m_outputs'[m_blocks[i].out + p + 1] = [block |-> i - 1, transaction |-> p]
      <3>1. /\ Owner(m_blocks[i].id, p) \in DOMAIN m_transactionMap
            /\ m_transactionMap[Owner(m_blocks[i].id, p)] = [block |-> i - 1, transaction |-> p]
            /\ m_blocks[i].out + p + 1 \in DOMAIN m_outputs
            /\ m_outputs[m_blocks[i].out + p + 1] = [block |-> i - 1, transaction |-> p]
        BY <1>7, <1>14
      <3>2. Owner(m_blocks[i].id, p) \notin owners
        BY <1>15
      <3> DEFINE x == m_blocks[i].out
                 y == m_blocks[n].out
      <3>3. x \in Nat /\ y \in Nat /\ p \in Nat /\ y + N + 1 = M
        <4>1. NTx(m_blocks[i].id) \in Nat /\ x \in Nat
          BY <1>3, <1>7, SMTT(30)
        <4> QED
          BY <1>2, <1>3, <1>8, <4>1
      \* The outputs from y on belong to the block that is popped.
      <3>4. x + p + 1 \in 1 .. y
        <4>1. x + p + 1 \in 1 .. M
          BY <1>1, <3>1, SMTT(30)
        <4> DEFINE q == x + p - y
        <4>2. ASSUME q \in 0 .. N, y + q + 1 = x + p + 1 PROVE FALSE
          <5>1. m_outputs[m_blocks[n].out + q + 1] = [block |-> n - 1, transaction |-> q]
            BY <1>2, <1>14, <4>2
          <5>2. [block |-> n - 1, transaction |-> q] = [block |-> i - 1, transaction |-> p]
            BY <3>1, <4>2, <5>1
          <5>3. n - 1 = i - 1
            BY <5>2
          <5> QED
            BY <1>1, <5>3
        <4> HIDE DEF x, y, M, N
        <4>3. x + p + 1 > y => q \in 0 .. N /\ y + q + 1 = x + p + 1
          BY <1>1, <1>4, <3>3, <4>1
        <4>4. ~(x + p + 1 > y)
          BY <4>2, <4>3
        <4> QED
          BY <3>3, <4>4
      <3>5. DOMAIN m_outputs' = 1 .. m_blocks[n].out
        BY <1>10
      <3> QED
        BY <1>10, <1>11, <3>1, <3>2, <3>4, <3>5, SMTT(30)
    <2>3. \A i \in 1 .. Len(m_blocks') : \A p \in 0 .. NTx(m_blocks'[i].id) :
           /\ Owner(m_blocks'[i].id, p) \in DOMAIN m_transactionMap'
           /\ m_transactionMap'[Owner(m_blocks'[i].id, p)] = [block |-> i - 1, transaction |-> p]
           /\ m_blocks'[i].out + p + 1 \in DOMAIN m_outputs'
           /\ m_outputs'[m_blocks'[i].out + p + 1] = [block |-> i - 1, transaction |-> p]
      <3>1. TAKE i \in 1 .. Len(m_blocks')
      <3>2. i \in 1 .. n - 1 /\ m_blocks'[i] = m_blocks[i]
        BY <1>6
      <3> QED
        BY <2>2, <3>2
    <2>4. \A o \in DOMAIN m_transactionMap' :
           \E i \in 1 .. Len(m_blocks') : \E p \in 0 .. NTx(m_blocks'[i].id) : Owner(m_blocks'[i].id, p) = o
      <3>1. TAKE o \in DOMAIN m_transactionMap'
      <3>2. o \in DOMAIN m_transactionMap /\ o \notin owners
        BY <1>11
      <3>3. PICK i \in 1 .. n : \E p \in 0 .. NTx(m_blocks[i].id) : Owner(m_blocks[i].id, p) = o
        BY <3>2 DEF ChainInv, IndexExact
      <3>4. i # n
        BY <1>2, <3>2, <3>3
      <3>5. i \in 1 .. n - 1
        BY <1>1, <3>4
      <3> QED
        BY <1>6, <3>3, <3>5, Zenon
    <2>5. \A i \in 1 .. Len(m_blocks') :
           m_blocks'[i].out + NTx(m_blocks'[i].id) + 1
               = IF i = Len(m_blocks') THEN Len(m_outputs') ELSE m_blocks'[i + 1].out
      <3>1. TAKE i \in 1 .. Len(m_blocks')
      <3>2. i \in 1 .. n - 1 /\ m_blocks'[i] = m_blocks[i]
        BY <1>6
      <3>3. CASE i = n - 1
        <4>1. i + 1 = n
          BY <1>1, <3>3
        <4> QED
          BY <1>6, <1>10, <2>1, <3>2, <3>3, <4>1
      <3>4. CASE i # n - 1
        <4>1. i + 1 \in 1 .. n - 1
          BY <1>1, <3>2, <3>4
        <4>2. m_blocks'[i + 1] = m_blocks[i + 1]
          BY <1>6, <4>1
        <4> QED
          BY <1>6, <2>1, <3>2, <3>4, <4>2, SMTT(30)
      <3> QED
        BY <3>3, <3>4
    <2>6. \A k \in KeyImages :
           k \in spentKeyImages' <=>
               \E i \in 1 .. Len(m_blocks') : \E p \in 1 .. NTx(m_blocks'[i].id) :
                   k \in Images[BlockTxs[m_blocks'[i].id][p]]
      <3>1. TAKE k \in KeyImages
      <3>2. k \in spentKeyImages <=> \E i \in 1 .. n : \E p \in 1 .. NTx(m_blocks[i].id) :
                   k \in Images[BlockTxs[m_blocks[i].id][p]]
        BY DEF ChainInv, IndexExact
      <3>3. k \in spentKeyImages' <=> k \in spentKeyImages /\ ~\E q \in 1 .. N : k \in Images[BlockTxs[b][q]]
        BY <1>12, <1>16
      <3>4. ASSUME NEW i \in 1 .. n - 1, NEW p \in 1 .. NTx(m_blocks[i].id), NEW q \in 1 .. N,
                   k \in Images[BlockTxs[m_blocks[i].id][p]], k \in Images[BlockTxs[b][q]]
            PROVE  FALSE
        <4>1. Images[BlockTxs[m_blocks[i].id][p]] \cap Images[BlockTxs[m_blocks[n].id][q]] = {}
          BY <1>2, <1>7, Zenon DEF ChainInv, SpentOnce
        <4> QED
          BY <1>2, <3>4, <4>1
      <3>5. \A i \in 1 .. n : i \in 1 .. n - 1 \/ i = n
        BY <1>1
      <3>6. \A i \in 1 .. Len(m_blocks') : i \in 1 .. n - 1 /\ i \in 1 .. n /\ m_blocks'[i] = m_blocks[i]
        BY <1>1, <1>6, <1>7, SMTT(30)
      <3>7. ASSUME k \in spentKeyImages'
            PROVE  \E i \in 1 .. Len(m_blocks') : \E p \in 1 .. NTx(m_blocks'[i].id) :
                       k \in Images[BlockTxs[m_blocks'[i].id][p]]
        <4>1. PICK i \in 1 .. n : \E p \in 1 .. NTx(m_blocks[i].id) : k \in Images[BlockTxs[m_blocks[i].id][p]]
          BY <3>2, <3>3, <3>7
        <4>2. i # n
          BY <1>2, <3>3, <3>7, <4>1
        <4>3. i \in 1 .. Len(m_blocks') /\ m_blocks'[i] = m_blocks[i]
          BY <1>6, <1>7, <3>5, <4>2
        <4> QED
          BY <4>1, <4>3
      <3>8. ASSUME NEW i \in 1 .. Len(m_blocks'), NEW p \in 1 .. NTx(m_blocks'[i].id),
                   k \in Images[BlockTxs[m_blocks'[i].id][p]]
            PROVE  k \in spentKeyImages'
        <4>1. i \in 1 .. n - 1 /\ i \in 1 .. n /\ m_blocks'[i] = m_blocks[i]
          BY <3>6
        <4>2. k \in spentKeyImages
          BY <3>2, <3>8, <4>1
        <4>3. ~\E q \in 1 .. N : k \in Images[BlockTxs[b][q]]
          BY <3>4, <3>8, <4>1
        <4> QED
          BY <3>3, <4>2, <4>3
      <3> QED
        BY <3>7, <3>8
    <2> QED
      BY <2>3, <2>4, <2>5, <2>6 DEF IndexExact
  <1>20. SpentOnce'
    <2>1. \A i \in 1 .. Len(m_blocks') : i \in 1 .. n /\ m_blocks'[i] = m_blocks[i]
      BY <1>6, <1>7, SMTT(30)
    <2>2. SpentOnce
      BY DEF ChainInv
    <2> SUFFICES ASSUME NEW i \in 1 .. Len(m_blocks'), NEW j \in 1 .. Len(m_blocks'),
                        NEW p \in 1 .. NTx(m_blocks'[i].id), NEW q \in 1 .. NTx(m_blocks'[j].id), i # j \/ p # q
                 PROVE  Images[BlockTxs[m_blocks'[i].id][p]] \cap Images[BlockTxs[m_blocks'[j].id][q]] = {}
      BY Zenon DEF SpentOnce, NTx
    <2>3. i \in 1 .. n /\ j \in 1 .. n /\ m_blocks'[i] = m_blocks[i] /\ m_blocks'[j] = m_blocks[j]
      BY <2>1
    <2>4. p \in 1 .. NTx(m_blocks[i].id) /\ q \in 1 .. NTx(m_blocks[j].id)
      BY <2>3
    <2>5. Images[BlockTxs[m_blocks[i].id][p]] \cap Images[BlockTxs[m_blocks[j].id][q]] = {}
      BY <2>2, <2>3, <2>4 DEF SpentOnce
    <2> QED
      BY <2>3, <2>5
  <1>21. PoolOutsideChain'
    <2>1. ASSUME NEW i \in 1 .. n - 1, NEW t \in BlockTxSet(m_blocks[i].id), t \in BlockTxSet(b)
          PROVE  FALSE
      <3>1. PICK p \in 1 .. NTx(m_blocks[i].id) : t = BlockTxs[m_blocks[i].id][p]
        BY DEF BlockTxSet
      <3>2. PICK q \in 1 .. N : t = BlockTxs[b][q]
        BY <1>16, <2>1
      <3>3. p \in 0 .. NTx(m_blocks[i].id) /\ Owner(m_blocks[i].id, p) = t
        <4>1. m_blocks[i].id \in Blocks /\ NTx(m_blocks[i].id) \in Nat
          BY <1>3, <1>7, SMTT(30)
        <4> QED
          BY <3>1, <4>1, BlockFacts
      <3>4. q \in 0 .. N /\ Owner(b, q) = t
        BY <1>4, <3>2, BlockFacts
      <3> QED
        BY <1>15, <3>3, <3>4
    <2>2. \A i \in 1 .. n - 1 : BlockTxSet(m_blocks[i].id) \cap m_transactions = {}
      BY <1>7 DEF ChainInv, PoolOutsideChain
    <2>3. \A i \in 1 .. n - 1 : BlockTxSet(m_blocks[i].id) \cap m_transactions' = {}
      BY <1>13, <2>1, <2>2
    <2> QED
      BY <1>6, <2>3 DEF PoolOutsideChain
  <1>22. CheckpointsHold'
    BY <1>6, <1>7, SMTT(30) DEF ChainInv, CheckpointsHold
  <1> QED
    BY <1>17, <1>18, <1>19, <1>20, <1>21, <1>22 DEF ChainInv

(***************************************************************************)
(* The other steps                                                         *)
(***************************************************************************)
\* A step that leaves the chain and its indices alone keeps the invariant when
\* the pool gains nothing that is in the chain.
LEMMA StillKeeps ==
    ASSUME ChainInv, UNCHANGED <<m_blocks, indices>>,
           m_transactions' \subseteq Txs, keptByBlock' \subseteq m_transactions',
           \A i \in 1 .. Len(m_blocks) : BlockTxSet(m_blocks[i].id) \cap m_transactions' = {}
    PROVE  ChainInv'
  <1>1. /\ m_blocks' = m_blocks /\ m_transactionMap' = m_transactionMap
        /\ spentKeyImages' = spentKeyImages /\ m_outputs' = m_outputs
    BY DEF indices
  <1>2. ChainTypes /\ AtHeight /\ SpentOnce /\ CheckpointsHold
    BY DEF ChainInv
  <1>3. ChainTypes'
    BY <1>1, <1>2, Zenon DEF ChainTypes
  <1>4. AtHeight' /\ SpentOnce'
    BY <1>1, <1>2, Zenon DEF AtHeight, SpentOnce, NTx
  <1>5. CheckpointsHold'
    BY <1>1, <1>2, Zenon DEF CheckpointsHold
  <1>6. IndexExact'
    BY <1>1 DEF ChainInv, IndexExact
  <1>7. PoolOutsideChain'
    BY <1>1 DEF PoolOutsideChain
  <1> QED
    BY <1>3, <1>4, <1>5, <1>6, <1>7 DEF ChainInv

\* pushBlock adds one block ...
LEMMA PushLength ==
    ASSUME ChainInv, NEW b \in Blocks, pushBlock(b)
    PROVE  Len(m_blocks') = Len(m_blocks) + 1
  <1>1. m_blocks' = Append(m_blocks, [id |-> b, out |-> Len(m_outputs)])
    BY DEF pushBlock
  <1>2. m_blocks \in Seq([id : Blocks, out : Nat]) /\ [id |-> b, out |-> Len(m_outputs)] \in [id : Blocks, out : Nat]
    BY DEF ChainInv, ChainTypes
  <1> QED
    BY <1>1, <1>2, Appended

\* ... and popBlock removes one.
LEMMA PopLength ==
    ASSUME ChainInv, popBlock, Len(m_blocks) > 1
    PROVE  Len(m_blocks') = Len(m_blocks) - 1
  <1>1. m_blocks' = SubSeq(m_blocks, 1, Len(m_blocks) - 1)
    BY DEF popBlock
  <1>2. m_blocks \in Seq([id : Blocks, out : Nat]) /\ Len(m_blocks) \in Nat
    BY DEF ChainInv, ChainTypes
  <1> QED
    BY <1>1, <1>2

\* A refused block changes only marks in the pool.
LEMMA FailKeeps ==
    ASSUME ChainInv, NEW b \in Blocks, pushBlockFails(b)
    PROVE  ChainInv' /\ m_blocks' = m_blocks
  <1>1. /\ UNCHANGED <<m_blocks, indices>> /\ m_transactions' = m_transactions
        /\ keptByBlock' = keptByBlock \cup Taken(b)
    BY DEF pushBlockFails
  <1>2. Taken(b) \subseteq m_transactions
    <2>1. NTx(b) \in Nat
      BY BlockFacts
    <2>2. \A i \in 1 .. NTx(b) : i \in 1 .. i
      BY <2>1
    <2> QED
      BY <2>2 DEF Taken
  <1>3. keptByBlock' \subseteq m_transactions' /\ m_transactions' \subseteq Txs
    BY <1>1, <1>2 DEF ChainInv, ChainTypes
  <1>4. \A i \in 1 .. Len(m_blocks) : BlockTxSet(m_blocks[i].id) \cap m_transactions' = {}
    BY <1>1 DEF ChainInv, PoolOutsideChain
  <1> QED
    BY <1>1, <1>3, <1>4, StillKeeps

\* The height of the first alternative block is its position on the branch.
LEMMA FrontHeight ==
    ASSUME NEW b \in Blocks, NEW s \in 1 .. Len(Branch[b])
    PROVE  /\ AltChain(b, s) \in Seq(Blocks)
           /\ Len(AltChain(b, s)) > 0
           /\ AltChain(b, s)[1] = Branch[b][s]
           /\ Branch[b][s] \in Blocks
           /\ Height(Branch[b][s]) = s - 1
  <1> DEFINE n == Len(Branch[b])
  <1>1. Branch[b] \in Seq(Blocks) /\ n \in Nat
    BY BlockFacts
  <1>2. \A i \in s .. n : Branch[b][i] \in Blocks
    BY <1>1, ItemOf
  <1>3. /\ AltChain(b, s) \in Seq(Blocks)
        /\ Len(AltChain(b, s)) = n - s + 1
        /\ \A i \in 1 .. n - s + 1 : AltChain(b, s)[i] = Branch[b][s + i - 1]
    BY <1>1, <1>2, Cut, SMTT(30) DEF AltChain
  <1>4. 1 \in 1 .. n - s + 1 /\ s + 1 - 1 = s /\ n - s + 1 > 0
    BY <1>1
  <1>5. Branch[Branch[b][s]] = SubSeq(Branch[b], 1, s)
    BY BlocksAssumption
  <1>6. Len(SubSeq(Branch[b], 1, s)) = s
    BY <1>1
  <1>7. Branch[b][s] \in Blocks
    BY <1>1
  <1> QED
    BY <1>3, <1>4, <1>5, <1>6, <1>7, Zenon DEF Height

(***************************************************************************)
(* Induction                                                               *)
(***************************************************************************)
\* The chain of resetAndSetGenesisBlock satisfies the invariant.
LEMMA InitInv ==
    ASSUME Init
    PROVE  ChainInv /\ SwitchInv
  <1> USE DEF Init
  <1>1. Genesis \in Blocks /\ BlockTxs[Genesis] = <<>>
    BY BlocksAssumption
  <1>2. NTx(Genesis) = 0 /\ Owner(Genesis, 0) = Genesis
    BY <1>1 DEF NTx, Owner
  <1>3. Len(Branch[Genesis]) = 1
    <2> DEFINE n == Len(Branch[Genesis])
    <2>1. Branch[Genesis] \in Seq(Blocks) /\ n \in Nat /\ n > 0
      BY <1>1, BlockFacts
    <2>2. Branch[Genesis][1] = Genesis
      BY <1>1, BlocksAssumption
    <2>3. 1 \in 1 .. n
      BY <2>1
    <2>4. Branch[Branch[Genesis][1]] = SubSeq(Branch[Genesis], 1, 1)
      BY <1>1, <2>3, BlocksAssumption, Zenon
    <2>5. Len(SubSeq(Branch[Genesis], 1, 1)) = 1
      BY <2>1, <2>3
    <2> QED
      BY <2>2, <2>4, <2>5
  <1>4. /\ Len(m_blocks) = 1 /\ m_blocks[1] = [id |-> Genesis, out |-> 0]
        /\ m_blocks \in Seq([id : Blocks, out : Nat])
        /\ Len(m_outputs) = 1 /\ m_outputs[1] = [block |-> 0, transaction |-> 0]
        /\ m_outputs \in Seq(Where)
    BY <1>1 DEF Where
  <1>5. /\ DOMAIN m_transactionMap = {Genesis}
        /\ m_transactionMap[Genesis] = [block |-> 0, transaction |-> 0]
        /\ [block |-> 0, transaction |-> 0] \in Where
    BY DEF Where
  <1>6. \A i \in 1 .. Len(m_blocks) : i = 1 /\ m_blocks[i].id = Genesis /\ m_blocks[i].out = 0
    BY <1>4
  <1>7. \A p \in 0 .. NTx(Genesis) : p = 0
    BY <1>2
  <1>8. \A p \in 1 .. NTx(Genesis) : FALSE
    BY <1>2
  <1>9. ChainTypes
    BY <1>1, <1>4, <1>5 DEF ChainTypes
  <1>10. AtHeight
    BY <1>3, <1>6, ZenonT(30) DEF AtHeight
  <1>11. IndexExact
    <2>1. \A i \in 1 .. Len(m_blocks) : \A p \in 0 .. NTx(m_blocks[i].id) :
           /\ Owner(m_blocks[i].id, p) \in DOMAIN m_transactionMap
           /\ m_transactionMap[Owner(m_blocks[i].id, p)] = [block |-> i - 1, transaction |-> p]
           /\ m_blocks[i].out + p + 1 \in DOMAIN m_outputs
           /\ m_outputs[m_blocks[i].out + p + 1] = [block |-> i - 1, transaction |-> p]
      BY <1>2, <1>4, <1>5, <1>6, <1>7
    <2>2. \A o \in DOMAIN m_transactionMap :
           \E i \in 1 .. Len(m_blocks) : \E p \in 0 .. NTx(m_blocks[i].id) : Owner(m_blocks[i].id, p) = o
      <3>1. 1 \in 1 .. Len(m_blocks) /\ m_blocks[1].id = Genesis /\ 0 \in 0 .. NTx(Genesis)
        BY <1>2, <1>4
      <3> QED
        BY <1>2, <1>5, <3>1
    <2>3. \A i \in 1 .. Len(m_blocks) :
           m_blocks[i].out + NTx(m_blocks[i].id) + 1
               = IF i = Len(m_blocks) THEN Len(m_outputs) ELSE m_blocks[i + 1].out
      BY <1>2, <1>4, <1>6
    <2>4. \A k \in KeyImages :
           k \in spentKeyImages <=>
               \E i \in 1 .. Len(m_blocks) : \E p \in 1 .. NTx(m_blocks[i].id) :
                   k \in Images[BlockTxs[m_blocks[i].id][p]]
      BY <1>6, <1>8, ZenonT(30)
    <2> QED
      BY <2>1, <2>2, <2>3, <2>4 DEF IndexExact
  <1>12. SpentOnce
    BY <1>6, <1>8 DEF SpentOnce
  <1>13. PoolOutsideChain
    BY DEF PoolOutsideChain
  <1>14. CheckpointsHold
    BY <1>6, ParametersAssumption DEF CheckpointsHold
  <1>15. SwitchInv
    <2>1. /\ seen = <<Genesis>> /\ alt_chain = <<>> /\ disconnected_chain = <<>>
          /\ discard = FALSE /\ phase = "idle" /\ m_alternative_chains = {}
      OBVIOUS
    <2>2. seen \in Seq(Blocks) /\ Len(seen) = 1
      BY <1>1, <2>1
    <2>3. alt_chain \in Seq(Blocks) /\ disconnected_chain \in Seq(Blocks)
      BY <2>1
    <2>4. Len(m_blocks) <= Len(seen)
      BY <1>4, <2>2
    <2>5. phase \notin {"disconnect", "connect", "undo", "restore"} /\ phase = "idle"
      BY <2>1
    <2> HIDE DEF Init
    <2>6. discard \in BOOLEAN /\ m_alternative_chains \subseteq Blocks
      BY <2>1, Zenon
    <2> QED
      BY <2>2, <2>3, <2>4, <2>5, <2>6 DEF SwitchInv
  <1> QED
    BY <1>9, <1>10, <1>11, <1>12, <1>13, <1>14, <1>15 DEF ChainInv

\* core::add_new_tx takes a transaction the chain does not have.
LEMMA AddTxKeeps ==
    ASSUME ChainInv, SwitchInv, NEW t \in Txs, NEW kept \in BOOLEAN, add_new_tx(t, kept)
    PROVE  ChainInv' /\ SwitchInv'
  <1>1. /\ UNCHANGED <<m_blocks, indices, m_alternative_chains, phase, alt_chain, disconnected_chain,
                       discard, seen, split_height>>
        /\ t \notin DOMAIN m_transactionMap
    BY DEF add_new_tx, switch, split_height
  <1>2. \A i \in 1 .. Len(m_blocks) : t \notin BlockTxSet(m_blocks[i].id)
    <2> SUFFICES ASSUME NEW i \in 1 .. Len(m_blocks), NEW p \in 1 .. NTx(m_blocks[i].id),
                        t = BlockTxs[m_blocks[i].id][p]
                 PROVE  FALSE
      BY DEF BlockTxSet
    <2>1. m_blocks[i].id \in Blocks /\ NTx(m_blocks[i].id) \in Nat
      BY ChainFacts
    <2>2. Owner(m_blocks[i].id, p) = t /\ p \in 0 .. NTx(m_blocks[i].id)
      BY <2>1, BlockFacts
    <2>3. \A q \in 0 .. NTx(m_blocks[i].id) : Owner(m_blocks[i].id, q) \in DOMAIN m_transactionMap
      BY Zenon DEF ChainInv, IndexExact
    <2> QED
      BY <1>1, <2>2, <2>3
  <1>3. m_transactions' = m_transactions \cup {t} /\ keptByBlock' \subseteq keptByBlock \cup {t}
    BY DEF add_new_tx
  <1>4. ChainInv'
    BY <1>1, <1>2, <1>3, StillKeeps DEF ChainInv, ChainTypes, PoolOutsideChain
  <1> QED
    BY <1>1, <1>4 DEF SwitchInv

\* The pool's idle handler drops an expired transaction.
LEMMA ExpireKeeps ==
    ASSUME ChainInv, SwitchInv, NEW t \in Txs, removeExpiredTransaction(t)
    PROVE  ChainInv' /\ SwitchInv'
  <1>1. UNCHANGED <<m_blocks, indices, m_alternative_chains, phase, alt_chain, disconnected_chain,
                    discard, seen, split_height>>
    BY DEF removeExpiredTransaction, switch, split_height
  <1>2. m_transactions' = m_transactions \ {t} /\ keptByBlock' = keptByBlock \ {t}
    BY DEF removeExpiredTransaction
  <1>3. /\ m_transactions \subseteq Txs /\ keptByBlock \subseteq m_transactions
        /\ \A i \in 1 .. Len(m_blocks) : BlockTxSet(m_blocks[i].id) \cap m_transactions = {}
    BY DEF ChainInv, ChainTypes, PoolOutsideChain
  <1>4. ChainInv'
    BY <1>1, <1>2, <1>3, StillKeeps
  <1> QED
    BY <1>1, <1>4 DEF SwitchInv

\* Every step of Next keeps the invariant; one case per action.
LEMMA NextInv ==
    ASSUME ChainInv, SwitchInv, [Next]_vars
    PROVE  ChainInv' /\ SwitchInv'
  <1>1. Len(m_blocks) \in Nat /\ Len(m_blocks) > 0 /\ m_blocks \in Seq([id : Blocks, out : Nat])
    BY DEF ChainInv, ChainTypes
  <1>2. TailId \in Blocks
    BY <1>1, ChainFacts DEF TailId
  <1>3. /\ alt_chain \in Seq(Blocks) /\ disconnected_chain \in Seq(Blocks) /\ seen \in Seq(Blocks)
        /\ Len(alt_chain) \in Nat /\ Len(disconnected_chain) \in Nat /\ Len(seen) \in Nat
    BY DEF SwitchInv
  <1>4. phase # "idle" => split_height \in Nat /\ split_height > 0 /\ Len(alt_chain) > 0
    <2>1. ASSUME phase # "idle" PROVE alt_chain[1] \in Blocks
      BY <1>3, <2>1, ItemOf DEF SwitchInv
    <2> QED
      BY <2>1, BlockFacts, SMTT(40) DEF split_height, Height, SwitchInv
  <1>5. ASSUME NEW b \in Blocks, ExtendMain(b) PROVE ChainInv' /\ SwitchInv'
    <2>1. ChainInv' /\ Len(m_blocks') = Len(m_blocks) + 1
      BY <1>5, PushKeeps, PushLength DEF ExtendMain
    <2>2. Len(Branch[b]) = Len(m_blocks) + 1
      BY <1>5, PushIsFresh DEF ExtendMain, pushBlock, Valid, AllInputsValid
    <2>3. phase = "idle" /\ Len(m_blocks) <= Len(seen) /\ Height(b) = Len(m_blocks)
      BY <1>1, <1>5, <2>2 DEF ExtendMain, SwitchInv, Height
    <2>4. SubSeq(seen, 1, Height(b)) \in Seq(Blocks) /\ Len(SubSeq(seen, 1, Height(b))) = Len(m_blocks)
      BY <1>1, <1>3, <2>3
    <2>5. seen' \in Seq(Blocks) /\ Len(seen') = Len(m_blocks) + 1
      BY <1>5, <2>4, Appended DEF ExtendMain
    <2>6. UNCHANGED <<m_alternative_chains, phase, alt_chain, disconnected_chain, discard>>
      BY <1>5 DEF ExtendMain, switch
    <2> QED
      BY <2>1, <2>3, <2>5, <2>6 DEF SwitchInv
  <1>6. ASSUME NEW b \in Blocks, RejectMain(b) PROVE ChainInv' /\ SwitchInv'
    <2>1. ChainInv' /\ m_blocks' = m_blocks
      BY <1>6, FailKeeps DEF RejectMain
    <2>2. UNCHANGED <<m_alternative_chains, phase, alt_chain, disconnected_chain, discard, seen>>
      BY <1>6 DEF RejectMain, switch
    <2> QED
      BY <2>1, <2>2 DEF SwitchInv, split_height
  <1>7. ASSUME UNCHANGED vars PROVE ChainInv' /\ SwitchInv'
    <2>1. UNCHANGED <<m_blocks, indices>> /\ m_transactions' = m_transactions /\ keptByBlock' = keptByBlock
      BY <1>7 DEF vars, pool
    <2>2. ChainInv'
      BY <2>1, StillKeeps DEF ChainInv, ChainTypes, PoolOutsideChain
    <2>3. UNCHANGED <<m_blocks, m_alternative_chains, phase, alt_chain, disconnected_chain, discard, seen>>
      BY <1>7 DEF vars, switch
    <2> QED
      BY <2>2, <2>3 DEF SwitchInv, split_height
  <1>8. ASSUME NEW b \in Blocks, NEW s \in 1 .. Len(Branch[b]), handle_alternative_block(b, s)
        PROVE  /\ ChainInv' /\ m_blocks' = m_blocks /\ seen' = seen
               /\ m_alternative_chains' \subseteq Blocks
               /\ s > 1 /\ s - 1 < Len(m_blocks) /\ phase = "idle"
    <2>1. /\ UNCHANGED <<m_blocks, indices>> /\ m_transactions' = m_transactions /\ keptByBlock' = keptByBlock
          /\ seen' = seen /\ phase = "idle"
      BY <1>8 DEF handle_alternative_block, pool
    <2>2. ChainInv'
      BY <2>1, StillKeeps DEF ChainInv, ChainTypes, PoolOutsideChain
    <2>3. m_alternative_chains' \subseteq Blocks
      BY <1>8 DEF handle_alternative_block, SwitchInv
    <2>4. s > 1 /\ Height(Branch[b][s]) < Len(m_blocks)
      BY <1>8 DEF handle_alternative_block, AltAccepted, AltStart, Connected
    <2> QED
      BY <2>1, <2>2, <2>3, <2>4, FrontHeight, Zenon
  <1>9. ASSUME NEW b \in Blocks, NEW s \in 1 .. Len(Branch[b]), AddAlternative(b, s) \/ RefuseSwitch(b, s)
        PROVE  ChainInv' /\ SwitchInv'
    <2>1. handle_alternative_block(b, s) /\ UNCHANGED <<phase, alt_chain, disconnected_chain, discard>>
      BY <1>9 DEF AddAlternative, RefuseSwitch, switch
    <2> QED
      BY <1>8, <2>1 DEF SwitchInv, split_height
  <1>10. ASSUME NEW b \in Blocks, NEW s \in 1 .. Len(Branch[b]), BeginSwitch(b, s)
         PROVE  ChainInv' /\ SwitchInv'
    <2>1. /\ ChainInv' /\ m_blocks' = m_blocks /\ seen' = seen
          /\ m_alternative_chains' \subseteq Blocks
          /\ s > 1 /\ s - 1 < Len(m_blocks) /\ phase = "idle"
      BY <1>8, <1>10 DEF BeginSwitch
    <2>2. /\ phase' = "disconnect" /\ alt_chain' = AltChain(b, s) /\ disconnected_chain' = <<>>
          /\ discard' \in BOOLEAN
      BY <1>10 DEF BeginSwitch, isCheckpoint
    <2>3. /\ alt_chain' \in Seq(Blocks) /\ Len(alt_chain') > 0
          /\ Height(alt_chain'[1]) = s - 1
      BY <2>2, FrontHeight
    <2>4. Len(m_blocks) <= Len(seen) /\ s - 1 > 0
      BY <2>1, BlockFacts DEF SwitchInv
    <2>5. Len(disconnected_chain') = 0 /\ disconnected_chain' \in Seq(Blocks)
      BY <2>2
    <2> QED
      BY <1>1, <1>3, <2>1, <2>2, <2>3, <2>4, <2>5 DEF SwitchInv, split_height
  <1>11. ASSUME Disconnect PROVE ChainInv' /\ SwitchInv'
    <2>1. phase = "disconnect" /\ split_height < Len(m_blocks) /\ split_height > 0
      BY <1>11 DEF Disconnect, SwitchInv
    <2>2. Len(m_blocks) > 1 /\ split_height \in Nat
      BY <1>1, <1>4, <2>1
    <2>3. ChainInv' /\ Len(m_blocks') = Len(m_blocks) - 1
      BY <1>11, <2>2, PopKeeps, PopLength DEF Disconnect
    <2>4. /\ disconnected_chain' \in Seq(Blocks)
          /\ Len(disconnected_chain') = 1 + Len(disconnected_chain)
      <3>1. <<TailId>> \in Seq(Blocks) /\ Len(<<TailId>>) = 1
        BY <1>2
      <3> QED
        BY <1>3, <1>11, <3>1, Joined DEF Disconnect
    <2>5. split_height' = split_height
      BY <1>11 DEF Disconnect, split_height
    <2> QED
      BY <1>1, <1>3, <1>4, <1>11, <2>1, <2>2, <2>3, <2>4, <2>5, SMTT(40) DEF Disconnect, SwitchInv
  <1>12. ASSUME Connecting PROVE ToConnect \in Blocks
    <2>1. /\ split_height \in Nat /\ split_height <= Len(m_blocks)
          /\ Len(m_blocks) < split_height + Len(alt_chain)
      BY <1>4, <1>12 DEF Connecting, SwitchInv
    <2>2. Len(m_blocks) - split_height + 1 \in 1 .. Len(alt_chain)
      BY <1>1, <1>3, <2>1
    <2> QED
      BY <1>3, <2>2, ItemOf DEF ToConnect
  <1>13. ASSUME Connect PROVE ChainInv' /\ SwitchInv'
    <2>1. ToConnect \in Blocks
      BY <1>12, <1>13 DEF Connect
    <2>2. ChainInv' /\ Len(m_blocks') = Len(m_blocks) + 1
      BY <1>13, <2>1, PushKeeps, PushLength DEF Connect
    <2>3. UNCHANGED <<m_alternative_chains, phase, alt_chain, disconnected_chain, discard, seen, split_height>>
      BY <1>13 DEF Connect, switch, split_height
    <2>4. phase = "connect" /\ Len(m_blocks) < split_height + Len(alt_chain)
      BY <1>13 DEF Connect, Connecting
    <2> QED
      BY <1>1, <1>3, <1>4, <2>2, <2>3, <2>4 DEF SwitchInv
  <1>14. ASSUME ConnectFails PROVE ChainInv' /\ SwitchInv'
    <2>1. ToConnect \in Blocks
      BY <1>12, <1>14 DEF ConnectFails
    <2>2. ChainInv' /\ m_blocks' = m_blocks
      BY <1>14, <2>1, FailKeeps DEF ConnectFails
    <2>3. /\ UNCHANGED <<alt_chain, disconnected_chain, discard, seen, split_height>>
          /\ m_alternative_chains' \subseteq m_alternative_chains
          /\ phase' = IF Len(m_blocks) = split_height THEN "restore" ELSE "undo"
      BY <1>14 DEF ConnectFails, switch, split_height
    <2>4. phase = "connect"
      BY <1>14 DEF ConnectFails, Connecting
    <2> QED
      BY <1>1, <1>3, <1>4, <2>2, <2>3, <2>4 DEF SwitchInv
  <1>15. ASSUME Undo PROVE ChainInv' /\ SwitchInv'
    <2>1. phase = "undo" /\ split_height < Len(m_blocks) /\ split_height > 0
      BY <1>15 DEF Undo, SwitchInv
    <2>2. Len(m_blocks) > 1 /\ split_height \in Nat
      BY <1>1, <1>4, <2>1
    <2>3. ChainInv' /\ Len(m_blocks') = Len(m_blocks) - 1
      BY <1>15, <2>2, PopKeeps, PopLength DEF Undo
    <2>4. /\ UNCHANGED <<m_alternative_chains, alt_chain, disconnected_chain, discard, seen, split_height>>
          /\ phase' = IF Len(m_blocks) - 1 = split_height THEN "restore" ELSE "undo"
      BY <1>15 DEF Undo, switch, split_height
    <2> QED
      BY <1>1, <1>3, <1>4, <2>1, <2>2, <2>3, <2>4 DEF SwitchInv
  <1>16. ASSUME phase = "restore" PROVE ToRestore \in Blocks
    <2>1. /\ split_height \in Nat /\ split_height <= Len(m_blocks)
          /\ Len(m_blocks) < split_height + Len(disconnected_chain)
      BY <1>4, <1>16 DEF SwitchInv
    <2>2. Len(m_blocks) - split_height + 1 \in 1 .. Len(disconnected_chain)
      BY <1>1, <1>3, <2>1
    <2> QED
      BY <1>3, <2>2, ItemOf DEF ToRestore
  <1>17. ASSUME Return, ChainInv', Len(m_blocks') <= Len(seen'), seen' \in Seq(Blocks),
                m_alternative_chains' \subseteq Blocks
         PROVE  SwitchInv'
    <2>1. alt_chain' \in Seq(Blocks) /\ disconnected_chain' \in Seq(Blocks)
      BY <1>17 DEF Return
    <2> QED
      BY <1>17, <2>1, Zenon DEF Return, SwitchInv
  <1>18. ASSUME Restore PROVE ChainInv' /\ SwitchInv'
    <2>1. phase = "restore" /\ ToRestore \in Blocks
      BY <1>16, <1>18 DEF Restore
    <2>2. ChainInv' /\ Len(m_blocks') = Len(m_blocks) + 1
      BY <1>18, <2>1, PushKeeps, PushLength DEF Restore
    <2>3. m_alternative_chains' = m_alternative_chains /\ seen' = seen
      BY <1>18 DEF Restore
    <2>4. CASE Len(m_blocks) + 1 = split_height + Len(disconnected_chain)
      <3>1. Return
        BY <1>18, <2>4 DEF Restore
      <3>2. Len(m_blocks') <= Len(seen')
        BY <2>1, <2>2, <2>3, <2>4 DEF SwitchInv
      <3> QED
        BY <1>3, <1>17, <2>2, <2>3, <3>1, <3>2 DEF SwitchInv
    <2>5. CASE Len(m_blocks) + 1 # split_height + Len(disconnected_chain)
      <3>1. UNCHANGED <<phase, alt_chain, disconnected_chain, discard, split_height>>
        BY <1>18, <2>5 DEF Restore, switch, split_height
      <3>2. /\ split_height \in Nat /\ split_height <= Len(m_blocks)
            /\ Len(m_blocks) < split_height + Len(disconnected_chain)
        BY <1>4, <2>1 DEF SwitchInv
      <3>3. /\ split_height <= Len(m_blocks')
            /\ Len(m_blocks') < split_height + Len(disconnected_chain)
        BY <1>1, <1>3, <2>2, <2>5, <3>2
      <3> QED
        BY <2>1, <2>2, <2>3, <3>1, <3>3 DEF SwitchInv
    <2> QED
      BY <2>4, <2>5
  <1>19. ASSUME RestoreFails PROVE ChainInv' /\ SwitchInv'
    <2>1. phase = "restore" /\ ToRestore \in Blocks
      BY <1>16, <1>19 DEF RestoreFails
    <2>2. ChainInv' /\ m_blocks' = m_blocks
      BY <1>19, <2>1, FailKeeps DEF RestoreFails
    <2>3. m_alternative_chains' = m_alternative_chains /\ seen' = seen /\ Return
      BY <1>19 DEF RestoreFails
    <2>4. Len(m_blocks') <= Len(seen')
      BY <1>1, <1>3, <1>4, <2>1, <2>2, <2>3 DEF SwitchInv
    <2> QED
      BY <1>3, <1>17, <2>2, <2>3, <2>4 DEF SwitchInv
  <1>20. ASSUME FinishSwitch PROVE ChainInv' /\ SwitchInv'
    <2>1. /\ phase = "connect" /\ Len(m_blocks) = split_height + Len(alt_chain)
          /\ UNCHANGED <<m_blocks, indices>> /\ m_transactions' = m_transactions /\ keptByBlock' = keptByBlock
          /\ seen' = SubSeq(seen, 1, split_height) \o alt_chain
          /\ Return
      BY <1>20 DEF FinishSwitch, pool
    <2>2. ChainInv'
      BY <2>1, StillKeeps, ZenonT(30) DEF ChainInv, ChainTypes, PoolOutsideChain
    <2>3. split_height \in Nat /\ split_height <= Len(seen)
      BY <1>3, <1>4, <2>1 DEF SwitchInv
    <2>4. SubSeq(seen, 1, split_height) \in Seq(Blocks) /\ Len(SubSeq(seen, 1, split_height)) = split_height
      BY <1>3, <2>3
    <2>5. seen' \in Seq(Blocks) /\ Len(seen') = split_height + Len(alt_chain)
      BY <1>3, <2>1, <2>4, Joined
    <2>6. m_alternative_chains' \subseteq Blocks
      <3>1. Readded \subseteq Blocks
        BY <1>3, ItemOf DEF Readded
      <3> QED
        BY <1>20, <3>1 DEF FinishSwitch, SwitchInv
    <2>7. Len(m_blocks') <= Len(seen')
      BY <1>3, <2>1, <2>3, <2>5
    <2> QED
      BY <1>17, <2>1, <2>2, <2>5, <2>6, <2>7
  <1>21. ASSUME NEW t \in Txs, NEW kept \in BOOLEAN, add_new_tx(t, kept) PROVE ChainInv' /\ SwitchInv'
    BY <1>21, AddTxKeeps
  <1>22. ASSUME NEW t \in Txs, removeExpiredTransaction(t) PROVE ChainInv' /\ SwitchInv'
    BY <1>22, ExpireKeeps
  <1>23. ASSUME NEW b \in Blocks, AlreadyExists(b) PROVE ChainInv' /\ SwitchInv'
    BY <1>7, <1>23 DEF AlreadyExists
  <1> QED
    BY <1>5, <1>6, <1>7, <1>9, <1>10, <1>11, <1>13, <1>14, <1>15, <1>18, <1>19, <1>20, <1>21, <1>22, <1>23
    DEF Next, SwitchStep

(***************************************************************************)
(* Theorems                                                                *)
(***************************************************************************)
\* The inductive invariant of addNewBlock, the switch and the pool.
THEOREM Invariance == Spec => [](ChainInv /\ SwitchInv)
  <1>1. Init => ChainInv /\ SwitchInv
    BY InitInv
  <1>2. (ChainInv /\ SwitchInv) /\ [Next]_vars => (ChainInv /\ SwitchInv)'
    BY NextInv
  <1> QED
    BY <1>1, <1>2, PTL DEF Spec

\* Every variable keeps its type.
THEOREM TypeCorrect == Spec => []TypeOK
  <1>1. ChainInv /\ SwitchInv => TypeOK
    BY DEF ChainInv, ChainTypes, SwitchInv, TypeOK
  <1> QED
    BY <1>1, Invariance, PTL

\* The indices describe the main chain and nothing else after every push, pop and
\* step of a switch, for every tree of blocks and every verdict on them.
THEOREM IndicesExact == Spec => []IndexExact
  <1>1. ChainInv => IndexExact
    BY DEF ChainInv
  <1> QED
    BY <1>1, Invariance, PTL

\* No transaction is in the pool and in the main chain at once.
THEOREM PoolDisjoint == Spec => []PoolOutsideChain
  <1>1. ChainInv => PoolOutsideChain
    BY DEF ChainInv
  <1> QED
    BY <1>1, Invariance, PTL

\* Wherever the main chain has reached a checkpointed height, it has its block.
THEOREM CheckpointsKept == Spec => []CheckpointsHold
  <1>1. ChainInv => CheckpointsHold
    BY DEF ChainInv
  <1> QED
    BY <1>1, Invariance, PTL
=============================================================================
