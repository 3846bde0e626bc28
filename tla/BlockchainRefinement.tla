------------------------ MODULE BlockchainRefinement ------------------------
(***************************************************************************)
(* Proofs about Blockchain, continued: the main chain is one that was      *)
(* pushed block by block, and a block that was accepted once is accepted   *)
(* again on top of the same blocks.  Therefore Blockchain implements       *)
(* MainChain, for every tree of blocks, when AuthBlock refuses nothing:    *)
(* seen from outside the lock a switch replaces the chain in one step, and *)
(* one that fails leaves it as it was.                                     *)
(*                                                                         *)
(* The heart of the proof is that rollback_blockchain_switching cannot be  *)
(* refused a block of the original chain.  Its transactions are still at   *)
(* hand, and as the chain below each block is the one it was first pushed  *)
(* on, every index its rings name leads where it led then.                 *)
(***************************************************************************)
EXTENDS BlockchainProofs

(***************************************************************************)
(* What is true of a chain of entries that was pushed block by block       *)
(***************************************************************************)
Entry == [id : Blocks, out : Nat]

\* Each block is at its height, on top of its branch.
Linked(c) ==
    \A i \in 1 .. Len(c) :
        /\ Len(Branch[c[i].id]) = i
        /\ \A j \in 1 .. i : Branch[c[i].id][j] = c[j].id

\* The checks of pushBlock that look at one block and its parent.
Accepted(c) ==
    \A i \in 2 .. Len(c) :
        /\ c[i].id # Genesis /\ Parent(c[i].id) = c[i - 1].id
        /\ c[i].id \notin Oversize /\ c[i].id \notin BadReward

\* The ring member r leads from the i-th block to the output it was made for.
Leads(c, i, r) ==
    \E k \in 1 .. i - 1 : \E q \in 0 .. NTx(c[k].id) :
        /\ r.index = c[k].out + q
        /\ Owner(c[k].id, q) = r.owner
        /\ q = 0 => i - 1 >= k - 1 + UnlockWindow

Resolved(c) ==
    \A i \in 2 .. Len(c) : \A p \in 1 .. NTx(c[i].id) :
        \A r \in Ring[BlockTxs[c[i].id][p]] : Leads(c, i, r)

\* Global indexes follow on from block to block.
Numbered(c) == \A i \in 1 .. Len(c) - 1 : c[i + 1].out = c[i].out + NTx(c[i].id) + 1

\* No transaction is confirmed twice and no key image spent twice.
Once(c) ==
    \A i, j \in 1 .. Len(c) : \A p \in 1 .. NTx(c[i].id), q \in 1 .. NTx(c[j].id) :
        i # j \/ p # q =>
            /\ BlockTxs[c[i].id][p] # BlockTxs[c[j].id][q]
            /\ Images[BlockTxs[c[i].id][p]] \cap Images[BlockTxs[c[j].id][q]] = {}

Passes(c) == \A i \in 1 .. Len(c) : i - 1 \in DOMAIN Points => c[i].id = Points[i - 1]

Sound(c) ==
    /\ c \in Seq(Entry) /\ Len(c) > 0
    /\ Linked(c) /\ Accepted(c) /\ Resolved(c) /\ Numbered(c) /\ Once(c) /\ Passes(c)

\* Every output in the index is one of a block of the chain.
OutputsOwned ==
    \A x \in 1 .. Len(m_outputs) : \E k \in 1 .. Len(m_blocks) : \E q \in 0 .. NTx(m_blocks[k].id) :
        x = m_blocks[k].out + q + 1

History == Linked(m_blocks) /\ Accepted(m_blocks) /\ Resolved(m_blocks) /\ OutputsOwned

(***************************************************************************)
(* Pushing and popping keep the history                                    *)
(***************************************************************************)
\* A block's branch is its parent's and the block.
LEMMA ParentBranch ==
    ASSUME NEW b \in Blocks, b # Genesis
    PROVE  /\ \A j \in 1 .. Len(Branch[b]) - 1 : Branch[b][j] = Branch[Parent(b)][j]
           /\ Branch[b][Len(Branch[b])] = b
  <1> DEFINE n == Len(Branch[b])
  <1>1. n \in Nat /\ n > 1 /\ Branch[b] \in Seq(Blocks)
    BY BlockFacts, ParentHeight
  <1>2. n - 1 \in 1 .. n /\ Parent(b) = Branch[b][n - 1]
    BY <1>1 DEF Parent, Height
  <1>3. Branch[Parent(b)] = SubSeq(Branch[b], 1, n - 1)
    <2>1. \A i \in 1 .. n : Branch[Branch[b][i]] = SubSeq(Branch[b], 1, i)
      BY BlocksAssumption
    <2> QED
      BY <1>2, <2>1
  <1>4. \A i \in 1 .. n - 1 : Branch[b][i] \in Blocks
    BY <1>1, ItemOf
  <1>5. \A j \in 1 .. n - 1 : SubSeq(Branch[b], 1, n - 1)[j] = Branch[b][j]
    BY <1>1, <1>4
  <1>6. Branch[b][n] = b
    BY BlocksAssumption
  <1> QED
    BY <1>3, <1>5, <1>6

\* What pushBlock does to the entries and the outputs.
LEMMA PushEntry ==
    ASSUME ChainInv, NEW b \in Blocks, pushBlock(b)
    PROVE  /\ m_blocks' \in Seq(Entry)
           /\ Len(m_blocks') = Len(m_blocks) + 1
           /\ \A i \in 1 .. Len(m_blocks) : m_blocks'[i] = m_blocks[i]
           /\ m_blocks'[Len(m_blocks) + 1].id = b
           /\ m_blocks'[Len(m_blocks) + 1].out = Len(m_outputs)
           /\ Len(m_outputs') = Len(m_outputs) + NTx(b) + 1
  <1> DEFINE entry == [id |-> b, out |-> Len(m_outputs)]
             n == Len(m_blocks)
  <1>1. m_blocks' = Append(m_blocks, entry)
    BY DEF pushBlock
  <1>2. m_blocks \in Seq(Entry) /\ entry \in Entry /\ n \in Nat /\ Len(m_outputs) \in Nat
    BY DEF ChainInv, ChainTypes, Entry
  <1> HIDE DEF entry
  <1>3. /\ m_blocks' \in Seq(Entry) /\ Len(m_blocks') = n + 1
        /\ \A i \in 1 .. n : m_blocks'[i] = m_blocks[i]
        /\ m_blocks'[n + 1] = entry
    BY <1>1, <1>2, Appended
  <1>4. ChainInv' /\ n + 1 \in 1 .. Len(m_blocks')
    BY <1>2, <1>3, PushKeeps
  <1>5. m_blocks'[n + 1].out + NTx(m_blocks'[n + 1].id) + 1 = Len(m_outputs')
    BY <1>3, <1>4 DEF ChainInv, IndexExact
  <1> QED
    BY <1>3, <1>5 DEF entry

\* What popBlock does to them.
LEMMA PopEntry ==
    ASSUME ChainInv, popBlock, Len(m_blocks) > 1
    PROVE  /\ m_blocks' \in Seq(Entry)
           /\ Len(m_blocks') = Len(m_blocks) - 1
           /\ \A i \in 1 .. Len(m_blocks) - 1 : m_blocks'[i] = m_blocks[i]
           /\ Len(m_outputs') = m_blocks[Len(m_blocks)].out
           /\ Len(m_outputs') <= Len(m_outputs)
  <1> DEFINE n == Len(m_blocks)
  <1>1. m_blocks' = SubSeq(m_blocks, 1, n - 1)
    BY DEF popBlock
  <1>2. m_blocks \in Seq(Entry) /\ n \in Nat
    BY DEF ChainInv, ChainTypes, Entry
  <1>3. /\ m_blocks' \in Seq(Entry) /\ Len(m_blocks') = n - 1
        /\ \A i \in 1 .. n - 1 : m_blocks'[i] = m_blocks[i]
    BY <1>1, <1>2
  <1>4. ChainInv' /\ n - 1 \in 1 .. Len(m_blocks') /\ n - 1 \in 1 .. n /\ n \in 1 .. n
    BY <1>2, <1>3, PopKeeps
  <1>5. m_blocks'[n - 1].out + NTx(m_blocks'[n - 1].id) + 1 = Len(m_outputs')
    BY <1>3, <1>4 DEF ChainInv, IndexExact
  <1>6. m_blocks[n - 1].out + NTx(m_blocks[n - 1].id) + 1 = m_blocks[n].out
    BY <1>2, <1>4 DEF ChainInv, IndexExact
  <1>7. m_blocks[n].out + NTx(m_blocks[n].id) + 1 = Len(m_outputs)
    BY <1>4 DEF ChainInv, IndexExact
  <1>8. m_blocks[n].out \in Nat /\ NTx(m_blocks[n].id) \in Nat
    BY <1>4, ChainFacts
  <1>9. Len(m_outputs') = m_blocks[n].out
    <2>1. m_blocks'[n - 1] = m_blocks[n - 1]
      BY <1>3, <1>4
    <2> QED
      BY <1>5, <1>6, <2>1
  <1> QED
    BY <1>3, <1>7, <1>8, <1>9

\* The input that check_tx_input accepts leads to an output of the chain.
LEMMA InputLeads ==
    ASSUME ChainInv, OutputsOwned, NEW t \in Txs, NEW r \in Ring[t], check_tx_input(r)
    PROVE  Leads(m_blocks, Len(m_blocks) + 1, r)
  <1> DEFINE n == Len(m_blocks)
             x == r.index + 1
             o == m_outputs[x]
  <1>1. n \in Nat /\ Len(m_outputs) \in Nat /\ r.index \in Nat /\ UnlockWindow \in Nat
    BY TxsAssumption, ParametersAssumption DEF ChainInv, ChainTypes
  <1>2. /\ r.index < Len(m_outputs)
        /\ o.transaction = 0 => n >= o.block + UnlockWindow
        /\ Owner(m_blocks[o.block + 1].id, o.transaction) = r.owner
    BY DEF check_tx_input, is_tx_spendtime_unlocked
  <1>3. x \in 1 .. Len(m_outputs)
    BY <1>1, <1>2
  <1>4. PICK k \in 1 .. n : \E q \in 0 .. NTx(m_blocks[k].id) : x = m_blocks[k].out + q + 1
    BY <1>3, Zenon DEF OutputsOwned
  <1>5. PICK q \in 0 .. NTx(m_blocks[k].id) : x = m_blocks[k].out + q + 1
    BY <1>4
  <1>6. o = [block |-> k - 1, transaction |-> q]
    BY <1>5 DEF ChainInv, IndexExact
  <1>7. m_blocks[k].out \in Nat /\ q \in Nat /\ k \in Nat
    BY <1>1, ChainFacts
  <1>8. o.block = k - 1 /\ o.transaction = q /\ o.block + 1 = k
    BY <1>6, <1>7
  <1>9. r.index = m_blocks[k].out + q
    BY <1>1, <1>5, <1>7, SMTT(30)
  <1>10. Owner(m_blocks[k].id, q) = r.owner /\ (q = 0 => n >= k - 1 + UnlockWindow)
    BY <1>2, <1>8
  <1>11. (n + 1) - 1 = n
    BY <1>1
  <1> HIDE DEF o, x
  <1> QED
    BY <1>5, <1>9, <1>10, <1>11 DEF Leads

\* pushBlock keeps the history.
LEMMA PushHistory ==
    ASSUME ChainInv, History, NEW b \in Blocks, pushBlock(b)
    PROVE  History'
  <1> DEFINE n == Len(m_blocks)
             M == Len(m_outputs)
  <1>1. n \in Nat /\ n > 0 /\ M \in Nat /\ NTx(b) \in Nat
    BY BlockFacts DEF ChainInv, ChainTypes
  <1>2. /\ Len(m_blocks') = n + 1
        /\ \A i \in 1 .. n : m_blocks'[i] = m_blocks[i]
        /\ m_blocks'[n + 1].id = b /\ m_blocks'[n + 1].out = M
        /\ Len(m_outputs') = M + NTx(b) + 1
    BY PushEntry
  <1>3. /\ Prevalidated(b) /\ b \notin Oversize /\ b \notin BadReward
        /\ \A p \in 1 .. NTx(b) : checkTransactionInputs(BlockTxs[b][p])
    BY DEF pushBlock, Valid, AllInputsValid, InputsValid
  <1>4. b # Genesis /\ Parent(b) = m_blocks[n].id /\ Len(Branch[b]) = n + 1
    BY <1>3, PushIsFresh DEF Prevalidated, TailId
  <1>5. \A i \in 1 .. Len(m_blocks') : i \in 1 .. n \/ i = n + 1
    BY <1>1, <1>2
  <1>6. Linked(m_blocks)'
    <2>1. ASSUME NEW i \in 1 .. n
          PROVE  /\ Len(Branch[m_blocks'[i].id]) = i
                 /\ \A j \in 1 .. i : Branch[m_blocks'[i].id][j] = m_blocks'[j].id
      <3>1. \A j \in 1 .. i : j \in 1 .. n
        BY <1>1
      <3> QED
        BY <1>2, <3>1, SMTT(30) DEF History, Linked
    <2>2. /\ Len(Branch[m_blocks'[n + 1].id]) = n + 1
          /\ \A j \in 1 .. n + 1 : Branch[m_blocks'[n + 1].id][j] = m_blocks'[j].id
      <3>1. /\ \A j \in 1 .. (n + 1) - 1 : Branch[b][j] = Branch[m_blocks[n].id][j]
            /\ Branch[b][n + 1] = b
        BY <1>4, ParentBranch
      <3>2. \A j \in 1 .. n : Branch[m_blocks[n].id][j] = m_blocks[j].id
        BY <1>1 DEF History, Linked
      <3>3. \A j \in 1 .. n : Branch[b][j] = m_blocks[j].id
        BY <1>1, <3>1, <3>2
      <3>4. \A j \in 1 .. n + 1 : j \in 1 .. n \/ j = n + 1
        BY <1>1
      <3> QED
        BY <1>2, <1>4, <3>1, <3>3, <3>4, SMTT(30)
    <2> QED
      BY <1>5, <2>1, <2>2 DEF Linked
  <1>7. Accepted(m_blocks)'
    <2>1. ASSUME NEW i \in 2 .. n
          PROVE  /\ m_blocks'[i].id # Genesis /\ Parent(m_blocks'[i].id) = m_blocks'[i - 1].id
                 /\ m_blocks'[i].id \notin Oversize /\ m_blocks'[i].id \notin BadReward
      <3>1. i \in 1 .. n /\ i - 1 \in 1 .. n
        BY <1>1
      <3> QED
        BY <1>2, <3>1, SMTT(30) DEF History, Accepted
    <2>2. n \in 1 .. n /\ (n + 1) - 1 = n
      BY <1>1
    <2>3. /\ m_blocks'[n + 1].id # Genesis /\ Parent(m_blocks'[n + 1].id) = m_blocks'[(n + 1) - 1].id
          /\ m_blocks'[n + 1].id \notin Oversize /\ m_blocks'[n + 1].id \notin BadReward
      BY <1>2, <1>3, <1>4, <2>2
    <2>4. \A i \in 2 .. Len(m_blocks') : i \in 2 .. n \/ i = n + 1
      BY <1>1, <1>2
    <2> QED
      BY <2>1, <2>3, <2>4 DEF Accepted
  <1>8. Resolved(m_blocks)'
    <2>1. ASSUME NEW i \in 2 .. n + 1, NEW r, Leads(m_blocks, i, r)
          PROVE  Leads(m_blocks', i, r)
      <3>1. \A k \in 1 .. i - 1 : m_blocks'[k] = m_blocks[k]
        <4>1. \A k \in 1 .. i - 1 : k \in 1 .. n
          BY <1>1
        <4> QED
          BY <1>2, <4>1, Zenon
      <3> QED
        BY <2>1, <3>1 DEF Leads
    <2>2. ASSUME NEW i \in 2 .. n, NEW p \in 1 .. NTx(m_blocks'[i].id),
                 NEW r \in Ring[BlockTxs[m_blocks'[i].id][p]]
          PROVE  Leads(m_blocks', i, r)
      <3>1. i \in 1 .. n /\ i \in 2 .. n + 1
        BY <1>1
      <3>2. m_blocks'[i] = m_blocks[i]
        BY <1>2, <3>1
      <3>3. Leads(m_blocks, i, r)
        BY <3>2 DEF History, Resolved
      <3> QED
        BY <2>1, <3>1, <3>3
    <2>3. ASSUME NEW p \in 1 .. NTx(b), NEW r \in Ring[BlockTxs[b][p]]
          PROVE  Leads(m_blocks', n + 1, r)
      <3>1. BlockTxs[b][p] \in Txs /\ check_tx_input(r)
        BY <1>3, BlockFacts DEF checkTransactionInputs
      <3>2. Leads(m_blocks, n + 1, r)
        BY <3>1, InputLeads DEF History
      <3>3. n + 1 \in 2 .. n + 1
        BY <1>1
      <3> QED
        BY <2>1, <3>2, <3>3
    <2>4. \A i \in 2 .. Len(m_blocks') : i \in 2 .. n \/ i = n + 1
      BY <1>1, <1>2
    <2>5. \A i \in 2 .. Len(m_blocks') : \A p \in 1 .. NTx(m_blocks'[i].id) :
              \A r \in Ring[BlockTxs[m_blocks'[i].id][p]] : Leads(m_blocks', i, r)
      BY <1>2, <2>2, <2>3, <2>4, Zenon
    <2> QED
      BY <2>5, Zenon DEF Resolved, Leads
  <1>9. OutputsOwned'
    <2>1. SUFFICES ASSUME NEW x \in 1 .. Len(m_outputs')
                   PROVE  \E k \in 1 .. Len(m_blocks') : \E q \in 0 .. NTx(m_blocks'[k].id) :
                              x = m_blocks'[k].out + q + 1
      BY DEF OutputsOwned
    <2>2. CASE x \in 1 .. M
      <3>1. PICK k \in 1 .. n : \E q \in 0 .. NTx(m_blocks[k].id) : x = m_blocks[k].out + q + 1
        BY <2>2 DEF History, OutputsOwned
      <3>2. k \in 1 .. Len(m_blocks') /\ m_blocks'[k] = m_blocks[k]
        BY <1>1, <1>2
      <3> QED
        BY <3>1, <3>2
    <2>3. CASE x \notin 1 .. M
      <3>1. x - M - 1 \in 0 .. NTx(b) /\ x = M + (x - M - 1) + 1 /\ n + 1 \in 1 .. Len(m_blocks')
        BY <1>1, <1>2, <2>3, SMTT(30)
      <3> QED
        BY <1>2, <3>1, Zenon
    <2> QED
      BY <2>2, <2>3
  <1> QED
    BY <1>6, <1>7, <1>8, <1>9 DEF History

\* popBlock keeps the history.
LEMMA PopHistory ==
    ASSUME ChainInv, History, popBlock, Len(m_blocks) > 1
    PROVE  History'
  <1> DEFINE n == Len(m_blocks)
  <1>1. n \in Nat /\ Len(m_outputs) \in Nat
    BY DEF ChainInv, ChainTypes
  <1>2. /\ Len(m_blocks') = n - 1
        /\ \A i \in 1 .. n - 1 : m_blocks'[i] = m_blocks[i]
        /\ Len(m_outputs') = m_blocks[n].out
        /\ Len(m_outputs') <= Len(m_outputs)
    BY PopEntry
  <1>3. ASSUME NEW i \in 1 .. n - 1
        PROVE  i \in 1 .. n /\ \A j \in 1 .. i : m_blocks'[j] = m_blocks[j]
    BY <1>1, <1>2
  <1>4. Linked(m_blocks)'
    <2>1. ASSUME NEW i \in 1 .. n - 1
          PROVE  /\ Len(Branch[m_blocks'[i].id]) = i
                 /\ \A j \in 1 .. i : Branch[m_blocks'[i].id][j] = m_blocks'[j].id
      BY <1>2, <1>3, SMTT(30) DEF History, Linked
    <2> QED
      BY <1>2, <2>1 DEF Linked
  <1>5. Accepted(m_blocks)'
    <2>1. ASSUME NEW i \in 2 .. n - 1
          PROVE  /\ m_blocks'[i].id # Genesis /\ Parent(m_blocks'[i].id) = m_blocks'[i - 1].id
                 /\ m_blocks'[i].id \notin Oversize /\ m_blocks'[i].id \notin BadReward
      <3>1. i \in 2 .. n /\ i \in 1 .. n - 1 /\ i - 1 \in 1 .. n - 1
        BY <1>1
      <3> QED
        BY <1>2, <3>1 DEF History, Accepted
    <2> QED
      BY <1>2, <2>1 DEF Accepted
  <1>6. Resolved(m_blocks)'
    <2>1. ASSUME NEW i \in 2 .. n - 1, NEW p \in 1 .. NTx(m_blocks'[i].id),
                 NEW r \in Ring[BlockTxs[m_blocks'[i].id][p]]
          PROVE  Leads(m_blocks', i, r)
      <3>1. i \in 2 .. n /\ i \in 1 .. n - 1
        BY <1>1
      <3>2. m_blocks'[i] = m_blocks[i] /\ \A k \in 1 .. i - 1 : m_blocks'[k] = m_blocks[k]
        <4>1. \A k \in 1 .. i - 1 : k \in 1 .. n - 1
          BY <1>1
        <4> QED
          BY <1>2, <3>1, <4>1, SMTT(30)
      <3>3. Leads(m_blocks, i, r)
        BY <3>1, <3>2 DEF History, Resolved
      <3> QED
        BY <3>2, <3>3 DEF Leads
    <2> QED
      BY <1>2, <2>1, Zenon DEF Resolved, Leads
  <1>7. OutputsOwned'
    <2>1. SUFFICES ASSUME NEW x \in 1 .. Len(m_outputs')
                   PROVE  \E k \in 1 .. Len(m_blocks') : \E q \in 0 .. NTx(m_blocks'[k].id) :
                              x = m_blocks'[k].out + q + 1
      BY DEF OutputsOwned
    <2>2. m_blocks[n].out \in Nat
      BY <1>1, ChainFacts
    <2>3. x \in 1 .. Len(m_outputs) /\ x <= m_blocks[n].out
      BY <1>1, <1>2, <2>2
    <2>4. PICK k \in 1 .. n : \E q \in 0 .. NTx(m_blocks[k].id) : x = m_blocks[k].out + q + 1
      BY <2>3 DEF History, OutputsOwned
    <2>5. k # n
      BY <2>2, <2>3, <2>4
    <2>6. k \in 1 .. n - 1 /\ k \in 1 .. Len(m_blocks') /\ m_blocks'[k] = m_blocks[k]
      BY <1>1, <1>2, <2>5
    <2> QED
      BY <2>4, <2>6
  <1> QED
    BY <1>4, <1>5, <1>6, <1>7 DEF History

\* The main chain is sound.
LEMMA ChainSound ==
    ASSUME ChainInv, History
    PROVE  Sound(m_blocks)
  <1> DEFINE n == Len(m_blocks)
  <1>1. m_blocks \in Seq(Entry) /\ n \in Nat /\ n > 0
    BY DEF ChainInv, ChainTypes, Entry
  <1>2. Numbered(m_blocks)
    <2>1. ASSUME NEW i \in 1 .. n - 1
          PROVE  m_blocks[i + 1].out = m_blocks[i].out + NTx(m_blocks[i].id) + 1
      <3>1. i \in 1 .. n /\ i # n
        BY <1>1
      <3> QED
        BY <3>1 DEF ChainInv, IndexExact
    <2> QED
      BY <2>1 DEF Numbered
  <1>3. Once(m_blocks)
    <2>1. SUFFICES ASSUME NEW i \in 1 .. n, NEW j \in 1 .. n,
                          NEW p \in 1 .. NTx(m_blocks[i].id), NEW q \in 1 .. NTx(m_blocks[j].id),
                          i # j \/ p # q
                   PROVE  /\ BlockTxs[m_blocks[i].id][p] # BlockTxs[m_blocks[j].id][q]
                          /\ Images[BlockTxs[m_blocks[i].id][p]] \cap Images[BlockTxs[m_blocks[j].id][q]] = {}
      BY Zenon DEF Once
    <2>2. /\ m_blocks[i].id \in Blocks /\ m_blocks[j].id \in Blocks
          /\ p \in 0 .. NTx(m_blocks[i].id) /\ q \in 0 .. NTx(m_blocks[j].id)
      BY ChainFacts
    <2>3. Owner(m_blocks[i].id, p) = BlockTxs[m_blocks[i].id][p] /\ Owner(m_blocks[j].id, q) = BlockTxs[m_blocks[j].id][q]
      BY <2>2, BlockFacts, SMTT(30)
    <2>4. /\ m_transactionMap[BlockTxs[m_blocks[i].id][p]] = [block |-> i - 1, transaction |-> p]
          /\ m_transactionMap[BlockTxs[m_blocks[j].id][q]] = [block |-> j - 1, transaction |-> q]
      BY <2>2, <2>3 DEF ChainInv, IndexExact
    <2>5. [block |-> i - 1, transaction |-> p] # [block |-> j - 1, transaction |-> q]
      BY <1>1, <2>1
    <2>6. Images[BlockTxs[m_blocks[i].id][p]] \cap Images[BlockTxs[m_blocks[j].id][q]] = {}
      BY <2>1, Zenon DEF ChainInv, SpentOnce
    <2>7. BlockTxs[m_blocks[i].id][p] # BlockTxs[m_blocks[j].id][q]
      BY <2>4, <2>5, Zenon
    <2> QED
      BY <2>6, <2>7
  <1>4. Passes(m_blocks)
    BY DEF ChainInv, CheckpointsHold, Passes
  <1> QED
    BY <1>1, <1>2, <1>3, <1>4 DEF Sound, History

(***************************************************************************)
(* Restoring the original chain                                            *)
(***************************************************************************)
\* A block of a sound chain is accepted again on top of the blocks below it, when
\* its transactions are in the pool.
LEMMA AcceptedAgain ==
    ASSUME ChainInv, NEW c, Sound(c), Len(m_blocks) < Len(c),
           \A i \in 1 .. Len(m_blocks) : m_blocks[i] = c[i],
           BlockTxSet(c[Len(m_blocks) + 1].id) \subseteq m_transactions
    PROVE  Valid(c[Len(m_blocks) + 1].id)
  <1> DEFINE n == Len(m_blocks)
             b == c[n + 1].id
  <1>1. /\ n \in Nat /\ n > 0 /\ Len(m_outputs) \in Nat
        /\ c \in Seq(Entry) /\ Len(c) \in Nat
    BY DEF ChainInv, ChainTypes, Sound
  <1>2. n + 1 \in 1 .. Len(c) /\ n + 1 \in 2 .. Len(c) /\ n \in 1 .. n /\ (n + 1) - 1 = n
    BY <1>1
  <1>3. b \in Blocks /\ NTx(b) \in Nat
    <2>1. c[n + 1] \in Entry
      BY <1>1, <1>2, ItemOf
    <2> QED
      BY <2>1, BlockFacts DEF Entry
  <1>4. \A i \in 1 .. n : i \in 1 .. Len(c)
    BY <1>1
  <1> HIDE DEF b
  <1>5. Prevalidated(b)
    <2>1. b # Genesis /\ Parent(b) = TailId
      BY <1>2 DEF b, Sound, Accepted, TailId
    <2>2. loadTransactions(b)
      <3>1. \A i \in 1 .. NTx(b) : BlockTxs[b][i] \in m_transactions
        BY DEF b, BlockTxSet
      <3>2. ASSUME NEW i \in 1 .. NTx(b), NEW k \in 1 .. i - 1
            PROVE  BlockTxs[b][k] # BlockTxs[b][i]
        <4>1. k \in 1 .. NTx(b) /\ k # i
          BY <1>3
        <4> QED
          BY <1>2, <4>1 DEF b, Sound, Once
      <3> QED
        BY <3>1, <3>2 DEF loadTransactions
    <2>3. check_block(n, b)
      BY <1>2 DEF b, Sound, Passes, check_block
    <2> QED
      BY <2>1, <2>2, <2>3 DEF Prevalidated
  <1>6. ASSUME NEW p \in 1 .. NTx(b) PROVE InputsValid(b, p)
    <2>1. BlockTxs[b][p] \in Txs /\ Images[BlockTxs[b][p]] \subseteq KeyImages
      BY <1>3, BlockFacts
    <2>2. Images[BlockTxs[b][p]] \cap spentKeyImages = {}
      <3>1. SUFFICES ASSUME NEW k \in KeyImages, k \in Images[BlockTxs[b][p]], k \in spentKeyImages
                     PROVE  FALSE
        BY <2>1
      <3>2. PICK i \in 1 .. n : \E q \in 1 .. NTx(m_blocks[i].id) : k \in Images[BlockTxs[m_blocks[i].id][q]]
        BY <3>1, Zenon DEF ChainInv, IndexExact
      <3>3. i \in 1 .. Len(c) /\ i # n + 1 /\ m_blocks[i] = c[i]
        BY <1>1, <1>4
      <3>4. PICK q \in 1 .. NTx(c[i].id) : k \in Images[BlockTxs[c[i].id][q]]
        BY <3>2, <3>3
      <3>5. Images[BlockTxs[c[i].id][q]] \cap Images[BlockTxs[b][p]] = {}
        BY <1>2, <3>3 DEF b, Sound, Once
      <3> QED
        BY <3>1, <3>4, <3>5
    <2>3. ASSUME NEW r \in Ring[BlockTxs[b][p]] PROVE check_tx_input(r)
      <3>1. Leads(c, n + 1, r)
        BY <1>2 DEF b, Sound, Resolved
      <3>2. PICK k \in 1 .. n : \E q \in 0 .. NTx(c[k].id) :
                /\ r.index = c[k].out + q
                /\ Owner(c[k].id, q) = r.owner
                /\ q = 0 => n >= k - 1 + UnlockWindow
        BY <1>2, <3>1 DEF Leads
      <3>3. c[k] = m_blocks[k]
        OBVIOUS
      <3>4. PICK q \in 0 .. NTx(m_blocks[k].id) :
                /\ r.index = m_blocks[k].out + q
                /\ Owner(m_blocks[k].id, q) = r.owner
                /\ q = 0 => n >= k - 1 + UnlockWindow
        BY <3>2, <3>3
      <3>5. /\ m_blocks[k].out + q + 1 \in DOMAIN m_outputs
            /\ m_outputs[m_blocks[k].out + q + 1] = [block |-> k - 1, transaction |-> q]
        BY DEF ChainInv, IndexExact
      <3>6. m_blocks[k].out \in Nat /\ q \in Nat /\ k \in Nat /\ r.index + 1 = m_blocks[k].out + q + 1
        BY <1>1, <3>4, ChainFacts
      <3>7. DOMAIN m_outputs = 1 .. Len(m_outputs)
        BY DEF ChainInv, ChainTypes
      <3>8. r.index < Len(m_outputs)
        BY <1>1, <3>4, <3>5, <3>6, <3>7, SMTT(30)
      <3>9. m_outputs[r.index + 1].block = k - 1 /\ m_outputs[r.index + 1].transaction = q /\ (k - 1) + 1 = k
        BY <3>5, <3>6
      <3>10. is_tx_spendtime_unlocked(m_outputs[r.index + 1])
        BY <3>4, <3>9 DEF is_tx_spendtime_unlocked
      <3> QED
        BY <3>4, <3>8, <3>9, <3>10 DEF check_tx_input
    <2>4. ASSUME NEW j \in 1 .. p - 1
          PROVE  Images[BlockTxs[b][j]] \cap Images[BlockTxs[b][p]] = {}
      <3>1. j \in 1 .. NTx(b) /\ j # p
        BY <1>3
      <3> QED
        BY <1>2, <3>1 DEF b, Sound, Once
    <2> QED
      BY <2>2, <2>3, <2>4 DEF InputsValid, checkTransactionInputs
  <1>7. b \notin Oversize /\ b \notin BadReward
    BY <1>2 DEF b, Sound, Accepted
  <1> QED
    BY <1>5, <1>6, <1>7 DEF Valid, AllInputsValid, b

(***************************************************************************)
(* The alternative chains                                                  *)
(***************************************************************************)
\* The types of the switch's state.
LEMMA SwitchFacts ==
    ASSUME ChainInv, SwitchInv, phase # "idle"
    PROVE  /\ Len(m_blocks) \in Nat /\ Len(m_blocks) > 0
           /\ alt_chain \in Seq(Blocks) /\ Len(alt_chain) \in Nat /\ Len(alt_chain) > 0
           /\ disconnected_chain \in Seq(Blocks) /\ Len(disconnected_chain) \in Nat
           /\ split_height \in Nat /\ split_height > 0 /\ split_height <= Len(m_blocks)
  <1>1. /\ Len(m_blocks) \in Nat /\ Len(m_blocks) > 0
        /\ alt_chain \in Seq(Blocks) /\ Len(alt_chain) \in Nat /\ Len(alt_chain) > 0
        /\ disconnected_chain \in Seq(Blocks) /\ Len(disconnected_chain) \in Nat
    BY DEF ChainInv, ChainTypes, SwitchInv
  <1>2. alt_chain[1] \in Blocks
    BY <1>1, ItemOf
  <1>3. split_height \in Nat /\ split_height > 0
    BY <1>2, BlockFacts DEF split_height, Height, SwitchInv
  <1>4. split_height <= Len(m_blocks)
    BY <1>1, <1>3 DEF SwitchInv
  <1> QED
    BY <1>1, <1>3, <1>4

\* Only blocks a switch has connected so far are both in m_blocks and alternatives,
\* and those it has disconnected are none; each of these is at its height.
AlternativesInv ==
    /\ \A i \in 1 .. Len(m_blocks) :
           m_blocks[i].id \in m_alternative_chains => phase \in {"connect", "undo"} /\ i > split_height
    /\ phase = "connect" =>
           \A i \in split_height + 1 .. Len(m_blocks) : m_blocks[i].id = alt_chain[i - split_height]
    /\ phase # "idle" =>
           \A i \in 1 .. Len(disconnected_chain) : disconnected_chain[i] \notin m_alternative_chains
    /\ phase = "disconnect" =>
           \A i \in 1 .. Len(disconnected_chain) : Len(Branch[disconnected_chain[i]]) = Len(m_blocks) + i
    /\ phase \in {"connect", "undo", "restore"} =>
           \A i \in 1 .. Len(disconnected_chain) : Len(Branch[disconnected_chain[i]]) = split_height + i

\* Every step keeps it; one case per action.
LEMMA NextAlternatives ==
    ASSUME ChainInv, SwitchInv, AlternativesInv, [Next]_vars
    PROVE  AlternativesInv'
  <1> DEFINE n == Len(m_blocks)
             d == disconnected_chain
             alts == m_alternative_chains
  <1>1. n \in Nat /\ n > 0
    BY DEF ChainInv, ChainTypes
  <1>2. phase \in {"idle", "disconnect", "connect", "undo", "restore"}
    BY DEF SwitchInv
  <1>3. ASSUME UNCHANGED <<m_blocks, m_alternative_chains, phase, alt_chain, disconnected_chain>>
        PROVE  AlternativesInv'
    BY <1>3 DEF AlternativesInv, split_height
  <1>4. ASSUME NEW b \in Blocks, ExtendMain(b) PROVE AlternativesInv'
    <2>1. phase = "idle" /\ phase' = "idle" /\ b \notin alts /\ alts' = alts /\ pushBlock(b)
      BY <1>4 DEF ExtendMain, haveBlock
    <2>2. Len(m_blocks') = n + 1 /\ m_blocks'[n + 1].id = b /\ \A i \in 1 .. n : m_blocks'[i] = m_blocks[i]
      BY <2>1, PushEntry
    <2>3. \A i \in 1 .. n + 1 : i \in 1 .. n \/ i = n + 1
      BY <1>1
    <2> QED
      BY <2>1, <2>2, <2>3 DEF AlternativesInv
  <1>5. ASSUME NEW b \in Blocks, NEW s \in 1 .. Len(Branch[b]), handle_alternative_block(b, s)
        PROVE  phase = "idle" /\ m_blocks' = m_blocks /\ \A i \in 1 .. n : m_blocks[i].id \notin alts'
    BY <1>5 DEF handle_alternative_block, haveBlock, AlternativesInv
  <1>6. ASSUME NEW b \in Blocks, NEW s \in 1 .. Len(Branch[b]), AddAlternative(b, s) \/ RefuseSwitch(b, s)
        PROVE  AlternativesInv'
    <2>1. handle_alternative_block(b, s) /\ UNCHANGED <<phase, alt_chain, disconnected_chain>>
      BY <1>6 DEF AddAlternative, RefuseSwitch, switch
    <2> QED
      BY <1>5, <2>1 DEF AlternativesInv
  <1>7. ASSUME NEW b \in Blocks, NEW s \in 1 .. Len(Branch[b]), BeginSwitch(b, s) PROVE AlternativesInv'
    <2>1. handle_alternative_block(b, s) /\ phase' = "disconnect" /\ disconnected_chain' = <<>>
      BY <1>7 DEF BeginSwitch
    <2>2. \A i \in 1 .. Len(disconnected_chain') : FALSE
      BY <2>1
    <2> QED
      BY <1>5, <2>1, <2>2 DEF AlternativesInv
  <1>8. ASSUME Disconnect PROVE AlternativesInv'
    <2>1. phase = "disconnect" /\ popBlock /\ UNCHANGED <<m_alternative_chains, alt_chain, split_height>>
      BY <1>8 DEF Disconnect, split_height
    <2>2. split_height \in Nat /\ split_height > 0 /\ split_height < n /\ d \in Seq(Blocks) /\ Len(d) \in Nat
      BY <2>1, SwitchFacts DEF SwitchInv
    <2>3. Len(m_blocks') = n - 1 /\ \A i \in 1 .. n - 1 : m_blocks'[i] = m_blocks[i]
      BY <1>1, <2>1, <2>2, PopEntry
    <2>4. TailId \in Blocks /\ TailId \notin alts /\ Len(Branch[TailId]) = n
      <3>1. n \in 1 .. n
        BY <1>1
      <3>2. m_blocks[n].id \notin alts
        BY <2>1, <3>1 DEF AlternativesInv
      <3> QED
        BY <3>1, <3>2, ChainFacts DEF TailId, ChainInv, AtHeight
    <2>5. /\ Len(d') = Len(d) + 1
          /\ \A i \in 1 .. Len(d) + 1 : d'[i] = IF i <= 1 THEN TailId ELSE d[i - 1]
      <3>1. d' = <<TailId>> \o d /\ <<TailId>> \in Seq(Blocks) /\ Len(<<TailId>>) = 1 /\ <<TailId>>[1] = TailId
        BY <1>8, <2>4 DEF Disconnect
      <3>2. /\ Len(d') = 1 + Len(d)
            /\ \A i \in 1 .. 1 + Len(d) : d'[i] = IF i <= 1 THEN <<TailId>>[i] ELSE d[i - 1]
        BY <2>2, <3>1, Joined
      <3> QED
        BY <2>2, <3>1, <3>2
    <2>6. ASSUME NEW i \in 1 .. Len(d')
          PROVE  d'[i] \notin alts /\ Len(Branch[d'[i]]) = (n - 1) + i
      <3>1. CASE i = 1
        <4>1. d'[i] = TailId /\ (n - 1) + i = n
          BY <1>1, <2>2, <2>5, <3>1
        <4> QED
          BY <2>4, <4>1
      <3>2. CASE i # 1
        <4>1. i - 1 \in 1 .. Len(d) /\ n + (i - 1) = (n - 1) + i /\ ~(i <= 1) /\ i \in 1 .. Len(d) + 1
          BY <1>1, <2>2, <2>5, <3>2
        <4>2. d'[i] = d[i - 1]
          BY <2>5, <4>1
        <4>3. d[i - 1] \notin alts /\ Len(Branch[d[i - 1]]) = n + (i - 1)
          BY <2>1, <4>1, Zenon DEF AlternativesInv
        <4> QED
          BY <4>1, <4>2, <4>3
      <3> QED
        BY <3>1, <3>2
    <2>7. \A i \in 1 .. n - 1 : m_blocks'[i].id \notin alts
      <3>1. \A i \in 1 .. n - 1 : i \in 1 .. n
        BY <1>1
      <3> QED
        BY <2>1, <2>3, <3>1 DEF AlternativesInv
    <2>8. CASE n - 1 = split_height
      <3>1. phase' = "connect" /\ \A i \in split_height + 1 .. n - 1 : FALSE
        BY <1>8, <2>2, <2>8 DEF Disconnect
      <3> QED
        BY <2>1, <2>3, <2>6, <2>7, <2>8, <3>1, Zenon DEF AlternativesInv
    <2>9. CASE n - 1 # split_height
      <3>1. phase' = "disconnect"
        BY <1>8, <2>9 DEF Disconnect
      <3> QED
        BY <2>1, <2>3, <2>6, <2>7, <3>1 DEF AlternativesInv
    <2> QED
      BY <2>8, <2>9
  <1>9. ASSUME Connect PROVE AlternativesInv'
    <2>1. /\ phase = "connect" /\ n < split_height + Len(alt_chain) /\ pushBlock(ToConnect)
          /\ UNCHANGED <<m_alternative_chains, phase, alt_chain, disconnected_chain, split_height>>
      BY <1>9 DEF Connect, Connecting, switch, split_height
    <2>2. split_height \in Nat /\ split_height <= n /\ alt_chain \in Seq(Blocks) /\ Len(alt_chain) \in Nat
      BY <2>1, SwitchFacts
    <2>3. n - split_height + 1 \in 1 .. Len(alt_chain) /\ (n + 1) - split_height = n - split_height + 1
      BY <1>1, <2>1, <2>2
    <2>4. ToConnect \in Blocks
      BY <2>2, <2>3, ItemOf DEF ToConnect
    <2>5. /\ Len(m_blocks') = n + 1 /\ m_blocks'[n + 1].id = ToConnect
          /\ \A i \in 1 .. n : m_blocks'[i] = m_blocks[i]
      BY <2>1, <2>4, PushEntry
    <2>6. ASSUME NEW i \in 1 .. n + 1
          PROVE  /\ m_blocks'[i].id \in alts => i > split_height
                 /\ i > split_height => m_blocks'[i].id = alt_chain[i - split_height]
      <3>1. CASE i = n + 1
        BY <1>1, <2>2, <2>3, <2>5, <3>1 DEF ToConnect
      <3>2. CASE i # n + 1
        <4>1. i \in 1 .. n /\ (i > split_height => i \in split_height + 1 .. n)
          BY <1>1, <2>2, <3>2
        <4> QED
          BY <2>1, <2>5, <4>1 DEF AlternativesInv
      <3> QED
        BY <3>1, <3>2
    <2>7. \A i \in split_height + 1 .. n + 1 : i \in 1 .. n + 1 /\ i > split_height
      BY <1>1, <2>2
    <2> QED
      BY <2>1, <2>5, <2>6, <2>7 DEF AlternativesInv
  <1>10. ASSUME ConnectFails PROVE AlternativesInv'
    <2>1. /\ phase = "connect" /\ m_blocks' = m_blocks /\ alts' \subseteq alts
          /\ UNCHANGED <<disconnected_chain, split_height>>
          /\ phase' = IF n = split_height THEN "restore" ELSE "undo"
      BY <1>10 DEF ConnectFails, Connecting, pushBlockFails, switch, split_height
    <2>2. \A i \in 1 .. n : ~(n = split_height /\ i > split_height)
      BY <1>1
    <2> QED
      BY <2>1, <2>2 DEF AlternativesInv
  <1>11. ASSUME Undo PROVE AlternativesInv'
    <2>1. /\ phase = "undo" /\ popBlock
          /\ UNCHANGED <<m_alternative_chains, disconnected_chain, split_height>>
          /\ phase' = IF n - 1 = split_height THEN "restore" ELSE "undo"
      BY <1>11 DEF Undo, switch, split_height
    <2>2. split_height \in Nat /\ split_height > 0 /\ split_height < n
      BY <2>1, SwitchFacts DEF SwitchInv
    <2>3. Len(m_blocks') = n - 1 /\ \A i \in 1 .. n - 1 : m_blocks'[i] = m_blocks[i]
      BY <1>1, <2>1, <2>2, PopEntry
    <2>4. \A i \in 1 .. n - 1 : i \in 1 .. n /\ ~(n - 1 = split_height /\ i > split_height)
      BY <1>1
    <2> QED
      BY <2>1, <2>3, <2>4 DEF AlternativesInv
  <1>12. ASSUME Restore PROVE AlternativesInv'
    <2>1. phase = "restore" /\ pushBlock(ToRestore) /\ alts' = alts
      BY <1>12 DEF Restore
    <2>2. /\ split_height \in Nat /\ split_height <= n /\ d \in Seq(Blocks) /\ Len(d) \in Nat
          /\ n < split_height + Len(d)
      BY <2>1, SwitchFacts DEF SwitchInv
    <2>3. n - split_height + 1 \in 1 .. Len(d)
      BY <1>1, <2>2
    <2>4. ToRestore \in Blocks /\ ToRestore \notin alts
      BY <2>1, <2>2, <2>3, ItemOf DEF ToRestore, AlternativesInv
    <2>5. /\ Len(m_blocks') = n + 1 /\ m_blocks'[n + 1].id = ToRestore
          /\ \A i \in 1 .. n : m_blocks'[i] = m_blocks[i]
      BY <2>1, <2>4, PushEntry
    <2>6. \A i \in 1 .. n + 1 : i \in 1 .. n \/ i = n + 1
      BY <1>1
    <2>7. \A i \in 1 .. Len(m_blocks') : m_blocks'[i].id \notin alts'
      BY <2>1, <2>4, <2>5, <2>6 DEF AlternativesInv
    <2>8. phase' = "idle" \/ (phase' = "restore" /\ UNCHANGED <<disconnected_chain, split_height>>)
      <3>1. CASE n + 1 = split_height + Len(d)
        <4>1. Return
          BY <1>12, <3>1 DEF Restore
        <4> QED
          BY <4>1 DEF Return
      <3>2. CASE n + 1 # split_height + Len(d)
        BY <1>12, <2>1, <3>2 DEF Restore, switch, split_height
      <3> QED
        BY <3>1, <3>2
    <2> QED
      BY <2>1, <2>7, <2>8 DEF AlternativesInv
  <1>13. ASSUME RestoreFails PROVE AlternativesInv'
    <2>1. phase = "restore" /\ phase' = "idle" /\ alts' = alts /\ m_blocks' = m_blocks
      BY <1>13 DEF RestoreFails, pushBlockFails, Return
    <2> QED
      BY <2>1 DEF AlternativesInv
  <1>14. ASSUME FinishSwitch PROVE AlternativesInv'
    <2>1. /\ phase = "connect" /\ phase' = "idle" /\ m_blocks' = m_blocks
          /\ n = split_height + Len(alt_chain)
          /\ alts' \subseteq (alts \cup Readded) \ {alt_chain[j] : j \in 1 .. Len(alt_chain)}
      BY <1>14 DEF FinishSwitch, Return
    <2>2. split_height \in Nat /\ Len(alt_chain) \in Nat /\ Len(d) \in Nat
      BY <2>1, SwitchFacts
    <2>3. ASSUME NEW i \in 1 .. n PROVE m_blocks[i].id \notin alts'
      <3>1. CASE i > split_height
        <4>1. i \in split_height + 1 .. n /\ i - split_height \in 1 .. Len(alt_chain)
          BY <1>1, <2>1, <2>2, <3>1
        <4>2. m_blocks[i].id = alt_chain[i - split_height]
          BY <2>1, <4>1 DEF AlternativesInv
        <4> QED
          BY <2>1, <4>1, <4>2
      <3>2. CASE ~(i > split_height)
        <4>1. m_blocks[i].id \notin alts
          BY <3>2 DEF AlternativesInv
        <4>2. \A j \in 1 .. Len(d) : Len(Branch[d[j]]) = split_height + j
          BY <2>1 DEF AlternativesInv
        <4>3. Len(Branch[m_blocks[i].id]) = i
          BY DEF ChainInv, AtHeight
        <4>4. \A j \in 1 .. Len(d) : split_height + j # i
          BY <1>1, <2>2, <3>2
        <4>5. \A j \in 1 .. Len(d) : d[j] # m_blocks[i].id
          BY <4>2, <4>3, <4>4
        <4>6. m_blocks[i].id \notin Readded
          BY <4>5 DEF Readded
        <4> QED
          BY <2>1, <4>1, <4>6
      <3> QED
        BY <3>1, <3>2
    <2> QED
      BY <2>1, <2>3 DEF AlternativesInv
  <1>15. ASSUME NEW b \in Blocks, RejectMain(b) PROVE AlternativesInv'
    <2>1. UNCHANGED <<m_blocks, m_alternative_chains, phase, alt_chain, disconnected_chain>>
      BY <1>15 DEF RejectMain, pushBlockFails, switch
    <2> QED
      BY <1>3, <2>1
  <1>16. ASSUME UNCHANGED vars PROVE AlternativesInv'
    <2>1. UNCHANGED <<m_blocks, m_alternative_chains, phase, alt_chain, disconnected_chain>>
      BY <1>16 DEF vars, switch
    <2> QED
      BY <1>3, <2>1
  <1>17. ASSUME NEW b \in Blocks, AlreadyExists(b) PROVE AlternativesInv'
    BY <1>16, <1>17 DEF AlreadyExists
  <1>18. ASSUME NEW t \in Txs, NEW kept \in BOOLEAN, add_new_tx(t, kept) PROVE AlternativesInv'
    <2>1. UNCHANGED <<m_blocks, m_alternative_chains, phase, alt_chain, disconnected_chain>>
      BY <1>18 DEF add_new_tx, switch
    <2> QED
      BY <1>3, <2>1
  <1>19. ASSUME NEW t \in Txs, removeExpiredTransaction(t) PROVE AlternativesInv'
    <2>1. UNCHANGED <<m_blocks, m_alternative_chains, phase, alt_chain, disconnected_chain>>
      BY <1>19 DEF removeExpiredTransaction, switch
    <2> QED
      BY <1>3, <2>1
  <1> QED
    BY <1>4, <1>6, <1>7, <1>8, <1>9, <1>10, <1>11, <1>12, <1>13, <1>14, <1>15, <1>16, <1>17, <1>18, <1>19
    DEF Next, SwitchStep

\* Whatever switches succeed, fail or cannot be undone, no block of the main chain is
\* kept as an alternative when addNewBlock returns.
THEOREM AlternativesApart == Spec => []AlternativesOutsideChain
  <1>1. Init => AlternativesInv
    BY DEF Init, AlternativesInv
  <1>2. ChainInv /\ SwitchInv /\ AlternativesInv /\ [Next]_vars => AlternativesInv'
    BY NextAlternatives
  <1>3. AlternativesInv => AlternativesOutsideChain
    BY DEF AlternativesInv, AlternativesOutsideChain
  <1> QED
    BY <1>1, <1>2, <1>3, Invariance, PTL DEF Spec
-----------------------------------------------------------------------------

(***************************************************************************)
(* What a switch remembers of the chain it began with                      *)
(***************************************************************************)
Target == alt_chain[Len(alt_chain)]

\* The conditions on which the switch was begun.
Justified(old) ==
    /\ Target \in Blocks
    /\ \A i \in 1 .. Len(old) : old[i].id # Target
    /\ \/ CumulativeDifficulty[old[Len(old)].id] < CumulativeDifficulty[Target]
       \/ Height(Target) \in DOMAIN Points
    /\ \A i \in 1 .. Len(old) : \A t \in BlockTxSet(old[i].id) :
           \E j \in 1 .. Len(Branch[Target]) : t \in BlockTxSet(Branch[Target][j])

\* The blocks still in place and those disconnected make up the old chain.
Recalled(old) ==
    /\ phase = "disconnect" =>
           /\ Len(old) = Len(m_blocks) + Len(disconnected_chain)
           /\ \A i \in 1 .. Len(m_blocks) : m_blocks[i] = old[i]
           /\ \A i \in 1 .. Len(disconnected_chain) : disconnected_chain[i] = old[Len(m_blocks) + i].id
    /\ phase \in {"connect", "undo", "restore"} =>
           /\ Len(old) = split_height + Len(disconnected_chain)
           /\ \A i \in 1 .. split_height : m_blocks[i] = old[i]
           /\ \A i \in 1 .. Len(disconnected_chain) : disconnected_chain[i] = old[split_height + i].id
    /\ phase = "connect" =>
           \A i \in split_height + 1 .. Len(m_blocks) : m_blocks[i].id = alt_chain[i - split_height]
    /\ phase = "restore" => \A i \in 1 .. Len(m_blocks) : m_blocks[i] = old[i]

\* The transactions of the old chain above the split are in the pool or in the
\* blocks above the split.
AtHand(old) ==
    \A i \in split_height + 1 .. Len(old) : \A t \in BlockTxSet(old[i].id) :
        \/ t \in m_transactions
        \/ \E k \in split_height + 1 .. Len(m_blocks) : t \in BlockTxSet(m_blocks[k].id)

Remembered(old) == Sound(old) /\ Justified(old) /\ Recalled(old) /\ AtHand(old)

\* pushBlock moves transactions from the pool into a block above the split ...
LEMMA PushAtHand ==
    ASSUME ChainInv, SwitchInv, phase # "idle", NEW old, AtHand(old), NEW b \in Blocks, pushBlock(b),
           split_height' = split_height
    PROVE  AtHand(old)'
  <1> DEFINE n == Len(m_blocks)
  <1>1. n \in Nat /\ split_height \in Nat /\ split_height <= n
    BY SwitchFacts
  <1>2. /\ Len(m_blocks') = n + 1 /\ m_blocks'[n + 1].id = b
        /\ \A i \in 1 .. n : m_blocks'[i] = m_blocks[i]
    BY PushEntry
  <1>3. m_transactions' = m_transactions \ BlockTxSet(b)
    BY DEF pushBlock
  <1>4. SUFFICES ASSUME NEW i \in split_height + 1 .. Len(old), NEW t \in BlockTxSet(old[i].id)
                 PROVE  \/ t \in m_transactions'
                        \/ \E k \in split_height + 1 .. Len(m_blocks') : t \in BlockTxSet(m_blocks'[k].id)
    BY DEF AtHand, BlockTxSet, NTx
  <1>5. CASE t \in m_transactions
    <2>1. n + 1 \in split_height + 1 .. Len(m_blocks')
      BY <1>1, <1>2
    <2> QED
      BY <1>2, <1>3, <1>5, <2>1
  <1>6. ASSUME NEW k \in split_height + 1 .. n, t \in BlockTxSet(m_blocks[k].id)
        PROVE  \E l \in split_height + 1 .. Len(m_blocks') : t \in BlockTxSet(m_blocks'[l].id)
    <2>1. k \in split_height + 1 .. Len(m_blocks') /\ k \in 1 .. n
      BY <1>1, <1>2
    <2> QED
      BY <1>2, <1>6, <2>1
  <1> QED
    BY <1>5, <1>6 DEF AtHand

\* ... and popBlock moves them back.
LEMMA PopAtHand ==
    ASSUME ChainInv, SwitchInv, phase # "idle", NEW old, AtHand(old), popBlock, Len(m_blocks) > 1,
           split_height' = split_height
    PROVE  AtHand(old)'
  <1> DEFINE n == Len(m_blocks)
  <1>1. n \in Nat /\ split_height \in Nat
    BY SwitchFacts
  <1>2. /\ Len(m_blocks') = n - 1
        /\ \A i \in 1 .. n - 1 : m_blocks'[i] = m_blocks[i]
    BY PopEntry
  <1>3. m_transactions' = m_transactions \cup BlockTxSet(m_blocks[n].id)
    BY DEF popBlock, TailId
  <1>4. SUFFICES ASSUME NEW i \in split_height + 1 .. Len(old), NEW t \in BlockTxSet(old[i].id)
                 PROVE  \/ t \in m_transactions'
                        \/ \E k \in split_height + 1 .. Len(m_blocks') : t \in BlockTxSet(m_blocks'[k].id)
    BY DEF AtHand, BlockTxSet, NTx
  <1>5. CASE t \in m_transactions
    BY <1>3, <1>5
  <1>6. ASSUME NEW k \in split_height + 1 .. n, t \in BlockTxSet(m_blocks[k].id)
        PROVE  \/ t \in m_transactions'
               \/ \E l \in split_height + 1 .. Len(m_blocks') : t \in BlockTxSet(m_blocks'[l].id)
    <2>1. CASE k = n
      BY <1>3, <1>6, <2>1
    <2>2. CASE k # n
      <3>1. k \in split_height + 1 .. Len(m_blocks') /\ k \in 1 .. n - 1
        BY <1>1, <1>2, <2>2
      <3> QED
        BY <1>2, <1>6, <3>1
    <2> QED
      BY <2>1, <2>2
  <1> QED
    BY <1>5, <1>6 DEF AtHand

\* While blocks are disconnected the old chain is remembered.
LEMMA DisconnectRemembers ==
    ASSUME ChainInv, SwitchInv, NEW old, Remembered(old), Disconnect
    PROVE  Remembered(old)'
  <1> DEFINE n == Len(m_blocks)
             d == disconnected_chain
  <1>1. phase = "disconnect" /\ popBlock /\ alt_chain' = alt_chain /\ split_height' = split_height
    BY DEF Disconnect, split_height
  <1>2. /\ n \in Nat /\ split_height \in Nat /\ split_height > 0
        /\ d \in Seq(Blocks) /\ Len(d) \in Nat
    BY <1>1, SwitchFacts
  <1>3. split_height < n /\ n > 1
    BY <1>1, <1>2 DEF SwitchInv
  <1>4. Len(m_blocks') = n - 1 /\ \A i \in 1 .. n - 1 : m_blocks'[i] = m_blocks[i]
    BY <1>1, <1>3, PopEntry
  <1>5. AtHand(old)'
    BY <1>1, <1>3, PopAtHand DEF Remembered
  <1>6. Justified(old)'
    BY <1>1 DEF Remembered, Justified, Target
  <1>7. /\ Len(old) = n + Len(d)
        /\ \A i \in 1 .. n : m_blocks[i] = old[i]
        /\ \A i \in 1 .. Len(d) : d[i] = old[n + i].id
    BY <1>1 DEF Remembered, Recalled
  <1>8. TailId = old[n].id /\ TailId \in Blocks
    BY <1>2, <1>3, <1>7, ChainFacts DEF TailId
  <1>9. /\ Len(d') = Len(d) + 1 /\ d' \in Seq(Blocks)
        /\ \A i \in 1 .. Len(d) + 1 : d'[i] = IF i = 1 THEN TailId ELSE d[i - 1]
    <2>1. d' = <<TailId>> \o d /\ <<TailId>> \in Seq(Blocks) /\ Len(<<TailId>>) = 1 /\ <<TailId>>[1] = TailId
      BY <1>8 DEF Disconnect
    <2>2. /\ d' \in Seq(Blocks) /\ Len(d') = 1 + Len(d)
          /\ \A i \in 1 .. 1 + Len(d) : d'[i] = IF i <= 1 THEN <<TailId>>[i] ELSE d[i - 1]
      BY <1>2, <2>1, Joined
    <2> QED
      BY <1>2, <2>1, <2>2
  <1>10. \A i \in 1 .. Len(d') : d'[i] = old[(n - 1) + i].id
    <2>1. TAKE i \in 1 .. Len(d')
    <2>2. CASE i = 1
      BY <1>2, <1>3, <1>8, <1>9, <2>2
    <2>3. CASE i # 1
      <3>1. i - 1 \in 1 .. Len(d) /\ n + (i - 1) = (n - 1) + i
        BY <1>2, <1>9, <2>3
      <3> QED
        BY <1>7, <1>9, <2>3, <3>1, SMTT(30)
    <2> QED
      BY <2>2, <2>3
  <1>11. Len(old) = (n - 1) + Len(d') /\ \A i \in 1 .. n - 1 : m_blocks'[i] = old[i]
    BY <1>2, <1>3, <1>4, <1>7, <1>9
  <1>12. CASE n - 1 = split_height
    <2>1. phase' = "connect"
      BY <1>12 DEF Disconnect
    <2>2. \A i \in split_height + 1 .. n - 1 : FALSE
      BY <1>2, <1>12
    <2>3. Recalled(old)'
      BY <1>1, <1>4, <1>10, <1>11, <1>12, <2>1, <2>2 DEF Recalled
    <2> QED
      BY <1>5, <1>6, <2>3 DEF Remembered
  <1>13. CASE n - 1 # split_height
    <2>1. phase' = "disconnect"
      BY <1>13 DEF Disconnect
    <2>2. Recalled(old)'
      BY <1>1, <1>4, <1>10, <1>11, <2>1 DEF Recalled
    <2> QED
      BY <1>5, <1>6, <2>2 DEF Remembered
  <1> QED
    BY <1>12, <1>13

\* While blocks are connected it is remembered ...
LEMMA ConnectRemembers ==
    ASSUME ChainInv, SwitchInv, NEW old, Remembered(old), Connect
    PROVE  Remembered(old)'
  <1> DEFINE n == Len(m_blocks)
  <1>1. /\ phase = "connect" /\ phase' = "connect" /\ pushBlock(ToConnect) /\ n < split_height + Len(alt_chain)
        /\ UNCHANGED <<alt_chain, disconnected_chain, split_height>>
    BY DEF Connect, Connecting, switch, split_height
  <1>2. /\ n \in Nat /\ split_height \in Nat /\ split_height <= n
        /\ alt_chain \in Seq(Blocks) /\ Len(alt_chain) \in Nat
    BY <1>1, SwitchFacts
  <1>3. n - split_height + 1 \in 1 .. Len(alt_chain)
    BY <1>1, <1>2
  <1>4. ToConnect \in Blocks
    BY <1>2, <1>3, ItemOf DEF ToConnect
  <1>5. /\ Len(m_blocks') = n + 1 /\ m_blocks'[n + 1].id = ToConnect
        /\ \A i \in 1 .. n : m_blocks'[i] = m_blocks[i]
    BY <1>1, <1>4, PushEntry
  <1>6. AtHand(old)'
    BY <1>1, <1>4, PushAtHand DEF Remembered
  <1>7. Justified(old)'
    BY <1>1 DEF Remembered, Justified, Target
  <1>8. \A i \in split_height + 1 .. n + 1 : m_blocks'[i].id = alt_chain[i - split_height]
    <2>1. TAKE i \in split_height + 1 .. n + 1
    <2>2. CASE i = n + 1
      <3>1. (n + 1) - split_height = n - split_height + 1
        BY <1>2
      <3> QED
        BY <1>5, <2>2, <3>1 DEF ToConnect
    <2>3. CASE i # n + 1
      <3>1. i \in split_height + 1 .. n /\ i \in 1 .. n
        BY <1>2, <2>3
      <3> QED
        BY <1>1, <1>5, <3>1 DEF Remembered, Recalled
    <2> QED
      BY <2>2, <2>3
  <1>9. \A i \in 1 .. split_height : m_blocks'[i] = old[i]
    <2>1. \A i \in 1 .. split_height : i \in 1 .. n
      BY <1>2
    <2> QED
      BY <1>1, <1>5, <2>1 DEF Remembered, Recalled
  <1>10. Recalled(old)'
    BY <1>1, <1>5, <1>8, <1>9 DEF Remembered, Recalled
  <1> QED
    BY <1>6, <1>7, <1>10 DEF Remembered

\* ... when one is refused ...
LEMMA ConnectFailsRemembers ==
    ASSUME ChainInv, SwitchInv, NEW old, Remembered(old), ConnectFails
    PROVE  Remembered(old)'
  <1>1. /\ phase = "connect" /\ m_blocks' = m_blocks /\ m_transactions' = m_transactions
        /\ UNCHANGED <<alt_chain, disconnected_chain, split_height>>
        /\ phase' = IF Len(m_blocks) = split_height THEN "restore" ELSE "undo"
    BY Zenon DEF ConnectFails, Connecting, pushBlockFails, switch, split_height
  <1>2. AtHand(old)' /\ Justified(old)'
    BY <1>1 DEF Remembered, AtHand, Justified, Target
  <1>3. Recalled(old)'
    BY <1>1 DEF Remembered, Recalled
  <1> QED
    BY <1>2, <1>3 DEF Remembered

\* ... and while the new ones are removed.
LEMMA UndoRemembers ==
    ASSUME ChainInv, SwitchInv, NEW old, Remembered(old), Undo
    PROVE  Remembered(old)'
  <1> DEFINE n == Len(m_blocks)
  <1>1. /\ phase = "undo" /\ popBlock
        /\ UNCHANGED <<alt_chain, disconnected_chain, split_height>>
        /\ phase' = IF n - 1 = split_height THEN "restore" ELSE "undo"
    BY DEF Undo, switch, split_height
  <1>2. n \in Nat /\ split_height \in Nat /\ split_height > 0
    BY <1>1, SwitchFacts
  <1>3. split_height < n /\ n > 1
    BY <1>1, <1>2 DEF SwitchInv
  <1>4. Len(m_blocks') = n - 1 /\ \A i \in 1 .. n - 1 : m_blocks'[i] = m_blocks[i]
    BY <1>1, <1>3, PopEntry
  <1>5. AtHand(old)'
    BY <1>1, <1>3, PopAtHand DEF Remembered
  <1>6. Justified(old)'
    BY <1>1 DEF Remembered, Justified, Target
  <1>7. \A i \in 1 .. split_height : m_blocks'[i] = old[i]
    <2>1. \A i \in 1 .. split_height : i \in 1 .. n - 1
      BY <1>2, <1>3
    <2> QED
      BY <1>1, <1>4, <2>1 DEF Remembered, Recalled
  <1>8. Recalled(old)'
    BY <1>1, <1>4, <1>7 DEF Remembered, Recalled
  <1> QED
    BY <1>5, <1>6, <1>8 DEF Remembered

\* The block to restore is the next one of the old chain, and pushBlock accepts it.
LEMMA RestoreAccepted ==
    ASSUME ChainInv, SwitchInv, NEW old, Remembered(old), phase = "restore"
    PROVE  /\ Len(m_blocks) < Len(old)
           /\ ToRestore = old[Len(m_blocks) + 1].id
           /\ ToRestore \in Blocks
           /\ Valid(ToRestore)
  <1> DEFINE n == Len(m_blocks)
             d == disconnected_chain
  <1>1. /\ n \in Nat /\ n > 0 /\ split_height \in Nat /\ split_height <= n
        /\ d \in Seq(Blocks) /\ Len(d) \in Nat
    BY SwitchFacts
  <1>2. /\ Len(old) = split_height + Len(d)
        /\ \A i \in 1 .. n : m_blocks[i] = old[i]
        /\ \A i \in 1 .. Len(d) : d[i] = old[split_height + i].id
    BY DEF Remembered, Recalled
  <1>3. n < Len(old)
    BY <1>2 DEF SwitchInv
  <1>4. n - split_height + 1 \in 1 .. Len(d) /\ split_height + (n - split_height + 1) = n + 1
    BY <1>1, <1>2, <1>3
  <1>5. ToRestore = old[n + 1].id /\ ToRestore \in Blocks
    BY <1>1, <1>2, <1>4, ItemOf DEF ToRestore
  <1>6. BlockTxSet(old[n + 1].id) \subseteq m_transactions
    <2>1. SUFFICES ASSUME NEW p \in 1 .. NTx(old[n + 1].id), BlockTxs[old[n + 1].id][p] \notin m_transactions
                   PROVE  FALSE
      BY DEF BlockTxSet
    <2>2. n + 1 \in split_height + 1 .. Len(old) /\ n + 1 \in 1 .. Len(old)
      BY <1>1, <1>2, <1>3
    <2>3. BlockTxs[old[n + 1].id][p] \in BlockTxSet(old[n + 1].id)
      BY DEF BlockTxSet
    <2>4. PICK k \in split_height + 1 .. n : BlockTxs[old[n + 1].id][p] \in BlockTxSet(m_blocks[k].id)
      BY <2>1, <2>2, <2>3 DEF Remembered, AtHand
    <2>5. k \in 1 .. n /\ k \in 1 .. Len(old) /\ k # n + 1
      BY <1>1, <1>3
    <2>6. PICK q \in 1 .. NTx(old[k].id) : BlockTxs[old[n + 1].id][p] = BlockTxs[old[k].id][q]
      <3>1. m_blocks[k] = old[k]
        BY <1>2, <2>5
      <3> QED
        BY <2>4, <3>1 DEF BlockTxSet
    <2> QED
      BY <2>2, <2>5, <2>6, ZenonT(30) DEF Remembered, Sound, Once
  <1>7. Valid(old[n + 1].id)
    BY <1>2, <1>3, <1>6, AcceptedAgain DEF Remembered
  <1> QED
    BY <1>3, <1>5, <1>7

\* Restoring puts the entry back as it was, global index included.
LEMMA RestoreEntry ==
    ASSUME ChainInv, SwitchInv, NEW old, Remembered(old), Restore
    PROVE  /\ Len(m_blocks') = Len(m_blocks) + 1
           /\ Len(m_blocks') <= Len(old)
           /\ \A i \in 1 .. Len(m_blocks') : m_blocks'[i] = old[i]
  <1> DEFINE n == Len(m_blocks)
  <1>1. phase = "restore" /\ pushBlock(ToRestore)
    BY DEF Restore
  <1>2. n \in Nat /\ n > 0 /\ split_height \in Nat /\ Len(disconnected_chain) \in Nat
    BY <1>1, SwitchFacts
  <1>3. n < Len(old) /\ ToRestore = old[n + 1].id /\ ToRestore \in Blocks
    BY <1>1, RestoreAccepted
  <1>4. /\ Len(m_blocks') = n + 1 /\ m_blocks' \in Seq(Entry)
        /\ m_blocks'[n + 1].id = old[n + 1].id /\ m_blocks'[n + 1].out = Len(m_outputs)
        /\ \A i \in 1 .. n : m_blocks'[i] = m_blocks[i]
    BY <1>1, <1>3, PushEntry
  <1>5. \A i \in 1 .. n : m_blocks[i] = old[i]
    BY <1>1 DEF Remembered, Recalled
  <1>6. old \in Seq(Entry) /\ Len(old) \in Nat
    BY DEF Remembered, Sound
  <1>7. n \in 1 .. n /\ n \in 1 .. Len(old) - 1 /\ n + 1 \in 1 .. Len(old) /\ n + 1 \in 1 .. Len(m_blocks')
    BY <1>2, <1>3, <1>4, <1>6
  <1>8. m_blocks[n].out + NTx(m_blocks[n].id) + 1 = Len(m_outputs)
    BY <1>7 DEF ChainInv, IndexExact
  <1>9. old[n + 1].out = old[n].out + NTx(old[n].id) + 1
    BY <1>7 DEF Remembered, Sound, Numbered
  <1>10. m_blocks'[n + 1].out = old[n + 1].out
    BY <1>4, <1>5, <1>7, <1>8, <1>9
  <1>11. m_blocks'[n + 1] \in Entry /\ old[n + 1] \in Entry
    BY <1>4, <1>6, <1>7, ItemOf
  <1>12. m_blocks'[n + 1] = old[n + 1]
    BY <1>4, <1>10, <1>11, SMTT(30) DEF Entry
  <1>13. \A i \in 1 .. n + 1 : i \in 1 .. n \/ i = n + 1
    BY <1>2
  <1> QED
    BY <1>2, <1>3, <1>4, <1>5, <1>6, <1>12, <1>13

\* Until the last block is restored the old chain is remembered.
LEMMA RestoreRemembers ==
    ASSUME ChainInv, SwitchInv, NEW old, Remembered(old), Restore, phase' # "idle"
    PROVE  Remembered(old)'
  <1> DEFINE n == Len(m_blocks)
  <1>1. phase = "restore" /\ pushBlock(ToRestore)
    BY DEF Restore
  <1>2. UNCHANGED <<phase, alt_chain, disconnected_chain, split_height>>
    BY DEF Restore, Return, switch, split_height
  <1>3. /\ Len(m_blocks') = n + 1
        /\ \A i \in 1 .. Len(m_blocks') : m_blocks'[i] = old[i]
    BY RestoreEntry
  <1>4. n \in Nat /\ split_height \in Nat /\ split_height <= n
    BY <1>1, SwitchFacts
  <1>5. ToRestore \in Blocks
    BY <1>1, RestoreAccepted
  <1>6. AtHand(old)'
    BY <1>1, <1>2, <1>5, PushAtHand DEF Remembered
  <1>7. Justified(old)'
    BY <1>2 DEF Remembered, Justified, Target
  <1>8. \A i \in 1 .. split_height : m_blocks'[i] = old[i]
    BY <1>3, <1>4
  <1>9. Recalled(old)'
    BY <1>1, <1>2, <1>3, <1>8 DEF Remembered, Recalled
  <1> QED
    BY <1>6, <1>7, <1>9 DEF Remembered

(***************************************************************************)
(* The chain seen from outside                                             *)
(***************************************************************************)
IdsOf(c) == [i \in 1 .. Len(c) |-> c[i].id]

\* They form a sequence of blocks.
LEMMA IdsSeq ==
    ASSUME NEW c \in Seq(Entry)
    PROVE  /\ IdsOf(c) \in Seq(Blocks) /\ Len(IdsOf(c)) = Len(c)
           /\ \A i \in 1 .. Len(c) : IdsOf(c)[i] = c[i].id /\ c[i].id \in Blocks
  <1>1. \A i \in 1 .. Len(c) : c[i] \in Entry
    BY ItemOf
  <1>2. \A i \in 1 .. Len(c) : c[i].id \in Blocks
    BY <1>1 DEF Entry
  <1>3. IdsOf(c) \in [1 .. Len(c) -> Blocks] /\ Len(c) \in Nat
    BY <1>2 DEF IdsOf
  <1>4. \A i \in 1 .. Len(c) : IdsOf(c)[i] = c[i].id
    BY DEF IdsOf
  <1>5. IdsOf(c) \in Seq(Blocks) /\ Len(IdsOf(c)) = Len(c)
    BY <1>3
  <1> QED
    BY <1>2, <1>4, <1>5

\* The first k entries of a chain and the blocks d after them.
LEMMA JoinIds ==
    ASSUME NEW a \in Seq(Entry), NEW d \in Seq(Blocks), NEW old \in Seq(Entry), NEW k \in 0 .. Len(a),
           Len(old) = k + Len(d),
           \A i \in 1 .. k : a[i] = old[i],
           \A i \in 1 .. Len(d) : d[i] = old[k + i].id
    PROVE  SubSeq(IdsOf(a), 1, k) \o d = IdsOf(old)
  <1> DEFINE s == SubSeq(IdsOf(a), 1, k)
  <1>1. /\ IdsOf(a) \in Seq(Blocks) /\ Len(IdsOf(a)) = Len(a)
        /\ \A i \in 1 .. Len(a) : IdsOf(a)[i] = a[i].id
    BY IdsSeq
  <1>2. /\ IdsOf(old) \in Seq(Blocks) /\ Len(IdsOf(old)) = Len(old)
        /\ \A i \in 1 .. Len(old) : IdsOf(old)[i] = old[i].id
    BY IdsSeq
  <1>3. Len(a) \in Nat /\ Len(d) \in Nat /\ k \in Nat /\ k <= Len(a)
    OBVIOUS
  <1>4. s \in Seq(Blocks) /\ Len(s) = k /\ \A i \in 1 .. k : s[i] = a[i].id
    <2>1. s \in Seq(Blocks) /\ Len(s) = k /\ \A i \in 1 .. k : s[i] = IdsOf(a)[i]
      BY <1>1, <1>3
    <2>2. \A i \in 1 .. k : i \in 1 .. Len(a)
      BY <1>3
    <2> QED
      BY <1>1, <2>1, <2>2
  <1> HIDE DEF s
  <1>5. /\ s \o d \in Seq(Blocks) /\ Len(s \o d) = k + Len(d)
        /\ \A i \in 1 .. k + Len(d) : (s \o d)[i] = IF i <= k THEN s[i] ELSE d[i - k]
    BY <1>4, Joined, Zenon
  <1>6. ASSUME NEW i \in 1 .. k + Len(d) PROVE (s \o d)[i] = IdsOf(old)[i]
    <2>1. CASE i <= k
      <3>1. i \in 1 .. k /\ i \in 1 .. Len(old)
        BY <1>3, <2>1
      <3>2. (s \o d)[i] = s[i] /\ s[i] = old[i].id
        BY <1>4, <1>5, <2>1, <3>1, SMTT(30)
      <3> QED
        BY <1>2, <3>1, <3>2
    <2>2. CASE ~(i <= k)
      <3>1. i - k \in 1 .. Len(d) /\ k + (i - k) = i
        BY <1>3, <2>2
      <3>2. (s \o d)[i] = d[i - k] /\ d[i - k] = old[i].id
        BY <1>5, <2>2, <3>1, Zenon
      <3> QED
        BY <1>2, <3>2
    <2> QED
      BY <2>1, <2>2, ZenonT(30)
  <1>7. s \o d = IdsOf(old)
    BY <1>2, <1>5, <1>6, SameItems, SMTT(30)
  <1> QED
    BY <1>7 DEF s

\* In the middle of a switch, what is seen from outside is the old chain.
LEMMA OldIds ==
    \A old : ChainInv /\ SwitchInv /\ phase # "idle" /\ Remembered(old) => OldChain = IdsOf(old)
  <1> SUFFICES ASSUME NEW old, ChainInv, SwitchInv, phase # "idle", Remembered(old)
               PROVE  OldChain = IdsOf(old)
    OBVIOUS
  <1>1. m_blocks \in Seq(Entry) /\ old \in Seq(Entry) /\ Ids = IdsOf(m_blocks)
    BY DEF ChainInv, ChainTypes, Entry, Remembered, Sound, Ids, IdsOf
  <1>2. /\ Len(m_blocks) \in Nat /\ disconnected_chain \in Seq(Blocks)
        /\ split_height \in 0 .. Len(m_blocks) /\ Len(m_blocks) \in 0 .. Len(m_blocks)
    BY SwitchFacts
  <1>3. CASE phase = "disconnect"
    <2>1. SubSeq(IdsOf(m_blocks), 1, Len(m_blocks)) \o disconnected_chain = IdsOf(old)
      BY <1>1, <1>2, <1>3, JoinIds, ZenonT(30) DEF Remembered, Recalled
    <2>2. SubSeq(IdsOf(m_blocks), 1, Len(m_blocks)) = IdsOf(m_blocks)
      BY <1>1, IdsSeq, CutWhole
    <2> QED
      BY <1>1, <1>3, <2>1, <2>2, Zenon DEF OldChain
  <1>4. CASE phase \in {"connect", "undo", "restore"}
    <2>1. SubSeq(IdsOf(m_blocks), 1, split_height) \o disconnected_chain = IdsOf(old)
      BY <1>1, <1>2, <1>4, JoinIds, ZenonT(30) DEF Remembered, Recalled
    <2> QED
      BY <1>1, <1>4, <2>1, Zenon DEF OldChain
  <1> QED
    BY <1>3, <1>4 DEF SwitchInv

\* A chain on top of a block is the block's branch.
LEMMA BranchIds ==
    ASSUME NEW c \in Seq(Entry), Len(c) > 0, Linked(c)
    PROVE  IdsOf(c) = Branch[c[Len(c)].id]
  <1> DEFINE b == c[Len(c)].id
  <1>1. /\ IdsOf(c) \in Seq(Blocks) /\ Len(IdsOf(c)) = Len(c)
        /\ \A i \in 1 .. Len(c) : IdsOf(c)[i] = c[i].id
    BY IdsSeq
  <1>2. Len(c) \in 1 .. Len(c) /\ b \in Blocks
    BY IdsSeq
  <1>3. Len(Branch[b]) = Len(c) /\ \A j \in 1 .. Len(c) : Branch[b][j] = c[j].id
    BY <1>2 DEF Linked
  <1>4. Branch[b] \in Seq(Blocks)
    BY <1>2, BlockFacts
  <1> HIDE DEF b
  <1>5. IdsOf(c) = Branch[b]
    BY <1>1, <1>3, <1>4, SameItems
  <1> QED
    BY <1>5 DEF b

\* A sound chain is what MainChain asks of a new one.
LEMMA SoundSpendable ==
    ASSUME NEW c, Sound(c)
    PROVE  Main!Spendable(IdsOf(c)) /\ Main!PassesCheckpoints(IdsOf(c))
  <1>1. c \in Seq(Entry) /\ Len(c) \in Nat
    BY DEF Sound
  <1>2. Len(IdsOf(c)) = Len(c) /\ \A i \in 1 .. Len(c) : IdsOf(c)[i] = c[i].id
    BY <1>1, IdsSeq
  <1>3. Main!Spendable(IdsOf(c))
    <2>1. SUFFICES ASSUME NEW i \in 1 .. Len(IdsOf(c)), NEW j \in 1 .. Len(IdsOf(c)),
                          NEW x \in 1 .. Len(BlockTxs[IdsOf(c)[i]]), NEW y \in 1 .. Len(BlockTxs[IdsOf(c)[j]]),
                          <<i, x>> # <<j, y>>
                   PROVE  /\ BlockTxs[IdsOf(c)[i]][x] # BlockTxs[IdsOf(c)[j]][y]
                          /\ Images[BlockTxs[IdsOf(c)[i]][x]] \cap Images[BlockTxs[IdsOf(c)[j]][y]] = {}
      BY Zenon DEF Main!Spendable
    <2>2. i # j \/ x # y
      BY <2>1
    <2>3. i \in 1 .. Len(c) /\ j \in 1 .. Len(c) /\ IdsOf(c)[i] = c[i].id /\ IdsOf(c)[j] = c[j].id
      BY <1>2
    <2>4. x \in 1 .. NTx(c[i].id) /\ y \in 1 .. NTx(c[j].id)
      BY <2>3 DEF NTx
    <2>5. /\ BlockTxs[c[i].id][x] # BlockTxs[c[j].id][y]
          /\ Images[BlockTxs[c[i].id][x]] \cap Images[BlockTxs[c[j].id][y]] = {}
      BY <2>2, <2>3, <2>4, ZenonT(30) DEF Sound, Once
    <2> QED
      BY <2>3, <2>5
  <1>4. Main!PassesCheckpoints(IdsOf(c))
    <2>1. SUFFICES ASSUME NEW h \in DOMAIN Points, h < Len(c)
                   PROVE  c[h + 1].id = Points[h]
      <3>1. \A h \in DOMAIN Points : h < Len(c) => h + 1 \in 1 .. Len(c)
        BY <1>1, ParametersAssumption
      <3> QED
        BY <1>2, <3>1 DEF Main!PassesCheckpoints
    <2>2. h + 1 \in 1 .. Len(c) /\ (h + 1) - 1 = h
      BY <1>1, <2>1, ParametersAssumption
    <2> QED
      BY <2>2 DEF Sound, Passes
  <1> QED
    BY <1>3, <1>4

\* A switch that begins remembers the chain as it is.
LEMMA BeginRemembers ==
    ASSUME ChainInv, SwitchInv, History, NEW b \in Blocks, NEW s \in 1 .. Len(Branch[b]), BeginSwitch(b, s)
    PROVE  (\E old : Remembered(old))'
  <1> DEFINE n == Len(m_blocks)
             L == Len(Branch[b])
             front == Branch[b][s]
  <1>1. PICK old : old = m_blocks
    OBVIOUS
  <1>2. /\ n \in Nat /\ n > 0 /\ L \in Nat /\ L > 0 /\ Branch[b] \in Seq(Blocks) /\ s \in Nat
        /\ Branch[b][L] = b
    BY BlockFacts, BlocksAssumption DEF ChainInv, ChainTypes
  <1>3. /\ ~haveBlock(b) /\ AltAccepted(b, s) /\ Reorganizes(b) /\ KeepsTransactions(AltChain(b, s))
        /\ UNCHANGED <<m_blocks, m_transactions>>
        /\ phase' = "disconnect" /\ alt_chain' = AltChain(b, s) /\ disconnected_chain' = <<>>
    BY DEF BeginSwitch, handle_alternative_block, pool
  <1>4. s > 1 /\ Height(front) < n /\ m_blocks[Height(front)].id = Parent(front)
    BY <1>3, Zenon DEF AltAccepted, AltStart, Connected
  <1>5. front \in Blocks /\ Height(front) = s - 1 /\ AltChain(b, s)[1] = front
    BY FrontHeight, Zenon
  <1>6. /\ alt_chain' \in Seq(Blocks) /\ Len(alt_chain') = L - s + 1
        /\ \A j \in 1 .. L - s + 1 : alt_chain'[j] = Branch[b][s + j - 1]
    <2>1. \A i \in s .. L : Branch[b][i] \in Blocks
      <3>1. \A i \in s .. L : i \in 1 .. L
        BY <1>2
      <3>2. \A i \in 1 .. L : Branch[b][i] \in Blocks
        <4> HIDE DEF front
        <4> QED BY <1>2, ItemOf, Zenon
      <3> QED BY <3>1, <3>2
    <2>2. alt_chain' = SubSeq(Branch[b], s, L)
      BY <1>3, Zenon DEF AltChain
    <2>3. s \in Int /\ L \in Int /\ s <= L /\ L - s + 1 = (IF s <= L THEN L - s + 1 ELSE 0)
      BY <1>2
    <2>4. /\ SubSeq(Branch[b], s, L) \in Seq(Blocks)
          /\ Len(SubSeq(Branch[b], s, L)) = (IF s <= L THEN L - s + 1 ELSE 0)
          /\ \A j \in 1 .. L - s + 1 : SubSeq(Branch[b], s, L)[j] = Branch[b][s + j - 1]
      <3> HIDE DEF L
      <3> QED BY <2>1, <2>3, Cut
    <2> QED
      BY <2>2, <2>3, <2>4, Zenon
  <1>7. Target' = b
    <2>1. L - s + 1 \in 1 .. L - s + 1 /\ s + (L - s + 1) - 1 = L
      BY <1>2
    <2> QED
      BY <1>2, <1>6, <2>1, SMTT(30) DEF Target
  <1>8. split_height' = s - 1
    BY <1>3, <1>5 DEF split_height
  <1>9. \A i \in 1 .. s - 1 : m_blocks[i].id = Branch[b][i]
    <2>1. s - 1 \in 1 .. L /\ s \in 1 .. L /\ s - 1 \in 1 .. n /\ s - 1 \in 1 .. s
      BY <1>2, <1>4, <1>5
    <2>2. Branch[front] = SubSeq(Branch[b], 1, s) /\ Branch[Branch[b][s - 1]] = SubSeq(Branch[b], 1, s - 1)
      BY <2>1, BlocksAssumption, ZenonT(40)
    <2>3. /\ \A j \in 1 .. s : SubSeq(Branch[b], 1, s)[j] = Branch[b][j]
          /\ \A j \in 1 .. s - 1 : SubSeq(Branch[b], 1, s - 1)[j] = Branch[b][j]
      BY <1>2, <2>1
    <2>4. m_blocks[s - 1].id = Branch[b][s - 1]
      BY <1>4, <1>5, <2>1, <2>2, <2>3 DEF Parent
    <2>5. \A j \in 1 .. s - 1 : Branch[m_blocks[s - 1].id][j] = m_blocks[j].id
      BY <2>1 DEF History, Linked
    <2> QED
      BY <2>2, <2>3, <2>4, <2>5
  <1>10. Justified(old)'
    <2>1. \A i \in 1 .. Len(old) : old[i].id # b
      BY <1>1, <1>3 DEF haveBlock
    <2>2. CumulativeDifficulty[old[Len(old)].id] < CumulativeDifficulty[b] \/ Height(b) \in DOMAIN Points
      BY <1>1, <1>3 DEF Reorganizes, isCheckpoint, TailId
    <2>3. ASSUME NEW i \in 1 .. Len(old), NEW t \in BlockTxSet(old[i].id)
          PROVE  \E j \in 1 .. L : t \in BlockTxSet(Branch[b][j])
      <3>1. CASE i \in 1 .. s - 1
        <4>1. i \in 1 .. L
          BY <1>2, <3>1
        <4>2. m_blocks[i].id = Branch[b][i]
          BY <1>9, <3>1
        <4>3. old[i].id = Branch[b][i]
          BY <1>1, <4>2
        <4> QED
          BY <4>1, <4>3
      <3>2. CASE i \notin 1 .. s - 1
        <4>1. i \in Height(AltChain(b, s)[1]) + 1 .. n
          BY <1>1, <1>2, <1>5, <3>2
        <4>2. PICK j \in 1 .. Len(AltChain(b, s)) : t \in BlockTxSet(AltChain(b, s)[j])
          BY <1>1, <1>3, <4>1, SMTT(30) DEF KeepsTransactions
        <4>3. j \in 1 .. L - s + 1
          BY <1>3, <1>6
        <4>4. AltChain(b, s)[j] = Branch[b][s + j - 1]
          BY <1>3, <1>6, <4>3
        <4>5. L \in Nat /\ s \in Nat /\ s > 0
          BY <1>2
        <4>6. s + j - 1 \in 1 .. L
          BY <4>3, <4>5
        <4> QED
          BY <4>2, <4>4, <4>6
      <3> QED
        BY <3>1, <3>2
    <2> QED
      BY <1>7, <2>1, <2>2, <2>3 DEF Justified
  <1>11. Recalled(old)'
    <2>1. Len(disconnected_chain') = 0 /\ \A i \in 1 .. Len(disconnected_chain') : FALSE
      BY <1>3
    <2> QED
      BY <1>1, <1>2, <1>3, <2>1 DEF Recalled
  <1>12. AtHand(old)'
    BY <1>1, <1>3, <1>8 DEF AtHand
  <1>13. Sound(old)
    BY <1>1, ChainSound
  <1>14. Remembered(old)'
    BY <1>10, <1>11, <1>12, <1>13 DEF Remembered
  <1> QED
    BY <1>14

(***************************************************************************)
(* Steps of MainChain                                                      *)
(***************************************************************************)
\* pushBlock adds the block to what is seen of the chain.
LEMMA PushIds ==
    ASSUME ChainInv, NEW b \in Blocks, pushBlock(b)
    PROVE  IdsOf(m_blocks') = Append(IdsOf(m_blocks), b)
  <1> DEFINE n == Len(m_blocks)
  <1>1. m_blocks \in Seq(Entry) /\ n \in Nat
    BY DEF ChainInv, ChainTypes, Entry
  <1>2. /\ m_blocks' \in Seq(Entry) /\ Len(m_blocks') = n + 1
        /\ \A i \in 1 .. n : m_blocks'[i] = m_blocks[i]
        /\ m_blocks'[n + 1].id = b
    BY PushEntry
  <1>3. /\ IdsOf(m_blocks) \in Seq(Blocks) /\ Len(IdsOf(m_blocks)) = n
        /\ \A i \in 1 .. n : IdsOf(m_blocks)[i] = m_blocks[i].id
    BY <1>1, IdsSeq, ZenonT(30)
  <1>4. /\ IdsOf(m_blocks') \in Seq(Blocks) /\ Len(IdsOf(m_blocks')) = n + 1
        /\ \A i \in 1 .. n + 1 : IdsOf(m_blocks')[i] = m_blocks'[i].id
    BY <1>2, IdsSeq
  <1> DEFINE x == Append(IdsOf(m_blocks), b)
  <1>5. x \in Seq(Blocks) /\ Len(x) = n + 1 /\ x[n + 1] = b /\ \A i \in 1 .. n : x[i] = m_blocks[i].id
    BY <1>3, Appended
  <1> HIDE DEF x
  <1>6. \A i \in 1 .. n + 1 : IdsOf(m_blocks')[i] = x[i]
    <2>1. \A i \in 1 .. n + 1 : i \in 1 .. n \/ i = n + 1
      BY <1>1
    <2> QED
      BY <1>2, <1>4, <1>5, <2>1
  <1>7. IdsOf(m_blocks') = x
    BY <1>4, <1>5, <1>6, SameItems
  <1> QED
    BY <1>7 DEF x

\* A block on top of the main chain is a step Grow.
LEMMA ExtendGrows ==
    ASSUME ChainInv, History, NEW b \in Blocks, ExtendMain(b), Sound(m_blocks)'
    PROVE  Main!Next
  <1> DEFINE n == Len(m_blocks)
  <1>1. phase = "idle" /\ phase' = "idle" /\ pushBlock(b)
    BY DEF ExtendMain
  <1>2. OldChain = IdsOf(m_blocks) /\ OldChain' = IdsOf(m_blocks')
    BY <1>1 DEF OldChain, Ids, IdsOf
  <1>3. m_blocks \in Seq(Entry) /\ n \in Nat
    BY DEF ChainInv, ChainTypes, Entry
  <1>4. /\ m_blocks' \in Seq(Entry) /\ Len(m_blocks') = n + 1
        /\ \A i \in 1 .. n : m_blocks'[i] = m_blocks[i]
        /\ m_blocks'[n + 1].id = b
    BY <1>1, PushEntry
  <1>5. Sound(m_blocks')
    BY ZenonT(30) DEF Sound, Linked, Accepted, Resolved, Leads, Numbered, Once, Passes
  <1>6. IdsOf(m_blocks') = Branch[b]
    BY <1>3, <1>4, <1>5, BranchIds, ZenonT(30) DEF Sound
  <1>7. IdsOf(m_blocks') = Append(IdsOf(m_blocks), b)
    BY <1>1, PushIds
  <1>8. Main!Spendable(IdsOf(m_blocks')) /\ Main!PassesCheckpoints(IdsOf(m_blocks'))
    BY <1>5, SoundSpendable
  <1>9. Main!Grow(b)
    BY <1>2, <1>6, <1>7 DEF Main!Grow
  <1> QED
    BY <1>2, <1>8, <1>9 DEF Main!Next

\* The end of a switch is a step Replace.
LEMMA FinishReplaces ==
    ASSUME ChainInv, SwitchInv, History, NEW old, Remembered(old), FinishSwitch
    PROVE  Main!Next
  <1> DEFINE n == Len(m_blocks)
             b == Target
  <1>1. phase = "connect" /\ n = split_height + Len(alt_chain) /\ phase' = "idle" /\ m_blocks' = m_blocks
    BY DEF FinishSwitch, Return
  <1>2. OldChain = IdsOf(old) /\ OldChain' = IdsOf(m_blocks)
    BY <1>1, OldIds, Zenon DEF OldChain, Ids, IdsOf
  <1>3. n \in Nat /\ n > 0 /\ split_height \in Nat /\ Len(alt_chain) \in Nat /\ Len(alt_chain) > 0
    BY <1>1, SwitchFacts
  <1>4. m_blocks[n].id = b
    <2>1. n \in split_height + 1 .. n /\ n - split_height = Len(alt_chain)
      BY <1>1, <1>3
    <2> QED
      BY <1>1, <2>1 DEF Remembered, Recalled, Target
  <1>5. Sound(m_blocks)
    BY ChainSound
  <1>6. IdsOf(m_blocks) = Branch[b]
    BY <1>4, <1>5, BranchIds DEF Sound
  <1>7. Main!Spendable(IdsOf(m_blocks)) /\ Main!PassesCheckpoints(IdsOf(m_blocks))
    BY <1>5, SoundSpendable
  <1>8. /\ b \in Blocks
        /\ \A i \in 1 .. Len(old) : old[i].id # b
        /\ CumulativeDifficulty[old[Len(old)].id] < CumulativeDifficulty[b] \/ Height(b) \in DOMAIN Points
        /\ \A i \in 1 .. Len(old) : \A t \in BlockTxSet(old[i].id) :
               \E j \in 1 .. Len(Branch[b]) : t \in BlockTxSet(Branch[b][j])
    BY DEF Remembered, Justified
  <1> HIDE DEF b
  <1>9. /\ Len(OldChain) = Len(old) /\ \A i \in 1 .. Len(old) : OldChain[i] = old[i].id
        /\ Len(old) \in 1 .. Len(old)
    <2>1. old \in Seq(Entry) /\ Len(old) > 0
      BY DEF Remembered, Sound
    <2> QED
      BY <1>2, <2>1, IdsSeq
  <1>10. Main!Replace(b)
    <2>1. \A i \in 1 .. Len(OldChain) : OldChain[i] # b
      BY <1>8, <1>9
    <2>2. CumulativeDifficulty[Main!LastBlock] < CumulativeDifficulty[b] \/ Len(Branch[b]) - 1 \in DOMAIN Points
      BY <1>8, <1>9 DEF Main!LastBlock, Height
    <2>3. Main!ConfirmedIn(OldChain) \subseteq Main!ConfirmedIn(Branch[b])
      <3>1. SUFFICES ASSUME NEW i \in 1 .. Len(OldChain), NEW t \in Main!TxsOf(OldChain[i])
                     PROVE  \E j \in 1 .. Len(Branch[b]) : t \in Main!TxsOf(Branch[b][j])
        BY Zenon DEF Main!ConfirmedIn
      <3>2. i \in 1 .. Len(old) /\ t \in BlockTxSet(old[i].id)
        BY <1>9 DEF Main!TxsOf, BlockTxSet, NTx
      <3>3. \E j \in 1 .. Len(Branch[b]) : t \in BlockTxSet(Branch[b][j])
        BY <1>8, <3>2, ZenonT(30)
      <3> QED
        BY <3>3 DEF Main!TxsOf, BlockTxSet, NTx
    <2> QED
      BY <1>2, <1>6, <2>1, <2>2, <2>3, ZenonT(30) DEF Main!Replace
  <1> QED
    BY <1>2, <1>7, <1>8, <1>10 DEF Main!Next

(***************************************************************************)
(* The refinement                                                          *)
(***************************************************************************)
\* The inductive invariant: the main chain was pushed block by block, and a
\* switch remembers the chain it began with.
RefinementInv ==
    /\ ChainInv /\ SwitchInv /\ History
    /\ phase # "idle" => \E old : Remembered(old)

\* The chain of resetAndSetGenesisBlock satisfies it, and is MainChain's first.
LEMMA InitRefines ==
    ASSUME Init
    PROVE  RefinementInv /\ Main!Init
  <1>1. ChainInv /\ SwitchInv
    BY InitInv
  <1>2. /\ Len(m_blocks) = 1 /\ m_blocks[1].id = Genesis /\ m_blocks[1].out = 0
        /\ Len(m_outputs) = 1 /\ phase = "idle"
    BY DEF Init
  <1>3. \A i \in 1 .. Len(m_blocks) : i = 1
    BY <1>2
  <1>4. Linked(m_blocks)
    <2>1. Branch[Genesis][1] = Genesis
      BY BlocksAssumption
    <2>2. Len(Branch[Genesis]) = 1
      BY <1>1, <1>2 DEF ChainInv, AtHeight
    <2>3. \A j \in 1 .. 1 : j = 1
      OBVIOUS
    <2> QED
      BY <1>2, <1>3, <2>1, <2>2, <2>3 DEF Linked
  <1>5. Accepted(m_blocks) /\ Resolved(m_blocks)
    <2>1. \A i \in 2 .. Len(m_blocks) : FALSE
      BY <1>2
    <2> QED
      BY <2>1 DEF Accepted, Resolved
  <1>6. OutputsOwned
    <2>1. NTx(m_blocks[1].id) \in Nat
      BY <1>2, BlocksAssumption, BlockFacts
    <2>2. 1 \in 1 .. Len(m_blocks) /\ 0 \in 0 .. NTx(m_blocks[1].id) /\ 1 = m_blocks[1].out + 0 + 1
      BY <1>2, <2>1
    <2>3. \A x \in 1 .. Len(m_outputs) : x = 1
      BY <1>2
    <2> QED
      BY <2>2, <2>3 DEF OutputsOwned
  <1>7. Main!Init
    <2>1. m_blocks \in Seq(Entry) /\ Ids = IdsOf(m_blocks)
      BY <1>1 DEF ChainInv, ChainTypes, Entry, Ids, IdsOf
    <2>2. IdsOf(m_blocks) \in Seq(Blocks) /\ Len(IdsOf(m_blocks)) = 1 /\ IdsOf(m_blocks)[1] = Genesis
      BY <1>2, <2>1, IdsSeq
    <2>3. <<Genesis>> \in Seq(Blocks) /\ Len(<<Genesis>>) = 1 /\ <<Genesis>>[1] = Genesis
      BY BlocksAssumption
    <2>4. \A i \in 1 .. Len(IdsOf(m_blocks)) : IdsOf(m_blocks)[i] = <<Genesis>>[i]
      BY <2>2, <2>3
    <2>5. IdsOf(m_blocks) = <<Genesis>>
      BY <2>2, <2>3, <2>4, SameItems
    <2> QED
      BY <1>2, <2>1, <2>5 DEF Main!Init, OldChain
  <1> QED
    BY <1>1, <1>2, <1>4, <1>5, <1>6, <1>7 DEF RefinementInv, History

\* Steps that leave the chain alone keep its history.
LEMMA StillHistory ==
    ASSUME History, UNCHANGED <<m_blocks, m_outputs>>
    PROVE  History'
  <1>1. Linked(m_blocks)'
    BY DEF History, Linked
  <1>2. Accepted(m_blocks)'
    BY DEF History, Accepted
  <1>3. Resolved(m_blocks)'
    BY DEF History, Resolved, Leads
  <1>4. OutputsOwned'
    BY DEF History, OutputsOwned
  <1> QED
    BY <1>1, <1>2, <1>3, <1>4 DEF History

\* ChainSound in the state after a step ...
LEMMA ChainSoundNext == (ChainInv /\ History => Sound(m_blocks))'
  <1>1. ChainInv /\ History => Sound(m_blocks)
    BY ChainSound
  <1> QED
    BY <1>1, PTL

\* ... and OldIds.
LEMMA OldIdsNext ==
    (\A old : ChainInv /\ SwitchInv /\ phase # "idle" /\ Remembered(old) => OldChain = IdsOf(old))'
  BY OldIds, PTL

\* Every step of Blockchain keeps the invariant, and is a step of MainChain or
\* changes nothing that is seen from outside.
LEMMA NextRefines ==
    ASSUME ~AuthMayFail, RefinementInv, [Next]_vars
    PROVE  /\ RefinementInv' /\ [Main!Next]_OldChain
           /\ (\E b \in Blocks : ExtendMain(b)) \/ FinishSwitch \/ OldChain' = OldChain
  <1>1. ChainInv /\ SwitchInv /\ History /\ (phase # "idle" => \E old : Remembered(old))
    BY DEF RefinementInv
  <1>2. ChainInv' /\ SwitchInv'
    BY <1>1, NextInv
  <1>3. ASSUME phase = "idle", phase' = "idle", UNCHANGED <<m_blocks, m_outputs>>
        PROVE  RefinementInv' /\ OldChain' = OldChain
    <2>1. History'
      BY <1>1, <1>3, StillHistory
    <2>2. OldChain' = OldChain
      BY <1>3 DEF OldChain, Ids
    <2> QED
      BY <1>2, <1>3, <2>1, <2>2 DEF RefinementInv
  <1>4. ASSUME NEW old, phase # "idle", phase' # "idle", Remembered(old), Remembered(old)', History'
        PROVE  RefinementInv' /\ OldChain' = OldChain
    <2>1. OldChain = IdsOf(old)
      BY <1>1, <1>4, OldIds
    <2>2. OldChain' = IdsOf(old)
      BY <1>2, <1>4, OldIdsNext
    <2> QED
      BY <1>2, <1>4, <2>1, <2>2 DEF RefinementInv
  <1>5. ASSUME NEW b \in Blocks, ExtendMain(b) PROVE RefinementInv' /\ Main!Next
    <2>1. pushBlock(b) /\ phase' = "idle"
      BY <1>5 DEF ExtendMain
    <2>2. History'
      BY <1>1, <2>1, PushHistory
    <2>3. Sound(m_blocks)'
      BY <1>2, <2>2, ChainSoundNext
    <2> QED
      BY <1>1, <1>2, <1>5, <2>1, <2>2, <2>3, ExtendGrows DEF RefinementInv
  <1>6. ASSUME NEW b \in Blocks, RejectMain(b) PROVE RefinementInv' /\ OldChain' = OldChain
    <2>1. phase = "idle" /\ phase' = "idle" /\ UNCHANGED <<m_blocks, m_outputs>>
      BY <1>6 DEF RejectMain, pushBlockFails, indices
    <2> QED
      BY <1>3, <2>1
  <1>7. ASSUME UNCHANGED vars PROVE RefinementInv' /\ OldChain' = OldChain
    <2>1. UNCHANGED <<m_blocks, m_outputs, m_transactions, phase, alt_chain, disconnected_chain>>
      BY <1>7 DEF vars, indices, pool, switch
    <2>2. CASE phase = "idle"
      BY <1>3, <2>1, <2>2
    <2>3. CASE phase # "idle"
      <3>1. PICK old : Remembered(old)
        BY <1>1, <2>3
      <3>2. Remembered(old)'
        BY <2>1, <3>1, ZenonT(30) DEF Remembered, Justified, Target, Recalled, AtHand, split_height
      <3>3. History'
        BY <1>1, <2>1, StillHistory
      <3> QED
        BY <1>4, <2>1, <2>3, <3>1, <3>2, <3>3
    <2> QED
      BY <2>2, <2>3
  <1>8. ASSUME NEW b \in Blocks, NEW s \in 1 .. Len(Branch[b]), AddAlternative(b, s) \/ RefuseSwitch(b, s)
        PROVE  RefinementInv' /\ OldChain' = OldChain
    <2>1. phase = "idle" /\ phase' = "idle" /\ UNCHANGED <<m_blocks, m_outputs>>
      BY <1>8 DEF AddAlternative, RefuseSwitch, handle_alternative_block, indices
    <2> QED
      BY <1>3, <2>1
  <1>9. ASSUME NEW b \in Blocks, NEW s \in 1 .. Len(Branch[b]), BeginSwitch(b, s)
        PROVE  RefinementInv' /\ OldChain' = OldChain
    <2>1. /\ phase = "idle" /\ phase' = "disconnect" /\ UNCHANGED <<m_blocks, m_outputs>>
          /\ disconnected_chain' = <<>>
      BY <1>9 DEF BeginSwitch, handle_alternative_block, indices
    <2>2. (\E old : Remembered(old))'
      BY <1>1, <1>9, BeginRemembers
    <2>3. History'
      BY <1>1, <2>1, StillHistory
    <2>4. OldChain = Ids /\ OldChain' = Ids \o <<>>
      BY <2>1 DEF OldChain, Ids
    <2>5. Ids \in Seq(Blocks)
      <3>1. m_blocks \in Seq(Entry) /\ Ids = IdsOf(m_blocks)
        BY <1>1 DEF ChainInv, ChainTypes, Entry, Ids, IdsOf
      <3> QED
        BY <3>1, IdsSeq
    <2>6. OldChain' = OldChain
      BY <2>4, <2>5, JoinedEmpty
    <2> QED
      BY <1>2, <2>2, <2>3, <2>6 DEF RefinementInv
  <1>10. ASSUME Disconnect PROVE RefinementInv' /\ OldChain' = OldChain
    <2>1. phase = "disconnect" /\ popBlock /\ phase' # "idle"
      BY <1>10 DEF Disconnect
    <2>2. Len(m_blocks) > 1
      BY <1>1, <2>1, SwitchFacts DEF SwitchInv
    <2>3. History'
      BY <1>1, <2>1, <2>2, PopHistory
    <2>4. PICK old : Remembered(old)
      BY <1>1, <2>1
    <2>5. Remembered(old)'
      BY <1>1, <1>10, <2>4, DisconnectRemembers
    <2> QED
      BY <1>4, <2>1, <2>3, <2>4, <2>5
  <1>11. ASSUME Connect PROVE RefinementInv' /\ OldChain' = OldChain
    <2>1. phase = "connect" /\ phase' # "idle" /\ pushBlock(ToConnect) /\ Len(m_blocks) < split_height + Len(alt_chain)
      BY <1>11 DEF Connect, Connecting
    <2>2. ToConnect \in Blocks
      <3>1. Len(m_blocks) - split_height + 1 \in 1 .. Len(alt_chain) /\ alt_chain \in Seq(Blocks)
        BY <1>1, <2>1, SwitchFacts
      <3> QED
        BY <3>1, ItemOf DEF ToConnect
    <2>3. History'
      BY <1>1, <2>1, <2>2, PushHistory
    <2>4. PICK old : Remembered(old)
      BY <1>1, <2>1
    <2>5. Remembered(old)'
      BY <1>1, <1>11, <2>4, ConnectRemembers
    <2> QED
      BY <1>4, <2>1, <2>3, <2>4, <2>5
  <1>12. ASSUME ConnectFails PROVE RefinementInv' /\ OldChain' = OldChain
    <2>1. phase = "connect" /\ phase' # "idle" /\ UNCHANGED <<m_blocks, m_outputs>>
      BY <1>12 DEF ConnectFails, Connecting, pushBlockFails, indices
    <2>2. History'
      BY <1>1, <2>1, StillHistory
    <2>3. PICK old : Remembered(old)
      BY <1>1, <2>1
    <2>4. Remembered(old)'
      BY <1>1, <1>12, <2>3, ConnectFailsRemembers
    <2> QED
      BY <1>4, <2>1, <2>2, <2>3, <2>4
  <1>13. ASSUME Undo PROVE RefinementInv' /\ OldChain' = OldChain
    <2>1. phase = "undo" /\ popBlock /\ phase' # "idle"
      BY <1>13 DEF Undo
    <2>2. Len(m_blocks) > 1
      BY <1>1, <2>1, SwitchFacts DEF SwitchInv
    <2>3. History'
      BY <1>1, <2>1, <2>2, PopHistory
    <2>4. PICK old : Remembered(old)
      BY <1>1, <2>1
    <2>5. Remembered(old)'
      BY <1>1, <1>13, <2>4, UndoRemembers
    <2> QED
      BY <1>4, <2>1, <2>3, <2>4, <2>5
  <1>14. ASSUME Restore PROVE RefinementInv' /\ OldChain' = OldChain
    <2>1. phase = "restore" /\ pushBlock(ToRestore)
      BY <1>14 DEF Restore
    <2>2. PICK old : Remembered(old)
      BY <1>1, <2>1
    <2>3. ToRestore \in Blocks
      BY <1>1, <2>1, <2>2, RestoreAccepted
    <2>4. History'
      BY <1>1, <2>1, <2>3, PushHistory
    <2>5. CASE phase' # "idle"
      <3>1. Remembered(old)'
        BY <1>1, <1>14, <2>2, <2>5, RestoreRemembers
      <3> QED
        BY <1>4, <2>1, <2>2, <2>4, <2>5, <3>1
    <2>6. CASE phase' = "idle"
      <3>1. /\ Len(m_blocks') = Len(m_blocks) + 1
            /\ \A i \in 1 .. Len(m_blocks') : m_blocks'[i] = old[i]
        BY <1>1, <1>14, <2>2, RestoreEntry
      <3>2. Len(m_blocks) + 1 = split_height + Len(disconnected_chain)
        BY <1>14, <2>1, <2>6 DEF Restore
      <3>3. Len(old) = split_height + Len(disconnected_chain) /\ old \in Seq(Entry)
        BY <2>1, <2>2 DEF Remembered, Recalled, Sound
      <3>4. m_blocks' \in Seq(Entry)
        BY <1>2 DEF ChainInv, ChainTypes, Entry
      <3>5. m_blocks' = old
        BY <3>1, <3>2, <3>3, <3>4, SameItems
      <3>6. OldChain' = IdsOf(old)
        BY <2>6, <3>5 DEF OldChain, Ids, IdsOf
      <3>7. OldChain = IdsOf(old)
        BY <1>1, <2>1, <2>2, OldIds
      <3> QED
        BY <1>2, <2>4, <2>6, <3>6, <3>7 DEF RefinementInv
    <2> QED
      BY <2>5, <2>6
  <1>15. ASSUME RestoreFails PROVE FALSE
    <2>1. phase = "restore" /\ pushBlockFails(ToRestore)
      BY <1>15 DEF RestoreFails
    <2>2. Valid(ToRestore)
      BY <1>1, <2>1, RestoreAccepted
    <2> QED
      BY <2>1, <2>2 DEF pushBlockFails, AuthFails
  <1>16. ASSUME FinishSwitch PROVE RefinementInv' /\ Main!Next
    <2>1. phase = "connect" /\ phase' = "idle" /\ UNCHANGED <<m_blocks, m_outputs>>
      BY <1>16 DEF FinishSwitch, Return, indices
    <2>2. PICK old : Remembered(old)
      BY <1>1, <2>1
    <2>3. Main!Next
      BY <1>1, <1>16, <2>2, FinishReplaces
    <2>4. History'
      BY <1>1, <2>1, StillHistory
    <2> QED
      BY <1>2, <2>1, <2>3, <2>4 DEF RefinementInv
  <1>17. ASSUME NEW t \in Txs, NEW kept \in BOOLEAN, add_new_tx(t, kept)
         PROVE  RefinementInv' /\ OldChain' = OldChain
    <2>1. phase = "idle" /\ phase' = "idle" /\ UNCHANGED <<m_blocks, m_outputs>>
      BY <1>17 DEF add_new_tx, indices
    <2> QED
      BY <1>3, <2>1
  <1>18. ASSUME NEW t \in Txs, removeExpiredTransaction(t) PROVE RefinementInv' /\ OldChain' = OldChain
    <2>1. phase = "idle" /\ phase' = "idle" /\ UNCHANGED <<m_blocks, m_outputs>>
      BY <1>18 DEF removeExpiredTransaction, indices
    <2> QED
      BY <1>3, <2>1
  <1>19. ASSUME NEW b \in Blocks, AlreadyExists(b) PROVE RefinementInv' /\ OldChain' = OldChain
    BY <1>7, <1>19 DEF AlreadyExists
  <1> QED
    BY <1>5, <1>6, <1>7, <1>8, <1>9, <1>10, <1>11, <1>12, <1>13, <1>14, <1>15, <1>16, <1>17, <1>18, <1>19
    DEF Next, SwitchStep

\* While AuthBlock refuses nothing, addNewBlock and switch_to_alternative_blockchain
\* implement MainChain: every failed switch restores the chain, and every other
\* change is one block more or a branch that is heavier or has a checkpoint, keeps
\* the transactions, spends nothing twice and passes the checkpoints.
THEOREM Refinement == ~AuthMayFail /\ Spec => ImplementsMainChain
  <1>1. Init => RefinementInv /\ Main!Init
    BY InitRefines
  <1>2. ~AuthMayFail /\ RefinementInv /\ [Next]_vars => RefinementInv' /\ [Main!Next]_OldChain
    BY NextRefines
  <1>3. CASE ~AuthMayFail
    BY <1>1, <1>2, <1>3, PTL DEF Spec, ImplementsMainChain, Main!Spec
  <1> QED
    BY <1>3

(***************************************************************************)
(* What a subscriber of the message queues has                             *)
(***************************************************************************)
\* The block of a NewBlockMessage goes on top of what the subscriber has.
LEMMA ExtendSeen ==
    ASSUME ChainInv, NEW b \in Blocks, ExtendMain(b), seen = OldChain
    PROVE  seen' = OldChain'
  <1>1. phase = "idle" /\ phase' = "idle" /\ pushBlock(b) /\ seen' = Append(SubSeq(seen, 1, Height(b)), b)
    BY DEF ExtendMain
  <1>2. seen = IdsOf(m_blocks) /\ OldChain' = IdsOf(m_blocks')
    BY <1>1 DEF OldChain, Ids, IdsOf
  <1>3. m_blocks \in Seq(Entry) /\ Len(m_blocks) \in Nat
    BY DEF ChainInv, ChainTypes, Entry
  <1>4. seen \in Seq(Blocks) /\ Len(seen) = Len(m_blocks)
    BY <1>2, <1>3, IdsSeq
  <1>5. Prevalidated(b)
    BY <1>1 DEF pushBlock, Valid, AllInputsValid
  <1>6. Height(b) = Len(seen)
    BY <1>3, <1>4, <1>5, PushIsFresh DEF Height
  <1>7. SubSeq(seen, 1, Height(b)) = seen
    BY <1>4, <1>6, CutWhole
  <1>8. IdsOf(m_blocks') = Append(IdsOf(m_blocks), b)
    BY <1>1, PushIds
  <1> QED
    BY <1>1, <1>2, <1>7, <1>8, Zenon

\* The blocks of a ChainSwitchMessage replace those above the split.
LEMMA FinishSeen ==
    ASSUME ChainInv, SwitchInv, NEW old, Remembered(old), FinishSwitch, seen = OldChain
    PROVE  seen' = OldChain'
  <1>1. /\ phase = "connect" /\ Len(m_blocks) = split_height + Len(alt_chain)
        /\ phase' = "idle" /\ m_blocks' = m_blocks
        /\ seen' = SubSeq(seen, 1, split_height) \o alt_chain
    BY DEF FinishSwitch, Return
  <1>2. seen = IdsOf(old) /\ OldChain' = IdsOf(m_blocks)
    BY <1>1, OldIds, Zenon DEF OldChain, Ids, IdsOf
  <1>3. m_blocks \in Seq(Entry) /\ old \in Seq(Entry) /\ Len(old) \in Nat
    BY DEF ChainInv, ChainTypes, Entry, Remembered, Sound
  <1>4. /\ alt_chain \in Seq(Blocks) /\ Len(alt_chain) \in Nat
        /\ split_height \in Nat /\ Len(disconnected_chain) \in Nat
    BY <1>1, SwitchFacts
  <1>5. /\ Len(old) = split_height + Len(disconnected_chain)
        /\ \A i \in 1 .. split_height : old[i] = m_blocks[i]
        /\ \A i \in split_height + 1 .. Len(m_blocks) : m_blocks[i].id = alt_chain[i - split_height]
    BY <1>1 DEF Remembered, Recalled
  <1>6. split_height \in 0 .. Len(old)
    BY <1>4, <1>5
  <1>7. ASSUME NEW i \in 1 .. Len(alt_chain) PROVE alt_chain[i] = m_blocks[split_height + i].id
    <2>1. split_height + i \in split_height + 1 .. Len(m_blocks) /\ (split_height + i) - split_height = i
      BY <1>1, <1>4
    <2> QED
      BY <1>5, <2>1
  <1>8. SubSeq(IdsOf(old), 1, split_height) \o alt_chain = IdsOf(m_blocks)
    BY <1>1, <1>3, <1>4, <1>5, <1>6, <1>7, JoinIds, Zenon
  <1> QED
    BY <1>1, <1>2, <1>8, Zenon

\* While AuthBlock refuses nothing, a subscriber that follows the messages addNewBlock
\* sends has the main chain whenever the lock is free, through switches that succeed
\* and switches that fail unannounced.
THEOREM SubscriberFollows == ~AuthMayFail /\ Spec => []SubscriberHasChain
  <1> DEFINE Follows == RefinementInv /\ seen = OldChain
  <1>1. Init => Follows
    BY InitRefines, Zenon DEF Init, Main!Init
  <1>2. ASSUME ~AuthMayFail, Follows, [Next]_vars PROVE Follows'
    <2>1. /\ RefinementInv'
          /\ (\E b \in Blocks : ExtendMain(b)) \/ FinishSwitch \/ OldChain' = OldChain
      BY <1>2, NextRefines
    <2>2. ChainInv /\ SwitchInv /\ (phase # "idle" => \E old : Remembered(old))
      BY <1>2 DEF RefinementInv
    <2>3. ASSUME NEW b \in Blocks, ExtendMain(b) PROVE seen' = OldChain'
      BY <1>2, <2>2, <2>3, ExtendSeen
    <2>4. ASSUME FinishSwitch PROVE seen' = OldChain'
      <3>1. phase # "idle"
        BY <2>4 DEF FinishSwitch
      <3>2. PICK old : Remembered(old)
        BY <2>2, <3>1
      <3> QED
        BY <1>2, <2>2, <2>4, <3>2, FinishSeen
    <2>5. seen' = seen \/ FinishSwitch \/ \E b \in Blocks : ExtendMain(b)
      BY <1>2, Zenon
      DEF Next, vars, SwitchStep, RejectMain, AlreadyExists, AddAlternative, RefuseSwitch, BeginSwitch,
          handle_alternative_block, Disconnect, Connect, ConnectFails, Undo, Restore, RestoreFails,
          add_new_tx, removeExpiredTransaction
    <2> QED
      BY <1>2, <2>1, <2>3, <2>4, <2>5
  <1>3. Follows => SubscriberHasChain
    BY DEF SubscriberHasChain, OldChain
  <1>4. CASE ~AuthMayFail
    BY <1>1, <1>2, <1>3, <1>4, PTL DEF Spec
  <1> QED
    BY <1>4
=============================================================================
