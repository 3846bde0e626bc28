----------------------- MODULE TransactionPoolProofs ------------------------
(***************************************************************************)
(* Proofs about TransactionPool for every tree of blocks, every set of     *)
(* transactions and all times: the indices of the spent inputs are exact   *)
(* (SpentInputsExact) and relayed transactions do not conflict             *)
(* (RelayedDisjoint), in memory and in the pool file.                      *)
(*                                                                         *)
(* Neither is inductive alone.  Taking a transaction out releases its      *)
(* outputs, which is right only if no other relayed transaction holds      *)
(* them; keeping a conflicting one out relies on the index; and a crash    *)
(* brings back what the file holds.  Consistent says all of it of one      *)
(* pool, and Inv says it of the pool in memory and of the saved one.       *)
(***************************************************************************)
EXTENDS TransactionPool, SequenceTheorems, NaturalsInduction, WellFoundedInduction, TLAPS

Infos == [height : Nat, id : Blocks \cup {"NULL_HASH"}]

Relayed(txs) == {t \in DOMAIN txs : ~txs[t].keptByBlock}
Disjoint(t, u) == Images[t] \cap Images[u] = {} /\ Msigs[t] \cap Msigs[u] = {}

\* A pool whose indices are exact and whose relayed transactions do not conflict.
Consistent(txs, images, outputs) ==
    /\ DOMAIN txs \subseteq Txs
    /\ \A t \in DOMAIN txs : txs[t] \in Details
    /\ images \in [KeyImages -> SUBSET Txs]
    /\ \A k \in KeyImages : images[k] = {t \in DOMAIN txs : k \in Images[t]}
    /\ outputs = UNION {Msigs[t] : t \in Relayed(txs)}
    /\ \A t, u \in Relayed(txs) : t # u => Disjoint(t, u)

Deletions(f) ==
    DOMAIN f \subseteq Txs /\ \A t \in DOMAIN f : f[t] \in 0 .. ForgetTime + 1

Inv ==
    /\ chain \in Seq(Blocks) /\ chain # <<>>
    /\ Consistent(m_transactions, m_spent_key_images, m_spentOutputs)
    /\ Consistent(file.transactions, file.images, file.outputs)
    /\ Deletions(m_recentlyDeleted)
    /\ Deletions(file.deleted)
    /\ m_validated \subseteq DOMAIN m_transactions

(***************************************************************************)
(* One pool                                                                *)
(***************************************************************************)
\* An empty pool is consistent.
LEMMA EmptyConsistent ==
    Consistent(NoTransactions, [k \in KeyImages |-> {}], {})
BY DEF Consistent, NoTransactions, Relayed

\* Taking transactions out (removeTransaction) leaves a consistent pool: the outputs
\* released are held by no other relayed transaction.
LEMMA RemoveConsistent ==
    ASSUME NEW txs, NEW images, NEW outputs, NEW S \in SUBSET DOMAIN txs,
           Consistent(txs, images, outputs)
    PROVE  Consistent(Without(txs, S), removeTransactionInputs(images, S),
                      outputs \ UNION {Msigs[t] : t \in {t \in S : ~txs[t].keptByBlock}})
<1> DEFINE rest == Without(txs, S)
           released == {t \in S : ~txs[t].keptByBlock}
<1>1. /\ DOMAIN rest = DOMAIN txs \ S
      /\ \A t \in DOMAIN rest : rest[t] = txs[t]
  BY DEF Without
<1>2. Relayed(rest) = Relayed(txs) \ S /\ released = Relayed(txs) \cap S
  BY <1>1 DEF Relayed
<1>3. outputs \ UNION {Msigs[t] : t \in released} = UNION {Msigs[t] : t \in Relayed(rest)}
  <2>1. \A t \in Relayed(rest), u \in released : Msigs[t] \cap Msigs[u] = {}
    BY <1>2 DEF Consistent, Disjoint
  <2>2. outputs = UNION {Msigs[t] : t \in Relayed(txs)}
    BY DEF Consistent
  <2>3. Relayed(txs) = Relayed(rest) \cup released
    BY <1>2
  <2> HIDE DEF rest, released
  <2> QED BY <2>1, <2>2, <2>3
<1>4. /\ DOMAIN rest \subseteq Txs
      /\ \A t \in DOMAIN rest : rest[t] \in Details
      /\ \A t, u \in Relayed(rest) : t # u => Disjoint(t, u)
  BY <1>1, <1>2 DEF Consistent
<1>5. removeTransactionInputs(images, S) \in [KeyImages -> SUBSET Txs]
  BY DEF removeTransactionInputs, Consistent
<1>6. ASSUME NEW k \in KeyImages
      PROVE  removeTransactionInputs(images, S)[k] = {t \in DOMAIN rest : k \in Images[t]}
  BY <1>1 DEF removeTransactionInputs, Consistent
<1> QED BY <1>3, <1>4, <1>5, <1>6 DEF Consistent

\* Entering a transaction (add_tx) leaves a consistent pool when it comes with a block
\* or when none of its inputs is in the indices.
LEMMA AddConsistent ==
    ASSUME NEW txs, NEW images, NEW outputs, NEW t \in Txs, NEW d \in Details,
           Consistent(txs, images, outputs), t \notin DOMAIN txs,
           d.keptByBlock \/ /\ \A k \in Images[t] : images[k] = {}
                            /\ Msigs[t] \cap outputs = {}
    PROVE  Consistent(With(txs, t, d), addTransactionInputs(images, t),
                      IF d.keptByBlock THEN outputs ELSE outputs \cup Msigs[t])
<1> DEFINE more == With(txs, t, d)
<1>1. /\ DOMAIN more = DOMAIN txs \cup {t}
      /\ more[t] = d
      /\ \A u \in DOMAIN txs : more[u] = txs[u]
  BY DEF With
<1>2. Relayed(more) = IF d.keptByBlock THEN Relayed(txs) ELSE Relayed(txs) \cup {t}
  BY <1>1 DEF Relayed
<1>3. addTransactionInputs(images, t) \in [KeyImages -> SUBSET Txs]
  BY DEF addTransactionInputs, Consistent
<1>4. ASSUME NEW k \in KeyImages
      PROVE  addTransactionInputs(images, t)[k] = {u \in DOMAIN more : k \in Images[u]}
  BY <1>1 DEF addTransactionInputs, Consistent
<1>5. /\ DOMAIN more \subseteq Txs
      /\ \A u \in DOMAIN more : more[u] \in Details
  BY <1>1 DEF Consistent
<1>6. (IF d.keptByBlock THEN outputs ELSE outputs \cup Msigs[t]) = UNION {Msigs[u] : u \in Relayed(more)}
  <2>1. outputs = UNION {Msigs[u] : u \in Relayed(txs)}
    BY DEF Consistent
  <2> HIDE DEF more
  <2> QED BY <1>2, <2>1
<1>7. ASSUME ~d.keptByBlock, NEW u \in Relayed(txs)
      PROVE  Disjoint(t, u) /\ Disjoint(u, t)
  <2>1. Msigs[u] \subseteq outputs
    BY DEF Consistent
  <2>2. u \in Txs /\ \A k \in KeyImages : k \in Images[u] => u \in images[k]
    BY DEF Consistent, Relayed
  <2>3. Images[t] \subseteq KeyImages /\ Images[u] \subseteq KeyImages
    BY <2>2, InputsAssumption
  <2>4. Images[t] \cap Images[u] = {}
    BY <1>7, <2>2, <2>3
  <2> QED BY <1>7, <2>1, <2>4 DEF Disjoint
<1>8. \A u, v \in Relayed(more) : u # v => Disjoint(u, v)
  <2> HIDE DEF more
  <2>1. \A u, v \in Relayed(txs) : u # v => Disjoint(u, v)
    BY DEF Consistent
  <2>2. CASE d.keptByBlock
    BY <1>2, <2>1, <2>2
  <2>3. CASE ~d.keptByBlock
    BY <1>2, <1>7, <2>1, <2>3
  <2> QED BY <2>2, <2>3
<1> QED BY <1>3, <1>4, <1>5, <1>6, <1>8 DEF Consistent

\* A change of the details that leaves keptByBlock alone leaves a consistent pool.
LEMMA UpdateConsistent ==
    ASSUME NEW txs, NEW new, NEW images, NEW outputs, Consistent(txs, images, outputs),
           DOMAIN new = DOMAIN txs,
           \A t \in DOMAIN txs : new[t] \in Details /\ new[t].keptByBlock = txs[t].keptByBlock
    PROVE  Consistent(new, images, outputs)
<1>1. Relayed(new) = Relayed(txs)
  BY DEF Relayed
<1> QED BY <1>1 DEF Consistent

\* Putting transactions back as kept by a block (loadTransactions, saveTransactions)
\* releases their outputs and leaves a consistent pool.
LEMMA PutBackConsistent ==
    ASSUME NEW txs, NEW new, NEW images, NEW outputs, NEW S \in SUBSET DOMAIN txs,
           Consistent(txs, images, outputs),
           DOMAIN new = DOMAIN txs,
           \A t \in DOMAIN txs \ S : new[t] = txs[t],
           \A t \in S : new[t] \in Details /\ new[t].keptByBlock
    PROVE  Consistent(new, images, outputs \ UNION {Msigs[t] : t \in {t \in S : ~txs[t].keptByBlock}})
<1> DEFINE released == {t \in S : ~txs[t].keptByBlock}
<1>1. Relayed(new) = Relayed(txs) \ S /\ released = Relayed(txs) \cap S
  BY DEF Relayed
<1>2. outputs \ UNION {Msigs[t] : t \in released} = UNION {Msigs[t] : t \in Relayed(new)}
  <2>1. \A t \in Relayed(new), u \in released : Msigs[t] \cap Msigs[u] = {}
    BY <1>1 DEF Consistent, Disjoint
  <2>2. outputs = UNION {Msigs[t] : t \in Relayed(txs)}
    BY DEF Consistent
  <2>3. Relayed(txs) = Relayed(new) \cup released
    BY <1>1
  <2> HIDE DEF released
  <2> QED BY <2>1, <2>2, <2>3
<1>3. \A t, u \in Relayed(new) : t # u => Disjoint(t, u)
  BY <1>1 DEF Consistent
<1>4. \A t \in DOMAIN new : new[t] \in Details
  BY DEF Consistent
<1> QED BY <1>2, <1>3, <1>4 DEF Consistent

(***************************************************************************)
(* The details of one transaction                                          *)
(***************************************************************************)
\* The block whose outputs a valid transaction spends has a height.
LEMMA MaxUsedType ==
    ASSUME NEW c \in Seq(Blocks), NEW t \in Txs, InputsValid(c, t)
    PROVE  MaxUsed(c, t) \in Infos
<1>1. \E h \in 0 .. Len(c) - 1 : c[h + 1] = Source[t]
  <2>1. PICK i \in 1 .. Len(c) : c[i] = Source[t]
    BY DEF InputsValid, Range
  <2>2. i - 1 \in 0 .. Len(c) - 1 /\ c[(i - 1) + 1] = Source[t]
    BY <2>1
  <2> QED BY <2>2
<1>2. HeightIn(c, Source[t]) \in Nat
  BY <1>1 DEF HeightIn
<1>3. Source[t] \in Blocks
  BY InputsAssumption
<1> QED BY <1>2, <1>3 DEF MaxUsed, Info, Infos

\* add_tx stores well-formed details, with keptByBlock as it was told.
LEMMA EnteredType ==
    ASSUME NEW c \in Seq(Blocks), NEW t \in Txs, NEW kept \in BOOLEAN
    PROVE  Entered(c, t, kept) \in Details /\ Entered(c, t, kept).keptByBlock = kept
<1>1. None \in Infos
  BY DEF None, Infos
<1>2. (IF InputsValid(c, t) THEN MaxUsed(c, t) ELSE None) \in Infos
  BY <1>1, MaxUsedType
<1> QED BY <1>1, <1>2 DEF Entered, Details, Infos

\* The details after a check that succeeds, and after one that fails.
WithUsed(d, used) == [d EXCEPT !.maxUsedBlock = used]
WithFailed(d, tail) == [d EXCEPT !.maxUsedBlock.height = 0, !.lastFailedBlock = tail]

\* Storing a verdict keeps the details well formed and keptByBlock as it is.
LEMMA StoredType ==
    ASSUME NEW d \in Details, NEW info \in Infos
    PROVE  /\ WithUsed(d, info) \in Details /\ WithUsed(d, info).keptByBlock = d.keptByBlock
           /\ WithFailed(d, info) \in Details /\ WithFailed(d, info).keptByBlock = d.keptByBlock
<1>1. [d.maxUsedBlock EXCEPT !.height = 0] \in Infos
  BY DEF Details, Infos
<1>2. WithUsed(d, info) \in Details
  BY DEF WithUsed, Details, Infos
<1>3. WithFailed(d, info) \in Details
  BY <1>1, Zenon DEF WithFailed, Details, Infos
<1> QED BY <1>2, <1>3 DEF WithUsed, WithFailed, Details

\* A check by fill_block_template changes the two stored verdicts only.
LEMMA CheckedType ==
    ASSUME Inv, NEW t \in DOMAIN m_transactions
    PROVE  Checked(t) \in Details /\ Checked(t).keptByBlock = m_transactions[t].keptByBlock
<1> DEFINE d == m_transactions[t]
<1>1. d \in Details /\ t \in Txs /\ chain \in Seq(Blocks) /\ chain # <<>>
  BY DEF Inv, Consistent
<1>2. CASE KnownBroken(chain, d)
  BY <1>1, <1>2 DEF Checked
<1>3. CASE ~KnownBroken(chain, d) /\ InputsValid(chain, t)
  <2>1. MaxUsed(chain, t) \in Infos
    BY <1>1, <1>3, MaxUsedType
  <2>2. Checked(t) = WithUsed(d, MaxUsed(chain, t))
    BY <1>3 DEF Checked, WithUsed
  <2> QED BY <1>1, <2>1, <2>2, StoredType
<1>4. CASE ~KnownBroken(chain, d) /\ ~InputsValid(chain, t)
  <2>1. TailInfo(chain) \in Infos
    <3>1. Len(chain) \in Nat /\ Len(chain) > 0 /\ chain[Len(chain)] \in Blocks
      BY <1>1
    <3> QED BY <3>1 DEF TailInfo, Info, Infos
  <2>2. Checked(t) = WithFailed(d, TailInfo(chain))
    BY <1>4 DEF Checked, WithFailed
  <2> QED BY <1>1, <2>1, <2>2, StoredType
<1> QED BY <1>2, <1>3, <1>4

\* Time makes a transaction older and changes nothing else.
LEMMA OlderType ==
    ASSUME NEW d \in Details, NEW limit \in Nat
    PROVE  /\ [d EXCEPT !.age = Older(@, limit)] \in Details
           /\ [d EXCEPT !.age = Older(@, limit)].keptByBlock = d.keptByBlock
BY DEF Details, Older

\* removeExpiredTransactions keeps the record of deletions well formed.
LEMMA DeletedType ==
    ASSUME NEW f, Deletions(f), NEW S \in SUBSET Txs
    PROVE  Deletions(Deleted(f, S))
BY TimesAssumption DEF Deletions, Deleted

(***************************************************************************)
(* The invariant                                                           *)
(***************************************************************************)
\* A new node's pool and the file it does not have yet are consistent.
LEMMA InitInv == Init => Inv
<1> SUFFICES ASSUME Init PROVE Inv
  OBVIOUS
<1>1. chain \in Seq(Blocks) /\ chain # <<>>
  BY TreeAssumption DEF Init
<1>2. Consistent(m_transactions, m_spent_key_images, m_spentOutputs)
  BY EmptyConsistent DEF Init
<1>3. Consistent(file.transactions, file.images, file.outputs)
  BY EmptyConsistent DEF Init, EmptyPool
<1>4. Deletions(m_recentlyDeleted) /\ Deletions(file.deleted)
  BY DEF Init, EmptyPool, NoTransactions, Deletions
<1> QED BY <1>1, <1>2, <1>3, <1>4 DEF Init, Inv

\* removeTransactions leaves a consistent pool and no verdict of what it removes.
LEMMA RemoveInv ==
    ASSUME Inv, NEW S \in SUBSET DOMAIN m_transactions, removeTransactions(S)
    PROVE  /\ Consistent(m_transactions', m_spent_key_images', m_spentOutputs')
           /\ m_validated' \subseteq DOMAIN m_transactions'
<1>1. Consistent(m_transactions', m_spent_key_images', m_spentOutputs')
  BY RemoveConsistent DEF Inv, removeTransactions, Released
<1>2. DOMAIN m_transactions' = DOMAIN m_transactions \ S
  BY DEF removeTransactions, Without
<1> QED BY <1>1, <1>2 DEF Inv, removeTransactions

\* Every step keeps both pools consistent.
LEMMA NextInv == Inv /\ [Next]_vars => Inv'
<1> SUFFICES ASSUME Inv, [Next]_vars PROVE Inv'
  OBVIOUS
<1>1. ASSUME NEW t \in Txs, NEW kept \in BOOLEAN, add_tx(t, kept) PROVE Inv'
  <2>1. Entered(chain, t, kept) \in Details /\ Entered(chain, t, kept).keptByBlock = kept
    BY EnteredType DEF Inv
  <2>2. kept \/ /\ \A k \in Images[t] : m_spent_key_images[k] = {}
                /\ Msigs[t] \cap m_spentOutputs = {}
    BY <1>1 DEF add_tx, haveSpentInputs
  <2>3. Consistent(m_transactions, m_spent_key_images, m_spentOutputs) /\ t \notin DOMAIN m_transactions
    BY <1>1 DEF add_tx, Inv
  <2> DEFINE d == Entered(chain, t, kept)
  <2>4. Consistent(With(m_transactions, t, d), addTransactionInputs(m_spent_key_images, t),
                   IF d.keptByBlock THEN m_spentOutputs ELSE m_spentOutputs \cup Msigs[t])
    <3> HIDE DEF d
    <3>1. d \in Details /\ d.keptByBlock = kept
      BY <2>1 DEF d
    <3> QED BY <3>1, <2>2, <2>3, AddConsistent, ZenonT(30)
  <2>5. Consistent(m_transactions', m_spent_key_images', m_spentOutputs')
    BY <1>1, <2>1, <2>4 DEF add_tx
  <2>6. DOMAIN m_transactions \subseteq DOMAIN m_transactions'
    BY <1>1 DEF add_tx, With
  <2> QED BY <1>1, <2>5, <2>6 DEF add_tx, Inv
<1>2. ASSUME NEW b \in Blocks, AddBlock(b) PROVE Inv'
  <2>1. PICK S \in SUBSET DOMAIN m_transactions : removeTransactions(S)
    BY <1>2 DEF AddBlock
  <2>2. chain' = Branch[b] /\ UNCHANGED <<m_recentlyDeleted, file>>
    BY <1>2 DEF AddBlock
  <2>3. chain' \in Seq(Blocks) /\ chain' # <<>>
    BY <2>2, TreeAssumption
  <2> QED BY <2>1, <2>2, <2>3, RemoveInv DEF Inv
<1>3. ASSUME NEW b \in Blocks, NEW n \in 1 .. Len(Branch[b]) - 1, NEW S \in SUBSET Txs, RejectBlock(b, n, S)
      PROVE  Inv'
  <2>1. SubSeq(Branch[b], 1, n) \in Seq(Blocks)
    <3>1. Branch[b] \in Seq(Blocks) /\ Len(Branch[b]) \in Nat
      BY TreeAssumption
    <3>2. 1 \in 1 .. Len(Branch[b]) + 1 /\ n \in 1 - 1 .. Len(Branch[b])
      BY <3>1
    <3> QED BY <3>1, <3>2, SubSeqProperties
  <2>2. S \subseteq DOMAIN m_transactions /\ DOMAIN m_transactions' = DOMAIN m_transactions
    BY <1>3 DEF RejectBlock
  <2>3. \A t \in DOMAIN m_transactions \ S : m_transactions'[t] = m_transactions[t]
    BY <1>3 DEF RejectBlock
  <2>4. ASSUME NEW t \in S
        PROVE  m_transactions'[t] \in Details /\ m_transactions'[t].keptByBlock
    <3>1. m_transactions'[t] = Entered(SubSeq(Branch[b], 1, n), t, TRUE)
      BY <1>3, <2>2, Zenon DEF RejectBlock
    <3> QED BY <3>1, <2>1, EnteredType, Zenon
  <2>5. Consistent(m_transactions', m_spent_key_images, m_spentOutputs \ Released(S))
    BY <2>2, <2>3, <2>4, PutBackConsistent DEF Inv, Released
  <2> QED BY <1>3, <2>2, <2>5 DEF RejectBlock, Inv
<1>4. ASSUME get_difference PROVE Inv'
  BY <1>4 DEF get_difference, pool, Inv
<1>5. ASSUME fill_block_template PROVE Inv'
  <2>1. DOMAIN m_transactions' = DOMAIN m_transactions
    BY <1>5 DEF fill_block_template
  <2>2. \A t \in DOMAIN m_transactions : m_transactions'[t] \in {Checked(t), m_transactions[t]}
    BY <1>5 DEF fill_block_template
  <2>3. Consistent(m_transactions, m_spent_key_images, m_spentOutputs)
    BY DEF Inv
  <2>4. \A t \in DOMAIN m_transactions :
            m_transactions'[t] \in Details /\ m_transactions'[t].keptByBlock = m_transactions[t].keptByBlock
    BY <2>2, <2>3, CheckedType DEF Consistent
  <2>5. Consistent(m_transactions', m_spent_key_images, m_spentOutputs)
    BY <2>1, <2>3, <2>4, UpdateConsistent
  <2>6. m_validated' \subseteq DOMAIN m_transactions
    BY <1>5, Zenon DEF fill_block_template, Inv
  <2> QED BY <1>5, <2>1, <2>5, <2>6, ZenonT(30) DEF fill_block_template, Inv
<1>6. ASSUME Tick PROVE Inv'
  <2>1. DOMAIN m_transactions' = DOMAIN m_transactions
    BY <1>6 DEF Tick
  <2>2. Consistent(m_transactions, m_spent_key_images, m_spentOutputs)
    BY DEF Inv
  <2>3. ASSUME NEW t \in DOMAIN m_transactions
        PROVE  m_transactions'[t] \in Details /\ m_transactions'[t].keptByBlock = m_transactions[t].keptByBlock
    <3>1. m_transactions[t] \in Details
      BY <2>2 DEF Consistent
    <3>2. PICK limit \in Nat : m_transactions'[t] = [m_transactions[t] EXCEPT !.age = Older(@, limit)]
      BY <1>6, TimesAssumption DEF Tick
    <3> QED BY <3>1, <3>2, OlderType
  <2>4. Consistent(m_transactions', m_spent_key_images, m_spentOutputs)
    BY <2>1, <2>2, <2>3, UpdateConsistent
  <2>5. Deletions(m_recentlyDeleted')
    BY <1>6, TimesAssumption DEF Tick, Inv, Deletions, Older
  <2> QED BY <1>6, <2>1, <2>4, <2>5 DEF Tick, Inv
<1>7. ASSUME removeExpiredTransactions PROVE Inv'
  <2>1. Expired(m_transactions) \subseteq DOMAIN m_transactions
    BY DEF Expired
  <2>2. Expired(m_transactions) \subseteq Txs
    BY <2>1 DEF Inv, Consistent
  <2>3. Deletions(m_recentlyDeleted')
    BY <1>7, <2>2, DeletedType DEF removeExpiredTransactions, Inv
  <2>4. removeTransactions(Expired(m_transactions)) /\ UNCHANGED <<chain, file>>
    BY <1>7 DEF removeExpiredTransactions
  <2> QED BY <2>1, <2>3, <2>4, RemoveInv DEF Inv
<1>8. ASSUME NEW clean \in BOOLEAN, NEW readable \in BOOLEAN, Restart(clean, readable) PROVE Inv'
  <2> DEFINE f == IF ~readable THEN EmptyPool ELSE IF clean THEN Saved ELSE file
             gone == Expired(f.transactions)
  <2>1. Consistent(Saved.transactions, Saved.images, Saved.outputs) /\ Deletions(Saved.deleted)
    BY DEF Saved, Inv
  <2>2. Consistent(EmptyPool.transactions, EmptyPool.images, EmptyPool.outputs) /\ Deletions(EmptyPool.deleted)
    BY EmptyConsistent DEF EmptyPool, Deletions, NoTransactions
  <2>3. Consistent(file.transactions, file.images, file.outputs) /\ Deletions(file.deleted)
    BY DEF Inv
  <2>4. Consistent(f.transactions, f.images, f.outputs) /\ Deletions(f.deleted)
    BY <2>1, <2>2, <2>3
  <2>5. /\ file' = IF clean THEN Saved ELSE file
        /\ m_transactions' = Without(f.transactions, gone)
        /\ m_spent_key_images' = removeTransactionInputs(f.images, gone)
        /\ m_spentOutputs' = f.outputs \ UNION {Msigs[t] : t \in {t \in gone : ~f.transactions[t].keptByBlock}}
        /\ m_recentlyDeleted' = Deleted(f.deleted, gone)
        /\ m_validated' = {} /\ UNCHANGED chain
    BY <1>8 DEF Restart
  <2>6. Consistent(file'.transactions, file'.images, file'.outputs) /\ Deletions(file'.deleted)
    BY <2>1, <2>3, <2>5
  <2> HIDE DEF f
  <2>7. gone \subseteq DOMAIN f.transactions /\ gone \subseteq Txs
    BY <2>4 DEF Expired, Consistent
  <2> HIDE DEF gone
  <2>8. Consistent(m_transactions', m_spent_key_images', m_spentOutputs')
    BY <2>4, <2>5, <2>7, RemoveConsistent
  <2>9. Deletions(m_recentlyDeleted')
    BY <2>4, <2>5, <2>7, DeletedType
  <2> QED BY <2>5, <2>6, <2>8, <2>9 DEF Inv
<1>9. CASE UNCHANGED vars
  BY <1>9 DEF vars, pool, Inv
<1> QED BY <1>1, <1>2, <1>3, <1>4, <1>5, <1>6, <1>7, <1>8, <1>9 DEF Next

\* The invariant holds in every reachable state.
THEOREM Invariance == Spec => []Inv
BY InitInv, NextInv, PTL DEF Spec

\* The types of the pool, for every instance.
THEOREM TypeCorrect == Spec => []TypeOK
<1>1. Inv => TypeOK
  <2> SUFFICES ASSUME Inv PROVE TypeOK
    OBVIOUS
  <2>1. m_spentOutputs \subseteq MsigOutputs
    BY InputsAssumption DEF Inv, Consistent, Relayed
  <2> QED BY <2>1 DEF Inv, TypeOK, Consistent, Deletions
<1> QED BY <1>1, Invariance, PTL

\* m_spent_key_images and m_spentOutputs describe exactly the pool's transactions, for
\* every instance: neither blocks refused half-way nor expiry, crashes and reloads of
\* an older file leave an entry behind or lose one.
THEOREM InputsExact == Spec => []SpentInputsExact
<1>1. Inv => SpentInputsExact
  BY DEF Inv, SpentInputsExact, Consistent, Relayed
<1> QED BY <1>1, Invariance, PTL

\* No two relayed transactions of the pool spend the same input, for every instance.
THEOREM RelayedNeverConflict == Spec => []RelayedDisjoint
<1>1. Inv => RelayedDisjoint
  BY DEF Inv, RelayedDisjoint, Consistent, Relayed, Disjoint
<1> QED BY <1>1, Invariance, PTL

(***************************************************************************)
(* Block templates.  TemplateTxs is a fold over FeeOrder; what holds of it *)
(* is proved by induction over the places of FeeOrder.                     *)
(***************************************************************************)
\* Well-founded induction in the form the provers can use: a set of natural numbers that is
\* not empty has a least element.
LEMMA MinimalElement ==
    ASSUME NEW R, IsWellFoundedOn(R, Nat), NEW T, T \subseteq Nat, T # {}
    PROVE  \E m \in T : \A k \in T : ~(<<k, m>> \in R)
BY WFMin, Zenon

\* An element of a set of numbers that has none of the set before it is its least.
LEMMA MinimalIsLeast ==
    ASSUME NEW R, \A x, y \in Nat : x < y => <<x, y>> \in R, NEW T, T \subseteq Nat,
           NEW m \in T, \A k \in T : ~(<<k, m>> \in R)
    PROVE  \A k \in T : m <= k
<1> TAKE k \in T
<1>1. k \in Nat /\ m \in Nat
  OBVIOUS
<1>2. ~(k < m)
  BY <1>1, Zenon
<1> QED BY <1>1, <1>2

\* A set of numbers that is not empty has a least element.
LEMMA LeastElement ==
    ASSUME NEW T, T \subseteq Nat, T # {}
    PROVE  \E m \in T : \A k \in T : m <= k
<1>1. \A x, y \in Nat : x < y => <<x, y>> \in OpToRel(<, Nat)
  BY DEF OpToRel
<1>2. \E m \in T : \A k \in T : ~(<<k, m>> \in OpToRel(<, Nat))
  BY MinimalElement, NatLessThanWellFounded, Zenon
<1> QED BY <1>1, <1>2, MinimalIsLeast, Zenon

\* A set that has 0, and with a number its successor, has all natural numbers.
LEMMA Induction ==
    ASSUME NEW P, 0 \in P, \A n \in Nat : n \in P => n + 1 \in P
    PROVE  Nat \subseteq P
<1> SUFFICES ASSUME Nat \ P # {} PROVE FALSE
  OBVIOUS
<1>1. PICK m \in Nat \ P : \A k \in Nat \ P : m <= k
  BY LeastElement, Zenon
<1>2. m - 1 \in Nat /\ (m - 1) + 1 = m
  BY <1>1
<1>3. m - 1 \in P
  BY <1>1, <1>2
<1> QED BY <1>1, <1>2, <1>3

\* The largest of the places 1 .. n + 1, and of the first n.
LEMMA LastPlace ==
    ASSUME NEW n \in Nat, NEW s \in SUBSET (1 .. n + 1), n + 1 \in s
    PROVE  Max(s) = n + 1
<1>1. \A y \in s : n + 1 >= y
  OBVIOUS
<1>2. \A x \in s : (\A y \in s : x >= y) => x = n + 1
  OBVIOUS
<1> QED BY <1>1, <1>2, ZenonT(30) DEF Max

\* The template after the transactions at the places s of FeeOrder, as FoldLeft builds it.
Template(g, n) ==
    g = [s \in SUBSET (1 .. n) |-> IF s = {} THEN <<>> ELSE Filled(g[s \ {Max(s)}], FeeOrder[Max(s)])]

\* The function that fills the template from so many transactions extends to one more.
LEMMA TemplateGrows ==
    ASSUME NEW n \in Nat, NEW g, Template(g, n)
    PROVE  \E h : Template(h, n + 1)
<1> DEFINE h == [s \in SUBSET (1 .. n + 1) |->
                    IF n + 1 \in s THEN Filled(g[s \ {n + 1}], FeeOrder[n + 1]) ELSE g[s]]
<1>1. ASSUME NEW s \in SUBSET (1 .. n + 1)
      PROVE  h[s] = IF s = {} THEN <<>> ELSE Filled(h[s \ {Max(s)}], FeeOrder[Max(s)])
  <2>1. CASE n + 1 \in s
    <3>1. Max(s) = n + 1
      BY <2>1, LastPlace
    <3>2. s \ {n + 1} \in SUBSET (1 .. n + 1) /\ n + 1 \notin s \ {n + 1}
      OBVIOUS
    <3>3. h[s \ {n + 1}] = g[s \ {n + 1}]
      BY <3>2
    <3> QED BY <2>1, <3>1, <3>3
  <2>2. CASE n + 1 \notin s
    <3>1. s \in SUBSET (1 .. n) /\ h[s] = g[s]
      BY <2>2
    <3>2. s \ {Max(s)} \in SUBSET (1 .. n + 1) /\ n + 1 \notin s \ {Max(s)}
      BY <3>1, <2>2, ZenonT(30)
    <3>3. h[s \ {Max(s)}] = g[s \ {Max(s)}]
      BY <3>2
    <3>4. g[s] = IF s = {} THEN <<>> ELSE Filled(g[s \ {Max(s)}], FeeOrder[Max(s)])
      BY <3>1, Zenon DEF Template
    <3> QED BY <3>1, <3>3, <3>4, Zenon
  <2> QED BY <2>1, <2>2
<1>2. h = [s \in SUBSET (1 .. n + 1) |-> h[s]]
  OBVIOUS
<1> HIDE DEF h
<1>3. Template(h, n + 1)
  BY <1>1, <1>2, Zenon DEF Template
<1> QED BY <1>3, Zenon

\* FoldLeft's function is well defined.
LEMMA TemplateExists == \A n \in Nat : \E g : Template(g, n)
<1> DEFINE P == {n \in Nat : \E g : Template(g, n)}
<1>1. 0 \in P
  <2>1. Template([s \in SUBSET (1 .. 0) |-> <<>>], 0)
    <3>1. SUBSET (1 .. 0) = {{}}
      OBVIOUS
    <3> QED BY <3>1 DEF Template
  <2> QED BY <2>1
<1>2. \A n \in Nat : n \in P => n + 1 \in P
  BY TemplateGrows
<1> HIDE DEF P
<1>3. Nat \subseteq P
  BY <1>1, <1>2, Induction
<1> QED BY <1>3 DEF P

Built(k) ==
    (CHOOSE g : Template(g, Len(FeeOrder)))[1 .. k]

\* fill_block_template, transaction by transaction in the order of fees.
LEMMA TemplateByFees ==
    /\ TemplateTxs = Built(Len(FeeOrder))
    /\ Built(0) = <<>>
    /\ \A k \in 1 .. Len(FeeOrder) : Built(k) = Filled(Built(k - 1), FeeOrder[k])
<1> DEFINE g == CHOOSE g : Template(g, Len(FeeOrder))
<1>1. Len(FeeOrder) \in Nat /\ DOMAIN FeeOrder = 1 .. Len(FeeOrder)
  BY InputsAssumption
<1>2. Template(g, Len(FeeOrder))
  BY <1>1, TemplateExists, Zenon
<1>3. TemplateTxs = Built(Len(FeeOrder))
  BY <1>1, Zenon DEF TemplateTxs, FoldLeft, MapThenFoldSet, Built, Template
<1> HIDE DEF g
<1>4. \A k : Built(k) = g[1 .. k]
  BY DEF Built, g
<1>5. \A s \in SUBSET (1 .. Len(FeeOrder)) :
         g[s] = IF s = {} THEN <<>> ELSE Filled(g[s \ {Max(s)}], FeeOrder[Max(s)])
  BY <1>2, Zenon DEF Template
<1>6. Built(0) = <<>>
  <2>1. 1 .. 0 = {} /\ {} \in SUBSET (1 .. Len(FeeOrder))
    OBVIOUS
  <2> QED BY <1>4, <1>5, <2>1, Zenon
<1>7. ASSUME NEW k \in 1 .. Len(FeeOrder) PROVE Built(k) = Filled(Built(k - 1), FeeOrder[k])
  <2>1. k - 1 \in Nat /\ (k - 1) + 1 = k /\ k \in 1 .. k /\ 1 .. k \in SUBSET (1 .. Len(FeeOrder))
    BY <1>1
  <2>2. Max(1 .. k) = k
    BY <2>1, LastPlace, ZenonT(30)
  <2>3. (1 .. k) \ {k} = 1 .. k - 1
    BY <2>1
  <2>4. g[1 .. k] = Filled(g[(1 .. k) \ {Max(1 .. k)}], FeeOrder[Max(1 .. k)])
    BY <1>5, <2>1, Zenon
  <2> QED BY <1>4, <2>2, <2>3, <2>4, Zenon
<1> QED BY <1>3, <1>6, <1>7, Zenon

\* What holds of a template at every stage: its transactions are the pool's and ready, and
\* no two of them spend the same input.
SoundTemplate(txs) ==
    /\ txs \in Seq(Txs)
    /\ \A i \in 1 .. Len(txs) : txs[i] \in DOMAIN m_transactions /\ Ready(txs[i])
    /\ \A i, j \in 1 .. Len(txs) : i # j => Disjoint(txs[i], txs[j])

\* BlockTemplate::addTransaction keeps it so.
LEMMA FilledSound ==
    ASSUME NEW txs, SoundTemplate(txs), NEW t \in Txs
    PROVE  SoundTemplate(Filled(txs, t))
<1>1. CASE Filled(txs, t) = txs
  BY <1>1
<1>2. CASE Filled(txs, t) # txs
  <2> DEFINE more == Append(txs, t)
  <2>1. more = Filled(txs, t) /\ t \in DOMAIN m_transactions /\ Ready(t) /\ canAdd(txs, t)
    BY <1>2, Zenon DEF Filled
  <2>2. txs \in Seq(Txs) /\ Len(txs) \in Nat
    BY DEF SoundTemplate
  <2>3. /\ more \in Seq(Txs) /\ Len(more) = Len(txs) + 1
        /\ \A i \in 1 .. Len(txs) : more[i] = txs[i]
        /\ more[Len(txs) + 1] = t
    BY <2>2
  <2> HIDE DEF more
  <2>4. \A i \in 1 .. Len(txs) : Disjoint(t, txs[i]) /\ Disjoint(txs[i], t)
    BY <2>1 DEF canAdd, Disjoint
  <2>5. \A i \in 1 .. Len(more) : i \in 1 .. Len(txs) \/ i = Len(txs) + 1
    BY <2>2, <2>3
  <2>6. \A i \in 1 .. Len(more) : more[i] \in DOMAIN m_transactions /\ Ready(more[i])
    BY <2>1, <2>3, <2>5, Zenon DEF SoundTemplate
  <2>7. \A i, j \in 1 .. Len(more) : i # j => Disjoint(more[i], more[j])
    BY <2>3, <2>4, <2>5, Zenon DEF SoundTemplate
  <2> QED BY <2>1, <2>3, <2>6, <2>7, Zenon DEF SoundTemplate
<1> QED BY <1>1, <1>2, Zenon

\* fill_block_template's whole template is sound.
LEMMA TemplateTxsSound == SoundTemplate(TemplateTxs)
<1> DEFINE P == {k \in Nat : k <= Len(FeeOrder) => SoundTemplate(Built(k))}
<1>1. Len(FeeOrder) \in Nat /\ \A k \in 1 .. Len(FeeOrder) : FeeOrder[k] \in Txs
  BY InputsAssumption
<1>2. 0 \in P
  <2>1. SoundTemplate(<<>>)
    BY DEF SoundTemplate
  <2> QED BY <2>1, TemplateByFees
<1>3. ASSUME NEW k \in Nat, k \in P PROVE k + 1 \in P
  <2> SUFFICES ASSUME k + 1 <= Len(FeeOrder) PROVE SoundTemplate(Built(k + 1))
    OBVIOUS
  <2>1. k + 1 \in 1 .. Len(FeeOrder) /\ (k + 1) - 1 = k /\ SoundTemplate(Built(k))
    BY <1>1, <1>3
  <2>2. Built(k + 1) = Filled(Built(k), FeeOrder[k + 1])
    BY <2>1, TemplateByFees
  <2> QED BY <1>1, <2>1, <2>2, FilledSound
<1> HIDE DEF P
<1>4. Nat \subseteq P
  BY <1>2, <1>3, Induction
<1> QED BY <1>1, <1>4, TemplateByFees DEF P

\* m_validated_transactions has no transaction of the chain: addNewBlock takes out what it mines.
ValidatedUnmined == m_validated \cap TxsIn(chain) = {}

\* A transaction the chain has is not ready: its inputs are spent there.
LEMMA MinedNotReady ==
    ASSUME ValidatedUnmined, NEW t \in Txs, Ready(t)
    PROVE  t \notin TxsIn(chain)
<1> SUFFICES ASSUME t \in TxsIn(chain), InputsValid(chain, t) PROVE FALSE
  BY DEF Ready, is_transaction_ready_to_go, ValidatedUnmined
<1>1. Images[t] \cap Images[t] # {} \/ Msigs[t] \cap Msigs[t] # {}
  BY InputsAssumption, ZenonT(30)
<1> QED BY <1>1 DEF InputsValid, SpentIn

\* Every step keeps the mined transactions out of the cache.
LEMMA NextUnmined == Inv /\ ValidatedUnmined /\ [Next]_vars => ValidatedUnmined'
<1> SUFFICES ASSUME Inv, ValidatedUnmined, [Next]_vars PROVE ValidatedUnmined'
  OBVIOUS
<1>1. DOMAIN m_transactions \subseteq Txs
  BY DEF Inv, Consistent
<1>2. ASSUME UNCHANGED chain, m_validated' \subseteq m_validated PROVE ValidatedUnmined'
  BY <1>2 DEF ValidatedUnmined, TxsIn
<1>3. ASSUME UNCHANGED chain, \A t \in m_validated' : t \in m_validated \/ (t \in Txs /\ Ready(t))
      PROVE  ValidatedUnmined'
  <2>1. TxsIn(chain)' = TxsIn(chain)
    BY <1>3 DEF TxsIn
  <2> QED BY <1>3, <2>1, MinedNotReady DEF ValidatedUnmined
<1>4. ASSUME NEW t \in Txs, NEW kept \in BOOLEAN, add_tx(t, kept) PROVE ValidatedUnmined'
  BY <1>2, <1>4 DEF add_tx
<1>5. ASSUME NEW b \in Blocks, AddBlock(b) PROVE ValidatedUnmined'
  <2> DEFINE new == TxsIn(Branch[b]) \ TxsIn(chain)
  <2>1. chain' = Branch[b] /\ m_validated' = m_validated \ new
    BY <1>5 DEF AddBlock, removeTransactions
  <2>2. TxsIn(chain)' = TxsIn(Branch[b])
    BY <2>1 DEF TxsIn
  <2> QED BY <2>1, <2>2 DEF ValidatedUnmined
<1>6. ASSUME NEW b \in Blocks, NEW n \in 1 .. Len(Branch[b]) - 1, NEW S \in SUBSET Txs, RejectBlock(b, n, S)
      PROVE  ValidatedUnmined'
  BY <1>2, <1>6 DEF RejectBlock
<1>7. ASSUME get_difference PROVE ValidatedUnmined'
  BY <1>1, <1>3, <1>7 DEF get_difference
<1>8. ASSUME fill_block_template PROVE ValidatedUnmined'
  <2>1. \A t \in m_validated' : t \in m_validated \/ (t \in DOMAIN m_transactions /\ Ready(t))
    BY <1>8, Zenon DEF fill_block_template
  <2> QED BY <1>1, <1>3, <1>8, <2>1, ZenonT(30) DEF fill_block_template
<1>9. ASSUME Tick PROVE ValidatedUnmined'
  BY <1>2, <1>9 DEF Tick
<1>10. ASSUME removeExpiredTransactions PROVE ValidatedUnmined'
  BY <1>2, <1>10 DEF removeExpiredTransactions, removeTransactions
<1>11. ASSUME NEW clean \in BOOLEAN, NEW readable \in BOOLEAN, Restart(clean, readable) PROVE ValidatedUnmined'
  BY <1>11 DEF Restart, ValidatedUnmined
<1>12. CASE UNCHANGED vars
  BY <1>2, <1>12 DEF vars
<1> QED BY <1>4, <1>5, <1>6, <1>7, <1>8, <1>9, <1>10, <1>11, <1>12 DEF Next

\* Whatever the pool holds and the cache remembers, what fill_block_template takes can be
\* mined together, and the chain has none of it, for every pool, every fee order and every
\* size limit.
THEOREM TemplatesSound == Spec => []TemplateSound
<1>1. Init => ValidatedUnmined
  BY DEF Init, ValidatedUnmined
<1>2. Spec => []ValidatedUnmined
  BY <1>1, NextUnmined, Invariance, PTL DEF Spec
<1>3. Inv /\ ValidatedUnmined => TemplateSound
  <2> SUFFICES ASSUME Inv, ValidatedUnmined PROVE TemplateSound
    OBVIOUS
  <2>1. SoundTemplate(TemplateTxs)
    BY TemplateTxsSound
  <2>2. TemplateSpendsOnce
    BY <2>1, Zenon DEF SoundTemplate, TemplateSpendsOnce, Disjoint
  <2>3. ASSUME NEW t \in Range(TemplateTxs) PROVE t \notin TxsIn(chain)
    <3>1. PICK i \in 1 .. Len(TemplateTxs) : t = TemplateTxs[i]
      BY <2>1 DEF Range, SoundTemplate
    <3>2. t \in Txs /\ Ready(t)
      BY <2>1, <3>1 DEF SoundTemplate
    <3> QED BY <3>2, MinedNotReady
  <2> QED BY <2>2, <2>3 DEF TemplateSound, NoMinedInTemplate
<1> QED BY <1>2, <1>3, Invariance, PTL
=============================================================================
