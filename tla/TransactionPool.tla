-------------------------- MODULE TransactionPool ---------------------------
(***************************************************************************)
(* tx_memory_pool (DynexCNCore/TransactionPool.cpp) over a chain that      *)
(* grows and switches: admission, the indices of spent inputs, expiry, the *)
(* cached verdicts, block templates, and the file the pool is kept in      *)
(* between runs of the node.                                               *)
(*                                                                         *)
(* Every operation runs under the pool's lock, add_new_tx and addNewBlock  *)
(* under the chain's too, so each is one step.  Times are kept as ages,    *)
(* which stop growing when they no longer make a difference.  Each         *)
(* transaction spends outputs of one block; a check that fails leaves      *)
(* maxUsedBlock.height at 0, as it fails before the height is stored.      *)
(***************************************************************************)
EXTENDS Integers, Sequences, FiniteSets, SequencesExt

CONSTANTS
    Blocks, Txs, KeyImages, MsigOutputs,
    Genesis,
    Branch,        \* the blocks from genesis to a block, both included
    BlockTxs,      \* Block::transactionHashes
    Images,        \* the key images a transaction spends
    Msigs,         \* the multisignature outputs it spends
    Source,        \* the block whose outputs it spends
    FeeOrder,      \* those whose fee suffices, by TransactionPriorityComparator
    BlobSize,
    SizeLimit,     \* of a template that has the transaction: smaller for a zero fee
    LiveTime,      \* mempoolTxLiveTime
    AltLiveTime,   \* mempoolTxFromAltBlockLiveTime
    ForgetTime     \* numberOfPeriodsToForgetTxDeletedFromPool * mempoolTxLiveTime

None == [height |-> 0, id |-> "NULL_HASH"]
Info(h, b) == [height |-> h, id |-> b]

ASSUME TreeAssumption ==
    /\ Genesis \in Blocks
    /\ Branch \in [Blocks -> Seq(Blocks)]
    /\ \A b \in Blocks : Len(Branch[b]) > 0 /\ Branch[b][1] = Genesis
    /\ BlockTxs \in [Blocks -> Seq(Txs)]

ASSUME InputsAssumption ==
    /\ Images \in [Txs -> SUBSET KeyImages]
    /\ Msigs \in [Txs -> SUBSET MsigOutputs]
    /\ \A t \in Txs : Images[t] \cup Msigs[t] # {}   \* check_tx_semantic: "tx with empty inputs"
    /\ Source \in [Txs -> Blocks]
    /\ FeeOrder \in Seq(Txs)
    /\ BlobSize \in [Txs -> Nat] /\ SizeLimit \in [Txs -> Nat]

ASSUME TimesAssumption ==
    LiveTime \in Nat /\ AltLiveTime \in Nat /\ ForgetTime \in Nat

VARIABLES
    chain,               \* the main chain's blocks
    m_transactions,      \* the pool: transactions to their TransactionDetails
    m_spent_key_images,
    m_spentOutputs,
    m_recentlyDeleted,   \* m_recentlyDeletedTransactions, with the age of the deletion
    m_validated,         \* m_validated_transactions
    file                 \* the pool file

pool == <<m_transactions, m_spent_key_images, m_spentOutputs, m_recentlyDeleted>>
vars == <<chain, pool, m_validated, file>>

Details == [keptByBlock : BOOLEAN, age : Nat, maxUsedBlock : [height : Nat, id : Blocks \cup {"NULL_HASH"}],
            lastFailedBlock : [height : Nat, id : Blocks \cup {"NULL_HASH"}]]

TypeOK ==
    /\ chain \in Seq(Blocks)
    /\ DOMAIN m_transactions \subseteq Txs
    /\ \A t \in DOMAIN m_transactions : m_transactions[t] \in Details
    /\ m_spent_key_images \in [KeyImages -> SUBSET Txs]
    /\ m_spentOutputs \subseteq MsigOutputs
    /\ DOMAIN m_recentlyDeleted \subseteq Txs
    /\ \A t \in DOMAIN m_recentlyDeleted : m_recentlyDeleted[t] \in 0 .. ForgetTime + 1
    /\ m_validated \subseteq DOMAIN m_transactions

NoTransactions == [t \in {} |-> 0]
EmptyPool ==
    [transactions |-> NoTransactions, images |-> [k \in KeyImages |-> {}], outputs |-> {}, deleted |-> NoTransactions]

\* A new node: no pool file, only the genesis block.
Init ==
    /\ chain = <<Genesis>>
    /\ m_transactions = NoTransactions
    /\ m_spent_key_images = [k \in KeyImages |-> {}]
    /\ m_spentOutputs = {}
    /\ m_recentlyDeleted = NoTransactions
    /\ m_validated = {}
    /\ file = EmptyPool

(***************************************************************************)
(* What the chain says of a transaction                                    *)
(***************************************************************************)
TxsIn(c) == UNION {Range(BlockTxs[c[i]]) : i \in 1 .. Len(c)}
SpentIn(c, t) == \E u \in TxsIn(c) : Images[t] \cap Images[u] # {} \/ Msigs[t] \cap Msigs[u] # {}
HeightIn(c, b) == CHOOSE h \in 0 .. Len(c) - 1 : c[h + 1] = b

\* Blockchain::checkTransactionInputs on the chain c.
InputsValid(c, t) == Source[t] \in Range(c) /\ ~SpentIn(c, t)
MaxUsed(c, t) == Info(HeightIn(c, Source[t]), Source[t])
TailInfo(c) == Info(Len(c) - 1, c[Len(c)])
IdAt(c, h) == IF h < Len(c) THEN c[h + 1] ELSE "NULL_HASH"

\* checkTransactionInputs(tx, maxUsedBlock, lastFailed): whether it skips the check
\* and answers false from what is stored with the transaction.
KnownBroken(c, d) ==
    IF d.maxUsedBlock.id = "NULL_HASH"
    THEN /\ d.lastFailedBlock.id # "NULL_HASH"
         /\ Len(c) > d.lastFailedBlock.height
         /\ IdAt(c, d.lastFailedBlock.height) = d.lastFailedBlock.id
    ELSE \/ d.maxUsedBlock.height >= Len(c)
         \/ /\ IdAt(c, d.maxUsedBlock.height) # d.maxUsedBlock.id
            /\ d.lastFailedBlock.id = IdAt(c, d.lastFailedBlock.height)

\* Mutant: a stored maxUsedBlock counts as a verdict.
readyOnceChecked(t) ==
    /\ ~KnownBroken(chain, m_transactions[t])
    /\ m_transactions[t].maxUsedBlock.id # "NULL_HASH" \/ InputsValid(chain, t)

is_transaction_ready_to_go(t) == ~KnownBroken(chain, m_transactions[t]) /\ InputsValid(chain, t)

\* What the check leaves in the transaction's details.
Checked(t) ==
    LET d == m_transactions[t] IN
    IF KnownBroken(chain, d) THEN d
    ELSE IF InputsValid(chain, t) THEN [d EXCEPT !.maxUsedBlock = MaxUsed(chain, t)]
    ELSE [d EXCEPT !.maxUsedBlock.height = 0, !.lastFailedBlock = TailInfo(chain)]

(***************************************************************************)
(* The indices of the inputs                                               *)
(***************************************************************************)
\* Mutant: only inputs of transactions kept by a block count as spent.
haveSpentByBlocks(t) ==
    \E k \in Images[t] : \E u \in m_spent_key_images[k] : m_transactions[u].keptByBlock

haveSpentInputs(t) ==
    \/ \E k \in Images[t] : m_spent_key_images[k] # {}
    \/ Msigs[t] \cap m_spentOutputs # {}

addTransactionInputs(images, t) ==
    [k \in KeyImages |-> IF k \in Images[t] THEN images[k] \cup {t} ELSE images[k]]

removeTransactionInputs(images, S) == [k \in KeyImages |-> images[k] \ S]

\* Mutant: the outputs of transactions kept by a block are released too.
ReleasedOfAll(S) == UNION {Msigs[t] : t \in S}

\* Only transactions that did not come with a block hold their multisignature outputs.
Released(S) == UNION {Msigs[t] : t \in {t \in S : ~m_transactions[t].keptByBlock}}

Without(f, S) == [t \in DOMAIN f \ S |-> f[t]]
With(f, t, d) == [u \in DOMAIN f \cup {t} |-> IF u = t THEN d ELSE f[u]]

Entered(c, t, kept) ==
    [keptByBlock |-> kept, age |-> 0, lastFailedBlock |-> None,
     maxUsedBlock |-> IF InputsValid(c, t) THEN MaxUsed(c, t) ELSE None]

\* removeTransaction for each member of S.
removeTransactions(S) ==
    /\ m_transactions' = Without(m_transactions, S)
    /\ m_spent_key_images' = removeTransactionInputs(m_spent_key_images, S)
    /\ m_spentOutputs' = m_spentOutputs \ Released(S)
    /\ m_validated' = m_validated \ S

(***************************************************************************)
(* Operations                                                              *)
(***************************************************************************)
\* core::add_new_tx and add_tx.
add_tx(t, kept) ==
    /\ t \notin TxsIn(chain)
    /\ t \notin DOMAIN m_transactions
    /\ kept \/ /\ ~haveSpentInputs(t)
               /\ InputsValid(chain, t)
               /\ t \notin DOMAIN m_recentlyDeleted
    /\ m_transactions' = With(m_transactions, t, Entered(chain, t, kept))
    /\ m_spent_key_images' = addTransactionInputs(m_spent_key_images, t)
    /\ m_spentOutputs' = IF kept THEN m_spentOutputs ELSE m_spentOutputs \cup Msigs[t]
    /\ UNCHANGED <<chain, m_recentlyDeleted, m_validated, file>>

\* addNewBlock as far as the pool sees it.  c is the chain the block makes: one block
\* longer, or a longer branch that has all the transactions of the blocks it replaces.
\* What those blocks give back to the pool the new ones take out again.
AddBlock(b) ==
    LET c == Branch[b]
        new == TxsIn(c) \ TxsIn(chain)
    IN  /\ Len(c) > Len(chain)
        /\ TxsIn(chain) \subseteq TxsIn(c)
        /\ new \subseteq DOMAIN m_transactions
        /\ \A i \in 1 .. Len(c) : \A t \in Range(BlockTxs[c[i]]) : InputsValid(SubSeq(c, 1, i - 1), t)
        /\ chain' = c
        /\ removeTransactions(new)
        /\ UNCHANGED <<m_recentlyDeleted, file>>

\* A block that is refused, by itself or in a switch that fails: the pool's
\* transactions S that were taken out for it (loadTransactions) come back as kept by
\* a block (saveTransactions), checked against the chain of that moment.
RejectBlock(b, n, S) ==
    /\ Branch[b] # chain /\ n < Len(Branch[b])
    /\ S # {} /\ S \subseteq DOMAIN m_transactions
    /\ S \subseteq TxsIn(SubSeq(Branch[b], n + 1, Len(Branch[b])))
    /\ SubSeq(Branch[b], 1, n) = chain \/ Len(Branch[b]) > Len(chain)
    /\ m_transactions' = [t \in DOMAIN m_transactions |->
           IF t \in S THEN Entered(SubSeq(Branch[b], 1, n), t, TRUE) ELSE m_transactions[t]]
    /\ m_spentOutputs' = m_spentOutputs \ Released(S)
    /\ m_validated' = m_validated \ S
    /\ UNCHANGED <<chain, m_spent_key_images, m_recentlyDeleted, file>>

Ready(t) == t \in m_validated \/ is_transaction_ready_to_go(t)

\* get_difference enters what it finds ready into the cache.
get_difference ==
    /\ m_validated' = {t \in DOMAIN m_transactions : Ready(t)}
    /\ UNCHANGED <<chain, pool, file>>

\* BlockTemplate::canAdd
canAdd(txs, t) ==
    \A i \in 1 .. Len(txs) : Images[t] \cap Images[txs[i]] = {} /\ Msigs[t] \cap Msigs[txs[i]] = {}

TotalSize(txs) == FoldLeft(LAMBDA s, t : s + BlobSize[t], 0, txs)
Fits(txs, t) == TotalSize(txs) + BlobSize[t] <= SizeLimit[t]

\* BlockTemplate::addTransaction, for a transaction fill_block_template considers, ...
Filled(txs, t) ==
    IF t \in DOMAIN m_transactions /\ Fits(txs, t) /\ Ready(t) /\ canAdd(txs, t) THEN Append(txs, t) ELSE txs

\* ... in order of their fee, and with the room that is left when it comes to them.
TemplateTxs == FoldLeft(Filled, <<>>, FeeOrder)

\* The template itself goes to the caller; the pool keeps the verdicts, but those on the
\* transactions passed over for their size.
fill_block_template ==
    LET txs == TemplateTxs
        considered == {FeeOrder[i] : i \in {i \in 1 .. Len(FeeOrder) :
                           /\ FeeOrder[i] \in DOMAIN m_transactions
                           /\ Fits(SelectSeq(txs, LAMBDA u : u \in Range(SubSeq(FeeOrder, 1, i - 1))), FeeOrder[i])}}
    IN  /\ m_validated' = m_validated \cup {t \in considered : Ready(t)}
        /\ m_transactions' = [t \in DOMAIN m_transactions |->
               IF t \in considered \ m_validated THEN Checked(t) ELSE m_transactions[t]]
        /\ UNCHANGED <<chain, m_spent_key_images, m_spentOutputs, m_recentlyDeleted, file>>

Older(a, limit) == IF a > limit THEN a ELSE a + 1

Tick ==
    /\ m_transactions' = [t \in DOMAIN m_transactions |->
           [m_transactions[t] EXCEPT !.age =
               Older(@, IF m_transactions[t].keptByBlock THEN AltLiveTime ELSE LiveTime)]]
    /\ m_recentlyDeleted' = [t \in DOMAIN m_recentlyDeleted |-> Older(m_recentlyDeleted[t], ForgetTime)]
    /\ UNCHANGED <<chain, m_spent_key_images, m_spentOutputs, m_validated, file>>

\* Mutant: a transaction kept by a block never grows old.
ExpiredRelayed(txs) == {t \in DOMAIN txs : ~txs[t].keptByBlock /\ txs[t].age > LiveTime}

Expired(txs) ==
    {t \in DOMAIN txs : txs[t].age > IF txs[t].keptByBlock THEN AltLiveTime ELSE LiveTime}

\* emplace keeps the time of an earlier deletion that is not forgotten yet.
Deleted(deleted, S) ==
    LET kept == {t \in DOMAIN deleted : deleted[t] <= ForgetTime} IN
    [t \in kept \cup S |-> IF t \in kept THEN deleted[t] ELSE 0]

removeExpiredTransactions ==
    /\ removeTransactions(Expired(m_transactions))
    /\ m_recentlyDeleted' = Deleted(m_recentlyDeleted, Expired(m_transactions))
    /\ UNCHANGED <<chain, file>>

Saved ==
    [transactions |-> m_transactions, images |-> m_spent_key_images, outputs |-> m_spentOutputs,
     deleted |-> m_recentlyDeleted]

\* deinit (only a clean exit gets there) and init of the next run, which loads the
\* file, if it can be read, and removes what has expired.  The node may be down for
\* any time; the ages in the file then tell.
Restart(clean, readable) ==
    LET f == IF ~readable THEN EmptyPool ELSE IF clean THEN Saved ELSE file
        gone == Expired(f.transactions)
    IN  /\ file' = IF clean THEN Saved ELSE file
        /\ m_transactions' = Without(f.transactions, gone)
        /\ m_spent_key_images' = removeTransactionInputs(f.images, gone)
        /\ m_spentOutputs' =
               f.outputs \ UNION {Msigs[t] : t \in {t \in gone : ~f.transactions[t].keptByBlock}}
        /\ m_recentlyDeleted' = Deleted(f.deleted, gone)
        /\ m_validated' = {}
        /\ UNCHANGED chain

Next ==
    \/ \E t \in Txs, kept \in BOOLEAN : add_tx(t, kept)
    \/ \E b \in Blocks : AddBlock(b)
    \/ \E b \in Blocks : \E n \in 1 .. Len(Branch[b]) - 1 : \E S \in SUBSET Txs : RejectBlock(b, n, S)
    \/ get_difference
    \/ fill_block_template
    \/ Tick
    \/ removeExpiredTransactions
    \/ \E clean, readable \in BOOLEAN : Restart(clean, readable)

Spec == Init /\ [][Next]_vars

\* Time passes, and the idle handler of the protocol calls on_idle again and again.
FairSpec == Spec /\ WF_vars(Tick) /\ WF_vars(removeExpiredTransactions)
(***************************************************************************)
(* Properties                                                              *)
(***************************************************************************)
\* m_spent_key_images names, for each key image, exactly the pool's transactions that
\* spend it, and m_spentOutputs has exactly the multisignature outputs of those not kept
\* by a block, after any blocks, refusals, expiries and restarts (the asserts of
\* addTransactionInputs and removeTransactionInputs).
SpentInputsExact ==
    /\ \A k \in KeyImages : m_spent_key_images[k] = {t \in DOMAIN m_transactions : k \in Images[t]}
    /\ m_spentOutputs = UNION {Msigs[t] : t \in {t \in DOMAIN m_transactions : ~m_transactions[t].keptByBlock}}

\* Two transactions of the pool that did not come with a block never spend the same
\* input: haveSpentInputs keeps the second one out.
RelayedDisjoint ==
    \A t, u \in DOMAIN m_transactions :
        (t # u /\ ~m_transactions[t].keptByBlock /\ ~m_transactions[u].keptByBlock)
            => Images[t] \cap Images[u] = {} /\ Msigs[t] \cap Msigs[u] = {}

\* No template fill_block_template would build spends an input twice, although the pool
\* may hold transactions that do (kept by blocks).
TemplateSpendsOnce ==
    LET txs == TemplateTxs IN
    \A i, j \in 1 .. Len(txs) :
        i # j => Images[txs[i]] \cap Images[txs[j]] = {} /\ Msigs[txs[i]] \cap Msigs[txs[j]] = {}

\* A transaction the chain has is never put in a template, even when a crash has brought
\* it back from an older pool file (m_validated_transactions must not outlive it).
NoMinedInTemplate == Range(TemplateTxs) \cap TxsIn(chain) = {}

\* What fill_block_template takes from the pool can be mined together, and is not yet.
TemplateSound == TemplateSpendsOnce /\ NoMinedInTemplate

Age(t) == IF t \in DOMAIN m_transactions THEN m_transactions[t].age ELSE 0

\* A transaction does not stay in the pool for ever, unless refused blocks put it back,
\* or crashes reload it, as a younger one again and again: removeExpiredTransactions
\* reaches it.
Expires ==
    \A t \in Txs :
        \/ []<>(t \notin DOMAIN m_transactions)
        \/ []<><<Age(t)' < Age(t)>>_vars

\* on_blockchain_inc, "Block height incremented, cleared ... cached transaction hashes":
\* what a template has is valid on the chain it is built on.
TemplateValid == \A t \in Range(TemplateTxs) : InputsValid(chain, t)
=============================================================================
