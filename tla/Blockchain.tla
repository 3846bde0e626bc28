----------------------------- MODULE Blockchain -----------------------------
(***************************************************************************)
(* The main chain, its indices, the alternative chains and the transaction *)
(* pool as Blockchain::addNewBlock uses them (DynexCNCore/Blockchain.cpp). *)
(*                                                                         *)
(* A chain switch is modelled block by block: popBlock and pushBlock write *)
(* m_blocks to disk one block at a time, any pushBlock may be refused, and *)
(* the code then undoes what it connected.  The locks of the pool and of   *)
(* the chain are held throughout, so the steps of other threads wait until *)
(* phase is "idle" again.                                                  *)
(*                                                                         *)
(* A block stands for its ancestry, as its hash commits to it.  The checks *)
(* that look at the block itself (version, timestamps, proof of work, form *)
(* of the coinbase) are passed by all members of Blocks: a block that      *)
(* fails one of them is turned away before anything is changed.  There is  *)
(* one amount, and every transaction, coinbase included, has one output;   *)
(* a coinbase is named by its block.                                       *)
(***************************************************************************)
EXTENDS Integers, Sequences, FiniteSets

CONSTANTS
    Blocks, Txs, KeyImages,
    Genesis,
    Branch,                \* the blocks from genesis to a block, both included
    CumulativeDifficulty,
    BlockTxs,              \* Block::transactionHashes
    Images,                \* the key images of a transaction's inputs
    Ring,                  \* the global output indexes an input names, each with the
                           \* transaction whose output the ring signature was made for
    BadReward,             \* blocks whose coinbase validate_miner_transaction refuses
    Oversize,              \* blocks whose transactions exceed maxBlockCumulativeSize
    Points,                \* Checkpoints::m_points, heights to blocks
    UnlockWindow,          \* CRYPTONOTE_MINED_MONEY_UNLOCK_WINDOW
    PoissonTrigger,        \* POISSON_CHECK_TRIGGER
    AuthMayFail            \* whether the servers AuthBlock asks may refuse or be unreachable

Height(b) == Len(Branch[b]) - 1
Parent(b) == Branch[b][Height(b)]
NTx(b) == Len(BlockTxs[b])
BlockTxSet(b) == {BlockTxs[b][i] : i \in 1 .. NTx(b)}

\* The transactions of a block by their position; 0 is the coinbase.
Owner(b, p) == IF p = 0 THEN b ELSE BlockTxs[b][p]

ASSUME BlocksAssumption ==
    /\ Genesis \in Blocks
    /\ Blocks \cap Txs = {}
    /\ Branch \in [Blocks -> Seq(Blocks)]
    /\ \A b \in Blocks :
           /\ Len(Branch[b]) > 0
           /\ Branch[b][1] = Genesis
           /\ Branch[b][Len(Branch[b])] = b
           /\ \A i \in 1 .. Len(Branch[b]) : Branch[Branch[b][i]] = SubSeq(Branch[b], 1, i)
    /\ BlockTxs \in [Blocks -> Seq(Txs)]
    /\ BlockTxs[Genesis] = <<>>
    /\ CumulativeDifficulty \in [Blocks -> Nat]

ASSUME TxsAssumption ==
    /\ Images \in [Txs -> SUBSET KeyImages]
    /\ Ring \in [Txs -> SUBSET [index : Nat, owner : Blocks \cup Txs]]

ASSUME ParametersAssumption ==
    /\ BadReward \subseteq Blocks
    /\ Oversize \subseteq Blocks
    /\ UnlockWindow \in Nat
    /\ PoissonTrigger \in Nat \ {0}
    /\ AuthMayFail \in BOOLEAN
    /\ DOMAIN Points \subseteq Nat \ {0}
    /\ \A h \in DOMAIN Points : Points[h] \in Blocks

VARIABLES
    m_blocks,             \* entries: the block and the global index of its first output
    m_transactionMap,     \* transactions to where they are: block and position
    spentKeyImages,
    m_outputs,            \* by global index: block and position of the owner
    m_alternative_chains,
    m_transactions,       \* the pool
    keptByBlock,          \* the pool's transactions that came with a block
    phase,                \* of switch_to_alternative_blockchain; "idle" outside it
    alt_chain,
    disconnected_chain,
    discard,              \* discard_disconnected_chain
    seen                  \* the chain a message-queue subscriber has put together

indices == <<m_transactionMap, spentKeyImages, m_outputs>>
pool == <<m_transactions, keptByBlock>>
switch == <<alt_chain, disconnected_chain, discard>>
vars == <<m_blocks, indices, m_alternative_chains, pool, phase, switch, seen>>

Where == [block : Nat, transaction : Nat]

TypeOK ==
    /\ m_blocks \in Seq([id : Blocks, out : Nat])
    /\ DOMAIN m_transactionMap \subseteq Blocks \cup Txs
    /\ \A o \in DOMAIN m_transactionMap : m_transactionMap[o] \in Where
    /\ spentKeyImages \subseteq KeyImages
    /\ m_outputs \in Seq(Where)
    /\ m_alternative_chains \subseteq Blocks
    /\ m_transactions \subseteq Txs
    /\ keptByBlock \subseteq m_transactions
    /\ phase \in {"idle", "disconnect", "connect", "undo", "restore"}
    /\ alt_chain \in Seq(Blocks)
    /\ disconnected_chain \in Seq(Blocks)
    /\ discard \in BOOLEAN
    /\ seen \in Seq(Blocks)

Ids == [i \in 1 .. Len(m_blocks) |-> m_blocks[i].id]
TailId == m_blocks[Len(m_blocks)].id
haveBlock(b) == b \in m_alternative_chains \/ \E i \in 1 .. Len(m_blocks) : m_blocks[i].id = b

\* resetAndSetGenesisBlock on an empty database.
Init ==
    /\ m_blocks = <<[id |-> Genesis, out |-> 0]>>
    /\ m_transactionMap = [o \in {Genesis} |-> [block |-> 0, transaction |-> 0]]
    /\ spentKeyImages = {}
    /\ m_outputs = <<[block |-> 0, transaction |-> 0]>>
    /\ m_alternative_chains = {}
    /\ m_transactions = {} /\ keptByBlock = {}
    /\ phase = "idle"
    /\ alt_chain = <<>> /\ disconnected_chain = <<>> /\ discard = FALSE
    /\ seen = <<Genesis>>

(***************************************************************************)
(* Checkpoints                                                             *)
(***************************************************************************)
\* Mutant: the last checkpoint is outside its zone.
is_below_checkpoint(h) == \E p \in DOMAIN Points : h < p

is_in_checkpoint_zone(h) == \E p \in DOMAIN Points : h <= p

check_block(h, b) == h \in DOMAIN Points => Points[h] = b

\* blockchain_height is the number of blocks, one more than the height of the
\* last.  When it is below the window the unsigned difference wraps, and every
\* height compares as too deep.
is_alternative_block_allowed(blockchain_height, block_height) ==
    /\ block_height # 0
    /\ \/ blockchain_height >= UnlockWindow /\ block_height >= blockchain_height - UnlockWindow
       \/ is_in_checkpoint_zone(block_height)
    /\ \A p \in DOMAIN Points : p <= blockchain_height => p < block_height

(***************************************************************************)
(* Pushing and popping a block                                             *)
(***************************************************************************)
\* A coinbase is spendable UnlockWindow blocks later (its unlockTime); other
\* transactions have no unlock time here.
is_tx_spendtime_unlocked(o) == o.transaction = 0 => Len(m_blocks) >= o.block + UnlockWindow

\* The ring signature holds when every index leads to the output it was made for.
check_tx_input(r) ==
    /\ r.index < Len(m_outputs)
    /\ LET o == m_outputs[r.index + 1] IN
           /\ is_tx_spendtime_unlocked(o)
           /\ Owner(m_blocks[o.block + 1].id, o.transaction) = r.owner

checkTransactionInputs(t) ==
    /\ Images[t] \cap spentKeyImages = {}
    /\ \A r \in Ring[t] : check_tx_input(r)

\* The i-th transaction of a block, checked after those before it were pushed.
InputsValid(b, i) ==
    /\ checkTransactionInputs(BlockTxs[b][i])
    /\ \A j \in 1 .. i - 1 : Images[BlockTxs[b][j]] \cap Images[BlockTxs[b][i]] = {}

\* An index of the block that is being pushed: m_blocks has no entry for it yet,
\* and reading it throws out of pushBlock.
InputsThrow(b, i) ==
    /\ Images[BlockTxs[b][i]] \cap spentKeyImages = {}
    /\ \A j \in 1 .. i - 1 : Images[BlockTxs[b][j]] \cap Images[BlockTxs[b][i]] = {}
    /\ \A r \in Ring[BlockTxs[b][i]] :
           \/ check_tx_input(r)
           \/ r.index \in Len(m_outputs) .. Len(m_outputs) + i - 1
    /\ \E r \in Ring[BlockTxs[b][i]] : r.index >= Len(m_outputs)

\* loadTransactions takes a block's transactions out of the pool, in order.
Taken(b) ==
    {BlockTxs[b][i] : i \in {i \in 1 .. NTx(b) :
        \A j \in 1 .. i : /\ BlockTxs[b][j] \in m_transactions
                          /\ \A k \in 1 .. j - 1 : BlockTxs[b][k] # BlockTxs[b][j]}}

loadTransactions(b) ==
    \A i \in 1 .. NTx(b) : /\ BlockTxs[b][i] \in m_transactions
                           /\ \A k \in 1 .. i - 1 : BlockTxs[b][k] # BlockTxs[b][i]

\* The checks before the coinbase is entered into the indices.
Prevalidated(b) ==
    /\ loadTransactions(b)
    /\ b # Genesis /\ Parent(b) = TailId
    /\ is_in_checkpoint_zone(Len(m_blocks)) => check_block(Len(m_blocks), b)

AllInputsValid(b) == Prevalidated(b) /\ \A i \in 1 .. NTx(b) : InputsValid(b, i)

Valid(b) == AllInputsValid(b) /\ b \notin Oversize /\ b \notin BadReward

\* Two ways out of pushBlock that skip popTransactions: the size check ...
Oversized(b) == AllInputsValid(b) /\ b \in Oversize

\* ... and the exception.
ThrowsAt(b, i) ==
    /\ Prevalidated(b)
    /\ \A j \in 1 .. i - 1 : InputsValid(b, j)
    /\ InputsThrow(b, i)

\* AuthBlock is asked only above the last checkpoint, and not for every block
\* there (m_lastKnownBlockHeight is read uninitialised at first).
AuthFails == AuthMayFail /\ ~is_in_checkpoint_zone(Len(m_blocks))

\* pushTransaction for the coinbase of b and its first n transactions, at the
\* height of the block to come.
pushTransactions(b, n) ==
    /\ m_transactionMap' =
           [o \in DOMAIN m_transactionMap \cup {Owner(b, p) : p \in 0 .. n} |->
               IF o \in DOMAIN m_transactionMap THEN m_transactionMap[o]
               ELSE [block |-> Len(m_blocks),
                     transaction |-> CHOOSE p \in 0 .. n : Owner(b, p) = o]]
    /\ spentKeyImages' = spentKeyImages \cup UNION {Images[BlockTxs[b][i]] : i \in 1 .. n}
    /\ m_outputs' = m_outputs \o [p \in 1 .. n + 1 |-> [block |-> Len(m_blocks), transaction |-> p - 1]]

pushBlock(b) ==
    /\ Valid(b)
    /\ m_blocks' = Append(m_blocks, [id |-> b, out |-> Len(m_outputs)])
    /\ pushTransactions(b, NTx(b))
    /\ m_transactions' = m_transactions \ BlockTxSet(b)
    /\ keptByBlock' = keptByBlock \ BlockTxSet(b)

\* A refused block leaves the indices as they were (popTransactions), and what
\* was taken from the pool returns to it, now as kept by a block.
pushBlockFails(b) ==
    /\ \/ ~Valid(b) /\ ~Oversized(b) /\ ~\E i \in 1 .. NTx(b) : ThrowsAt(b, i)
       \/ Valid(b) /\ AuthFails
    /\ keptByBlock' = keptByBlock \cup Taken(b)
    /\ UNCHANGED <<m_blocks, indices, m_transactions>>

\* A block that is too big is refused with its transactions still in the indices.
pushBlockOversize(b) ==
    /\ Oversized(b)
    /\ pushTransactions(b, NTx(b))
    /\ keptByBlock' = keptByBlock \cup Taken(b)
    /\ UNCHANGED <<m_blocks, m_transactions>>

\* The exception skips saveTransactions too.
pushBlockThrows(b) ==
    /\ \E i \in 1 .. NTx(b) : ThrowsAt(b, i) /\ pushTransactions(b, i - 1)
    /\ m_transactions' = m_transactions \ BlockTxSet(b)
    /\ keptByBlock' = keptByBlock \ BlockTxSet(b)
    /\ UNCHANGED m_blocks

\* Mutant: the output of the coinbase is left behind.
popOutputsButCoinbase(h, n) == SubSeq(m_outputs, 1, Len(m_outputs) - n)

\* popTransactions removes an output only while it is the last one; otherwise it
\* logs that the consistency is broken and goes on.
popOutputs(h, n) ==
    LET first == Len(m_outputs) - n IN
    IF \A p \in 0 .. n : first + p \in DOMAIN m_outputs
                         /\ m_outputs[first + p] = [block |-> h, transaction |-> p]
    THEN SubSeq(m_outputs, 1, first - 1)
    ELSE m_outputs

popBlock ==
    LET h == Len(m_blocks) - 1
        b == TailId
    IN  /\ m_transactions' = m_transactions \cup BlockTxSet(b)
        /\ keptByBlock' = keptByBlock \cup BlockTxSet(b)
        /\ m_transactionMap' =
               [o \in DOMAIN m_transactionMap \ {Owner(b, p) : p \in 0 .. NTx(b)} |-> m_transactionMap[o]]
        /\ m_outputs' = popOutputs(h, NTx(b))
        /\ spentKeyImages' = spentKeyImages \ UNION {Images[t] : t \in BlockTxSet(b)}
        /\ m_blocks' = SubSeq(m_blocks, 1, h)

(***************************************************************************)
(* addNewBlock for a block on top of the main chain                        *)
(***************************************************************************)
\* A NewBlockMessage is sent before the locks are released; the subscriber puts
\* the block at its height.
ExtendMain(b) ==
    /\ phase = "idle" /\ ~haveBlock(b)
    /\ pushBlock(b)
    /\ seen' = Append(SubSeq(seen, 1, Height(b)), b)
    /\ UNCHANGED <<m_alternative_chains, phase, switch>>

RejectMain(b) ==
    /\ phase = "idle" /\ ~haveBlock(b)
    /\ Parent(b) = TailId
    /\ pushBlockFails(b)
    /\ UNCHANGED <<m_alternative_chains, phase, switch, seen>>

AlreadyExists(b) ==
    /\ phase = "idle" /\ haveBlock(b)
    /\ UNCHANGED vars

(***************************************************************************)
(* addNewBlock for a block that does not extend the tail                   *)
(***************************************************************************)
\* The alternative blocks b follows, and b: its branch from position s on.
AltStart(b, s) ==
    /\ s > 1
    /\ \A j \in s .. Len(Branch[b]) - 1 : Branch[b][j] \in m_alternative_chains
    /\ Branch[b][s - 1] \notin m_alternative_chains

AltChain(b, s) == SubSeq(Branch[b], s, Len(Branch[b]))

\* The first block of an alternative chain must follow a block of the main chain,
\* and not the last one.
Connected(front) ==
    /\ Height(front) < Len(m_blocks)
    /\ m_blocks[Height(front)].id = Parent(front)

\* The checks of handle_alternative_block.  A block that fails one changes nothing.
\* Its size is known only if all its transactions are.
AltAccepted(b, s) ==
    /\ AltStart(b, s)
    /\ is_alternative_block_allowed(Len(m_blocks), Height(b))
    /\ b \in Oversize => ~(BlockTxSet(b) \subseteq m_transactions \cup DOMAIN m_transactionMap)
    /\ Connected(Branch[b][s])
    /\ check_block(Height(b), b)

isCheckpoint(b) == Height(b) \in DOMAIN Points

Reorganizes(b) ==
    isCheckpoint(b) \/ CumulativeDifficulty[TailId] < CumulativeDifficulty[b]

\* Mutant: the first block to be disconnected is not looked at.
KeepsTransactionsButFirst(chain) ==
    \A i \in Height(chain[1]) + 2 .. Len(m_blocks) :
        \A t \in BlockTxSet(m_blocks[i].id) :
            \E j \in 1 .. Len(chain) : t \in BlockTxSet(chain[j])

\* Every transaction the switch would disconnect is in the alternative chain.
KeepsTransactions(chain) ==
    \A i \in Height(chain[1]) + 1 .. Len(m_blocks) :
        \A t \in BlockTxSet(m_blocks[i].id) :
            \E j \in 1 .. Len(chain) : t \in BlockTxSet(chain[j])

handle_alternative_block(b, s) ==
    /\ phase = "idle" /\ ~haveBlock(b)
    /\ Parent(b) # TailId
    /\ AltAccepted(b, s)
    /\ m_alternative_chains' = m_alternative_chains \cup {b}
    /\ UNCHANGED <<m_blocks, indices, pool, seen>>

AddAlternative(b, s) ==
    /\ handle_alternative_block(b, s)
    /\ ~Reorganizes(b)
    /\ UNCHANGED <<phase, switch>>

\* The Poisson check looks at timestamps and the clock: either outcome.
RefuseSwitch(b, s) ==
    /\ handle_alternative_block(b, s)
    /\ Reorganizes(b)
    /\ ~KeepsTransactions(AltChain(b, s)) \/ Len(AltChain(b, s)) >= PoissonTrigger
    /\ UNCHANGED <<phase, switch>>

BeginSwitch(b, s) ==
    /\ handle_alternative_block(b, s)
    /\ Reorganizes(b)
    /\ KeepsTransactions(AltChain(b, s))
    /\ phase' = "disconnect"
    /\ alt_chain' = AltChain(b, s)
    /\ disconnected_chain' = <<>>
    /\ discard' = isCheckpoint(b)

(***************************************************************************)
(* switch_to_alternative_blockchain                                        *)
(***************************************************************************)
split_height == Height(alt_chain[1])

Return ==
    /\ phase' = "idle"
    /\ alt_chain' = <<>> /\ disconnected_chain' = <<>> /\ discard' = FALSE

Disconnect ==
    /\ phase = "disconnect"
    /\ popBlock
    /\ disconnected_chain' = <<TailId>> \o disconnected_chain
    /\ phase' = IF Len(m_blocks) - 1 = split_height THEN "connect" ELSE "disconnect"
    /\ UNCHANGED <<m_alternative_chains, alt_chain, discard, seen>>

Connecting == phase = "connect" /\ Len(m_blocks) < split_height + Len(alt_chain)
ToConnect == alt_chain[Len(m_blocks) - split_height + 1]

Connect ==
    /\ Connecting
    /\ pushBlock(ToConnect)
    /\ UNCHANGED <<m_alternative_chains, phase, switch, seen>>

\* Mutant: the refused block is tried again.
ConnectRetries ==
    /\ Connecting
    /\ pushBlockFails(ToConnect)
    /\ UNCHANGED <<m_alternative_chains, phase, switch, seen>>

\* The refused block and those after it leave m_alternative_chains (the code
\* erases them after the rollback, under the same lock).
ConnectFails ==
    /\ Connecting
    /\ pushBlockFails(ToConnect)
    /\ m_alternative_chains' = m_alternative_chains \
           {alt_chain[j] : j \in Len(m_blocks) - split_height + 1 .. Len(alt_chain)}
    /\ phase' = IF Len(m_blocks) = split_height THEN "restore" ELSE "undo"
    /\ UNCHANGED <<switch, seen>>

\* rollback_blockchain_switching: first the blocks connected so far are removed ...
Undo ==
    /\ phase = "undo"
    /\ popBlock
    /\ phase' = IF Len(m_blocks) - 1 = split_height THEN "restore" ELSE "undo"
    /\ UNCHANGED <<m_alternative_chains, switch, seen>>

\* ... then the original chain is pushed again ...
ToRestore == disconnected_chain[Len(m_blocks) - split_height + 1]

Restore ==
    /\ phase = "restore"
    /\ pushBlock(ToRestore)
    /\ IF Len(m_blocks) + 1 = split_height + Len(disconnected_chain)
       THEN Return
       ELSE UNCHANGED <<phase, switch>>
    /\ UNCHANGED <<m_alternative_chains, seen>>

\* ... and given up at the first block that is refused ("PANIC!!!").
RestoreFails ==
    /\ phase = "restore"
    /\ pushBlockFails(ToRestore)
    /\ Return
    /\ UNCHANGED <<m_alternative_chains, seen>>

\* The old chain is offered to handle_alternative_block, block by block until one
\* is refused, unless the switch was made for a checkpoint.
Readded ==
    {disconnected_chain[i] : i \in {i \in 1 .. Len(disconnected_chain) :
        \A j \in 1 .. i :
            /\ is_alternative_block_allowed(Len(m_blocks), Height(disconnected_chain[j]))
            /\ check_block(Height(disconnected_chain[j]), disconnected_chain[j])}}

\* Mutants: the connected blocks stay alternatives; the switch is not announced.
FinishSwitchKeeps ==
    /\ phase = "connect"
    /\ Len(m_blocks) = split_height + Len(alt_chain)
    /\ m_alternative_chains' = m_alternative_chains \cup (IF discard THEN {} ELSE Readded)
    /\ seen' = SubSeq(seen, 1, split_height) \o alt_chain
    /\ Return
    /\ UNCHANGED <<m_blocks, indices, pool>>

FinishSwitchSilently ==
    /\ phase = "connect"
    /\ Len(m_blocks) = split_height + Len(alt_chain)
    /\ m_alternative_chains' =
           (m_alternative_chains \cup (IF discard THEN {} ELSE Readded))
               \ {alt_chain[j] : j \in 1 .. Len(alt_chain)}
    /\ Return
    /\ UNCHANGED <<m_blocks, indices, pool, seen>>

FinishSwitch ==
    /\ phase = "connect"
    /\ Len(m_blocks) = split_height + Len(alt_chain)
    /\ m_alternative_chains' =
           (m_alternative_chains \cup (IF discard THEN {} ELSE Readded))
               \ {alt_chain[j] : j \in 1 .. Len(alt_chain)}
    /\ seen' = SubSeq(seen, 1, split_height) \o alt_chain
    /\ Return
    /\ UNCHANGED <<m_blocks, indices, pool>>

(***************************************************************************)
(* The transaction pool between blocks                                     *)
(***************************************************************************)
\* core::add_new_tx: a transaction relayed alone, or one that came with a block,
\* which is taken whether its inputs are valid or not.
add_new_tx(t, kept) ==
    /\ phase = "idle"
    /\ t \notin DOMAIN m_transactionMap
    /\ t \notin m_transactions
    /\ kept \/ /\ \A u \in m_transactions : Images[u] \cap Images[t] = {}
               /\ checkTransactionInputs(t)
    /\ m_transactions' = m_transactions \cup {t}
    /\ keptByBlock' = IF kept THEN keptByBlock \cup {t} ELSE keptByBlock
    /\ UNCHANGED <<m_blocks, indices, m_alternative_chains, phase, switch, seen>>

removeExpiredTransaction(t) ==
    /\ phase = "idle"
    /\ t \in m_transactions
    /\ m_transactions' = m_transactions \ {t}
    /\ keptByBlock' = keptByBlock \ {t}
    /\ UNCHANGED <<m_blocks, indices, m_alternative_chains, phase, switch, seen>>

SwitchStep ==
    Disconnect \/ Connect \/ ConnectFails \/ Undo \/ Restore \/ RestoreFails \/ FinishSwitch

Next ==
    \/ \E b \in Blocks \ {Genesis} :
           \/ ExtendMain(b) \/ RejectMain(b) \/ AlreadyExists(b)
           \/ \E s \in 1 .. Len(Branch[b]) :
                  AddAlternative(b, s) \/ RefuseSwitch(b, s) \/ BeginSwitch(b, s)
    \/ SwitchStep
    \/ \E t \in Txs : \/ \E kept \in BOOLEAN : add_new_tx(t, kept)
                      \/ removeExpiredTransaction(t)

Spec == Init /\ [][Next]_vars

\* The thread inside addNewBlock runs on: nothing makes it wait while it holds
\* the locks.
FairSpec == Spec /\ WF_vars(SwitchStep)

\* The two outcomes of pushBlock that leave the indices behind.  Spec is about
\* chains and blocks that do not meet them; what follows one is not modelled.
LeakingPush ==
    /\ phase = "idle"
    /\ \E b \in Blocks \ {Genesis} : ~haveBlock(b) /\ (pushBlockOversize(b) \/ pushBlockThrows(b))
    /\ UNCHANGED <<m_alternative_chains, phase, switch, seen>>

LeakingSpec == Init /\ [][Next \/ LeakingPush]_vars

(***************************************************************************)
(* Properties                                                              *)
(***************************************************************************)
\* The indices describe the blocks of the main chain and nothing else, at every
\* step of a switch too: each transaction is in m_transactionMap where it is in
\* m_blocks, its output is in m_outputs under the index stored in the block, and
\* spentKeyImages holds the images of the chain's transactions.  popTransaction
\* calls the contrary "Blockchain consistency broken".
IndexExact ==
    /\ \A i \in 1 .. Len(m_blocks) : \A p \in 0 .. NTx(m_blocks[i].id) :
           /\ Owner(m_blocks[i].id, p) \in DOMAIN m_transactionMap
           /\ m_transactionMap[Owner(m_blocks[i].id, p)] = [block |-> i - 1, transaction |-> p]
           /\ m_blocks[i].out + p + 1 \in DOMAIN m_outputs
           /\ m_outputs[m_blocks[i].out + p + 1] = [block |-> i - 1, transaction |-> p]
    /\ \A o \in DOMAIN m_transactionMap :
           \E i \in 1 .. Len(m_blocks) : \E p \in 0 .. NTx(m_blocks[i].id) : Owner(m_blocks[i].id, p) = o
    /\ \A i \in 1 .. Len(m_blocks) :
           m_blocks[i].out + NTx(m_blocks[i].id) + 1
               = IF i = Len(m_blocks) THEN Len(m_outputs) ELSE m_blocks[i + 1].out
    /\ \A k \in KeyImages :
           k \in spentKeyImages <=>
               \E i \in 1 .. Len(m_blocks) : \E p \in 1 .. NTx(m_blocks[i].id) :
                   k \in Images[BlockTxs[m_blocks[i].id][p]]

\* The main chain has the checkpoint's block at every checkpointed height it has
\* reached, in the middle of a switch too.
CheckpointsHold ==
    \A i \in 1 .. Len(m_blocks) : i - 1 \in DOMAIN Points => m_blocks[i].id = Points[i - 1]

\* A transaction is never in the pool and in the main chain at once, whatever
\* switches and failures have passed (core::add_new_tx: "closes possibility to add
\* tx to memory pool which is already in blockchain").
PoolOutsideChain ==
    \A i \in 1 .. Len(m_blocks) : BlockTxSet(m_blocks[i].id) \cap m_transactions = {}

\* No block is at once in the main chain and an alternative, so a block disconnected
\* by one switch can be connected again by a later one.
AlternativesOutsideChain ==
    phase = "idle" => \A i \in 1 .. Len(m_blocks) : m_blocks[i].id \notin m_alternative_chains

\* Between blocks, a subscriber that follows NewBlock and ChainSwitch messages has
\* the main chain: no switch, and no failed one, goes unannounced.
SubscriberHasChain == phase = "idle" => seen = Ids

\* The chain as it was when the switch began: until the last block of the new one
\* is connected, the blocks needed to restore it are at hand.
OldChain ==
    IF phase = "idle" THEN Ids
    ELSE IF phase = "disconnect" THEN Ids \o disconnected_chain
    ELSE SubSeq(Ids, 1, split_height) \o disconnected_chain

Main == INSTANCE MainChain WITH chain <- OldChain

\* Seen from outside the lock, addNewBlock grows the chain or replaces it by a
\* heavier branch (or one with a checkpoint) that has all its transactions, spends
\* nothing twice and passes the checkpoints; a switch that fails leaves the chain
\* as it was.
ImplementsMainChain == Main!Spec

\* A switch that has begun ends, whichever blocks are refused on the way.
SwitchEnds == phase # "idle" ~> phase = "idle"

\* rollback_blockchain_switching puts the original chain back ("return back original
\* chain").
RollbackRestores == [][phase = "restore" /\ phase' = "idle" => Ids' = OldChain]_vars

\* The alternative blocks lead back to the main chain (doBuildSparseChain:
\* assert(m_blockIndex.hasBlock(blockchainAncestor))).
AlternativesConnected ==
    phase = "idle" => \A b \in m_alternative_chains : \A s \in 1 .. Len(Branch[b]) :
        AltStart(b, s) => \E i \in 1 .. Len(m_blocks) : Branch[b][s - 1] = m_blocks[i].id
=============================================================================
