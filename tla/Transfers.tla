------------------------------ MODULE Transfers ------------------------------
(***************************************************************************)
(* The outputs of a wallet: one TransfersConsumer, with a subscription per *)
(* spend key and a TransfersContainer per subscription, fed by the         *)
(* synchronizer's thread (module WalletSynchronizer) with detaches, new    *)
(* blocks and changes of the pool, and by the wallet with transactions of  *)
(* its own.  A container files each output as unconfirmed, available or    *)
(* spent and keeps the transactions in the order of their heights.         *)
(***************************************************************************)
EXTENDS Naturals, Sequences, FiniteSets, SequencesExt

CONSTANTS
    Subs,           \* the spend keys of the wallet: m_subscriptions
    Tx,             \* the transactions: [outs |-> outputs to the wallet, ins |-> inputs]
    BlockTxs,       \* the transactions of each block that matter to the wallet, in order
    Branches,       \* the chains the daemon may have, as sequences of blocks
    Own,            \* the transactions that the wallet itself may send
    BatchLimit,     \* blocks of one answer of the daemon
    MaxDaemonSteps, \* bounds: changes of the daemon's chain and pool,
    MaxTroubles     \*   failed index queries and restarts together

Txs == DOMAIN Tx
Outs(t) == DOMAIN Tx[t].outs
Key(o) == Tx[o.tx].outs[o.out].key
Amount(o) == Tx[o.tx].outs[o.out].amount
IsKey(o) == Tx[o.tx].outs[o.out].type = "key"
Keys == UNION {{Tx[t].outs[i].key : i \in Outs(t)} : t \in Txs}

\* WALLET_UNCONFIRMED_TRANSACTION_HEIGHT: above every height
Unconfirmed == 1 + CHOOSE n \in {Len(b) : b \in Branches} : \A b \in Branches : Len(b) <= n

ASSUME TransactionAssumption ==
    \A t \in Txs : \A i \in Outs(t) : Tx[t].outs[i].to \in Subs /\ Tx[t].outs[i].type \in {"key", "multi"}

VARIABLES
    chain, pool,    \* the daemon: its main chain and the transactions in its pool
    state,          \* SynchronizationState: the blocks the synchronizer counts as processed
    subs,           \* the TransfersContainer of each subscription
    poolTxs,        \* TransfersConsumer::m_poolTxs
    seen,           \* transactions_hash_seen and public_keys_seen
    fresh,          \* the synchronizer has not yet removed outdated transactions
    half,           \* history: the chain an exception left half processed, or <<>>
    running,        \* FALSE: an exception of a pool update has ended the program
    steps, troubles

vars == <<chain, pool, state, subs, poolTxs, seen, fresh, half, running, steps, troubles>>

EmptyContainer == [txs |-> <<>>, unconf |-> {}, avail |-> {}, spent |-> {}, height |-> 0]
Known(c, t) == \E e \in Range(c.txs) : e.tx = t
HeightOf(c, t) == (CHOOSE e \in Range(c.txs) : e.tx = t).height

(***************************************************************************)
(* TransfersContainer, as operators on one container                       *)
(***************************************************************************)
WithKey(S, k) == {o \in S : IsKey(o) /\ Key(o) = k}
Before(o, p) == o.height < p.height \/ (o.height = p.height /\ o.pos <= p.pos)
Earliest(S) == CHOOSE o \in S : \A p \in S : Before(o, p)

\* Mutant: a spent output of the same key image is overlooked.
updateTransfersVisibilityAvail(c, K) ==
    LET Updated(S, Visible(_)) ==
            {IF IsKey(o) /\ Key(o) \in K THEN [o EXCEPT !.visible = Visible(o)] ELSE o : o \in S}
        InUnconf(o) == WithKey(c.avail, Key(o)) = {} /\ Cardinality(WithKey(c.unconf, Key(o))) = 1
        InAvail(o) == o = Earliest(WithKey(c.avail, Key(o)))
        InSpent(o) == TRUE
    IN  [c EXCEPT !.unconf = Updated(@, InUnconf), !.avail = Updated(@, InAvail), !.spent = Updated(@, InSpent)]

\* One output of a key image is visible: the spent one, else the earliest available one, else
\* the only unconfirmed one.
updateTransfersVisibility(c, K) ==
    LET Spent(o) == WithKey(c.spent, Key(o)) # {}
        Avail(o) == WithKey(c.avail, Key(o))
        Updated(S, Visible(_)) ==
            {IF IsKey(o) /\ Key(o) \in K THEN [o EXCEPT !.visible = Visible(o)] ELSE o : o \in S}
        InUnconf(o) == ~Spent(o) /\ Avail(o) = {} /\ Cardinality(WithKey(c.unconf, Key(o))) = 1
        InAvail(o) == ~Spent(o) /\ o = Earliest(Avail(o))
        InSpent(o) == TRUE
    IN  [c EXCEPT !.unconf = Updated(@, InUnconf), !.avail = Updated(@, InAvail), !.spent = Updated(@, InSpent)]

KeysOf(S) == {Key(o) : o \in S}
Unspent(o) == [tx |-> o.tx, out |-> o.out, height |-> o.height, pos |-> o.pos, visible |-> o.visible]
Spend(o, t, h) == [tx |-> o.tx, out |-> o.out, height |-> o.height, pos |-> o.pos, visible |-> o.visible,
                   by |-> t, byHeight |-> h]

\* What t spent becomes available again; what t paid, and nobody spent, is forgotten.
deleteTransactionTransfers(c, t) ==
    LET released == {o \in c.spent : o.by = t}
        avail == c.avail \cup {Unspent(o) : o \in released}
        paid == {o \in c.unconf \cup avail : o.tx = t}
    IN  updateTransfersVisibility([c EXCEPT !.spent = @ \ released, !.unconf = @ \ paid, !.avail = avail \ paid],
                                  KeysOf(released \cup paid))

\* the ordered index of m_transactions: a new element comes after its equals
Insert(txs, e) == SelectSeq(txs, LAMBDA x : x.height <= e.height) \o <<e>>
                  \o SelectSeq(txs, LAMBDA x : x.height > e.height)
Without(txs, t) == SelectSeq(txs, LAMBDA x : x.tx # t)

Throws(c) == [ok |-> FALSE, c |-> c]
Returns(c) == [ok |-> TRUE, c |-> c]

addTransactionOutputs(c, t, h, pos, outs) ==
    LET new == {[tx |-> t, out |-> i, height |-> h, pos |-> pos, visible |-> TRUE] : i \in outs}
        stored == IF h = Unconfirmed THEN [c EXCEPT !.unconf = @ \cup new] ELSE [c EXCEPT !.avail = @ \cup new]
        exists == h # Unconfirmed /\ \E o \in c.avail \cup c.spent : o.tx = t /\ o.out \in outs
    IN  IF exists THEN Throws(c) ELSE Returns(updateTransfersVisibility(stored, KeysOf(new)))

\* An input that spends no output of the container is skipped; the first available output with
\* the input's key image and amount is moved to the spent ones.
addTransactionInputs(c, t, h) ==
    LET ins == Tx[t].ins
        Match(i) == {o \in c.avail : Key(o) = ins[i].key /\ IsKey(o) = (ins[i].type = "key")}
        Fitting(i) == {o \in Match(i) : IsKey(o) => Amount(o) = ins[i].amount}
        Bad(i) == /\ ins[i].type = "key"
                  /\ \/ WithKey(c.spent, ins[i].key) # {}
                     \/ Match(i) = {} /\ WithKey(c.unconf, ins[i].key) # {}
                     \/ Match(i) # {} /\ Fitting(i) = {}
        moved == {Earliest(Fitting(i)) : i \in {j \in DOMAIN ins : Match(j) # {}}}
    IN  IF \E i \in DOMAIN ins : Bad(i)
        THEN Throws(c)
        ELSE Returns(updateTransfersVisibility(
                 [c EXCEPT !.avail = @ \ moved, !.spent = @ \cup {Spend(o, t, h) : o \in moved}], KeysOf(moved)))

\* An exception takes back what was added of the transaction.
addTransaction(c, t, h, pos, outs) ==
    LET Stored(d, added) == IF added THEN [d EXCEPT !.txs = Insert(@, [tx |-> t, height |-> h])] ELSE d
        Finish(outputs, inputs) ==
            IF ~outputs.ok \/ ~inputs.ok
            THEN Throws(deleteTransactionTransfers(c, t))
            ELSE Returns([Stored(inputs.c, outs # {} \/ inputs.c # outputs.c)
                             EXCEPT !.height = IF h = Unconfirmed THEN @ ELSE h])
        Inputs(outputs) == Finish(outputs, addTransactionInputs(outputs.c, t, h))
    IN  IF Known(c, t) THEN Throws(c)
        ELSE IF h < c.height THEN Throws(deleteTransactionTransfers(c, t))
        ELSE Inputs(addTransactionOutputs(c, t, h, pos, outs))

\* Mutant: a transaction that is known is taken for confirmed.
deleteUnconfirmedTransactionNever(c, t) == c

deleteUnconfirmedTransaction(c, t) ==
    IF Known(c, t) /\ HeightOf(c, t) = Unconfirmed
    THEN [deleteTransactionTransfers(c, t) EXCEPT !.txs = Without(@, t)]
    ELSE c

markTransactionConfirmed(c, t, h, pos) ==
    LET paid == {o \in c.unconf : o.tx = t}
        confirmed == {[o EXCEPT !.height = h, !.pos = pos] : o \in paid}
    IN  updateTransfersVisibility(
            [c EXCEPT !.txs = Insert(Without(@, t), [tx |-> t, height |-> h]),
                      !.unconf = @ \ paid,
                      !.avail = @ \cup confirmed,
                      !.spent = {IF o.by = t THEN [o EXCEPT !.byHeight = h] ELSE o : o \in @}],
            KeysOf(paid))

\* Mutant: the block at the detach height itself stays.
detachAbove(c, h) ==
    LET Gone(d, e) == IF e.height = Unconfirmed
                      THEN \E o \in d.spent : o.by = e.tx /\ o.height > h
                      ELSE e.height > h
        Step(e, d) == IF Gone(d, e)
                      THEN [deleteTransactionTransfers(d, e.tx) EXCEPT !.txs = Without(@, e.tx)]
                      ELSE d
    IN  [FoldRight(Step, c.txs, c) EXCEPT !.height = IF h = 0 THEN 0 ELSE h - 1]

\* From the highest transaction down: what was confirmed at height h or above goes, and what is
\* unconfirmed and spends an output of those blocks.
detach(c, h) ==
    LET Gone(d, e) == IF e.height = Unconfirmed
                      THEN \E o \in d.spent : o.by = e.tx /\ o.height >= h
                      ELSE e.height >= h
        Step(e, d) == IF Gone(d, e)
                      THEN [deleteTransactionTransfers(d, e.tx) EXCEPT !.txs = Without(@, e.tx)]
                      ELSE d
    IN  [FoldRight(Step, c.txs, c) EXCEPT !.height = IF h = 0 THEN 0 ELSE h - 1]

advanceHeight(c, h) == IF c.height <= h THEN [c EXCEPT !.height = h] ELSE c

\* Load repairs: inputs and outputs of transactions that the container does not know.
repair(c) ==
    LET orphans == {o \in c.spent : ~Known(c, o.by)}
        avail == c.avail \cup {Unspent(o) : o \in orphans}
        unknown == {o \in c.unconf \cup avail : ~Known(c, o.tx)}
    IN  updateTransfersVisibility([c EXCEPT !.spent = @ \ orphans, !.unconf = @ \ unknown, !.avail = avail \ unknown],
                                  KeysOf(orphans \cup unknown))

\* The transactions are saved in the order of their hashes, so that those of one height are
\* loaded in any order.
Loads(c) == {repair([c EXCEPT !.txs = s]) : s \in
                {s \in SetToSeqs(Range(c.txs)) : \A i, j \in DOMAIN s : i < j => s[i].height <= s[j].height}}

(***************************************************************************)
(* TransfersConsumer                                                       *)
(***************************************************************************)

\* The outputs of t to s, until the first one whose key was seen in another transaction (or
\* before in this one): p collects the transactions and keys seen and the outputs taken.
createTransfers(p, t, s) ==
    LET mine == {i \in Outs(t) : Tx[t].outs[i].to = s}
        KeyAt(i) == Tx[t].outs[i].key
        Duplicate(i) == t \notin p.txs /\ (KeyAt(i) \in p.keys \/ \E j \in mine : j < i /\ KeyAt(j) = KeyAt(i))
        good == {i \in mine : \A j \in mine : j <= i => ~Duplicate(j)}
        taken == [p EXCEPT !.taken = @ \cup {<<t, i>> : i \in good}]
    IN  IF good # mine \/ mine = {}
        THEN taken
        ELSE [taken EXCEPT !.txs = @ \cup {t},
                           !.keys = IF t \in p.txs THEN @ ELSE @ \cup {KeyAt(i) : i \in mine}]

\* The worker threads meet the transactions, and the subscriptions of each, in any order.
preprocessOutputs(ts, order) ==
    LET OfTx(p, t) == FoldLeft(LAMBDA q, s : createTransfers(q, t, s), p, order)
    IN  FoldLeft(OfTx, [txs |-> seen.txs, keys |-> seen.keys, taken |-> {}], ts)

processOutputs(c, e, outs) ==
    IF Known(c, e.tx)
    THEN IF HeightOf(c, e.tx) = Unconfirmed /\ e.height # Unconfirmed
         THEN Returns(markTransactionConfirmed(c, e.tx, e.height, e.pos))
         ELSE Returns(c)
    ELSE addTransaction(c, e.tx, e.height, e.pos, outs)

\* One transaction after the other, one subscription after the other, until one throws.
processTransactions(start, es, taken, order) ==
    LET OutsTo(t, s) == {i \in Outs(t) : Tx[t].outs[i].to = s /\ <<t, i>> \in taken}
        Done(r, s, result) == [ok |-> result.ok, subs |-> [r.subs EXCEPT ![s] = result.c]]
        OfSub(r, e, s) == IF r.ok THEN Done(r, s, processOutputs(r.subs[s], e, OutsTo(e.tx, s))) ELSE r
        OfTx(r, e) == FoldLeft(LAMBDA q, s : OfSub(q, e, s), r, order)
    IN  FoldLeft(OfTx, [ok |-> TRUE, subs |-> start], es)

AddUnconfirmed(t) == [tx |-> t, height |-> Unconfirmed, pos |-> 0]

(***************************************************************************)
(* The daemon (external)                                                   *)
(***************************************************************************)
TxsOf(b) == UNION {Range(BlockTxs[b[i]]) : i \in DOMAIN b}
SpentBy(S) == UNION {{Tx[t].ins[i].key : i \in DOMAIN Tx[t].ins} : t \in S}
PaidBy(S) == UNION {{Tx[t].outs[i].key : i \in Outs(t)} : t \in S}

\* what the daemon's pool may hold beside chain b
ValidPool(b, P) ==
    /\ P \cap TxsOf(b) = {} /\ SpentBy(P) \cap SpentBy(TxsOf(b)) = {} /\ SpentBy(P) \subseteq PaidBy(TxsOf(b))
    /\ \A t, u \in P : t # u => SpentBy({t}) \cap SpentBy({u}) = {}

Standalone == {t \in Txs : Tx[t].ins # <<>> \/ Tx[t].outs # <<>>}

Daemon ==
    /\ steps < MaxDaemonSteps /\ steps' = steps + 1
    /\ \E b \in Branches : \E n \in 1..Len(b) : chain' = SubSeq(b, 1, n)
    /\ pool' \in {P \in SUBSET Standalone : ValidPool(chain', P)}
    /\ UNCHANGED <<state, subs, poolTxs, seen, fresh, half, running, troubles>>

(***************************************************************************)
(* The synchronizer's thread                                               *)
(***************************************************************************)
Init ==
    /\ chain \in {SubSeq(b, 1, 1) : b \in Branches} /\ pool = {}
    /\ state = <<>> /\ subs = [s \in Subs |-> EmptyContainer] /\ poolTxs = {}
    /\ seen = [txs |-> {}, keys |-> {}]
    /\ fresh = TRUE /\ half = <<>> /\ running = TRUE
    /\ steps = 0 /\ troubles = 0

Orders == SetToSeqs(Subs)
Trouble == troubles < MaxTroubles /\ troubles' = troubles + 1

Common(a, b) == CHOOSE n \in 0..Len(a) : /\ n <= Len(b) /\ SubSeq(a, 1, n) = SubSeq(b, 1, n)
                                         /\ n = Len(a) \/ n = Len(b) \/ a[n + 1] # b[n + 1]
NewBlocksKnown == running /\ ~fresh /\ ~IsPrefix(chain, state)

\* the blocks of chain b from height from to height to, as transactions with their places
Entries(b, from, to) ==
    FlattenSeq([i \in 1..(to - from + 1) |->
        [j \in DOMAIN BlockTxs[b[from + i - 1]] |->
            [tx |-> BlockTxs[b[from + i - 1]][j], height |-> from + i - 1, pos |-> j]]])

Relevant(es) == {es[i].tx : i \in DOMAIN es} \cap Standalone
Least(m, n) == IF m < n THEN m ELSE n

\* onBlockchainDetach, when the blocks after the common ones are not the daemon's, ...
Detached(n) == IF n < Len(state) THEN [s \in Subs |-> detach(subs[s], n + 1)] ELSE subs
\* ... and onNewBlocks
onNewBlocks ==
    /\ NewBlocksKnown
    /\ \E n \in {Common(state, chain)} : \E top \in {Least(n + BatchLimit, Len(chain))} :
       \E es \in {Entries(chain, n + 1, top)}, order \in Orders : \E ts \in SetToSeqs(Relevant(es)) :
       \E p \in {preprocessOutputs(ts, order)} :
       \E r \in {processTransactions(Detached(n), es, p.taken, order)} :
          /\ seen' = [txs |-> p.txs, keys |-> p.keys]
          /\ IF r.ok
             THEN /\ subs' = [s \in Subs |-> advanceHeight(r.subs[s], top)]
                  /\ state' = SubSeq(chain, 1, top)
                  /\ half' = IF n < Len(state) \/ IsPrefix(half, state') THEN <<>> ELSE half
             ELSE /\ subs' = r.subs
                  /\ state' = SubSeq(state, 1, n)
                  /\ half' = SubSeq(chain, 1, top)
    /\ UNCHANGED <<chain, pool, poolTxs, fresh, running, steps, troubles>>

\* The query for global indices fails for some transaction: every subscription detaches the
\* blocks that were to be added, and onNewBlocks returns FALSE.
NewBlocksError ==
    /\ NewBlocksKnown /\ Trouble
    /\ \E n \in {Common(state, chain)} : \E top \in {Least(n + BatchLimit, Len(chain))} :
       \E done \in SUBSET Relevant(Entries(chain, n + 1, top)) :
       \E order \in Orders : \E ts \in SetToSeqs(done) : \E p \in {preprocessOutputs(ts, order)} :
          /\ seen' = [txs |-> p.txs, keys |-> p.keys]
          /\ subs' = [s \in Subs |-> detach(Detached(n)[s], n + 1)]
          /\ state' = SubSeq(state, 1, n) /\ half' = <<>>
    /\ UNCHANGED <<chain, pool, poolTxs, fresh, running, steps>>

\* What the pool lost is deleted from every container.
Deleted(cs, ts) == [s \in Subs |-> FoldLeft(LAMBDA c, t : deleteUnconfirmedTransaction(c, t), cs[s], SetToSeq(ts))]

\* With the daemon on the consumer's last block: what is new in the pool, in any order, then
\* what has left it.  An exception is caught by nobody and ends the program.
onPoolUpdated ==
    /\ running /\ ~fresh /\ state = chain /\ poolTxs # pool
    /\ \E ts \in SetToSeqs(pool \ poolTxs) : \E order \in Orders :
       \E p \in {preprocessOutputs(ts, order)} :
       \E r \in {processTransactions(subs, [i \in DOMAIN ts |-> AddUnconfirmed(ts[i])], p.taken, order)} :
          /\ running' = r.ok
          /\ subs' = IF r.ok THEN Deleted(r.subs, poolTxs \ pool) ELSE r.subs
          /\ seen' = [txs |-> p.txs, keys |-> p.keys]
          /\ poolTxs' = IF r.ok THEN pool ELSE poolTxs \cup pool
    /\ UNCHANGED <<chain, pool, state, fresh, half, steps, troubles>>

removeOutdatedTransactions ==
    /\ running /\ fresh
    /\ subs' = Deleted(subs, poolTxs \ pool)
    /\ poolTxs' = poolTxs \cap pool
    /\ fresh' = FALSE
    /\ UNCHANGED <<chain, pool, state, seen, half, running, steps, troubles>>

(***************************************************************************)
(* The wallet                                                              *)
(***************************************************************************)
Spendable(k) == \E s \in Subs : \E o \in subs[s].avail : Key(o) = k /\ o.visible

\* A transaction of the wallet's own is added before it is sent; the daemon takes it, or refuses
\* it and it is removed again.  An exception is an error to the wallet, which does not send.
addUnconfirmedTransaction(t) ==
    /\ running /\ t \in Own /\ \A s \in Subs : ~Known(subs[s], t)
    /\ Tx[t].ins # <<>> /\ \A k \in SpentBy({t}) : Spendable(k)
    /\ \E order \in Orders : \E p \in {preprocessOutputs(<<t>>, order)} :
       \E r \in {processTransactions(subs, <<AddUnconfirmed(t)>>, p.taken, order)} :
          /\ seen' = [txs |-> p.txs, keys |-> p.keys]
          /\ IF r.ok /\ ValidPool(chain, pool \cup {t}) /\ t \notin pool
             THEN subs' = r.subs /\ pool' = pool \cup {t}
             ELSE subs' = [s \in Subs |-> deleteUnconfirmedTransaction(r.subs[s], t)] /\ UNCHANGED pool
    /\ UNCHANGED <<chain, state, poolTxs, fresh, half, running, steps, troubles>>

\* The wallet is saved, ended and started again.  The keys seen are then those of the outputs
\* that getOutputs returns, the known pool transactions those that are unconfirmed in a
\* container.  (A start after a crash, from an older file, is this step at the time of the save
\* and what the daemon did since.)
restart ==
    /\ running /\ Trouble
    /\ subs' \in [Subs -> UNION {Loads(subs[s]) : s \in Subs}]
    /\ \A s \in Subs : subs'[s] \in Loads(subs[s])
    /\ LET Shown(s) == {o \in subs'[s].avail \cup subs'[s].unconf : o.visible}
           shown == UNION {Shown(s) : s \in Subs}
       IN  seen' = [txs |-> {o.tx : o \in shown}, keys |-> KeysOf(shown)]
    /\ poolTxs' = UNION {{e.tx : e \in {e \in Range(subs'[s].txs) : e.height = Unconfirmed}} : s \in Subs}
    /\ fresh' = TRUE
    /\ UNCHANGED <<chain, pool, state, half, running, steps>>

Next ==
    \/ Daemon
    \/ onNewBlocks \/ NewBlocksError \/ onPoolUpdated \/ removeOutdatedTransactions
    \/ \E t \in Own : addUnconfirmedTransaction(t)
    \/ restart

Spec == Init /\ [][Next]_vars

(***************************************************************************)
(* Properties                                                              *)
(***************************************************************************)
OutputIds == UNION {{<<t, i>> : i \in Outs(t)} : t \in Txs}
Id(o) == <<o.tx, o.out>>

\* Containers hold outputs of known transactions at heights of the chain, each in one place.
TypeOK ==
    /\ state \in Seq(DOMAIN BlockTxs) /\ poolTxs \subseteq Txs /\ seen.txs \subseteq Txs /\ seen.keys \subseteq Keys
    /\ \A s \in Subs : LET c == subs[s] IN
          /\ \A o \in c.unconf \cup c.avail \cup c.spent : Id(o) \in OutputIds /\ o.visible \in BOOLEAN
          /\ \A o \in c.unconf : o.height = Unconfirmed
          /\ \A o \in c.avail \cup c.spent : o.height \in 1..(Unconfirmed - 1)
          /\ \A S, T \in {c.unconf, c.avail, c.spent} : S # T => {Id(o) : o \in S} \cap {Id(o) : o \in T} = {}

\* Output i of t, and those before it to the same subscription, have keys that are paid to once:
\* createTransfers then takes it whatever was seen before.
Sole(t, i) ==
    \A j \in {j \in 1..i : Tx[t].outs[j].to = Tx[t].outs[i].to} :
        Cardinality({x \in OutputIds : Tx[x[1]].outs[x[2]].key = Tx[t].outs[j].key}) = 1
OnChain(s) == {x \in UNION {{<<e.tx, i, e.height>> : i \in Outs(e.tx)} : e \in Range(Entries(state, 1, Len(state)))} :
                  Tx[x[1]].outs[x[2]].to = s}

\* Whatever blocks came, were detached, refused or saved and loaded before, a container holds
\* exactly what a first synchronization of the same chain would give it: the outputs of the
\* chain with their heights, those spent on the chain as spent, and the chain's height.
\* (Not while an exception has left blocks half processed, and for keys paid to once.)
ReplaysChain ==
    half = <<>> => \A s \in Subs : LET c == subs[s] IN
        /\ {<<o.tx, o.out, o.height>> : o \in {o \in c.avail \cup c.spent : Sole(o.tx, o.out)}}
             = {x \in OnChain(s) : Sole(x[1], x[2])}
        /\ \A o \in c.avail : Sole(o.tx, o.out) => Key(o) \notin SpentBy(TxsOf(state))
        /\ \A o \in c.spent : o.byHeight # Unconfirmed => o.by \in Range(BlockTxs[state[o.byHeight]])
        /\ c.height = Len(state)

\* Of the outputs with one key image, which only one transaction can ever spend, exactly one
\* counts: the spent one, else one available one; several unconfirmed ones count nothing.
ImagesCountedOnce ==
    \A s \in Subs : LET c == subs[s] IN \A k \in Keys :
        LET all == WithKey(c.unconf, k) \cup WithKey(c.avail, k) \cup WithKey(c.spent, k)
            shown == {o \in all : o.visible}
        IN  /\ Cardinality(shown) <= 1
            /\ WithKey(c.spent, k) # {} => shown \subseteq c.spent
            /\ WithKey(c.avail, k) \cup WithKey(c.spent, k) # {} => shown # {}

\* Every spent output names a transaction the container knows, at that transaction's height, and
\* the transactions are in the order of their heights, on which detach stops early.
SpendersKnown ==
    \A s \in Subs : LET c == subs[s] IN
        /\ \A o \in c.spent : Known(c, o.by) /\ HeightOf(c, o.by) = o.byHeight
        /\ \A i, j \in DOMAIN c.txs : i < j => c.txs[i].height <= c.txs[j].height /\ c.txs[i].tx # c.txs[j].tx

\* A container never holds an output of a transaction it does not know: what load repairs comes
\* from an earlier version of the program only.
RepairNotNeeded ==
    \A s \in Subs : \A o \in subs[s].unconf \cup subs[s].avail \cup subs[s].spent : Known(subs[s], o.tx)

\* A container's three sets, its visible outputs and its list of transactions fit together.
CountedOnce == TypeOK /\ ImagesCountedOnce /\ SpendersKnown /\ RepairNotNeeded

\* Money is held back for a reason: an unconfirmed transaction that spends an output is one
\* that the pool was last known to hold, or the wallet's own.
ReservedForReason ==
    \A s \in Subs : \A o \in subs[s].spent : o.byHeight = Unconfirmed => o.by \in poolTxs \cup Own
=============================================================================
