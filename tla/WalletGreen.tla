----------------------------- MODULE WalletGreen -----------------------------
(***************************************************************************)
(* The container wallet (WalletGreen): addresses with cached balances, a   *)
(* list of transactions and the delayed ones.  The synchronizer's thread   *)
(* changes the transfers containers and posts an event for every change to *)
(* the wallet's dispatcher; a handler context per event brings the cached  *)
(* state up to date.  One client context makes, commits and rolls back     *)
(* transactions, deletes addresses, saves and reloads the container.       *)
(* m_readyEvent, the lock of Dispatcher, keeps an operation that waits for *)
(* the node or the synchronizer apart from the handlers.                   *)
(***************************************************************************)
EXTENDS Dispatcher, Integers

CONSTANTS
    Addrs,         \* addresses of the container
    Outgoing,      \* transactions the client may make
    Incoming,      \* transactions others make
    Parties,       \* the addresses whose containers a transaction changes
    Destinations,  \* those among its destinations
    SoftLock,      \* m_transactionSoftLockTime
    MaxTransactions, \* bound: transactions ever made
    MaxBlocks,     \* bound: blocks ever mined
    MaxTurns,      \* bound: reorganisations, kills, failing calls of the synchronizer and the node, and
                   \* requests other than those that make a transaction
    MaxQueued      \* bound: events that the synchronizer is ahead of the dispatcher

Txs == Outgoing \cup Incoming
Unconfirmed == 0   \* WALLET_UNCONFIRMED_TRANSACTION_HEIGHT
Absent == -1

ASSUME TransactionsAssumption ==
    /\ Outgoing \cap Incoming = {} /\ SoftLock \in Nat \ {0}
    /\ Parties \in [Txs -> SUBSET Addrs \ {{}}]
    /\ Destinations \in [Txs -> SUBSET Addrs] /\ \A t \in Txs : Destinations[t] \subseteq Parties[t]

VARIABLES
    m_state,                   \* initialized
    wallets,                   \* m_walletsContainer: the addresses
    actual, pending,           \* the transactions in each address's cached balance, unlocked and locked
    m_actualBalance, m_pendingBalance,
    m_transactions,            \* by id: hash, state, height, and the own addresses of its transfers
    m_uncommitedTransactions,  \* pairs of an id and a hash
    m_unlockTransactionsJob,   \* height, address of the container, hash
    m_blockchain,              \* the number of its blocks
    view,                      \* the blocks the containers know
    unconfirmed,               \* the unconfirmed transactions in the containers
    poolTxs,                   \* TransfersConsumer::m_poolTxs
    half,                      \* the containers have the block's transactions but not yet its height
    chain, pool, mined,        \* the daemon's
    at, op, task, result,      \* where the client is, its operation, what it waits for, the answer
    disk,                      \* the container file
    loaded,                    \* history: transactions whose record came from the file
    missed,                    \* history: the file was written while events were queued
    made,                      \* history: the transactions there are
    reorgs, requests, kills, failures

cacheVars == <<wallets, actual, pending, m_actualBalance, m_pendingBalance, m_transactions,
               m_uncommitedTransactions, m_unlockTransactionsJob, m_blockchain>>
syncVars == <<view, unconfirmed, poolTxs, half>>
daemonVars == <<chain, pool, mined, reorgs>>
clientVars == <<at, op, task, result, requests, failures, made>>
fileVars == <<disk, loaded, missed, kills>>
vars == <<dispatcherVars, m_state, cacheVars, syncVars, daemonVars, clientVars, fileVars>>

Client == <<"client">>
Done == <<"done">>   \* a remote procedure that sets the event the client waits for
IsEvent(c) == c \notin {Client, Done, RemoteSpawnEvent}

Turns == reorgs + kills + failures + requests

NoOperation == [kind |-> "none", tx |-> Nobody, id |-> 0]
NoTask == <<"none", Nobody>>

\* What a file holds when nothing but the keys were saved
EmptyCache(as) ==
    [wallets |-> as, transactions |-> <<>>, uncommited |-> {}, jobs |-> {}, view |-> <<>>, unconfirmed |-> {},
     actual |-> [a \in Addrs |-> {}], pending |-> [a \in Addrs |-> {}], queued |-> FALSE]

-----------------------------------------------------------------------------
(* The transfers containers. *)

Top == Len(view)
MinedAt(t) == {h \in 1..Top : view[h].tx = t}

\* getTransactionInformation: the height of a transaction in the containers
Known(t) ==
    IF MinedAt(t) # {} THEN CHOOSE h \in MinedAt(t) : TRUE
    ELSE IF t \in unconfirmed THEN Unconfirmed ELSE Absent

\* m_currentHeight: advanceHeight comes after the transactions of the block.
CurrentHeight == IF half THEN Top - 1 ELSE Top

\* balance(IncludeAllUnlocked) and balance(IncludeAllLocked)
Unlocked(a) ==
    {t \in Txs : a \in Parties[t] /\ Known(t) > 0 /\ Known(t) + SoftLock <= CurrentHeight}
Locked(a) == {t \in Txs : a \in Parties[t] /\ Known(t) # Absent} \ Unlocked(a)

Init ==
    /\ DispatcherInit
    /\ m_state = "INITIALIZED" /\ wallets = Addrs
    /\ actual = [a \in Addrs |-> {}] /\ pending = [a \in Addrs |-> {}]
    /\ m_actualBalance = 0 /\ m_pendingBalance = 0
    /\ m_transactions = <<>> /\ m_uncommitedTransactions = {} /\ m_unlockTransactionsJob = {}
    /\ m_blockchain = 0
    /\ view = <<>> /\ unconfirmed = {} /\ poolTxs = {} /\ half = FALSE
    /\ chain = <<>> /\ pool = {} /\ mined = 0 /\ reorgs = 0
    /\ at = "idle" /\ op = NoOperation /\ task = NoTask /\ result = "ok"
    /\ requests = 0 /\ failures = 0 /\ made = {}
    /\ disk = [keys |-> Addrs, cache |-> EmptyCache(Addrs)] /\ loaded = {} /\ missed = FALSE /\ kills = 0

-----------------------------------------------------------------------------
(* The daemon, and the synchronizer's thread. *)

\* remoteSpawn of each procedure in turn, by another thread
Post(procedures) ==
    /\ remote' = remote \o procedures
    /\ ready' = IF procedures = <<>> \/ RemoteSpawnEvent \in Range(ready) THEN ready
                ELSE Append(ready, RemoteSpawnEvent)
    /\ UNCHANGED <<current, resuming, free, waiters, group, joining>>

Subscribed(t) == Parties[t] \cap wallets

\* The observers' calls: one event for all containers of a changed transaction, ...
Updated(t, h) == IF Subscribed(t) = {} THEN <<>> ELSE <<<<"updated", t, h, Subscribed(t)>>>>
\* ... and one for each container that has lost it.
Deleted(ts) ==
    LET lost == UNION {{<<"deleted", a, t>> : a \in Subscribed(t)} : t \in ts} IN SetToSeq(lost)

\* The daemon mines a block, with a transaction of its pool or none.
Mine(ts) ==
    /\ mined < MaxBlocks /\ ts \subseteq pool /\ Cardinality(ts) <= 1
    /\ chain' = Append(chain, [id |-> mined + 1, tx |-> IF ts = {} THEN Nobody ELSE CHOOSE t \in ts : TRUE])
    /\ mined' = mined + 1 /\ pool' = pool \ ts
    /\ UNCHANGED <<dispatcherVars, m_state, cacheVars, syncVars, reorgs, clientVars, fileVars>>

\* Blocks from height k + 1 on are abandoned; their transactions are back in the pool.
Reorganize(k) ==
    /\ Turns < MaxTurns /\ k < Len(chain)
    /\ reorgs' = reorgs + 1 /\ chain' = SubSeq(chain, 1, k)
    /\ pool' = pool \cup ({chain[h].tx : h \in k + 1..Len(chain)} \ {Nobody})
    /\ UNCHANGED <<dispatcherVars, m_state, cacheVars, syncVars, mined, clientVars, fileVars>>

Makes(t) == t \notin made /\ Cardinality(made) < MaxTransactions /\ made' = made \cup {t}

\* A transaction reaches the daemon's pool from elsewhere, or leaves it.
PoolChanges(t) ==
    /\ \A h \in 1..Len(chain) : chain[h].tx # t
    /\ \/ t \in Incoming /\ Makes(t) /\ pool' = pool \cup {t}
       \/ t \in pool /\ Turns < MaxTurns /\ pool' = pool \ {t} /\ UNCHANGED made
    /\ failures' = IF t \in pool THEN failures + 1 ELSE failures
    /\ UNCHANGED <<dispatcherVars, m_state, cacheVars, syncVars, chain, mined, reorgs,
                   at, op, task, result, requests, fileVars>>

Started == m_state = "INITIALIZED" /\ wallets # {} /\ Len(resuming \o remote \o waiters) < MaxQueued
Common == CHOOSE k \in 0..Top : /\ IsPrefix(SubSeq(view, 1, k), chain)
                                /\ k < Top => ~IsPrefix(SubSeq(view, 1, k + 1), chain)

\* onBlockchainDetach: the consumer's observers, then every container
onBlockchainDetach ==
    /\ Started /\ ~half /\ Common < Top
    /\ view' = SubSeq(view, 1, Common)
    /\ Post(<<<<"blocksRollback", Common>>>>
            \o Deleted({view[h].tx : h \in Common + 1..Top} \ {Nobody}))
    /\ UNCHANGED <<m_state, cacheVars, unconfirmed, poolTxs, half, daemonVars, clientVars, fileVars>>

\* onNewBlocks: the block's transactions enter the containers, ...
onNewBlocks ==
    /\ Started /\ ~half /\ Common = Top /\ Top < Len(chain)
    /\ LET block == chain[Top + 1]
       IN  /\ view' = Append(view, block) /\ half' = TRUE
           /\ unconfirmed' = unconfirmed \ {block.tx}
           /\ Post(<<<<"blocksAdded">>>> \o IF block.tx = Nobody THEN <<>> ELSE Updated(block.tx, Top + 1))
    /\ UNCHANGED <<m_state, cacheVars, poolTxs, daemonVars, clientVars, fileVars>>

\* ... then advanceHeight, and the synchronizer reports progress.
advanceHeight ==
    /\ half
    /\ half' = FALSE
    /\ Post(<<<<"progress", Top>>>>)
    /\ UNCHANGED <<m_state, cacheVars, view, unconfirmed, poolTxs, daemonVars, clientVars, fileVars>>

\* onPoolUpdated, for one transaction that is new in the daemon's pool or gone from it
onPoolUpdated(t) ==
    /\ Started /\ ~half /\ view = chain
    /\ \/ /\ t \in pool \ poolTxs
          /\ poolTxs' = poolTxs \cup {t}
          /\ unconfirmed' = unconfirmed \cup {t}
          /\ Post(IF Known(t) = Absent THEN Updated(t, Unconfirmed) ELSE <<>>)
       \/ /\ t \in poolTxs \ pool
          /\ poolTxs' = poolTxs \ {t}
          /\ unconfirmed' = unconfirmed \ {t}
          /\ Post(IF Known(t) = Unconfirmed THEN Deleted({t}) ELSE <<>>)
    /\ UNCHANGED <<m_state, cacheVars, view, half, daemonVars, clientVars, fileVars>>

-----------------------------------------------------------------------------
(* The handlers: each in a context of its own, under m_readyEvent. *)

Sum(f, as) == MapThenSumSet(LAMBDA a : f[a], as)
Sizes(f) == [a \in Addrs |-> Cardinality(f[a])]

updateBalance(containers) ==
    LET as == containers \cap wallets
    IN  /\ actual' = [a \in Addrs |-> IF a \in as THEN Unlocked(a) ELSE actual[a]]
        /\ pending' = [a \in Addrs |-> IF a \in as THEN Locked(a) ELSE pending[a]]
        /\ m_actualBalance' = m_actualBalance + Sum(Sizes(actual'), as) - Sum(Sizes(actual), as)
        /\ m_pendingBalance' = m_pendingBalance + Sum(Sizes(pending'), as) - Sum(Sizes(pending), as)

IdsOf(t) == {i \in DOMAIN m_transactions : m_transactions[i].hash = t}

\* Mutant: a block changes nothing but the height.
UpdateHeightOnly(r, h) == [r EXCEPT !.height = h]

\* A transaction that was deleted or cancelled and comes back has succeeded; one
\* that is only created or failed has not, until it is in a block.
updateWalletTransactionInfo(r, h) ==
    [r EXCEPT !.height = h, !.state = IF @ \notin {"CREATED", "FAILED"} \/ h # Unconfirmed THEN "SUCCEEDED" ELSE @]

insertBlockchainTransaction(t, h) == [hash |-> t, state |-> "SUCCEEDED", height |-> h, transfers |-> {}]

\* An unknown container ends the handler with an exception, after some of the others.
updateTransactionTransfers(containers) ==
    IF containers \subseteq wallets THEN {containers \cup {Nobody}} ELSE SUBSET (containers \cap wallets)

transactionUpdated(t, h, containers) ==
    /\ \E more \in updateTransactionTransfers(containers) :
         m_transactions' =
            IF IdsOf(t) = {}
            THEN Append(m_transactions, [insertBlockchainTransaction(t, h) EXCEPT !.transfers = more])
            ELSE [i \in DOMAIN m_transactions |->
                    IF i \in IdsOf(t)
                    THEN [updateWalletTransactionInfo(m_transactions[i], h) EXCEPT !.transfers = @ \cup more]
                    ELSE m_transactions[i]]
    /\ m_uncommitedTransactions' =
         {u \in m_uncommitedTransactions : ~(h # Unconfirmed /\ u[1] \in IdsOf(t))}
    /\ updateBalance(containers)
    /\ m_unlockTransactionsJob' = m_unlockTransactionsJob \cup
         (IF h = Unconfirmed THEN {} ELSE {<<h + SoftLock, a, t>> : a \in containers})
    /\ UNCHANGED <<wallets, m_blockchain>>

transactionDeleted(a, t) ==
    /\ IF IdsOf(t) = {}
       THEN UNCHANGED <<actual, pending, m_actualBalance, m_pendingBalance, m_unlockTransactionsJob, m_transactions>>
       ELSE /\ updateBalance({a})
            /\ m_unlockTransactionsJob' = {j \in m_unlockTransactionsJob : j[3] # t}
            /\ m_transactions' =
                 [i \in DOMAIN m_transactions |->
                    IF i \notin IdsOf(t) THEN m_transactions[i]
                    ELSE [m_transactions[i] EXCEPT !.height = Unconfirmed,
                            !.state = IF @ \in {"CREATED", "SUCCEEDED"} THEN "CANCELLED" ELSE @]]
    /\ UNCHANGED <<wallets, m_uncommitedTransactions, m_blockchain>>

blocksAdded ==
    /\ m_blockchain' = m_blockchain + 1
    /\ UNCHANGED <<wallets, actual, pending, m_actualBalance, m_pendingBalance, m_transactions,
                   m_uncommitedTransactions, m_unlockTransactionsJob>>

blocksRollback(k) ==
    /\ m_blockchain' = k
    /\ UNCHANGED <<wallets, actual, pending, m_actualBalance, m_pendingBalance, m_transactions,
                   m_uncommitedTransactions, m_unlockTransactionsJob>>

\* Mutant: the jobs of this very height stay.
UnlockBelow(h) ==
    LET due == {j \in m_unlockTransactionsJob : j[1] < h}
    IN  /\ updateBalance({j[2] : j \in due})
        /\ m_unlockTransactionsJob' = m_unlockTransactionsJob \ due
        /\ UNCHANGED <<wallets, m_transactions, m_uncommitedTransactions, m_blockchain>>

\* onSynchronizationProgressUpdated
unlockBalances(h) ==
    LET due == {j \in m_unlockTransactionsJob : j[1] <= h}
    IN  /\ updateBalance({j[2] : j \in due})
        /\ m_unlockTransactionsJob' = m_unlockTransactionsJob \ due
        /\ UNCHANGED <<wallets, m_transactions, m_uncommitedTransactions, m_blockchain>>

Handle(e) ==
    CASE e[1] = "updated" -> transactionUpdated(e[2], e[3], e[4])
      [] e[1] = "deleted" -> transactionDeleted(e[2], e[3])
      [] e[1] = "blocksAdded" -> blocksAdded
      [] e[1] = "blocksRollback" -> blocksRollback(e[2])
      [] e[1] = "progress" -> unlockBalances(e[2])

\* A handler locks, returns at once when the wallet is shut down, and unlocks.
Handler ==
    /\ current # Nobody /\ IsEvent(current)
    /\ \/ LockWaits /\ UNCHANGED cacheVars
       \/ /\ free /\ Wait
          /\ IF m_state = "INITIALIZED" THEN Handle(current) ELSE UNCHANGED cacheVars
    /\ UNCHANGED <<m_state, syncVars, daemonVars, clientVars, fileVars>>

\* The event that the client waits for is set.
Completion ==
    /\ current = Done
    /\ current' = Nobody /\ resuming' = Append(resuming, Client)
    /\ UNCHANGED <<remote, ready, free, waiters, group, joining,
                   m_state, cacheVars, syncVars, daemonVars, clientVars, fileVars>>

-----------------------------------------------------------------------------
(* What the client waits for, done by the synchronizer's and the node's threads. *)

Completes(r, events) ==
    /\ task' = NoTask /\ result' = r
    /\ failures' = IF r = "ok" THEN failures ELSE failures + 1
    /\ Post(events \o <<Done>>)
    /\ UNCHANGED <<m_state, cacheVars, view, poolTxs, half, chain, mined, reorgs, at, op, requests, fileVars>>

addUnconfirmedTransaction(t) ==
    /\ task = <<"add", t>>
    /\ \/ /\ unconfirmed' = unconfirmed \cup {t}
          /\ Completes("ok", IF Known(t) = Absent THEN Updated(t, Unconfirmed) ELSE <<>>)
       \/ /\ Turns < MaxTurns
          /\ UNCHANGED unconfirmed
          /\ Completes("failed", <<>>)
    /\ UNCHANGED <<pool, made>>

removeUnconfirmedTransaction(t) ==
    /\ task = <<"remove", t>>
    /\ unconfirmed' = unconfirmed \ {t}
    /\ Completes("ok", IF Known(t) = Unconfirmed THEN Deleted({t}) ELSE <<>>)
    /\ UNCHANGED <<pool, made>>

\* The daemon takes the transaction, refuses it, or takes it and its answer is lost.
relayTransaction(t) ==
    /\ task = <<"relay", t>>
    /\ \E taken \in BOOLEAN, r \in {"ok", "failed"} :
          /\ r = "ok" => taken
          /\ r = "failed" => Turns < MaxTurns
          /\ pool' = IF taken /\ \A h \in 1..Len(chain) : chain[h].tx # t THEN pool \cup {t} ELSE pool
          /\ Completes(r, <<>>)
    /\ UNCHANGED <<unconfirmed, made>>

-----------------------------------------------------------------------------
(* The client's context. *)

Operations ==
    [kind : {"commit", "rollback"}, tx : {Nobody}, id : DOMAIN m_transactions]
    \cup [kind : {"save", "reload", "rescan", "reset"}, tx : {Nobody}, id : {0}]
    \cup [kind : {"deleteAddress"}, tx : wallets, id : {0}]

\* A request arrives at the client's socket.
Request ==
    /\ at = "idle" /\ m_state = "INITIALIZED" /\ current # Client
    /\ \/ /\ \E t \in Outgoing, k \in {"transfer", "make"} :
               /\ Makes(t) /\ Parties[t] \subseteq wallets
               /\ op' = [kind |-> k, tx |-> t, id |-> 0]
          /\ UNCHANGED requests
       \/ Turns < MaxTurns /\ op' \in Operations /\ requests' = requests + 1 /\ UNCHANGED made
    /\ at' = "starts" /\ Ready(Client)
    /\ UNCHANGED <<m_state, cacheVars, syncVars, daemonVars, task, result, failures, fileVars>>

Starts(kinds) == current = Client /\ at = "starts" /\ op.kind \in kinds

\* The client asks another thread and waits with the lock held.
Asks(what, t) ==
    /\ task' = <<what, t>> /\ at' = what
    /\ UNCHANGED <<m_state, syncVars, daemonVars, result, requests, failures, made, fileVars>>
Leaves(where) ==
    /\ at' = where
    /\ UNCHANGED <<m_state, syncVars, daemonVars, op, task, result, requests, failures, made, fileVars>>
Answered(what) == current = Client /\ at = what /\ task = NoTask

SetState(id, st) == m_transactions' = [m_transactions EXCEPT ![id].state = st]
KeepBalances ==
    UNCHANGED <<wallets, actual, pending, m_actualBalance, m_pendingBalance, m_unlockTransactionsJob, m_blockchain>>

insertOutgoingTransaction(t) ==
    [hash |-> t, state |-> "CREATED", height |-> Unconfirmed, transfers |-> Destinations[t] \cup {Nobody}]

\* transfer and makeTransaction, up to addUnconfirmedTransaction
doTransfer ==
    /\ Starts({"transfer", "make"}) /\ Locks
    /\ m_transactions' = Append(m_transactions, insertOutgoingTransaction(op.tx))
    /\ op' = [op EXCEPT !.id = Len(m_transactions) + 1]
    /\ Asks("add", op.tx)
    /\ KeepBalances /\ UNCHANGED m_uncommitedTransactions

\* ... and after it: the transaction is sent, or kept for commitTransaction
sendTransaction ==
    /\ Answered("add") /\ result = "ok" /\ op.kind = "transfer" /\ Wait
    /\ Asks("relay", op.tx) /\ UNCHANGED <<cacheVars, op>>
delayTransaction ==
    /\ Answered("add") /\ result = "ok" /\ op.kind = "make"
    /\ m_uncommitedTransactions' = m_uncommitedTransactions \cup
         IF \E u \in m_uncommitedTransactions : u[1] = op.id THEN {} ELSE {<<op.id, op.tx>>}
    /\ Leaves("unlock") /\ KeepBalances /\ UNCHANGED <<dispatcherVars, m_transactions>>
rollbackTransactionInsertion ==
    /\ Answered("add") /\ result = "failed"
    /\ SetState(op.id, "FAILED")
    /\ Leaves("unlock") /\ KeepBalances /\ UNCHANGED <<dispatcherVars, m_uncommitedTransactions>>

\* After the node's answer: the state; when it failed, first the synchronizer forgets the transaction.
transactionSent ==
    /\ Answered("relay") /\ result = "ok"
    /\ SetState(op.id, "SUCCEEDED")
    /\ m_uncommitedTransactions' =
         {u \in m_uncommitedTransactions : ~(op.kind = "commit" /\ u[1] = op.id)}
    /\ Leaves("unlock") /\ KeepBalances /\ UNCHANGED dispatcherVars
rollbackAddingUnconfirmedTransaction ==
    /\ Answered("relay") /\ result = "failed" /\ op.kind = "transfer" /\ Wait
    /\ Asks("remove", op.tx) /\ UNCHANGED <<cacheVars, op>>
commitFailed ==
    /\ Answered("relay") /\ result = "failed" /\ op.kind = "commit"
    /\ Leaves("unlock") /\ UNCHANGED <<dispatcherVars, cacheVars>>
transactionRemoved ==
    /\ Answered("remove")
    /\ IF op.kind = "transfer" THEN SetState(op.id, "FAILED") /\ UNCHANGED m_uncommitedTransactions
       ELSE /\ m_uncommitedTransactions' = {u \in m_uncommitedTransactions : u[1] # op.id}
            /\ UNCHANGED m_transactions
    /\ Leaves("unlock") /\ KeepBalances /\ UNCHANGED dispatcherVars

\* commitTransaction and rollbackUncommitedTransaction: a delayed transaction in state CREATED
Delayed(id) ==
    {u[2] : u \in {u \in m_uncommitedTransactions : u[1] = id /\ m_transactions[id].state = "CREATED"}}
commitOrRollback ==
    /\ Starts({"commit", "rollback"}) /\ Locks
    /\ \E t \in Delayed(op.id) : Asks(IF op.kind = "commit" THEN "relay" ELSE "remove", t)
    /\ UNCHANGED <<op, cacheVars>>
impossible ==
    /\ Starts({"commit", "rollback"}) /\ free /\ Delayed(op.id) = {}
    /\ Leaves(IF op.kind = "commit" THEN "end" ELSE "yield") /\ UNCHANGED <<dispatcherVars, cacheVars>>

\* The lock is released; all operations but commitTransaction yield; the next request is waited for.
Releases ==
    /\ current = Client /\ at = "unlock"
    /\ Unlock
    /\ Leaves(IF op.kind = "commit" THEN "end" ELSE "yield") /\ UNCHANGED cacheVars
Yields ==
    /\ current = Client /\ at = "yield"
    /\ IF Pending THEN Yield ELSE UNCHANGED dispatcherVars
    /\ Leaves(IF m_state = "INITIALIZED" THEN "end" ELSE "load") /\ UNCHANGED cacheVars
Ends ==
    /\ current = Client /\ at = "end" /\ Wait
    /\ at' = "idle" /\ op' = NoOperation
    /\ UNCHANGED <<m_state, cacheVars, syncVars, daemonVars, task, result, requests, failures, made, fileVars>>

-----------------------------------------------------------------------------
(* The container file. stopBlockchainSynchronizer waits for the step under way, hence ~half. *)

Queued == \E c \in Range(resuming \o remote \o waiters) \cup {current} : c # Nobody /\ IsEvent(c)

filterOutTransactions(states) == SelectSeq(m_transactions, LAMBDA r : r.state \notin states)

\* saveWalletCache. The state of a transaction is not written: it is read back as SUCCEEDED.
Saved(r) == [r EXCEPT !.state = "SUCCEEDED"]
saveAll ==
    [wallets |-> wallets, transactions |-> [i \in DOMAIN filterOutTransactions({"DELETED"}) |->
                                               Saved(filterOutTransactions({"DELETED"})[i])],
     uncommited |-> m_uncommitedTransactions, jobs |-> m_unlockTransactionsJob,
     view |-> view, unconfirmed |-> unconfirmed, actual |-> actual, pending |-> pending, queued |-> Queued \/ missed]
saveKeysAndTransactions ==
    LET kept == filterOutTransactions({"CREATED", "DELETED"})
    IN  [EmptyCache(wallets) EXCEPT
           !.transactions = [i \in DOMAIN kept |-> [Saved(kept[i]) EXCEPT !.height = Unconfirmed]]]

SaveLevel(kind) ==
    CASE kind = "save" -> saveAll
      [] kind = "rescan" -> saveKeysAndTransactions
      [] kind = "reset" -> EmptyCache(wallets)
      [] kind = "reload" -> disk.cache

save ==
    /\ Starts({"save"}) /\ ~half
    /\ disk' = [disk EXCEPT !.cache = SaveLevel("save")]
    /\ at' = "end"
    /\ UNCHANGED <<dispatcherVars, m_state, cacheVars, syncVars, daemonVars, op, task, result, requests, failures,
                   made, loaded, missed, kills>>

\* deleteTransfersForAddress, for addresses that are no longer the container's: a transaction
\* whose transfers name no other address of the container is deleted.
deleteTransfersForAddress(txs, left) ==
    [i \in DOMAIN txs |->
       IF txs[i].transfers = {} \/ txs[i].transfers \cap left # {} THEN txs[i]
       ELSE [txs[i] EXCEPT !.state = "DELETED", !.height = Unconfirmed]]
deleteFromUncommitedTransactions(us, txs, left) ==
    {u \in us : u[1] \in DOMAIN txs => txs[u[1]].transfers = {} \/ txs[u[1]].transfers \cap left # {}}

subtractBalance(a) ==
    /\ m_actualBalance' = m_actualBalance - Cardinality(actual[a])
    /\ m_pendingBalance' = m_pendingBalance - Cardinality(pending[a])
    /\ actual' = [actual EXCEPT ![a] = {}] /\ pending' = [pending EXCEPT ![a] = {}]

\* The address leaves the key storage at once, the rest of the file with the next save.
deleteAddress(a) ==
    /\ Starts({"deleteAddress"}) /\ ~half /\ op.tx = a
    /\ wallets' = wallets \ {a}
    /\ subtractBalance(a)
    /\ m_unlockTransactionsJob' = {j \in m_unlockTransactionsJob : j[2] # a}
    /\ m_transactions' = deleteTransfersForAddress(m_transactions, wallets')
    /\ m_uncommitedTransactions' =
         deleteFromUncommitedTransactions(m_uncommitedTransactions, m_transactions, wallets')
    /\ m_blockchain' = IF wallets' = {} THEN 0 ELSE m_blockchain
    /\ disk' = [disk EXCEPT !.keys = @ \ {a}]
    /\ at' = "end"
    /\ UNCHANGED <<dispatcherVars, m_state, syncVars, daemonVars, op, task, result, requests, failures,
                   made, loaded, missed, kills>>

\* doShutdown forgets everything; the handlers still queued find the wallet not initialized.
Forget ==
    /\ m_state' = "NOT_INITIALIZED" /\ wallets' = {}
    /\ actual' = [a \in Addrs |-> {}] /\ pending' = [a \in Addrs |-> {}]
    /\ m_actualBalance' = 0 /\ m_pendingBalance' = 0
    /\ m_transactions' = <<>> /\ m_uncommitedTransactions' = {} /\ m_unlockTransactionsJob' = {}
    /\ m_blockchain' = 0
    /\ view' = <<>> /\ unconfirmed' = {} /\ poolTxs' = {} /\ half' = FALSE

\* shutdown, before or after a save; its yield lets the remote spawns finish.
shutdown ==
    /\ Starts({"reload", "rescan", "reset"}) /\ ~half
    /\ disk' = [disk EXCEPT !.cache = SaveLevel(op.kind)]
    /\ Forget /\ at' = "yield"
    /\ UNCHANGED <<dispatcherVars, daemonVars, op, task, result, requests, failures, made, loaded, missed, kills>>

\* The process is killed and started again.
Kill ==
    /\ Turns < MaxTurns /\ m_state = "INITIALIZED"
    /\ kills' = kills + 1
    /\ Forget /\ at' = "load" /\ op' = NoOperation /\ task' = NoTask /\ result' = "ok"
    /\ current' = Client /\ resuming' = <<>> /\ remote' = <<>> /\ ready' = <<>>
    /\ free' = TRUE /\ waiters' = <<>> /\ UNCHANGED <<group, joining>>
    /\ UNCHANGED <<daemonVars, requests, failures, made, disk, loaded, missed>>

\* load: the cache counts for the addresses of the key storage; it is saved again without the
\* transactions of those that are gone.
load ==
    LET c == disk.cache
        gone == c.wallets \ disk.keys
        kept == deleteTransfersForAddress(c.transactions, disk.keys)
    IN  /\ current = Client /\ at = "load"
        /\ m_state' = "INITIALIZED" /\ wallets' = disk.keys
        /\ actual' = [a \in Addrs |-> IF a \in disk.keys THEN c.actual[a] ELSE {}]
        /\ pending' = [a \in Addrs |-> IF a \in disk.keys THEN c.pending[a] ELSE {}]
        /\ m_actualBalance' = Sum(Sizes(c.actual), disk.keys)
        /\ m_pendingBalance' = Sum(Sizes(c.pending), disk.keys)
        /\ m_unlockTransactionsJob' = {j \in c.jobs : j[2] \in disk.keys}
        /\ m_transactions' = IF gone = {} THEN c.transactions ELSE kept
        /\ m_uncommitedTransactions' =
             IF gone = {} THEN c.uncommited
             ELSE deleteFromUncommitedTransactions(c.uncommited, c.transactions, disk.keys)
        /\ m_blockchain' = Len(c.view)
        /\ view' = c.view /\ unconfirmed' = c.unconfirmed /\ half' = FALSE
        /\ poolTxs' = c.unconfirmed \ {u[2] : u \in m_uncommitedTransactions'}
        /\ loaded' = {c.transactions[i].hash : i \in DOMAIN c.transactions}
        /\ missed' = c.queued
        /\ disk' = IF gone = {} THEN disk
                   ELSE [disk EXCEPT !.cache =
                           [c EXCEPT !.wallets = disk.keys, !.actual = actual', !.pending = pending',
                                     !.jobs = m_unlockTransactionsJob', !.uncommited = m_uncommitedTransactions',
                                     !.transactions = SelectSeq(kept, LAMBDA r : r.state # "DELETED")]]
        /\ at' = "end"
        /\ UNCHANGED <<dispatcherVars, daemonVars, op, task, result, requests, failures, made, kills>>

-----------------------------------------------------------------------------
Daemon ==
    \/ \E ts \in SUBSET Txs : Mine(ts)
    \/ \E k \in 0..MaxBlocks : Reorganize(k)
    \/ \E t \in Txs : PoolChanges(t)

Synchronizer ==
    \/ onBlockchainDetach \/ onNewBlocks \/ advanceHeight
    \/ \E t \in Txs : onPoolUpdated(t)

Answers ==
    \E t \in Txs : addUnconfirmedTransaction(t) \/ removeUnconfirmedTransaction(t) \/ relayTransaction(t)

Scheduled == Dispatch /\ UNCHANGED <<m_state, cacheVars, syncVars, daemonVars, clientVars, fileVars>>

Operates ==
    \/ doTransfer \/ sendTransaction \/ delayTransaction \/ rollbackTransactionInsertion
    \/ transactionSent \/ rollbackAddingUnconfirmedTransaction \/ commitFailed \/ transactionRemoved
    \/ commitOrRollback \/ impossible \/ Releases \/ Yields \/ Ends
    \/ save \/ (\E a \in Addrs : deleteAddress(a)) \/ shutdown \/ load

Next ==
    \/ Daemon \/ Synchronizer \/ Answers \/ Scheduled \/ Handler \/ Completion
    \/ Request \/ Operates \/ Kill

\* The threads run; nothing makes the daemon's chain change or the client ask for anything.
Fairness ==
    /\ WF_vars(Synchronizer) /\ WF_vars(Answers)
    /\ WF_vars(Scheduled) /\ WF_vars(Handler) /\ WF_vars(Completion) /\ WF_vars(Operates)

Spec == Init /\ [][Next]_vars /\ Fairness

-----------------------------------------------------------------------------
Record == [hash : Txs, state : {"SUCCEEDED", "FAILED", "CANCELLED", "CREATED", "DELETED"},
           height : 0..MaxBlocks, transfers : SUBSET (Addrs \cup {Nobody})]
\* Every variable holds a value of its kind: the totals never fall below zero, and m_blockchain never
\* has fewer blocks than none or more than were mined, in whatever order its events are handled.
TypeOK ==
    /\ m_state \in {"INITIALIZED", "NOT_INITIALIZED"} /\ wallets \subseteq Addrs
    /\ actual \in [Addrs -> SUBSET Txs] /\ pending \in [Addrs -> SUBSET Txs]
    /\ m_actualBalance \in Nat /\ m_pendingBalance \in Nat
    /\ m_transactions \in Seq(Record) /\ m_blockchain \in 0..MaxBlocks
    /\ m_uncommitedTransactions \subseteq Nat \X Outgoing
    /\ m_unlockTransactionsJob \subseteq Nat \X Addrs \X Txs
    /\ unconfirmed \subseteq Txs /\ poolTxs \subseteq Txs

\* Nothing is under way: the handlers of all events have ended and the client waits for a request.
Quiet == m_state = "INITIALIZED" /\ at = "idle" /\ ~Queued /\ ~half

\* Once transactionUpdated and transactionDeleted have handled all events, the list of transactions
\* agrees with the containers of the addresses there are: a transaction they hold has its height, and
\* has succeeded if it is in a block; one they no longer hold counts neither as succeeded nor as
\* created.  Not so for a container file that save() wrote while events were queued (missed), nor for
\* the state of a record from the file, which is not written.
TransactionsFollow ==
    Quiet /\ ~missed =>
       \A t \in {t \in Txs : Subscribed(t) # {}} :
          /\ Known(t) # Absent =>
               \E i \in IdsOf(t) : /\ m_transactions[i].height = Known(t)
                                   /\ Known(t) # Unconfirmed => m_transactions[i].state = "SUCCEEDED"
          /\ Known(t) = Absent /\ t \notin loaded =>
               \A i \in IdsOf(t) : m_transactions[i].state \notin {"SUCCEEDED", "CREATED"}

\* m_actualBalance and m_pendingBalance, which updateBalance and deleteAddress change by differences
\* and load computes anew, are the sums of the addresses' cached balances.
TotalsAddUp ==
    /\ m_actualBalance = Sum(Sizes(actual), wallets)
    /\ m_pendingBalance = Sum(Sizes(pending), wallets)

\* Once the events are handled, the cached balance of an address is made of the transactions in its
\* container; while no block was abandoned, the unlock jobs have also moved the right part of it
\* from pending to actual.
CachesFollow ==
    Quiet /\ ~missed =>
       \A a \in wallets :
          /\ actual[a] \cup pending[a] = Unlocked(a) \cup Locked(a)
          /\ reorgs = 0 => actual[a] = Unlocked(a)

\* The wallet's balances are those of its addresses, and these those of their containers.
BalancesFollow == TypeOK /\ TotalsAddUp /\ CachesFollow

\* An entry of m_uncommitedTransactions belongs to the record with its id, and commitTransaction or
\* rollbackUncommitedTransaction can end it (the state is CREATED) as long as the containers hold the
\* transaction.  After load the ids may be those of other records.
UncommitedAreCreated ==
    Quiet /\ loaded = {} =>
       \A u \in m_uncommitedTransactions :
          /\ m_transactions[u[1]].hash = u[2]
          /\ Known(u[2]) # Absent => m_transactions[u[1]].state = "CREATED"

\* The wallet's records of transactions, delayed ones among them, describe the containers.
RecordsFollow == TransactionsFollow /\ UncommitedAreCreated

\* The wallet comes to rest with the daemon's chain: every operation of the client ends, whatever
\* fails, no handler waits for m_readyEvent for ever, and m_blockchain has the daemon's height.
Settles == <>[](Quiet /\ (wallets # {} => m_blockchain = Len(chain)))

\* saveUnlockTransactionsJobs asserts that the container of every job is one of the wallet's:
\* "assert(containerIt != wallets.end());"
JobsHaveWallets == Starts({"save"}) => \A j \in m_unlockTransactionsJob : j[2] \in wallets
=============================================================================
