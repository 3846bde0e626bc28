------------------------- MODULE WalletSynchronizer -------------------------
(***************************************************************************)
(* How a wallet follows a daemon: BlockchainSynchronizer.cpp, whose        *)
(* working thread asks the node for blocks and pool changes and hands them *)
(* to its consumers; SynchronizationState.cpp, the block hashes a consumer *)
(* is known to have; the consumer's side of it in TransfersConsumer.cpp;   *)
(* and the polling of NodeRpcProxy.cpp, which calls the synchronizer back. *)
(*                                                                         *)
(* Threads: the working thread (pc), the node's thread (poll), the         *)
(* program's thread (start, stop, tasks, consumers), and the daemon.       *)
(* m_stateMutex makes every access to the two states one step; between two *)
(* steps of the working thread the others may do anything.                 *)
(***************************************************************************)
EXTENDS Integers, Sequences, FiniteSets, SequencesExt

CONSTANTS
    Branches,       \* the chains a daemon may follow, as sequences of block hashes
    NoHash,         \* what lastBlockId holds before the first blocks: it is not initialized
    Txs,
    Consumers,      \* 1 .. n, in the order of m_consumers
    Dense,          \* how many blocks of a short history are consecutive (10 in the code)
    QueryLimit,     \* BLOCKS_SYNCHRONIZING_DEFAULT_COUNT
    Lags,           \* by how many blocks the daemon may be behind the network
    DaemonHeights,  \* bounds: blocks the daemon has at the start,
    LoadedBranches, \*   the chains its consumers may have followed,
    LoadedHeights,  \*   blocks one has then,
    MaxDaemonSteps, \*   changes of the daemon,
    MaxStarts,      \*   calls of start(),
    MaxTroubles     \*   and failed queries, refusing consumers and tasks of the program together

Hashes == UNION {Range(b) : b \in Branches}

\* A block hash stands for its height and for all blocks before it.
ASSUME BranchAssumption ==
    /\ NoHash \notin Hashes
    /\ \A b \in Branches : b \in Seq(Hashes) /\ Len(b) > 0
    /\ \A b, c \in Branches : \A i \in DOMAIN b, j \in DOMAIN c :
          b[i] = c[j] => i = j /\ SubSeq(b, 1, i) = SubSeq(c, 1, i)
    /\ LoadedBranches \subseteq Branches

ASSUME ConsumerAssumption == Consumers = 1 .. Cardinality(Consumers) /\ QueryLimit > 1 /\ Dense > 0

VARIABLES
    daemon,     \* its chain, its pool, the height it knows of, the transactions that left its pool
    proxy,      \* NodeRpcProxy: the daemon's header, network height and pool, as last polled
    cur, fut,   \* m_currentState, m_futureState
    pc,         \* where the working thread is, "none" when there is none
    observing,  \* the synchronizer is an observer of the node
    cons,       \* m_consumers and the consumers themselves
    req, resp,  \* the query of the working thread and its answer
    next,       \* the next consumer to hand resp to
    lastBlockId,
    tasks,      \* m_removeTransactionTasks and m_addTransactionTasks
    failed,     \* history: an error since the last complete round of blocks
    steps, starts, troubles

vars == <<daemon, proxy, cur, fut, pc, observing, cons, req, resp, next, lastBlockId,
          tasks, failed, steps, starts, troubles>>

threadVars == <<cur, fut, pc, observing, cons, req, resp, next, lastBlockId, tasks, failed>>
countVars == <<steps, starts, troubles>>

\* The states, in the order of their priority.
State == [idle |-> 0, poolSync |-> 1, blockchainSync |-> 2, deleteOldTxs |-> 3, stopped |-> 4]

Genesis == (CHOOSE b \in Branches : TRUE)[1]
Subscribed == {c \in Consumers : cons[c].added}

\* SynchronizationState(genesis) for a consumer that has seen no block; "view" are
\* the blocks the consumer itself was given, "unconfirmed" the transactions its containers
\* have, and "thrown" that it once left a batch of blocks half processed.
Loaded(chain, pool) == [added |-> TRUE, state |-> chain, view |-> Range(chain), pool |-> pool,
                        unconfirmed |-> pool, thrown |-> FALSE]
Fresh(added) == [Loaded(<<Genesis>>, {}) EXCEPT !.added = added]

\* A wallet that starts has loaded what an earlier session saved: its consumers have blocks
\* of one branch, not all of them as many, and the first has transactions that were in the pool.
Init ==
    /\ \E b \in Branches, d \in LoadedBranches, n \in DaemonHeights, m \in [Consumers -> LoadedHeights], pool \in SUBSET Txs :
          /\ n <= Len(b) /\ \A c \in Consumers : m[c] <= Len(d)
          /\ daemon = [chain |-> SubSeq(b, 1, n), pool |-> pool, known |-> n - 1, gone |-> {}]
          /\ proxy = [hash |-> b[n], index |-> n - 1, network |-> n - 1, txs |-> pool]
          /\ cons = [c \in Consumers |-> Loaded(SubSeq(d, 1, m[c]), IF c = 1 THEN Txs ELSE {})]
    /\ cur = State.stopped /\ fut = State.stopped /\ pc = "none" /\ observing = FALSE
    /\ req = <<>> /\ resp = <<>> /\ next = 0
    /\ lastBlockId = NoHash
    /\ tasks = [remove |-> {}, add |-> {}]
    /\ failed = FALSE
    /\ steps = 0 /\ starts = 0 /\ troubles = 0

(***************************************************************************)
(* The daemon.  It only leaves a chain for a longer one; a transaction     *)
(* that leaves the pool comes back only with such a switch, because the    *)
(* pool refuses what it deleted lately.                                    *)
(***************************************************************************)
DaemonChain ==
    /\ steps < MaxDaemonSteps
    /\ \E b \in Branches, n \in 1 .. 9, back \in SUBSET daemon.gone, k \in Lags :
          /\ n > Len(daemon.chain) /\ n <= Len(b)
          /\ back # {} => ~IsPrefix(daemon.chain, b)
          /\ daemon' = [chain |-> SubSeq(b, 1, n), pool |-> daemon.pool \cup back,
                        known |-> n - 1 + k, gone |-> daemon.gone \ back]
    /\ steps' = steps + 1
    /\ UNCHANGED <<proxy, threadVars, starts, troubles>>

DaemonPool ==
    /\ steps < MaxDaemonSteps
    /\ \E t \in Txs \ daemon.gone :
          daemon' = IF t \in daemon.pool
                    THEN [daemon EXCEPT !.pool = @ \ {t}, !.gone = @ \cup {t}]
                    ELSE [daemon EXCEPT !.pool = @ \cup {t}]
    /\ steps' = steps + 1
    /\ UNCHANGED <<proxy, threadVars, starts, troubles>>

(***************************************************************************)
(* NodeRpcProxy's poll: three RPCs, again and again.  One that fails       *)
(* changes nothing, so any of them may be the next to succeed.             *)
(***************************************************************************)
\* setFutureState of the callbacks localBlockchainUpdated, lastKnownBlockHeightUpdated and
\* poolChanged: a state of less priority than the one already asked for is not taken.
\* (Mutant: the last one asked for is taken.)
setFutureStateAny(s) == fut' = s
setFutureState(s) == fut' = IF s > fut THEN s ELSE fut
Notify(s) == IF observing THEN setFutureState(s) ELSE UNCHANGED fut

pollUnchanged == UNCHANGED <<daemon, cur, pc, observing, cons, req, resp, next, lastBlockId, tasks, failed, countVars>>

updateBlockchainStatus ==
    /\ proxy.hash # Last(daemon.chain)
    /\ proxy' = [proxy EXCEPT !.hash = Last(daemon.chain), !.index = Len(daemon.chain) - 1]
    /\ Notify(State.blockchainSync)
    /\ pollUnchanged

NetworkHeight == IF daemon.known > proxy.index THEN daemon.known ELSE proxy.index

updateNetworkHeight ==
    /\ proxy.network # NetworkHeight
    /\ proxy' = [proxy EXCEPT !.network = NetworkHeight]
    /\ Notify(State.blockchainSync)
    /\ pollUnchanged

updatePoolStatus ==
    /\ proxy.hash = Last(daemon.chain) /\ proxy.txs # daemon.pool
    /\ proxy' = [proxy EXCEPT !.txs = daemon.pool]
    /\ Notify(State.poolSync)
    /\ pollUnchanged

(***************************************************************************)
(* The program                                                             *)
(***************************************************************************)
Stopped == cur = State.stopped /\ fut = State.stopped

programUnchanged == UNCHANGED <<daemon, proxy, req, resp, next, lastBlockId, failed, steps>>

addConsumer ==
    /\ Stopped /\ pc = "none"
    /\ \E c \in Consumers \ Subscribed : cons' = [cons EXCEPT ![c] = Fresh(TRUE)]
    /\ UNCHANGED <<cur, fut, pc, observing, tasks, starts, troubles>> /\ programUnchanged

removeConsumer ==
    /\ Stopped /\ pc = "none"
    /\ \E c \in Subscribed : cons' = [cons EXCEPT ![c] = Fresh(FALSE)]
    /\ UNCHANGED <<cur, fut, pc, observing, tasks, starts, troubles>> /\ programUnchanged

start ==
    /\ Subscribed # {} /\ Stopped /\ pc = "none"
    /\ starts < MaxStarts /\ starts' = starts + 1
    /\ fut' = State.deleteOldTxs /\ pc' = "loop"
    /\ UNCHANGED <<cur, observing, cons, tasks, troubles>> /\ programUnchanged

\* stop() then waits for the thread to end.
stop ==
    /\ fut # State.stopped
    /\ fut' = State.stopped
    /\ UNCHANGED <<cur, pc, observing, cons, tasks, starts, troubles>> /\ programUnchanged

addUnconfirmedTransaction ==
    /\ cur # State.stopped /\ fut # State.stopped
    /\ troubles < MaxTroubles /\ troubles' = troubles + 1
    /\ \E t \in Txs : tasks' = [tasks EXCEPT !.add = @ \cup {t}]
    /\ UNCHANGED <<cur, fut, pc, observing, cons, starts>> /\ programUnchanged

removeUnconfirmedTransaction ==
    /\ cur # State.stopped /\ fut # State.stopped
    /\ troubles < MaxTroubles /\ troubles' = troubles + 1
    /\ \E t \in Txs : tasks' = [tasks EXCEPT !.remove = @ \cup {t}]
    /\ UNCHANGED <<cur, fut, pc, observing, cons, starts>> /\ programUnchanged

(***************************************************************************)
(* SynchronizationState                                                    *)
(***************************************************************************)
Least(S) == CHOOSE x \in S : \A y \in S : x <= y
Smaller(a, b) == IF a < b THEN a ELSE b

\* The i-th back offset of getShortHistory: Dense + 1 steps of one, then steps that double.
BackOffset(i) == IF i <= Dense THEN i + 1 ELSE Dense - 1 + 2 ^ (i - Dense + 1)

getShortHistory(chain, localHeight) ==
    LET sz == Smaller(Len(chain), localHeight + 1)
        n == Cardinality({i \in 0 .. sz : BackOffset(i) < sz})
    IN  Append([k \in 1 .. n |-> chain[sz - BackOffset(k - 1) + 1]], chain[1])

\* checkInterval: the height from which the consumer must be detached, the height from which
\* it lacks blocks; a height beyond both chains when it need not, or lacks none.
NoHeight == 99

\* Mutants: only missing blocks are looked for; the last missing block is overlooked.
checkIntervalForward(chain, interval) ==
    LET end == interval.start + Len(interval.blocks)
    IN  [detachHeight |-> NoHeight, newBlockHeight |-> IF end > Len(chain) THEN Len(chain) ELSE NoHeight]
checkIntervalShort(chain, interval) ==
    LET end == interval.start + Len(interval.blocks)
        differ == {i \in interval.start .. Smaller(Len(chain), end) - 1 :
                      chain[i + 1] # interval.blocks[i - interval.start + 1]}
        detach == IF differ = {} THEN NoHeight ELSE Least(differ)
    IN  [detachHeight |-> detach,
         newBlockHeight |-> IF differ # {} THEN detach ELSE IF end > Len(chain) + 1 THEN Len(chain) ELSE NoHeight]

checkInterval(chain, interval) ==
    LET end == interval.start + Len(interval.blocks)
        differ == {i \in interval.start .. Smaller(Len(chain), end) - 1 :
                      chain[i + 1] # interval.blocks[i - interval.start + 1]}
        detach == IF differ = {} THEN NoHeight ELSE Least(differ)
    IN  [detachHeight |-> detach,
         newBlockHeight |-> IF differ # {} THEN detach ELSE IF end > Len(chain) THEN Len(chain) ELSE NoHeight]

Height(h) == CHOOSE i \in 0 .. 9 : \E b \in Branches : i < Len(b) /\ b[i + 1] = h
Below(view, height) == {h \in view : Height(h) < height}

(***************************************************************************)
(* The working thread                                                      *)
(***************************************************************************)
threadUnchanged == UNCHANGED <<daemon, proxy, steps, starts>>

\* An operation of the working thread goes wrong.
Fails == troubles < MaxTroubles /\ troubles' = troubles + 1 /\ failed' = TRUE

\* setFutureStateIf(State::idle, not stopped)
setIdle == fut' = IF fut = State.stopped THEN fut ELSE State.idle

\* What the add and remove tasks leave in a consumer: the removals come first, and a
\* transaction that consumer at[t] refused is taken back from the consumers before it.
AfterTasks(c, at) ==
    ((cons[c].unconfirmed \ tasks.remove) \cup (tasks.add \ DOMAIN at)) \ {t \in DOMAIN at : c < at[t]}

\* Mutant: the pool is not asked for after the blocks.
FutureAfterIdle(s) == IF s = State.deleteOldTxs THEN State.blockchainSync ELSE IF s = State.stopped THEN s ELSE State.idle

\* What the working thread is to do after the state it has taken.
FutureAfter(s) ==
    CASE s = State.deleteOldTxs -> State.blockchainSync
      [] s = State.blockchainSync -> State.poolSync
      [] s = State.poolSync -> State.idle
      [] OTHER -> s

Shortest ==
    CHOOSE c \in Subscribed : \A d \in Subscribed :
        \/ Len(cons[c].state) < Len(cons[d].state)
        \/ Len(cons[c].state) = Len(cons[d].state) /\ c <= d

getCommonHistory == getShortHistory(cons[Shortest].state, proxy.index)

\* actualizeFutureState, up to where it releases m_stateMutex, and the history startBlockchainSync
\* asks with.  When it finds the future state stopped the thread ends: workingProcedure calls it
\* once more, which changes nothing.
actualizeFutureState ==
    /\ pc = "loop"
    /\ observing' = (fut # State.stopped /\ (observing \/ (cur = State.stopped /\ fut = State.deleteOldTxs)))
    /\ \E F \in SUBSET tasks.add : \E at \in [F -> Subscribed] :
          cons' = [c \in Consumers |-> IF c \in Subscribed
                                       THEN [cons[c] EXCEPT !.unconfirmed = AfterTasks(c, at)]
                                       ELSE cons[c]]
    /\ tasks' = [remove |-> {}, add |-> {}]
    /\ cur' = fut
    /\ fut' = FutureAfter(fut)
    /\ pc' = CASE fut = State.stopped -> "none"
               [] fut = State.deleteOldTxs -> "outdated"
               [] fut = State.blockchainSync -> "query"
               [] fut = State.poolSync -> "pool"
               [] OTHER -> "wait"
    /\ req' = IF fut = State.blockchainSync THEN getCommonHistory ELSE <<>>
    /\ UNCHANGED <<resp, next, lastBlockId, failed, troubles>> /\ threadUnchanged

\* m_hasWork
Resume ==
    /\ pc = "wait" /\ (fut # State.idle \/ tasks.remove # {} \/ tasks.add # {})
    /\ pc' = "loop"
    /\ UNCHANGED <<cur, fut, observing, cons, req, resp, next, lastBlockId, tasks, failed, troubles>> /\ threadUnchanged

PoolUnion == UNION {cons[c].pool : c \in Subscribed}
PoolIntersection == {t \in PoolUnion : \A c \in Subscribed : t \in cons[c].pool}

removeOutdatedTransactions ==
    /\ pc = "outdated"
    /\ LET deleted == PoolUnion \ daemon.pool
       IN  cons' = [c \in Consumers |-> [cons[c] EXCEPT !.pool = @ \ deleted, !.unconfirmed = @ \ deleted]]
    /\ pc' = "loop"
    /\ UNCHANGED <<cur, fut, observing, req, resp, next, lastBlockId, tasks, failed, troubles>> /\ threadUnchanged

OutdatedQueryFails ==
    /\ pc = "outdated" /\ Fails
    /\ pc' = "retry"
    /\ UNCHANGED <<cur, fut, observing, cons, req, resp, next, lastBlockId, tasks>> /\ threadUnchanged

\* RETRY_TIMEOUT seconds later, or at once when it is to stop.
RetryOutdated ==
    /\ pc = "retry"
    /\ fut' = IF fut = State.stopped THEN fut ELSE State.deleteOldTxs
    /\ pc' = "loop"
    /\ UNCHANGED <<cur, observing, cons, req, resp, next, lastBlockId, tasks, failed, troubles>> /\ threadUnchanged

\* The height of the first of the asked hashes that is in the daemon's chain.
Supplement(ids) ==
    LET i == Least({j \in DOMAIN ids : ids[j] \in Range(daemon.chain)}) IN Height(ids[i])

queryBlocks ==
    /\ pc = "query"
    /\ LET from == Supplement(req)
           to == Smaller(Len(daemon.chain), from + QueryLimit)
       IN  resp' = [start |-> from, blocks |-> SubSeq(daemon.chain, from + 1, to), changed |-> FALSE]
    /\ req' = <<>> /\ pc' = "process"
    /\ UNCHANGED <<cur, fut, observing, cons, next, lastBlockId, tasks, failed, troubles>> /\ threadUnchanged

\* The query is answered with an error, or a block of the answer cannot be read.
QueryFails ==
    /\ pc \in {"query", "process"} /\ Fails
    /\ pc = "process" => fut # State.stopped
    /\ setIdle
    /\ req' = <<>> /\ resp' = <<>> /\ pc' = "loop"
    /\ UNCHANGED <<cur, observing, cons, next, lastBlockId, tasks>> /\ threadUnchanged

processBlocks ==
    /\ pc = "process"
    /\ IF fut = State.stopped
       THEN pc' = "loop" /\ resp' = <<>> /\ UNCHANGED next
       ELSE pc' = "update" /\ next' = Least(Subscribed) /\ UNCHANGED resp
    /\ UNCHANGED <<cur, fut, observing, cons, req, lastBlockId, tasks, failed, troubles>> /\ threadUnchanged

Following(c) == {d \in Subscribed : d > c}
MoveOn(c, last) ==
    IF Following(c) = {} THEN pc' = last /\ next' = 0 ELSE pc' = pc /\ next' = Least(Following(c))

\* What consumer c is before it gets new blocks.
Detached(c, check) ==
    IF check.detachHeight = NoHeight THEN cons[c]
    ELSE [cons[c] EXCEPT !.state = SubSeq(@, 1, check.detachHeight), !.view = Below(@, check.detachHeight)]
NewBlocks(check) == SubSeq(resp.blocks, check.newBlockHeight - resp.start + 1, Len(resp.blocks))

\* One round of updateConsumers: the consumer takes the blocks it lacks, if any.
updateConsumer ==
    /\ pc = "update"
    /\ LET check == checkInterval(cons[next].state, resp)
           new == check.newBlockHeight # NoHeight
       IN  /\ cons' = [cons EXCEPT ![next] =
                          IF new THEN [Detached(next, check) EXCEPT
                                          !.state = @ \o NewBlocks(check),
                                          !.view = @ \cup Range(NewBlocks(check))]
                          ELSE cons[next]]
           /\ resp' = [resp EXCEPT !.changed = @ \/ new]
    /\ MoveOn(next, "updated")
    /\ UNCHANGED <<cur, fut, observing, req, lastBlockId, tasks, failed, troubles>> /\ threadUnchanged

\* onNewBlocks cannot preprocess the blocks: the consumer detaches itself and returns false.
\* The consumers before it keep the blocks, and lastBlockId moves all the same.
ConsumerRefuses ==
    /\ pc = "update" /\ Fails
    /\ LET check == checkInterval(cons[next].state, resp)
       IN  /\ check.newBlockHeight # NoHeight
           /\ cons' = [cons EXCEPT ![next] = [Detached(next, check) EXCEPT
                                                 !.view = Below(@, check.newBlockHeight)]]
    /\ setIdle
    /\ lastBlockId' = Last(resp.blocks)
    /\ resp' = <<>> /\ next' = 0 /\ pc' = "loop"
    /\ UNCHANGED <<cur, observing, req, tasks>> /\ threadUnchanged

\* onNewBlocks throws after it has processed some of the blocks.
ConsumerThrows ==
    /\ pc = "update" /\ Fails
    /\ LET check == checkInterval(cons[next].state, resp)
       IN  /\ check.newBlockHeight # NoHeight
           /\ \E n \in 0 .. Len(NewBlocks(check)) :
                 cons' = [cons EXCEPT ![next] = [Detached(next, check) EXCEPT
                                          !.view = @ \cup Range(SubSeq(NewBlocks(check), 1, n)),
                                          !.thrown = TRUE]]
    /\ setIdle
    /\ resp' = <<>> /\ next' = 0 /\ pc' = "loop"
    /\ UNCHANGED <<cur, observing, req, lastBlockId, tasks>> /\ threadUnchanged

\* Nothing new was received, and the daemon knows of no more: on to the pool.
UpdateEnds ==
    /\ pc = "updated"
    /\ IF resp.changed \/ proxy.network # proxy.index
       THEN setFutureState(State.blockchainSync)
       ELSE UNCHANGED fut
    /\ lastBlockId' = Last(resp.blocks)
    /\ failed' = FALSE
    /\ resp' = <<>> /\ pc' = "loop"
    /\ UNCHANGED <<cur, observing, cons, req, next, tasks, troubles>> /\ threadUnchanged

isLastKnownBlockActual == lastBlockId = Last(daemon.chain)
\* "tip" is not in the answer: it is the block that the pool the answer tells of follows.
Difference(known) == [new |-> daemon.pool \ known, deleted |-> known \ daemon.pool, tip |-> Last(daemon.chain)]

\* startPoolSync asks for the changes since the union of what the consumers know, and when they
\* do not all know the same once more, for what is new since their intersection.
startPoolSync ==
    /\ pc = "pool"
    /\ IF ~isLastKnownBlockActual
       THEN setFutureState(State.blockchainSync) /\ pc' = "loop" /\ UNCHANGED <<resp, next>>
       ELSE /\ resp' = Difference(PoolUnion)
            /\ IF PoolUnion = PoolIntersection
               THEN pc' = "apply" /\ next' = Least(Subscribed)
               ELSE pc' = "pool2" /\ UNCHANGED next
            /\ UNCHANGED fut
    /\ UNCHANGED <<cur, observing, cons, req, lastBlockId, tasks, failed, troubles>> /\ threadUnchanged

startPoolSync2 ==
    /\ pc = "pool2"
    /\ IF ~isLastKnownBlockActual
       THEN setFutureState(State.blockchainSync) /\ pc' = "loop" /\ resp' = <<>> /\ UNCHANGED next
       ELSE /\ resp' = [Difference(PoolIntersection) EXCEPT !.deleted = resp.deleted]
            /\ pc' = "apply" /\ next' = Least(Subscribed)
            /\ UNCHANGED fut
    /\ UNCHANGED <<cur, observing, cons, req, lastBlockId, tasks, failed, troubles>> /\ threadUnchanged

PoolQueryFails ==
    /\ pc \in {"pool", "pool2"} /\ Fails
    /\ setIdle
    /\ resp' = <<>> /\ pc' = "loop"
    /\ UNCHANGED <<cur, observing, cons, req, next, lastBlockId, tasks>> /\ threadUnchanged

\* One round of processPoolTxs; after the last consumer synchronizationCompleted is notified.
processPoolTxs ==
    /\ pc = "apply"
    /\ IF fut = State.stopped
       THEN pc' = "loop" /\ resp' = <<>> /\ next' = 0 /\ UNCHANGED cons
       ELSE /\ cons' = [cons EXCEPT ![next].pool = (@ \cup resp.new) \ resp.deleted,
                                    ![next].unconfirmed = (@ \cup resp.new) \ resp.deleted]
            /\ MoveOn(next, "loop")
            /\ resp' = IF Following(next) = {} THEN <<>> ELSE resp
    /\ UNCHANGED <<cur, fut, observing, req, lastBlockId, tasks, failed, troubles>> /\ threadUnchanged

\* onPoolUpdated fails at transaction t, which it has already put among the known ones: the
\* consumers after it are not told, and the future state stays what it is.
ConsumerRefusesPool ==
    /\ pc = "apply" /\ fut # State.stopped /\ Fails
    /\ \E S \in SUBSET resp.new : \E t \in S :
          cons' = [cons EXCEPT ![next].pool = @ \cup S, ![next].unconfirmed = @ \cup (S \ {t})]
    /\ resp' = <<>> /\ next' = 0 /\ pc' = "loop"
    /\ UNCHANGED <<cur, fut, observing, req, lastBlockId, tasks>> /\ threadUnchanged

Poll == updateBlockchainStatus \/ updateNetworkHeight \/ updatePoolStatus

Working ==
    \/ actualizeFutureState \/ Resume
    \/ removeOutdatedTransactions \/ OutdatedQueryFails \/ RetryOutdated
    \/ queryBlocks \/ QueryFails \/ processBlocks
    \/ updateConsumer \/ ConsumerRefuses \/ ConsumerThrows \/ UpdateEnds
    \/ startPoolSync \/ startPoolSync2 \/ PoolQueryFails \/ processPoolTxs \/ ConsumerRefusesPool

Next ==
    \/ DaemonChain \/ DaemonPool
    \/ Poll
    \/ addConsumer \/ removeConsumer \/ start \/ stop
    \/ addUnconfirmedTransaction \/ removeUnconfirmedTransaction
    \/ Working

Spec == Init /\ [][Next]_vars

\* The working thread is a thread of its own and every query is answered; the node's thread
\* polls again and again.
FairSpec == Spec /\ WF_vars(Working) /\ WF_vars(Poll)

(***************************************************************************)
(* Properties                                                              *)
(***************************************************************************)
TypeOK ==
    /\ cur \in 0 .. 4 /\ fut \in 0 .. 4 /\ observing \in BOOLEAN /\ failed \in BOOLEAN
    /\ pc \in {"none", "loop", "wait", "outdated", "retry", "query", "process", "update", "updated",
               "pool", "pool2", "apply"}
    /\ \A c \in Consumers : /\ cons[c].state \in Seq(Hashes) /\ cons[c].view \subseteq Hashes
                             /\ cons[c].pool \subseteq Txs /\ cons[c].unconfirmed \subseteq Txs
    /\ lastBlockId \in Hashes \cup {NoHash}
    /\ tasks.remove \subseteq Txs /\ tasks.add \subseteq Txs
    /\ next \in Consumers \cup {0}

\* What the synchronizer believes a consumer has is always one chain from the genesis block,
\* never a mixture of two: checkInterval only compares from the height of the answer on, and
\* the answer was asked for with the history of another consumer.  The consumer was given all
\* these blocks, and no other unless it once threw in the middle of a batch.
OneChainEach ==
    \A c \in Subscribed :
        /\ \E b \in Branches : IsPrefix(cons[c].state, b)
        /\ Range(cons[c].state) \subseteq cons[c].view
        /\ ~cons[c].thrown => cons[c].view = Range(cons[c].state)

\* The assertions of checkInterval and addBlocks: an answer starts within every consumer's
\* chain, and below it all consumers agree with the answer.
AnswerStartsWithin ==
    pc = "update" =>
        \A c \in Subscribed : /\ resp.start <= Len(cons[c].state)
                              /\ \E b \in Branches : /\ IsPrefix(SubSeq(cons[c].state, 1, resp.start), b)
                                                     /\ Range(resp.blocks) \subseteq Range(b)

\* No event is lost on the way: when the working thread waits, no error has happened since the
\* last complete round, and the node's poll has seen the daemon as it is, every consumer has
\* the daemon's chain and knows the transactions of its pool.  (It may have more: blocks of a
\* daemon that was ahead of this one, and a transaction that was in the pool only between two
\* polls, whose leaving is never announced.)
PollIsUpToDate ==
    proxy.hash = Last(daemon.chain) /\ proxy.txs = daemon.pool /\ proxy.network = NetworkHeight
IdleMeansSynchronized ==
    pc = "wait" /\ fut = State.idle /\ tasks.add = {} /\ tasks.remove = {} /\ ~failed /\ PollIsUpToDate =>
        \A c \in Subscribed : IsPrefix(daemon.chain, cons[c].state) /\ daemon.pool \subseteq cons[c].pool

\* The pool changes handed to consumers are those of a pool that follows a block all of them
\* have, unless a consumer refused blocks before.  (When one did, lastBlockId still says that
\* it has them.)
PoolAfterBlocks ==
    pc = "apply" /\ ~failed => \A c \in Subscribed : resp.tip \in Range(cons[c].state)

\* What consumers have, and what they are handed next, is of one chain.
ConsumersFollowOneChain == TypeOK /\ OneChainEach /\ AnswerStartsWithin /\ PoolAfterBlocks

\* stop() returns: the working thread ends once it is told to, and by then no task is left,
\* so that every promise a task was queued with is kept.
StopEnds == fut = State.stopped ~> pc = "none" /\ tasks.add = {} /\ tasks.remove = {}

\* A synchronizer that is not stopped and meets no error gets every consumer onto the daemon's
\* chain, whatever its consumers had before.
Synchronizes ==
    <>[](pc # "none" /\ fut # State.stopped /\ ~failed)
        => <>(\A c \in Subscribed : IsPrefix(daemon.chain, cons[c].state))

====
