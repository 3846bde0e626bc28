----------------------------- MODULE NodeRpcProxy -----------------------------
(***************************************************************************)
(* The wallet's access to a daemon over HTTP (NodeRpcProxy): a worker      *)
(* thread with a dispatcher runs one context that polls the daemon and one *)
(* context for every request; a thread that owns the node starts and shuts *)
(* it down; another thread makes requests. m_mutex guards the state that   *)
(* the threads share, m_httpEvent the connection that the contexts share.  *)
(***************************************************************************)
EXTENDS Dispatcher

CONSTANTS
    Tips, Txs,    \* last blocks and pool transactions the daemon may have
    MaxRequests,  \* bound: calls of the asynchronous operations (getNewBlocks, relayTransaction, ...)
    MaxInits,     \* bound: calls of init
    MaxChanges,   \* bound: changes of the daemon's chain and pool
    MaxFailures   \* bound: HTTP requests that fail

ASSUME BoundsAssumption == Tips # {} /\ {MaxRequests, MaxInits, MaxChanges, MaxFailures} \subseteq Nat

VARIABLES
    m_mutex,      \* the thread that holds it, or Nobody
    m_state,
    m_stop,
    at,           \* where each context is
    io,           \* the HTTP request of each context
    header,       \* lastLocalBlockHeaderInfo.hash
    m_knownTxs,
    owner,        \* where the owner thread is: "idle", "cv", "write", "join"
    client,       \* the request whose procedure the client thread has queued and not signalled
    thread,       \* the worker thread: "none", "runs", "destroyed" (the group is gone), "ended"
    calls,        \* the state of each request: "no", "refused", "accepted"
    callbacks,    \* how often the callback of each request was called
    daemon,       \* the daemon's last block and pool
    inits, changes, failures

threadVars == <<m_mutex, m_state, owner, client, inits>>
workerVars == <<m_stop, at, io, thread>>
viewVars == <<header, m_knownTxs>>
callVars == <<calls, callbacks>>
daemonVars == <<daemon, changes, failures>>
vars == <<dispatcherVars, threadVars, workerVars, viewVars, callVars, daemonVars>>

Requests == 1..MaxRequests
Main == <<"main">>
Poll == <<"poll">>
Stop == <<"stop">>
Spawner(r) == <<"spawn", r>>   \* scheduleRequest's outer procedure
Request(r) == <<"request", r>> \* ... and its inner one
Contexts == {Main, Poll, Stop} \cup {Spawner(r) : r \in Requests} \cup {Request(r) : r \in Requests}

Commands == {"fee", "header", "info", "pool", "query"}
NoIo == [step |-> "none"]

Init ==
    /\ DispatcherInit
    /\ m_mutex = Nobody /\ m_state = "NOT_INITIALIZED" /\ m_stop = FALSE
    /\ at = [c \in Contexts |-> "start"] /\ io = [c \in Contexts |-> NoIo]
    /\ header = Nobody /\ m_knownTxs = {}
    /\ owner = "idle" /\ client = Nobody /\ thread = "none"
    /\ calls = [r \in Requests |-> "no"] /\ callbacks = [r \in Requests |-> 0]
    /\ daemon = [tip |-> CHOOSE b \in Tips : TRUE, pool |-> {}]
    /\ inits = 0 /\ changes = 0 /\ failures = 0

-----------------------------------------------------------------------------
(* The owner's thread. *)

\* The worker's dispatcher, group and event are new.
FreshDispatcher ==
    /\ current' = Main /\ resuming' = <<>> /\ remote' = <<>> /\ ready' = <<>>
    /\ free' = TRUE /\ waiters' = <<>> /\ group' = {} /\ joining' = <<>>

\* A worker thread is started. (With one already there init only reports it.)
init ==
    /\ owner = "idle" /\ m_mutex = Nobody /\ inits < MaxInits /\ m_state = "NOT_INITIALIZED"
    /\ inits' = inits + 1
    /\ m_state' = "INITIALIZING"
    /\ m_stop' = FALSE /\ header' = Nobody /\ m_knownTxs' = {}
    /\ thread' = "runs" /\ at' = [c \in Contexts |-> "start"] /\ FreshDispatcher
    /\ UNCHANGED <<m_mutex, io, owner, client, callVars, daemonVars>>

\* shutdown waits, without the mutex, until the worker has set the state ...
shutdownWaits ==
    /\ owner = "idle" /\ m_mutex = Nobody /\ m_state = "INITIALIZING"
    /\ owner' = "cv"
    /\ UNCHANGED <<dispatcherVars, m_mutex, m_state, client, inits, workerVars, viewVars, callVars, daemonVars>>

\* ... then queues the procedure that sets m_stop, and holds the mutex from here on.
shutdown ==
    /\ owner \in {"idle", "cv"} /\ m_mutex = Nobody /\ m_state = "INITIALIZED"
    /\ m_mutex' = "owner" /\ owner' = "write"
    /\ Queue(Stop)
    /\ UNCHANGED <<m_state, client, inits, workerVars, viewVars, callVars, daemonVars>>

\* Mutant: the mutex is released while the worker is waited for.
shutdownSignalsFree ==
    /\ owner = "write"
    /\ owner' = "join" /\ m_mutex' = Nobody
    /\ Signal
    /\ UNCHANGED <<m_state, client, inits, workerVars, viewVars, callVars, daemonVars>>

shutdownSignals ==
    /\ owner = "write"
    /\ owner' = "join"
    /\ Signal
    /\ UNCHANGED <<m_mutex, m_state, client, inits, workerVars, viewVars, callVars, daemonVars>>

shutdownJoins ==
    /\ owner = "join" /\ thread = "ended"
    /\ owner' = "idle" /\ thread' = "none" /\ m_state' = "NOT_INITIALIZED" /\ m_mutex' = Nobody
    /\ UNCHANGED <<dispatcherVars, m_stop, at, io, client, inits, viewVars, callVars, daemonVars>>

-----------------------------------------------------------------------------
(* The client's thread: a request is refused, or its procedure is queued. *)

NextRequest(r) == client = Nobody /\ calls[r] = "no" /\ \A q \in 1..(r - 1) : calls[q] # "no"

requestRefused(r) ==
    /\ NextRequest(r) /\ m_mutex = Nobody /\ m_state # "INITIALIZED"
    /\ calls' = [calls EXCEPT ![r] = "refused"] /\ callbacks' = [callbacks EXCEPT ![r] = @ + 1]
    /\ UNCHANGED <<dispatcherVars, threadVars, workerVars, viewVars, daemonVars>>

scheduleRequest(r) ==
    /\ NextRequest(r) /\ m_mutex = Nobody /\ m_state = "INITIALIZED"
    /\ calls' = [calls EXCEPT ![r] = "accepted"]
    /\ client' = r /\ m_mutex' = "client"
    /\ Queue(Spawner(r))
    /\ UNCHANGED <<m_state, owner, callbacks, inits, workerVars, viewVars, daemonVars>>

requestSignals ==
    /\ client # Nobody
    /\ client' = Nobody /\ m_mutex' = Nobody
    /\ Signal
    /\ UNCHANGED <<m_state, owner, inits, workerVars, viewVars, callVars, daemonVars>>

-----------------------------------------------------------------------------
(* The worker thread: HTTP requests, one at a time. *)

Goto(c, l) == at' = [at EXCEPT ![c] = l]

\* The requests a context at this place makes: the daemon is asked what it adds to m_knownTxs after header.
Command(c) ==
    [step |-> "sent", command |-> at[c], known |-> m_knownTxs, tail |-> header]

\* jsonCommand, binaryCommand, jsonRpcCommand: lock the event, send, wait for the answer
command(c) ==
    /\ current = c /\ at[c] \in Commands /\ io[c] = NoIo
    /\ \/ LockWaits /\ UNCHANGED io
       \/ Locks /\ io' = [io EXCEPT ![c] = Command(c)]
    /\ UNCHANGED <<m_stop, at, thread, threadVars, viewVars, callVars, daemonVars>>

\* The daemon answers from its chain and pool, or the connection fails.
Answers(c) ==
    /\ io[c].step = "sent"
    /\ io' = [io EXCEPT ![c] = [step |-> "answer", ok |-> TRUE, tip |-> daemon.tip,
                                actual |-> daemon.tip = io[c].tail,
                                added |-> daemon.pool \ io[c].known, deleted |-> io[c].known \ daemon.pool]]
    /\ Ready(c)
    /\ UNCHANGED <<m_stop, at, thread, threadVars, viewVars, callVars, daemonVars>>

Fails(c) ==
    /\ io[c].step = "sent" /\ failures < MaxFailures
    /\ failures' = failures + 1
    /\ io' = [io EXCEPT ![c] = [step |-> "answer", ok |-> FALSE]]
    /\ Ready(c)
    /\ UNCHANGED <<m_stop, at, thread, daemon, changes, threadVars, viewVars, callVars>>

Changes ==
    /\ changes < MaxChanges
    /\ changes' = changes + 1
    /\ daemon' \in {[daemon EXCEPT !.tip = b] : b \in Tips} \cup
                   {[daemon EXCEPT !.pool = p] : p \in SUBSET Txs}
    /\ daemon' # daemon
    /\ UNCHANGED <<dispatcherVars, failures, threadVars, workerVars, viewVars, callVars>>

\* The command returns: its answer is taken and the event is set.
Returns(c, l) ==
    /\ current = c /\ io[c].step = "answer"
    /\ io' = [io EXCEPT ![c] = NoIo] /\ Goto(c, l)
    /\ Unlock
    /\ UNCHANGED <<m_stop, thread, threadVars, callVars, daemonVars>>

-----------------------------------------------------------------------------
(* The worker thread: workerThread. *)

\* The state is set under the mutex; then the fee address is asked for.
started ==
    /\ current = Main /\ at[Main] = "start" /\ m_mutex = Nobody
    /\ m_state' = "INITIALIZED" /\ Goto(Main, "fee")
    /\ UNCHANGED <<dispatcherVars, m_mutex, m_stop, io, owner, client, thread, inits, viewVars, callVars, daemonVars>>

getFeeAddress == Returns(Main, "spawn") /\ UNCHANGED viewVars

\* The polling context is spawned and the group waited for.
spawnPoll ==
    /\ current = Main /\ at[Main] = "spawn"
    /\ Spawn(Poll) /\ joining' = <<Main>> /\ current' = Nobody
    /\ Goto(Main, "yield")
    /\ UNCHANGED <<remote, ready, free, waiters>>
    /\ UNCHANGED <<m_stop, io, thread, threadVars, viewVars, callVars, daemonVars>>

\* "Make sure all remote spawns are executed"
yields ==
    /\ current = Main /\ at[Main] = "yield"
    /\ Goto(Main, "leave")
    /\ IF Pending THEN Yield ELSE UNCHANGED dispatcherVars
    /\ UNCHANGED <<m_stop, io, thread, threadVars, viewVars, callVars, daemonVars>>

\* ~ContextGroup: wait for the contexts spawned meanwhile
leaves ==
    /\ current = Main /\ at[Main] = "leave"
    /\ IF group # {} THEN Join /\ UNCHANGED <<at, thread>>
       ELSE thread' = "destroyed" /\ Goto(Main, "end") /\ UNCHANGED dispatcherVars
    /\ UNCHANGED <<m_stop, io, threadVars, viewVars, callVars, daemonVars>>

\* ~Dispatcher: yield once more; the thread ends
ends ==
    /\ current = Main
    /\ \/ at[Main] = "end" /\ Pending /\ Yield /\ Goto(Main, "ended") /\ UNCHANGED thread
       \/ /\ at[Main] = "ended" \/ (at[Main] = "end" /\ ~Pending)
          /\ thread' = "ended" /\ current' = Nobody
          /\ UNCHANGED <<at, resuming, remote, ready, free, waiters, group, joining>>
    /\ UNCHANGED <<m_stop, io, threadVars, viewVars, callVars, daemonVars>>

\* The procedure of shutdown: "Run all spawned contexts"
stopRuns ==
    /\ current = Stop
    /\ \/ at[Stop] = "start" /\ m_stop' = TRUE /\ Goto(Stop, "end")
          /\ IF Pending THEN Yield ELSE UNCHANGED dispatcherVars
       \/ at[Stop] = "end" /\ EndOfContext /\ UNCHANGED <<m_stop, at>>
    /\ UNCHANGED <<io, thread, threadVars, viewVars, callVars, daemonVars>>

\* scheduleRequest: the procedure that was queued spawns the request into the group, ...
spawnRequest(r) ==
    /\ current = Spawner(r)
    /\ Spawn(Request(r)) /\ current' = Nobody
    /\ UNCHANGED <<remote, ready, free, waiters, joining>>
    /\ UNCHANGED <<threadVars, workerVars, viewVars, callVars, daemonVars>>

\* ... which is cancelled, or asks the daemon, and calls back.
requestStarts(r) ==
    /\ current = Request(r) /\ at[Request(r)] = "start"
    /\ Goto(Request(r), IF m_stop THEN "call" ELSE "query")
    /\ UNCHANGED <<dispatcherVars, m_stop, io, thread, threadVars, viewVars, callVars, daemonVars>>
requestReturns(r) == Returns(Request(r), "call") /\ UNCHANGED viewVars
requestEnds(r) ==
    /\ current = Request(r) /\ at[Request(r)] = "call"
    /\ callbacks' = [callbacks EXCEPT ![r] = @ + 1]
    /\ EndOfContext
    /\ UNCHANGED <<calls, threadVars, workerVars, viewVars, daemonVars>>

-----------------------------------------------------------------------------
(* The worker thread: the polling context. *)

\* while (!m_stop) { updateNodeStatus; if (!m_stop) sleep; }
pollLoops ==
    /\ current = Poll /\ at[Poll] \in {"start", "updated"}
    /\ \/ m_stop /\ EndOfContext /\ UNCHANGED at
       \/ ~m_stop /\ at[Poll] = "start" /\ Goto(Poll, "header") /\ UNCHANGED dispatcherVars
       \/ ~m_stop /\ at[Poll] = "updated" /\ Goto(Poll, "sleep") /\ Wait
    /\ UNCHANGED <<m_stop, io, thread, threadVars, viewVars, callVars, daemonVars>>

TimerElapses ==
    /\ at[Poll] = "sleep"
    /\ Goto(Poll, "start") /\ Ready(Poll)
    /\ UNCHANGED <<m_stop, io, thread, threadVars, viewVars, callVars, daemonVars>>

\* updateBlockchainStatus: the answers are used under the mutex, for which the thread, and so
\* every context, waits. A header that cannot be parsed ends the function.
updateHeader ==
    /\ at[Poll] = "header"
    /\ \/ /\ io[Poll].ok /\ m_mutex = Nobody
          /\ header' = io[Poll].tip
          /\ Returns(Poll, "info")
       \/ /\ ~io[Poll].ok /\ UNCHANGED header
          /\ \E l \in {"info", "pool"} : Returns(Poll, l)
    /\ UNCHANGED m_knownTxs
updateInfo ==
    /\ at[Poll] = "info"
    /\ io[Poll].ok => m_mutex = Nobody
    /\ Returns(Poll, "pool")
    /\ UNCHANGED viewVars

\* Mutant: a difference to another chain's pool is taken.
updatePoolStatusAny ==
    /\ at[Poll] = "pool"
    /\ Returns(Poll, "updated")
    /\ IF io[Poll].ok
       THEN m_knownTxs' = (m_knownTxs \ io[Poll].deleted) \cup io[Poll].added
       ELSE UNCHANGED m_knownTxs
    /\ UNCHANGED header

\* updatePoolStatus, updateNodeStatus: until the pool is that of the chain known
updatePoolStatus ==
    /\ at[Poll] = "pool"
    /\ \/ ~io[Poll].ok /\ Returns(Poll, "updated") /\ UNCHANGED m_knownTxs
       \/ io[Poll].ok /\ ~io[Poll].actual /\ Returns(Poll, "header") /\ UNCHANGED m_knownTxs
       \/ /\ io[Poll].ok /\ io[Poll].actual /\ Returns(Poll, "updated")
          /\ m_knownTxs' = (m_knownTxs \ io[Poll].deleted) \cup io[Poll].added
    /\ UNCHANGED header

-----------------------------------------------------------------------------
Scheduled == thread \in {"runs", "destroyed"} /\ Dispatch
             /\ UNCHANGED <<threadVars, workerVars, viewVars, callVars, daemonVars>>
pollRuns == pollLoops \/ (current = Poll /\ io[Poll].step = "answer"
                          /\ (updateHeader \/ updateInfo \/ updatePoolStatus))
requestRuns(r) == spawnRequest(r) \/ requestStarts(r) \/ requestReturns(r) \/ requestEnds(r)
mainRuns == started \/ getFeeAddress \/ spawnPoll \/ yields \/ leaves \/ ends
Worker ==
    \/ Scheduled
    \/ \E c \in Contexts : command(c)
    \/ mainRuns \/ stopRuns \/ pollRuns
    \/ \E r \in Requests : requestRuns(r)
Owner == init \/ shutdownWaits \/ shutdown \/ shutdownSignals \/ shutdownJoins
Client == requestSignals \/ \E r \in Requests : requestRefused(r) \/ scheduleRequest(r)
Daemon == Changes \/ \E c \in Contexts : Answers(c) \/ Fails(c)

Next == Worker \/ Owner \/ Client \/ Daemon \/ TimerElapses

\* The worker runs, a thread that has queued a procedure goes on, timers elapse, and every HTTP
\* request has its answer, or fails, in the end.
Fairness ==
    /\ WF_vars(Worker) /\ WF_vars(TimerElapses)
    /\ WF_vars(requestSignals) /\ WF_vars(shutdownSignals) /\ WF_vars(shutdownJoins)
    /\ \A c \in Contexts : WF_vars(Answers(c) \/ Fails(c))
Spec == Init /\ [][Next]_vars /\ Fairness

-----------------------------------------------------------------------------
Places == {"start", "sleep", "updated", "call", "spawn", "yield", "leave", "end", "ended"} \cup Commands

\* Every variable holds a value of its kind; a request's callback is counted at most once.
TypeOK ==
    /\ current \in Contexts \cup {Nobody}
    /\ \A q \in {resuming, waiters, joining} : Range(q) \subseteq Contexts
    /\ Range(remote) \subseteq {Stop} \cup {Spawner(r) : r \in Requests}
    /\ Range(ready) \subseteq Contexts \cup {RemoteSpawnEvent}
    /\ group \subseteq {Poll} \cup {Request(r) : r \in Requests}
    /\ {free, m_stop} \subseteq BOOLEAN
    /\ m_mutex \in {Nobody, "owner", "client"}
    /\ m_state \in {"NOT_INITIALIZED", "INITIALIZING", "INITIALIZED"}
    /\ at \in [Contexts -> Places]
    /\ header \in Tips \cup {Nobody} /\ m_knownTxs \subseteq Txs
    /\ owner \in {"idle", "cv", "write", "join"} /\ client \in Requests \cup {Nobody}
    /\ thread \in {"none", "runs", "destroyed", "ended"}
    /\ calls \in [Requests -> {"no", "refused", "accepted"}] /\ callbacks \in [Requests -> 0..1]

Asking == {c \in Contexts : io[c] # NoIo}

\* The contexts share one connection: whatever the order in which they wait and are woken, at
\* most one of them has a request under way, and the event is set just when none has.
OneRequest == Cardinality(Asking) <= 1 /\ (free <=> Asking = {})

Occurs(c, q) == Cardinality({i \in DOMAIN q : q[i] = c})
Waits(c) == io[c].step = "sent" \/ (c = Poll /\ at[c] = "sleep")
If(b) == IF b THEN 1 ELSE 0
PlacesOf(c) ==
    If(current = c) + Occurs(c, ready) + If(Waits(c))
      + Occurs(c, resuming) + Occurs(c, remote) + Occurs(c, waiters) + Occurs(c, joining)

\* No context is lost and none is resumed twice: while the worker runs, the main context and
\* those of the group are each in one place - running, in the queue, or waiting for one thing
\* that will wake them - and no context is ever in two.
OnePlace ==
    thread \in {"runs", "destroyed"} =>
        \A c \in Contexts : PlacesOf(c) <= 1 /\ (c \in group \cup {Main} => PlacesOf(c) = 1)

\* The worker's run queue, its event and its group keep every context and one connection.
ContextsKept == TypeOK /\ OneRequest /\ OnePlace

\* The callback of a request that was accepted is called once, and before the worker thread,
\* whose end shutdown waits for, has ended: none is called twice, none is forgotten.  When the
\* worker has left the scope of its context group, the connection and the event, no request
\* that would use them is still queued or about to run.
CalledBack ==
    /\ thread \in {"none", "ended"} => \A r \in Requests : calls[r] = "accepted" => callbacks[r] = 1
    /\ thread = "destroyed" => \A r \in Requests : PlacesOf(Spawner(r)) = 0 /\ PlacesOf(Request(r)) = 0

\* The pool transactions a wallet is told of are those of the chain it was told of: the known
\* set becomes the daemon's pool as it was at a moment when the daemon's last block was header.
PoolOfTip ==
    [][m_knownTxs' # m_knownTxs /\ inits' = inits => io[Poll].actual /\ io[Poll].tip = header]_vars

\* Once the daemon no longer changes, a node that is not shut down comes to know its last block
\* and its pool, whichever polls failed or were overtaken before, and in every session.
FollowsDaemon ==
    <>[](m_state = "INITIALIZED" /\ owner = "idle")
        => <>[](header = daemon.tip /\ m_knownTxs = daemon.pool)

\* A request that was accepted is answered, unless the node is being shut down: it is not
\* starved by the polls, which take the connection again and again, nor lost between threads.
Answered ==
    \A r \in Requests : calls[r] = "accepted" ~> (callbacks[r] = 1 \/ owner \in {"write", "join"})

\* The one worker thread serves both: its polls follow the daemon, and requests are answered.
Serves == FollowsDaemon /\ Answered

\* "Make sure all remote spawns are executed" (NodeRpcProxy.cpp): a procedure that was queued
\* for the worker, shutdown's own among them, is taken from the queue.
RemoteSpawnsExecuted == remote # <<>> ~> remote = <<>>
=============================================================================
