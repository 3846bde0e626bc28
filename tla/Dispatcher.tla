------------------------------ MODULE Dispatcher ------------------------------
(***************************************************************************)
(* The cooperative scheduler of one thread (Platform/Linux Dispatcher,     *)
(* System/Event, EventLock, ContextGroup): one context runs until it       *)
(* waits; then the next of the resuming ones runs, and when there is none  *)
(* the thread waits for an operation that has completed or for procedures  *)
(* that other threads have spawned.                                        *)
(***************************************************************************)
EXTENDS Naturals, FiniteSets, SequencesExt

CONSTANT Nobody

VARIABLES
    current,    \* currentContext; Nobody while the thread is in dispatch()
    resuming,   \* firstResumingContext ...: the contexts to run next
    remote,     \* remoteSpawningProcedures
    ready,      \* epoll's list, oldest first: the contexts whose operation (a timer, a socket) has
                \* completed, and RemoteSpawnEvent when that can be read
    free,       \* the state of one Event, used with EventLock
    waiters,    \* the contexts that wait for it
    group,      \* the contexts of one ContextGroup
    joining     \* the contexts that wait for it to be empty

dispatcherVars == <<current, resuming, remote, ready, free, waiters, group, joining>>

DispatcherInit ==
    /\ current = Nobody /\ resuming = <<>> /\ remote = <<>> /\ ready = <<>>
    /\ free = TRUE /\ waiters = <<>> /\ group = {} /\ joining = <<>>

RemoteSpawnEvent == <<"remoteSpawnEvent">>

\* dispatch(): the first resuming context; else the next event of epoll
Resume ==
    /\ current = Nobody /\ resuming # <<>>
    /\ current' = Head(resuming) /\ resuming' = Tail(resuming)
    /\ UNCHANGED <<remote, ready, free, waiters, group, joining>>

PollOperation ==
    /\ current = Nobody /\ resuming = <<>> /\ ready # <<>> /\ Head(ready) # RemoteSpawnEvent
    /\ current' = Head(ready) /\ ready' = Tail(ready)
    /\ UNCHANGED <<resuming, remote, free, waiters, group, joining>>

\* Mutant: one procedure is spawned for an event that stands for several.
PollRemoteOne ==
    /\ current = Nobody /\ resuming = <<>> /\ ready # <<>> /\ Head(ready) = RemoteSpawnEvent
    /\ ready' = Tail(ready)
    /\ IF remote = <<>> THEN UNCHANGED <<resuming, remote>>
       ELSE resuming' = <<Head(remote)>> /\ remote' = Tail(remote)
    /\ UNCHANGED <<current, free, waiters, group, joining>>

PollRemote ==
    /\ current = Nobody /\ resuming = <<>> /\ ready # <<>> /\ Head(ready) = RemoteSpawnEvent
    /\ ready' = Tail(ready)
    /\ resuming' = remote /\ remote' = <<>>
    /\ UNCHANGED <<current, free, waiters, group, joining>>

Dispatch == Resume \/ PollRemote \/ PollOperation

\* remoteSpawn, by another thread: the procedure is queued, ...
Queue(p) ==
    /\ remote' = Append(remote, p)
    /\ UNCHANGED <<current, resuming, ready, free, waiters, group, joining>>
\* ... then the event is written.
Ready(c) ==
    /\ ready' = Append(ready, c)
    /\ UNCHANGED <<current, resuming, remote, free, waiters, group, joining>>
Signal ==
    IF RemoteSpawnEvent \in Range(ready) THEN UNCHANGED dispatcherVars ELSE Ready(RemoteSpawnEvent)

\* The context waits for an operation.
Wait ==
    /\ current' = Nobody
    /\ UNCHANGED <<resuming, remote, ready, free, waiters, group, joining>>

\* yield(): what epoll reports, and then this context, come to the end of the queue; when there is
\* nothing the context goes on.
Pending == resuming # <<>> \/ ready # <<>>
Reported == [i \in DOMAIN ready |-> IF ready[i] = RemoteSpawnEvent THEN remote ELSE <<ready[i]>>]
Yield ==
    /\ resuming' = resuming \o FlattenSeq(Reported) \o <<current>>
    /\ remote' = (IF RemoteSpawnEvent \in Range(ready) THEN <<>> ELSE remote) /\ ready' = <<>>
    /\ current' = Nobody
    /\ UNCHANGED <<free, waiters, group, joining>>

\* EventLock: wait while the event is not set, which those it wakes check again; then clear it
LockWaits ==
    /\ ~free
    /\ waiters' = Append(waiters, current) /\ current' = Nobody
    /\ UNCHANGED <<resuming, remote, ready, free, group, joining>>
Locks ==
    /\ free
    /\ free' = FALSE /\ current' = Nobody
    /\ UNCHANGED <<resuming, remote, ready, waiters, group, joining>>

\* Mutant: only the first waiter is woken, and the others are forgotten.
UnlockOne ==
    /\ free' = TRUE
    /\ resuming' = resuming \o (IF waiters = <<>> THEN <<>> ELSE <<Head(waiters)>>) /\ waiters' = <<>>
    /\ UNCHANGED <<current, remote, ready, group, joining>>

\* Event::set: all waiters resume
Unlock ==
    /\ free' = TRUE
    /\ resuming' = resuming \o waiters /\ waiters' = <<>>
    /\ UNCHANGED <<current, remote, ready, group, joining>>

\* ContextGroup::spawn and wait
Spawn(c) == group' = group \cup {c} /\ resuming' = Append(resuming, c)
Join ==
    /\ joining' = Append(joining, current) /\ current' = Nobody
    /\ UNCHANGED <<resuming, remote, ready, free, waiters, group>>

\* contextProcedure: the procedure has ended; those that wait for the group resume after its last
EndOfContext ==
    /\ current' = Nobody
    /\ group' = group \ {current}
    /\ IF group = {current}
       THEN resuming' = resuming \o joining /\ joining' = <<>>
       ELSE UNCHANGED <<resuming, joining>>
    /\ UNCHANGED <<remote, ready, free, waiters>>
=============================================================================
