-------------------------- MODULE Synchronization ---------------------------
(***************************************************************************)
(* How a node downloads blocks from its peers (DynexCNProtocolHandler.cpp  *)
(* under the connection loop of NetNode.cpp): handshake, timed sync,       *)
(* sparse chains, chain entries, requested objects and announced blocks,   *)
(* on several connections at once.                                         *)
(*                                                                         *)
(* All handlers are contexts of one dispatcher, so a handler is one step   *)
(* up to the point where it yields; the only yield is between two blocks   *)
(* in processObjects.  The states sync_required and pool_sync_required are *)
(* left at the top of connectionHandler's loop before it reads again, and  *)
(* do not show between steps.  Peers run the same code; only their         *)
(* answers, and the growth of their chains, matter here.                   *)
(***************************************************************************)
EXTENDS Integers, Sequences, FiniteSets, SequencesExt

CONSTANTS
    Peers, Blocks,
    Genesis,
    Branch,      \* the blocks from genesis to a block, both included
    PeerTop,     \* the last block of the chain a peer has at first
    SwitchTop,   \* the last block of the chain it switches to, or its PeerTop
    OwnBlocks,   \* blocks this node mines
    MaxIds,      \* BLOCKS_IDS_SYNCHRONIZING_DEFAULT_COUNT
    MaxObjects,  \* BLOCKS_SYNCHRONIZING_DEFAULT_COUNT
    MaxLost      \* bound: connections that break

ASSUME TreeAssumption ==
    /\ Genesis \in Blocks
    /\ Branch \in [Blocks -> Seq(Blocks)]
    /\ \A b \in Blocks : Len(Branch[b]) > 0 /\ Branch[b][1] = Genesis /\ Branch[b][Len(Branch[b])] = b
    /\ PeerTop \in [Peers -> Blocks] /\ SwitchTop \in [Peers -> Blocks] /\ OwnBlocks \subseteq Blocks

ASSUME BoundsAssumption == MaxIds > 1 /\ MaxObjects > 0 /\ MaxLost \in Nat

VARIABLES
    tail,      \* the top block of this node's main chain
    blocks,    \* all blocks it has, alternative ones included
    context,   \* the connection to each peer: DynexCNConnectionContext
    parsed,    \* what is left of processObjects' blocks, or Idle
    out, in,   \* messages to and from each peer, in order
    top,       \* the last block of the chain each peer follows, and
    height,    \*   the number of its blocks the peer has
    lost

vars == <<tail, blocks, context, parsed, out, in, top, height, lost>>

Idle == <<"idle">>
chain == Branch[tail]
PeerChain(p) == SubSeq(Branch[top[p]], 1, height[p])
MaxLength == Cardinality(Blocks)
Parent(b) == Branch[b][Len(Branch[b]) - 1]

Closed == [m_state |-> "closed", m_needed_objects |-> <<>>, m_requested_objects |-> {},
           m_remote_blockchain_height |-> 0, m_last_response_height |-> 0]

RequestChain(ids) == [type |-> "REQUEST_CHAIN", ids |-> ids]
RequestObjects(ids) == [type |-> "REQUEST_GET_OBJECTS", ids |-> ids]
TimedSync == [type |-> "TIMED_SYNC"]

TypeOK ==
    /\ tail \in blocks /\ blocks \subseteq Blocks
    /\ top \in [Peers -> Blocks] /\ height \in [Peers -> Nat] /\ lost \in 0 .. MaxLost
    /\ \A p \in Peers :
        /\ context[p].m_state \in {"closed", "synchronizing", "idle", "normal", "shutdown"}
        /\ context[p].m_needed_objects \in Seq(Blocks) /\ context[p].m_requested_objects \subseteq Blocks
        /\ parsed[p] = Idle \/ parsed[p] \in Seq(Blocks)

Init ==
    /\ tail = Genesis /\ blocks = {Genesis}
    /\ context = [p \in Peers |-> Closed]
    /\ parsed = [p \in Peers |-> Idle]
    /\ out = [p \in Peers |-> <<>>] /\ in = [p \in Peers |-> <<>>]
    /\ top = PeerTop
    /\ height \in [Peers -> 1 .. 2] /\ \A p \in Peers : height[p] <= Len(Branch[PeerTop[p]])
    /\ lost = 0

(***************************************************************************)
(* Chains                                                                  *)
(***************************************************************************)
\* BlockIndex::buildSparseChain: the blocks 1, 2, 4, ... from the end, and the first.
buildSparseChain(c) ==
    LET n == CHOOSE k \in 1 .. Len(c) : 2 ^ (k - 1) <= Len(c) /\ 2 ^ k > Len(c)
        s == [k \in 1 .. n |-> c[Len(c) - 2 ^ (k - 1) + 1]]
    IN  IF s[n] = c[1] THEN s ELSE Append(s, c[1])

\* Mutant: the height after it.
findSupplementNext(c, ids) ==
    LET i == CHOOSE i \in 1 .. Len(ids) : /\ ids[i] \in Range(c)
                                          /\ \A j \in 1 .. i - 1 : ids[j] \notin Range(c)
    IN  CHOOSE h \in 1 .. Len(c) : c[h] = ids[i]

\* BlockIndex::findSupplement: the height of the first of the ids that c has.
findSupplement(c, ids) ==
    LET i == CHOOSE i \in 1 .. Len(ids) : /\ ids[i] \in Range(c)
                                          /\ \A j \in 1 .. i - 1 : ids[j] \notin Range(c)
    IN  (CHOOSE h \in 1 .. Len(c) : c[h] = ids[i]) - 1

\* Blockchain::addNewBlock, as far as the protocol sees it: all blocks have the same
\* difficulty, and all are valid.
AlreadyExists(b) == b \in blocks
Orphaned(b) == b \notin blocks /\ Parent(b) \notin blocks
TailAfter(b) == IF Parent(b) = tail \/ Len(Branch[b]) > Len(chain) THEN b ELSE tail

AddNewBlock(b) ==
    IF AlreadyExists(b) \/ Orphaned(b)
    THEN UNCHANGED <<tail, blocks>>
    ELSE tail' = TailAfter(b) /\ blocks' = blocks \cup {b}

(***************************************************************************)
(* What a handler does to its connection: the new context and the messages *)
(* it posts                                                                *)
(***************************************************************************)
Outcome(c, msgs) == [context |-> c, post |-> msgs]

\* start_sync, after sync_required.
start_sync(c) ==
    Outcome([c EXCEPT !.m_state = "synchronizing"], <<RequestChain(buildSparseChain(chain))>>)

\* Mutant: a timed sync restarts a synchronization that is under way.
process_payload_sync_data_restart(c, top_id, h) ==
    LET d == [c EXCEPT !.m_remote_blockchain_height = h] IN
    IF top_id \in blocks THEN Outcome([d EXCEPT !.m_state = "normal"], <<>>) ELSE start_sync(d)

\* process_payload_sync_data, and the top of connectionHandler's loop.
process_payload_sync_data(c, top_id, h) ==
    LET d == [c EXCEPT !.m_remote_blockchain_height = h] IN
    IF c.m_state = "synchronizing" THEN Outcome(d, <<>>)
    ELSE IF top_id \in blocks THEN Outcome([d EXCEPT !.m_state = "normal"], <<>>)
    ELSE start_sync(d)

Wanted(ids, check) == SelectSeq(ids, LAMBDA b : ~(check /\ b \in blocks))

\* The part of the needed ids that request_missing_objects looks at: up to the last
\* one it has room for.
Looked(ids, check) ==
    CHOOSE n \in 0 .. Len(ids) :
        LET taken == Len(Wanted(SubSeq(ids, 1, n), check)) IN
        IF n < Len(ids) THEN taken = MaxObjects /\ Len(Wanted(SubSeq(ids, 1, n - 1), check)) < MaxObjects
        ELSE n = 0 \/ Len(Wanted(SubSeq(ids, 1, n - 1), check)) < MaxObjects

request_missing_objects(c, check) ==
    LET needed == c.m_needed_objects
        n == Looked(needed, check)
        req == Wanted(SubSeq(needed, 1, n), check)
    IN  IF needed # <<>>
        THEN Outcome([c EXCEPT !.m_needed_objects = SubSeq(needed, n + 1, Len(needed)),
                               !.m_requested_objects = @ \cup Range(req)],
                     <<RequestObjects(req)>>)
        ELSE IF c.m_last_response_height < c.m_remote_blockchain_height - 1
        THEN Outcome(c, <<RequestChain(buildSparseChain(chain))>>)
        ELSE IF c.m_last_response_height = c.m_remote_blockchain_height - 1 /\ c.m_requested_objects = {}
        THEN Outcome([c EXCEPT !.m_state = "normal"], <<>>)
        ELSE Outcome(c, <<>>)

Shutdown(c) == Outcome([c EXCEPT !.m_state = "shutdown"], <<>>)

SetIdle(c) ==
    Outcome([c EXCEPT !.m_state = "idle", !.m_needed_objects = <<>>, !.m_requested_objects = {}], <<>>)

Finish(p, outcome) ==
    /\ context' = [context EXCEPT ![p] = outcome.context]
    /\ out' = [out EXCEPT ![p] = @ \o outcome.post]

\* One block of processObjects, or what handle_response_get_objects does after the
\* last one.
Process(p, c, rest) ==
    IF rest = <<>>
    THEN /\ Finish(p, IF c.m_state = "synchronizing" THEN request_missing_objects(c, TRUE)
                                                      ELSE Outcome(c, <<>>))
         /\ parsed' = [parsed EXCEPT ![p] = Idle]
         /\ UNCHANGED <<tail, blocks>>
    ELSE /\ AddNewBlock(rest[1])
         /\ Finish(p, IF Orphaned(rest[1]) THEN Shutdown(c)
                      ELSE IF AlreadyExists(rest[1]) THEN SetIdle(c)
                      ELSE Outcome(c, <<>>))
         /\ parsed' = [parsed EXCEPT ![p] =
                IF Orphaned(rest[1]) \/ AlreadyExists(rest[1]) THEN Idle ELSE Tail(rest)]

\* The blocks after the current top, when another connection has brought it meanwhile.
Dismiss(ids) ==
    IF tail \in Range(ids)
    THEN SubSeq(ids, (CHOOSE i \in 1 .. Len(ids) : ids[i] = tail) + 1, Len(ids))
    ELSE ids

(***************************************************************************)
(* Handlers                                                                *)
(***************************************************************************)
Open(p) == context[p].m_state \notin {"closed", "shutdown"}

\* connectionHandler reads the next command of a connection that is not busy.
Reads(p, type) ==
    /\ Open(p) /\ parsed[p] = Idle
    /\ in[p] # <<>> /\ in[p][1].type = type
    /\ in' = [in EXCEPT ![p] = Tail(@)]

handle_notify_new_block(p) ==
    /\ Reads(p, "NEW_BLOCK")
    /\ LET c == [context[p] EXCEPT !.m_remote_blockchain_height = in[p][1].height]
           b == in[p][1].block
       IN  IF c.m_state # "normal" THEN Finish(p, Outcome(c, <<>>)) /\ UNCHANGED <<tail, blocks>>
           ELSE /\ AddNewBlock(b)
                /\ Finish(p, IF Orphaned(b) THEN start_sync(c) ELSE Outcome(c, <<>>))
    /\ UNCHANGED <<parsed, top, height, lost>>

\* The other tests of the answer cannot fail for a peer that runs this code.
handle_response_chain_entry(p) ==
    /\ Reads(p, "CHAIN_ENTRY")
    /\ LET m == in[p][1]
           last == m.start_height + Len(m.ids) - 1
           c == [context[p] EXCEPT !.m_remote_blockchain_height = m.total_height,
                                   !.m_last_response_height = last,
                                   !.m_needed_objects = @ \o SelectSeq(m.ids, LAMBDA b : b \notin blocks)]
       IN  IF m.ids = <<>> \/ m.ids[1] \notin blocks
           THEN Finish(p, Shutdown(context[p]))
           ELSE Finish(p, request_missing_objects(
                    IF last > m.total_height THEN [c EXCEPT !.m_state = "shutdown"] ELSE c, FALSE))
    /\ UNCHANGED <<tail, blocks, parsed, top, height, lost>>

handle_response_get_objects(p) ==
    /\ Reads(p, "OBJECTS")
    /\ LET m == in[p][1]
           c == [context[p] EXCEPT !.m_remote_blockchain_height = m.height]
           unrequested == \E i \in 1 .. Len(m.ids) : m.ids[i] \notin c.m_requested_objects
           left == c.m_requested_objects \ Range(m.ids)
       IN  IF c.m_last_response_height > m.height
           THEN Finish(p, Shutdown(context[p])) /\ UNCHANGED <<tail, blocks, parsed>>
           ELSE IF m.ids # <<>> /\ m.ids[1] \in c.m_requested_objects /\ Len(m.ids) >= 2 /\ m.ids[2] \in blocks
           THEN Finish(p, SetIdle(c)) /\ UNCHANGED <<tail, blocks, parsed>>
           ELSE IF unrequested \/ left # {}
           THEN Finish(p, Shutdown(c)) /\ UNCHANGED <<tail, blocks, parsed>>
           ELSE Process(p, [c EXCEPT !.m_requested_objects = {}], Dismiss(m.ids))
    /\ UNCHANGED <<top, height, lost>>

\* processObjects goes on after a yield.
processObjects(p) ==
    /\ parsed[p] # Idle
    /\ Process(p, context[p], parsed[p])
    /\ UNCHANGED <<in, top, height, lost>>

handleTimedSyncResponse(p) ==
    /\ Reads(p, "TIMED_SYNC")
    /\ Finish(p, process_payload_sync_data(context[p], in[p][1].top, in[p][1].height))
    /\ UNCHANGED <<tail, blocks, parsed, top, height, lost>>

(***************************************************************************)
(* The node's own activity                                                 *)
(***************************************************************************)
\* connections_maker and handshake.
Connect(p) ==
    /\ context[p].m_state = "closed"
    /\ Finish(p, process_payload_sync_data(Closed, PeerChain(p)[height[p]], height[p]))
    /\ UNCHANGED <<tail, blocks, parsed, in, top, height, lost>>

\* Mutant: idle connections are not asked again.
timedSyncNormal ==
    /\ \A p \in Peers : \A i \in 1 .. Len(out[p]) + Len(in[p]) : (out[p] \o in[p])[i].type # "TIMED_SYNC"
    /\ \E p \in Peers : context[p].m_state = "normal"
    /\ out' = [p \in Peers |-> IF context[p].m_state = "normal" THEN Append(out[p], TimedSync) ELSE out[p]]
    /\ UNCHANGED <<tail, blocks, context, parsed, in, top, height, lost>>

\* timedSyncLoop.  Bound: none is sent while an earlier one is unanswered.
timedSync ==
    /\ \A p \in Peers : \A i \in 1 .. Len(out[p]) + Len(in[p]) : (out[p] \o in[p])[i].type # "TIMED_SYNC"
    /\ \E p \in Peers : context[p].m_state \in {"normal", "idle"}
    /\ out' = [p \in Peers |-> IF context[p].m_state \in {"normal", "idle"}
                               THEN Append(out[p], TimedSync) ELSE out[p]]
    /\ UNCHANGED <<tail, blocks, context, parsed, in, top, height, lost>>

\* The end of connectionHandler.
Disconnect(p) ==
    /\ context' = [context EXCEPT ![p] = Closed]
    /\ out' = [out EXCEPT ![p] = <<>>] /\ in' = [in EXCEPT ![p] = <<>>]

connectionHandlerEnds(p) ==
    /\ context[p].m_state = "shutdown"
    /\ Disconnect(p)
    /\ UNCHANGED <<tail, blocks, parsed, top, height, lost>>

ConnectionLost(p) ==
    /\ Open(p) /\ parsed[p] = Idle /\ lost < MaxLost
    /\ lost' = lost + 1
    /\ Disconnect(p)
    /\ UNCHANGED <<tail, blocks, parsed, top, height>>

MineBlock(b) ==
    /\ b \notin blocks /\ Parent(b) = tail
    /\ AddNewBlock(b)
    /\ UNCHANGED <<context, parsed, out, in, top, height, lost>>

(***************************************************************************)
(* A peer                                                                  *)
(***************************************************************************)
\* handle_request_chain, handle_request_get_objects and handle_timed_sync of the peer.
Answer(p) ==
    LET m == out[p][1]
        c == PeerChain(p)
    IN  CASE m.type = "REQUEST_CHAIN" ->
               LET h == findSupplement(c, m.ids) IN
               [type |-> "CHAIN_ENTRY", start_height |-> h, total_height |-> Len(c),
                ids |-> SubSeq(c, h + 1, IF h + MaxIds < Len(c) THEN h + MaxIds ELSE Len(c))]
          [] m.type = "REQUEST_GET_OBJECTS" ->
               [type |-> "OBJECTS", height |-> Len(c), ids |-> SelectSeq(m.ids, LAMBDA b : b \in Range(c))]
          [] OTHER -> [type |-> "TIMED_SYNC", height |-> Len(c), top |-> c[Len(c)]]

PeerAnswers(p) ==
    /\ out[p] # <<>>
    /\ out' = [out EXCEPT ![p] = Tail(@)]
    /\ in' = [in EXCEPT ![p] = Append(@, Answer(p))]
    /\ UNCHANGED <<tail, blocks, context, parsed, top, height, lost>>

\* The peer has a new block and announces it, unless its connection to us is idle
\* (relay_notify_to_all).
PeerGrows(p, announced) ==
    /\ height[p] < Len(Branch[top[p]])
    /\ height' = [height EXCEPT ![p] = @ + 1]
    /\ in' = IF announced /\ Open(p)
             THEN [in EXCEPT ![p] = Append(@, [type |-> "NEW_BLOCK", height |-> height[p] + 1,
                                               block |-> Branch[top[p]][height[p] + 1]])]
             ELSE in
    /\ UNCHANGED <<tail, blocks, context, parsed, out, top, lost>>

\* The peer switches to a chain that is longer than its own.
PeerSwitches(p, n) ==
    /\ top[p] = PeerTop[p] /\ SwitchTop[p] # PeerTop[p]
    /\ height[p] < n /\ n <= Len(Branch[SwitchTop[p]])
    /\ top' = [top EXCEPT ![p] = SwitchTop[p]]
    /\ height' = [height EXCEPT ![p] = n]
    /\ UNCHANGED <<tail, blocks, context, parsed, out, in, lost>>

Handles(p) ==
    \/ handle_notify_new_block(p)
    \/ handle_response_chain_entry(p)
    \/ handle_response_get_objects(p)
    \/ handleTimedSyncResponse(p)
    \/ processObjects(p)
    \/ connectionHandlerEnds(p)

Next ==
    \/ \E p \in Peers : Handles(p) \/ Connect(p) \/ ConnectionLost(p) \/ PeerAnswers(p)
    \/ \E p \in Peers, announced \in BOOLEAN : PeerGrows(p, announced)
    \/ \E p \in Peers, n \in 1 .. MaxLength : PeerSwitches(p, n)
    \/ timedSync
    \/ \E b \in OwnBlocks : MineBlock(b)

Spec == Init /\ [][Next]_vars

\* The dispatcher runs every context that is ready, timers fire, connections_maker keeps
\* connecting, and a peer that is connected answers.
FairSpec ==
    /\ Spec
    /\ \A p \in Peers : WF_vars(Handles(p)) /\ WF_vars(Connect(p)) /\ WF_vars(PeerAnswers(p))
    /\ WF_vars(timedSync)

(***************************************************************************)
(* Properties                                                              *)
(***************************************************************************)
Exchange(p) ==
    SelectSeq(out[p] \o in[p], LAMBDA m : m.type \in {"REQUEST_CHAIN", "REQUEST_GET_OBJECTS", "CHAIN_ENTRY", "OBJECTS"})

\* A connection that synchronizes waits for exactly one answer or is working on one:
\* it never stops with nothing under way, and never has two requests open, whatever
\* announcements and timed syncs cross the exchange.
OneRequestOpen ==
    \A p \in Peers :
        Len(Exchange(p)) = IF context[p].m_state = "synchronizing" /\ parsed[p] = Idle THEN 1 ELSE 0

\* start_sync's asserts, for every state it can be called in: a connection that does
\* not synchronize needs and has requested nothing.
NothingNeeded ==
    \A p \in Peers :
        context[p].m_state \in {"idle", "normal", "closed"} =>
            context[p].m_needed_objects = <<>> /\ context[p].m_requested_objects = {}

\* A connection's state and the messages under way describe one exchange.
OneExchange == TypeOK /\ OneRequestOpen /\ NothingNeeded

\* A connection is dropped for what its peer sends only if the peer has switched chains:
\* a peer that runs this code and only extends its chain is kept, whatever the other
\* connections deliver meanwhile.
HonestPeersKept ==
    \A p \in Peers : context[p].m_state = "shutdown" => top[p] # PeerTop[p]

\* Again and again the node has a chain at least as long as every peer's, in whatever
\* way the connections interfere, go idle or break: it never stays behind for good.
CatchesUp == []<>(\A p \in Peers : Len(chain) >= height[p])

\* "subsequent connections will wait until the current one's added its blocks": at most
\* one connection is between two blocks of processObjects.
OneProcesses == \A p, q \in Peers : p # q => parsed[p] = Idle \/ parsed[q] = Idle
=============================================================================
