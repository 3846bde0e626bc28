--------------------------- MODULE UpgradeDetector ---------------------------
(***************************************************************************)
(* Protocol upgrades: BasicUpgradeDetector (DynexCNCore/UpgradeDetector.h) *)
(* and the parts of Blockchain.cpp that drive its three instances, for the *)
(* target versions 2, 3 and 4.                                             *)
(*                                                                         *)
(* The height after which a version applies is either configured in        *)
(* Currency or decided by vote: blocks of the previous major version with  *)
(* minor version 1 are votes, and the first height whose voting window     *)
(* holds enough of them fixes the upgrade UpgradeWindow blocks later.  The *)
(* outcome of the vote is kept in memory (m_votingCompleteHeight), follows *)
(* pushes and pops of blocks, and is recomputed from the stored blocks     *)
(* when the node starts.                                                   *)
(***************************************************************************)
EXTENDS Integers, Sequences, FiniteSets

CONSTANTS
    UNDEF_HEIGHT,     \* uint32_t(-1): above every height of a chain
    Configs,          \* configured upgrade heights, one per software release
    VotingWindow,     \* Currency::upgradeVotingWindow
    VotingThreshold,  \* Currency::upgradeVotingThreshold, in percent
    UpgradeWindow,    \* Currency::upgradeWindow
    MaxBlocks         \* bound: blocks of the longest chain explored

Versions == 2 .. 4

ASSUME MaxBlocksAssumption == MaxBlocks \in Nat /\ MaxBlocks >= 1
ASSUME UndefAssumption == UNDEF_HEIGHT \in Nat /\ UNDEF_HEIGHT > MaxBlocks + UpgradeWindow
ASSUME ConfigsAssumption == Configs \subseteq [Versions -> 0 .. UNDEF_HEIGHT] /\ Configs # {}
ASSUME WindowAssumption == VotingWindow \in Nat /\ VotingWindow > 1
ASSUME ThresholdAssumption == VotingThreshold \in 1 .. 100
ASSUME UpgradeWindowAssumption == UpgradeWindow \in Nat /\ UpgradeWindow >= 1

VARIABLES
    conf,                   \* Currency: configured upgrade heights of this release
    blocks,                 \* m_blocks: the block at height h is blocks[h + 1]
    m_votingCompleteHeight, \* one per detector
    running,                \* FALSE after an init() that failed
    releases                \* history: the releases that ran on this data directory

vars == <<conf, blocks, m_votingCompleteHeight, running, releases>>

-----------------------------------------------------------------------------
Block == [major : 1 .. 4, minor : {0, 1}]

\* Decided by vote: no height is configured for version v.
ByVote(c, v) == c[v] = UNDEF_HEIGHT

\* The blocks below and at height h that vote for version v in h's window.
Votes(bs, v, h) ==
    {i \in (h + 1 - VotingWindow) .. h :
        bs[i + 1].major = v - 1 /\ bs[i + 1].minor = 1}

getNumberOfVotes(bs, v, h) ==
    IF h < VotingWindow - 1 THEN 0 ELSE Cardinality(Votes(bs, v, h))

isVotingComplete(bs, v, h) ==
    VotingThreshold * VotingWindow <= 100 * getNumberOfVotes(bs, v, h)

\* The least height in lo .. hi whose voting is complete.
FirstComplete(bs, v, lo, hi) ==
    LET complete == {i \in lo .. hi : isVotingComplete(bs, v, i)}
    IN  IF complete = {} THEN UNDEF_HEIGHT
        ELSE CHOOSE i \in complete : \A j \in complete : i <= j

\* Mutant: the search starts one upgrade window back.
findVotingCompleteHeight_Short(bs, v, probable) ==
    FirstComplete(bs, v,
        IF probable > UpgradeWindow THEN probable - UpgradeWindow ELSE 0, probable)

findVotingCompleteHeight(bs, v, probable) ==
    LET maxUpgradeDistance == 7 * UpgradeWindow
    IN  FirstComplete(bs, v,
            IF probable > maxUpgradeDistance THEN probable - maxUpgradeDistance ELSE 0,
            probable)

\* BasicUpgradeDetector::upgradeHeight, given what is configured and voted.
upgradeHeight(c, vch, v) ==
    IF ByVote(c, v)
    THEN IF vch[v] = UNDEF_HEIGHT THEN UNDEF_HEIGHT ELSE vch[v] + UpgradeWindow
    ELSE c[v]

getBlockMajorVersionForHeight(c, vch, h) ==
    IF h > upgradeHeight(c, vch, 4) THEN 4
    ELSE IF h > upgradeHeight(c, vch, 3) THEN 3
    ELSE IF h > upgradeHeight(c, vch, 2) THEN 2
    ELSE 1

\* blockPushed: the new height of version v once bs has its last block.
blockPushed(c, vch, bs, v) ==
    IF ByVote(c, v) /\ vch[v] = UNDEF_HEIGHT /\ isVotingComplete(bs, v, Len(bs) - 1)
    THEN Len(bs) - 1
    ELSE vch[v]

\* Mutants: any pop cancels the vote; no pop does.
blockPopped_Any(vch, bs, v) == UNDEF_HEIGHT

blockPopped_Keep(vch, bs, v) == vch[v]

\* blockPopped: voting is cancelled when its completing block is popped.
blockPopped(vch, bs, v) ==
    IF vch[v] # UNDEF_HEIGHT /\ Len(bs) = vch[v] THEN UNDEF_HEIGHT ELSE vch[v]

-----------------------------------------------------------------------------
\* BasicUpgradeDetector::init of one detector on the stored blocks: whether it
\* succeeds, and the voting height it finds.
Tip(bs) == bs[Len(bs)]

\* std::lower_bound on the major version: the first height with at least v.
FirstWithVersion(bs, v) ==
    CHOOSE h \in 0 .. Len(bs) - 1 :
        /\ bs[h + 1].major >= v
        /\ \A g \in 0 .. h - 1 : bs[g + 1].major < v

InitVotingHeight(c, vch, bs, v) ==
    IF ~ByVote(c, v) THEN vch[v]
    ELSE IF Tip(bs).major = v - 1 THEN findVotingCompleteHeight(bs, v, Len(bs) - 1)
    ELSE IF Tip(bs).major >= v THEN findVotingCompleteHeight(bs, v, FirstWithVersion(bs, v))
    ELSE UNDEF_HEIGHT

InitSucceeds(c, bs, v) ==
    IF ByVote(c, v)
    THEN Tip(bs).major >= v =>
            /\ bs[FirstWithVersion(bs, v) + 1].major = v
            /\ findVotingCompleteHeight(bs, v, FirstWithVersion(bs, v)) # UNDEF_HEIGHT
    ELSE IF Len(bs) <= c[v] + 1
    THEN Tip(bs).major < v
    ELSE bs[c[v] + 1].major = v - 1 /\ bs[c[v] + 2].major = v

checkUpgradeHeight(c, vch, bs, v) ==
    LET up == upgradeHeight(c, vch, v)
    IN  up # UNDEF_HEIGHT /\ up + 1 < Len(bs) => bs[up + 2].major = v

\* Mutant: one block too many is kept.
rollbackBlockchainTo_Off(bs, h) == SubSeq(bs, 1, IF h + 2 < Len(bs) THEN h + 2 ELSE Len(bs))

rollbackBlockchainTo(bs, h) == SubSeq(bs, 1, IF h + 1 < Len(bs) THEN h + 1 ELSE Len(bs))

-----------------------------------------------------------------------------
\* A new data directory: the genesis block is pushed, no vote is complete.
NoVotes == [v \in Versions |-> UNDEF_HEIGHT]

Init ==
    /\ conf \in Configs
    /\ blocks = <<[major |-> 1, minor |-> 0]>>
    /\ m_votingCompleteHeight = NoVotes
    /\ running = TRUE
    /\ releases = {conf}

\* pushBlock of a block whose version passes checkBlockVersion.
PushBlock(minor) ==
    /\ running
    /\ Len(blocks) < MaxBlocks
    /\ LET b == [major |-> getBlockMajorVersionForHeight(conf, m_votingCompleteHeight, Len(blocks)),
                 minor |-> minor]
           bs == Append(blocks, b)
       IN  /\ blocks' = bs
           /\ m_votingCompleteHeight' =
                [v \in Versions |-> blockPushed(conf, m_votingCompleteHeight, bs, v)]
    /\ UNCHANGED <<conf, running, releases>>

\* popBlock, as chain switching does it: the genesis block is never popped.
PopBlock ==
    /\ running
    /\ Len(blocks) > 1
    /\ LET bs == SubSeq(blocks, 1, Len(blocks) - 1)
       IN  /\ blocks' = bs
           /\ m_votingCompleteHeight' =
                [v \in Versions |-> blockPopped(m_votingCompleteHeight, bs, v)]
    /\ UNCHANGED <<conf, running, releases>>

\* Blockchain::init on the stored blocks, under the heights c of the release
\* that starts: the detectors are initialised, then the first of them whose
\* upgrade block has a wrong version rolls the chain back to its height.
StartWith(c) ==
    LET vch == [v \in Versions |-> InitVotingHeight(c, NoVotes, blocks, v)]
        bad == {v \in Versions : ~checkUpgradeHeight(c, vch, blocks, v)}
        first == CHOOSE v \in bad : \A w \in bad : v <= w
        healed == rollbackBlockchainTo(blocks, upgradeHeight(c, vch, first))
    IN  /\ conf' = c
        /\ releases' = releases \cup {c}
        /\ \/ /\ \E v \in Versions : ~InitSucceeds(c, blocks, v)
              /\ running' = FALSE
              /\ m_votingCompleteHeight' = NoVotes
              /\ UNCHANGED blocks
           \/ /\ \A v \in Versions : InitSucceeds(c, blocks, v)
              /\ bad = {}
              /\ running' = TRUE
              /\ m_votingCompleteHeight' = vch
              /\ UNCHANGED blocks
           \/ /\ \A v \in Versions : InitSucceeds(c, blocks, v)
              /\ bad # {}
              /\ running' = (\A v \in Versions : InitSucceeds(c, healed, v))
              /\ m_votingCompleteHeight' =
                    [v \in Versions |-> InitVotingHeight(c, vch, healed, v)]
              /\ blocks' = healed

\* The node stops and the same release, or another one, starts.
Restart == \E c \in Configs : StartWith(c)

Next == (\E minor \in {0, 1} : PushBlock(minor)) \/ PopBlock \/ Restart

Spec == Init /\ [][Next]_vars

-----------------------------------------------------------------------------
TypeOK ==
    /\ conf \in Configs
    /\ blocks \in Seq(Block)
    /\ Len(blocks) \in 1 .. MaxBlocks
    /\ m_votingCompleteHeight \in [Versions -> 0 .. MaxBlocks \cup {UNDEF_HEIGHT}]
    /\ running \in BOOLEAN
    /\ releases \subseteq Configs

\* No other release ever opened this data directory.
OneRelease == releases = {conf}

BlocksFollowDetectors ==
    \A h \in 0 .. Len(blocks) - 1 :
        blocks[h + 1].major = getBlockMajorVersionForHeight(conf, m_votingCompleteHeight, h)

\* While one release runs, every block of the chain, however deep, has the major version that
\* checkBlockVersion would demand at its height now: a vote that completes, or
\* one that a pop cancels, never changes the rule for a block already accepted.
VersionsFollowDetectors == OneRelease => BlocksFollowDetectors

\* And the in-memory outcome of each vote is the one the stored blocks determine:
\* the first height of the chain at which the vote was complete, or none,
\* whatever was pushed and popped in between.
VotingHeightExact ==
    OneRelease =>
        \A v \in Versions :
            m_votingCompleteHeight[v] =
                IF ByVote(conf, v) THEN FirstComplete(blocks, v, 0, Len(blocks) - 1)
                ELSE UNDEF_HEIGHT

\* Restarting the same release is invisible: init() accepts the chain the node
\* itself built, rolls nothing back and finds the same voting heights, although
\* it searches only maxUpgradeDistance blocks behind the upgrade.
RestartInvisible ==
    [][OneRelease /\ StartWith(conf) => running' /\ UNCHANGED <<blocks, m_votingCompleteHeight>>]_vars

\* Versions in the order of the blocks, as std::lower_bound expects them.
Ascending(bs) == \A i, j \in 1 .. Len(bs) : i <= j => bs[i].major <= bs[j].major

\* init() did not find this vote on the longer chain, because it ended too far back.
BeyondSearch(h) == h + 7 * UpgradeWindow < Len(blocks) - 1

\* After a start that succeeds, the block after each detector's upgrade height
\* has the version it upgrades to, even when another release wrote the blocks.
\* The chain is rolled back once: a vote that the detectors find only on the
\* shorter chain is not checked again.
StartedOnCheckedVersions ==
    [][Restart /\ running' /\ Ascending(blocks) =>
        \A v \in Versions :
            \/ checkUpgradeHeight(conf', m_votingCompleteHeight', blocks', v)
            \/ ByVote(conf', v) /\ BeyondSearch(m_votingCompleteHeight'[v])]_vars
=============================================================================
