------------------------ MODULE UpgradeDetectorProofs ------------------------
(***************************************************************************)
(* Theorems about UpgradeDetector, whatever the releases, their heights,   *)
(* the windows and the threshold.                                          *)
(***************************************************************************)
EXTENDS UpgradeDetector, FiniteSetTheorems, NaturalsInduction, WellFoundedInduction, TLAPS

\* What a release may configure: heights for a prefix of the versions, each
\* above the one before (block c[v] must still have version v - 1).
ReleaseOk(c) ==
    \A v \in 3 .. 4 :
        c[v] # UNDEF_HEIGHT => c[v - 1] # UNDEF_HEIGHT /\ c[v - 1] < c[v]

\* The outcome of version v's vote, as the chain determines it.
VoteOutcome(v) ==
    IF ~ByVote(conf, v)
    THEN m_votingCompleteHeight[v] = UNDEF_HEIGHT
    ELSE \/ /\ m_votingCompleteHeight[v] = UNDEF_HEIGHT
            /\ \A h \in 0 .. Len(blocks) - 1 : ~isVotingComplete(blocks, v, h)
         \/ /\ m_votingCompleteHeight[v] \in 0 .. Len(blocks) - 1
            /\ isVotingComplete(blocks, v, m_votingCompleteHeight[v])
            /\ \A h \in 0 .. m_votingCompleteHeight[v] - 1 : ~isVotingComplete(blocks, v, h)

\* The inductive invariant while one release runs.
IInv ==
    /\ TypeOK
    /\ OneRelease
    /\ running = TRUE
    /\ BlocksFollowDetectors
    /\ \A v \in Versions : VoteOutcome(v)

-----------------------------------------------------------------------------
\* getNumberOfVotes and isVotingComplete look only at the blocks up to h.
LEMMA VotesLocal ==
  ASSUME NEW bs \in Seq(Block), NEW cs \in Seq(Block), NEW v \in Versions, NEW h \in Nat,
         \A i \in 0 .. h : bs[i + 1] = cs[i + 1]
  PROVE  isVotingComplete(bs, v, h) <=> isVotingComplete(cs, v, h)
<1>1. CASE h < VotingWindow - 1
  BY <1>1 DEF isVotingComplete, getNumberOfVotes
<1>2. CASE ~(h < VotingWindow - 1)
  <2>1. \A i \in (h + 1 - VotingWindow) .. h : i \in 0 .. h
    BY <1>2, WindowAssumption
  <2>2. Votes(bs, v, h) = Votes(cs, v, h)
    BY <2>1 DEF Votes
  <2> QED BY <1>2, <2>2 DEF isVotingComplete, getNumberOfVotes
<1> QED BY <1>1, <1>2

\* A completed vote has at least one voting block in its window.
LEMMA VoteHasVoter ==
  ASSUME NEW bs \in Seq(Block), NEW v \in Versions, NEW h \in Nat, isVotingComplete(bs, v, h)
  PROVE  \E i \in 0 .. h : bs[i + 1].major = v - 1
<1>1. VotingThreshold * VotingWindow > 0
  BY WindowAssumption, ThresholdAssumption
<1>2. getNumberOfVotes(bs, v, h) # 0
  <2> SUFFICES ASSUME getNumberOfVotes(bs, v, h) = 0 PROVE FALSE
    OBVIOUS
  <2> DEFINE p == VotingThreshold * VotingWindow
  <2>1. p <= 100 * 0
    BY DEF isVotingComplete
  <2>2. p \in Int /\ p > 0
    BY <1>1, WindowAssumption, ThresholdAssumption
  <2> QED BY <2>1, <2>2
<1>3. ~(h < VotingWindow - 1)
  BY <1>2 DEF getNumberOfVotes
<1>4. Votes(bs, v, h) # {}
  BY <1>2, <1>3, FS_EmptySet, Zenon DEF getNumberOfVotes
<1>5. PICK i \in (h + 1 - VotingWindow) .. h : bs[i + 1].major = v - 1
  BY <1>4 DEF Votes
<1>6. i \in 0 .. h
  BY <1>3, <1>5, WindowAssumption
<1> QED BY <1>5, <1>6

\* The version rule at h depends only on which upgrade heights lie below h.
LEMMA SameVersion ==
  ASSUME NEW c, NEW f, NEW g, NEW h,
         \A v \in Versions : (h > upgradeHeight(c, f, v)) <=> (h > upgradeHeight(c, g, v))
  PROVE  getBlockMajorVersionForHeight(c, f, h) = getBlockMajorVersionForHeight(c, g, h)
BY DEF getBlockMajorVersionForHeight, Versions

\* The version that is due at a height is one of the four.
LEMMA MajorRange ==
  ASSUME NEW c, NEW f, NEW h
  PROVE  getBlockMajorVersionForHeight(c, f, h) \in 1 .. 4
BY DEF getBlockMajorVersionForHeight

\* The initial states satisfy the invariant.
LEMMA InitIInv == Init => IInv
<1> SUFFICES ASSUME Init PROVE IInv
  OBVIOUS
<1>1. Len(blocks) = 1 /\ blocks \in Seq(Block) /\ blocks[1].major = 1
  BY DEF Init, Block
<1>2. TypeOK
  BY <1>1, MaxBlocksAssumption DEF Init, TypeOK, NoVotes
<1>3. \A v \in Versions : ~isVotingComplete(blocks, v, 0)
  <2> SUFFICES ASSUME NEW v \in Versions, isVotingComplete(blocks, v, 0) PROVE FALSE
    OBVIOUS
  <2>1. PICK i \in 0 .. 0 : blocks[i + 1].major = v - 1
    BY VoteHasVoter, <1>1
  <2>2. getNumberOfVotes(blocks, v, 0) = 0
    BY WindowAssumption DEF getNumberOfVotes
  <2> DEFINE p == VotingThreshold * VotingWindow
  <2>3. p <= 100 * 0
    BY <2>2 DEF isVotingComplete
  <2>4. p \in Int /\ p > 0
    BY WindowAssumption, ThresholdAssumption
  <2> QED BY <2>3, <2>4
<1>4. \A v \in Versions : VoteOutcome(v)
  BY <1>1, <1>3 DEF Init, NoVotes, VoteOutcome
<1>5. \A v \in Versions : upgradeHeight(conf, m_votingCompleteHeight, v) \in Nat
  BY ConfigsAssumption, UndefAssumption DEF Init, NoVotes, upgradeHeight, ByVote
<1>6. \A v \in Versions : ~(0 > upgradeHeight(conf, m_votingCompleteHeight, v))
  BY <1>5
<1>7. getBlockMajorVersionForHeight(conf, m_votingCompleteHeight, 0) = 1
  BY <1>6 DEF getBlockMajorVersionForHeight, Versions
<1>8. BlocksFollowDetectors
  BY <1>1, <1>7 DEF BlocksFollowDetectors
<1> QED BY <1>2, <1>4, <1>8 DEF IInv, Init, OneRelease

\* Changing the recorded vote of v between "none" and a height t >= h moves
\* no upgrade height across h.
LEMMA UpgradeAbove ==
  ASSUME NEW c \in Configs, NEW f, NEW g, NEW v \in Versions, NEW h \in 0 .. MaxBlocks,
         \/ f[v] = g[v]
         \/ f[v] = UNDEF_HEIGHT /\ g[v] \in h .. MaxBlocks
         \/ g[v] = UNDEF_HEIGHT /\ f[v] \in h .. MaxBlocks
  PROVE  (h > upgradeHeight(c, f, v)) <=> (h > upgradeHeight(c, g, v))
<1>1. CASE f[v] = g[v]
  BY <1>1 DEF upgradeHeight
<1>2. ASSUME NEW e, NEW d, e[v] = UNDEF_HEIGHT, d[v] \in h .. MaxBlocks, ByVote(c, v)
      PROVE  ~(h > upgradeHeight(c, e, v)) /\ ~(h > upgradeHeight(c, d, v))
  BY <1>2, UndefAssumption, UpgradeWindowAssumption, MaxBlocksAssumption DEF upgradeHeight
<1>3. CASE ~ByVote(c, v)
  BY <1>3 DEF upgradeHeight
<1> QED BY <1>1, <1>2, <1>3

\* blockPushed keeps the invariant.
LEMMA PushIInv ==
  ASSUME IInv, NEW minor \in {0, 1}, PushBlock(minor)
  PROVE  IInv'
<1> DEFINE n == Len(blocks)
           vch == m_votingCompleteHeight
<1>0. /\ n \in 1 .. MaxBlocks /\ n < MaxBlocks
      /\ blocks \in Seq(Block) /\ conf \in Configs /\ conf' = conf /\ running' = TRUE
      /\ releases' = releases /\ releases = {conf}
      /\ vch \in [Versions -> 0 .. MaxBlocks \cup {UNDEF_HEIGHT}]
      /\ MaxBlocks \in Nat
  BY MaxBlocksAssumption DEF IInv, TypeOK, OneRelease, PushBlock
<1>1. /\ blocks' \in Seq(Block)
      /\ Len(blocks') = n + 1
      /\ \A h \in 0 .. n - 1 : blocks'[h + 1] = blocks[h + 1]
      /\ blocks'[n + 1].major = getBlockMajorVersionForHeight(conf, vch, n)
  <2> DEFINE b == [major |-> getBlockMajorVersionForHeight(conf, vch, n), minor |-> minor]
  <2>1. b \in Block
    BY MajorRange DEF Block
  <2>2. blocks' = Append(blocks, b)
    BY DEF PushBlock
  <2>3. b.major = getBlockMajorVersionForHeight(conf, vch, n)
    OBVIOUS
  <2> HIDE DEF b
  <2> QED BY <1>0, <2>1, <2>2, <2>3
<1>2. vch' = [v \in Versions |-> blockPushed(conf, vch, blocks', v)]
  BY DEF PushBlock
<1>3. ASSUME NEW v \in Versions
      PROVE  \/ vch'[v] = vch[v]
             \/ vch[v] = UNDEF_HEIGHT /\ vch'[v] = n
  BY <1>0, <1>1, <1>2 DEF blockPushed
<1>4. TypeOK'
  <2>1. \A v \in Versions : vch'[v] \in 0 .. MaxBlocks \cup {UNDEF_HEIGHT}
    BY <1>0, <1>3
  <2> QED BY <1>0, <1>1, <1>2, <2>1 DEF TypeOK
<1>5. ASSUME NEW h \in 0 .. n
      PROVE  getBlockMajorVersionForHeight(conf, vch', h) = getBlockMajorVersionForHeight(conf, vch, h)
  <2>1. \A v \in Versions : (h > upgradeHeight(conf, vch', v)) <=> (h > upgradeHeight(conf, vch, v))
    <3> TAKE v \in Versions
    <3>1. n \in h .. MaxBlocks /\ h \in 0 .. MaxBlocks
      BY <1>0, <1>5
    <3>2. \/ vch'[v] = vch[v]
          \/ vch[v] = UNDEF_HEIGHT /\ vch'[v] \in h .. MaxBlocks
      BY <1>3, <3>1
    <3> QED BY <1>0, <3>1, <3>2, UpgradeAbove, Zenon
  <2> QED BY <2>1, SameVersion
<1>6. BlocksFollowDetectors'
  <2> SUFFICES ASSUME NEW h \in 0 .. n
               PROVE  blocks'[h + 1].major = getBlockMajorVersionForHeight(conf, vch', h)
    BY <1>0, <1>1 DEF BlocksFollowDetectors
  <2>1. CASE h = n
    BY <1>1, <1>5, <2>1
  <2>2. CASE h \in 0 .. n - 1
    BY <1>1, <1>5, <2>2 DEF IInv, BlocksFollowDetectors
  <2> QED BY <1>0, <2>1, <2>2
<1>7. ASSUME NEW v \in Versions PROVE VoteOutcome(v)'
  <2>1. \A h \in 0 .. n - 1 : isVotingComplete(blocks', v, h) <=> isVotingComplete(blocks, v, h)
    <3> TAKE h \in 0 .. n - 1
    <3>1. h \in Nat /\ \A i \in 0 .. h : blocks'[i + 1] = blocks[i + 1]
      BY <1>0, <1>1, SMTT(30)
    <3> QED BY <1>0, <1>1, <3>1, VotesLocal, Zenon
  <2>2. VoteOutcome(v)
    BY DEF IInv
  <2>3. CASE ~ByVote(conf, v)
    BY <1>0, <1>2, <2>2, <2>3 DEF VoteOutcome, blockPushed
  <2>4. CASE ByVote(conf, v) /\ vch[v] = UNDEF_HEIGHT
    <3>1. \A h \in 0 .. n - 1 : ~isVotingComplete(blocks', v, h)
      BY <1>0, <2>1, <2>2, <2>4, UndefAssumption, UpgradeWindowAssumption DEF VoteOutcome
    <3>2. CASE isVotingComplete(blocks', v, n)
      <4>1. vch'[v] = n
        BY <1>0, <1>1, <1>2, <2>4, <3>2 DEF blockPushed
      <4> QED BY <1>0, <1>1, <2>4, <3>1, <3>2, <4>1 DEF VoteOutcome
    <3>3. CASE ~isVotingComplete(blocks', v, n)
      <4>1. vch'[v] = UNDEF_HEIGHT
        BY <1>0, <1>1, <1>2, <2>4, <3>3 DEF blockPushed
      <4>2. \A h \in 0 .. n : ~isVotingComplete(blocks', v, h)
        BY <1>0, <3>1, <3>3
      <4> QED BY <1>0, <1>1, <2>4, <4>1, <4>2 DEF VoteOutcome
    <3> QED BY <3>2, <3>3
  <2>5. CASE ByVote(conf, v) /\ vch[v] # UNDEF_HEIGHT
    <3>1. vch'[v] = vch[v]
      BY <1>3, <2>5
    <3>2. /\ vch[v] \in 0 .. n - 1
          /\ isVotingComplete(blocks, v, vch[v])
          /\ \A h \in 0 .. vch[v] - 1 : ~isVotingComplete(blocks, v, h)
      BY <2>2, <2>5 DEF VoteOutcome
    <3>3. \A h \in 0 .. vch[v] - 1 : ~isVotingComplete(blocks', v, h)
      BY <1>0, <2>1, <3>2
    <3>4. isVotingComplete(blocks', v, vch[v])
      BY <2>1, <3>2
    <3> QED BY <1>0, <1>1, <2>5, <3>1, <3>2, <3>3, <3>4 DEF VoteOutcome
  <2> QED BY <2>3, <2>4, <2>5
<1> QED BY <1>0, <1>4, <1>6, <1>7 DEF IInv, OneRelease

\* blockPopped keeps the invariant.
LEMMA PopIInv ==
  ASSUME IInv, PopBlock
  PROVE  IInv'
<1> DEFINE n == Len(blocks) - 1
           vch == m_votingCompleteHeight
<1>0. /\ n \in 1 .. MaxBlocks - 1
      /\ blocks \in Seq(Block) /\ conf \in Configs /\ conf' = conf /\ running' = TRUE
      /\ releases' = releases /\ releases = {conf}
      /\ vch \in [Versions -> 0 .. MaxBlocks \cup {UNDEF_HEIGHT}]
      /\ MaxBlocks \in Nat
  BY MaxBlocksAssumption DEF IInv, TypeOK, OneRelease, PopBlock
<1>1. /\ blocks' \in Seq(Block)
      /\ Len(blocks') = n
      /\ \A h \in 0 .. n - 1 : blocks'[h + 1] = blocks[h + 1]
  BY <1>0 DEF PopBlock
<1>2. vch' = [v \in Versions |-> blockPopped(vch, blocks', v)]
  BY DEF PopBlock
<1>3. ASSUME NEW v \in Versions
      PROVE  \/ vch'[v] = vch[v] /\ vch[v] # n
             \/ vch'[v] = UNDEF_HEIGHT /\ vch[v] = n
  BY <1>0, <1>1, <1>2, UndefAssumption, UpgradeWindowAssumption DEF blockPopped
<1>4. TypeOK'
  <2>1. \A v \in Versions : vch'[v] \in 0 .. MaxBlocks \cup {UNDEF_HEIGHT}
    BY <1>0, <1>3
  <2> QED BY <1>0, <1>1, <1>2, <2>1 DEF TypeOK
<1>5. BlocksFollowDetectors'
  <2> SUFFICES ASSUME NEW h \in 0 .. n - 1
               PROVE  blocks'[h + 1].major = getBlockMajorVersionForHeight(conf, vch', h)
    BY <1>0, <1>1 DEF BlocksFollowDetectors
  <2>1. \A v \in Versions : (h > upgradeHeight(conf, vch', v)) <=> (h > upgradeHeight(conf, vch, v))
    <3> TAKE v \in Versions
    <3>1. n \in h .. MaxBlocks /\ h \in 0 .. MaxBlocks
      BY <1>0
    <3>2. \/ vch'[v] = vch[v]
          \/ vch'[v] = UNDEF_HEIGHT /\ vch[v] \in h .. MaxBlocks
      BY <1>3, <3>1
    <3> QED BY <1>0, <3>1, <3>2, UpgradeAbove, Zenon
  <2>2. blocks[h + 1].major = getBlockMajorVersionForHeight(conf, vch, h)
    BY <1>0 DEF IInv, BlocksFollowDetectors
  <2> QED BY <1>1, <2>1, <2>2, SameVersion, SMTT(30)
<1>6. ASSUME NEW v \in Versions PROVE VoteOutcome(v)'
  <2>1. \A h \in 0 .. n - 1 : isVotingComplete(blocks', v, h) <=> isVotingComplete(blocks, v, h)
    <3> TAKE h \in 0 .. n - 1
    <3>1. h \in Nat /\ \A i \in 0 .. h : blocks'[i + 1] = blocks[i + 1]
      BY <1>0, <1>1
    <3> QED BY <1>0, <1>1, <3>1, VotesLocal, Zenon
  <2>2. VoteOutcome(v)
    BY DEF IInv
  <2>3. CASE ~ByVote(conf, v)
    BY <1>0, <1>3, <2>2, <2>3, UndefAssumption, UpgradeWindowAssumption DEF VoteOutcome
  <2>4. CASE ByVote(conf, v) /\ vch[v] = UNDEF_HEIGHT
    <3>1. vch'[v] = UNDEF_HEIGHT
      BY <1>3, <2>4
    <3>2. \A h \in 0 .. n : ~isVotingComplete(blocks, v, h)
      BY <1>0, <2>2, <2>4, UndefAssumption, UpgradeWindowAssumption DEF VoteOutcome
    <3> QED BY <1>0, <1>1, <2>1, <2>4, <3>1, <3>2 DEF VoteOutcome
  <2>5. CASE ByVote(conf, v) /\ vch[v] # UNDEF_HEIGHT
    <3>1. /\ vch[v] \in 0 .. n
          /\ isVotingComplete(blocks, v, vch[v])
          /\ \A h \in 0 .. vch[v] - 1 : ~isVotingComplete(blocks, v, h)
      BY <2>2, <2>5 DEF VoteOutcome
    <3>2. \A h \in 0 .. vch[v] - 1 : ~isVotingComplete(blocks', v, h)
      BY <1>0, <2>1, <3>1
    <3>3. CASE vch[v] = n
      BY <1>0, <1>1, <1>3, <2>5, <3>2, <3>3 DEF VoteOutcome
    <3>4. CASE vch[v] # n
      BY <1>0, <1>1, <1>3, <2>1, <2>5, <3>1, <3>2, <3>4 DEF VoteOutcome
    <3> QED BY <3>3, <3>4
  <2> QED BY <2>3, <2>4, <2>5
<1> QED BY <1>0, <1>4, <1>5, <1>6 DEF IInv, OneRelease

-----------------------------------------------------------------------------
\* FirstComplete is the recorded height whenever the range reaches it.
LEMMA FirstCompleteIs ==
  ASSUME NEW bs, NEW v, NEW lo \in Nat, NEW hi \in Nat, NEW t \in lo .. hi,
         isVotingComplete(bs, v, t),
         \A h \in lo .. t - 1 : ~isVotingComplete(bs, v, h)
  PROVE  FirstComplete(bs, v, lo, hi) = t
<1> DEFINE complete == {i \in lo .. hi : isVotingComplete(bs, v, i)}
<1>1. t \in complete /\ \A j \in complete : t <= j
  OBVIOUS
<1>2. \A i \in complete : (\A j \in complete : i <= j) => i = t
  BY <1>1
<1>3. FirstComplete(bs, v, lo, hi) = CHOOSE i \in complete : \A j \in complete : i <= j
  BY <1>1 DEF FirstComplete
<1> HIDE DEF complete
<1> QED BY <1>1, <1>2, <1>3, Zenon

\* A search through heights where no voting is complete finds none.
LEMMA FirstCompleteNone ==
  ASSUME NEW bs, NEW v, NEW lo \in Nat, NEW hi \in Nat,
         \A h \in lo .. hi : ~isVotingComplete(bs, v, h)
  PROVE  FirstComplete(bs, v, lo, hi) = UNDEF_HEIGHT
BY DEF FirstComplete

\* The invariant gives the checked property: VoteOutcome is VotingHeightExact.
LEMMA ExactFromIInv == IInv => VotingHeightExact
<1> SUFFICES ASSUME IInv, NEW v \in Versions
             PROVE  m_votingCompleteHeight[v] =
                      IF ByVote(conf, v) THEN FirstComplete(blocks, v, 0, Len(blocks) - 1)
                      ELSE UNDEF_HEIGHT
  BY DEF VotingHeightExact
<1>1. Len(blocks) - 1 \in Nat /\ VoteOutcome(v)
  BY MaxBlocksAssumption DEF IInv, TypeOK
<1>2. CASE ~ByVote(conf, v)
  BY <1>1, <1>2 DEF VoteOutcome
<1>3. CASE ByVote(conf, v) /\ \A h \in 0 .. Len(blocks) - 1 : ~isVotingComplete(blocks, v, h)
  <2>1. m_votingCompleteHeight[v] = UNDEF_HEIGHT
    BY <1>1, <1>3 DEF VoteOutcome
  <2> QED BY <1>1, <1>3, <2>1, FirstCompleteNone
<1>4. CASE ByVote(conf, v) /\ ~(\A h \in 0 .. Len(blocks) - 1 : ~isVotingComplete(blocks, v, h))
  <2>1. /\ m_votingCompleteHeight[v] \in 0 .. Len(blocks) - 1
        /\ isVotingComplete(blocks, v, m_votingCompleteHeight[v])
        /\ \A h \in 0 .. m_votingCompleteHeight[v] - 1 : ~isVotingComplete(blocks, v, h)
    BY <1>1, <1>4 DEF VoteOutcome
  <2> QED BY <1>1, <1>4, <2>1, FirstCompleteIs
<1> QED BY <1>2, <1>3, <1>4

-----------------------------------------------------------------------------
\* A later version is never in force before an earlier one.
LEMMA UpgradesOrdered ==
  ASSUME IInv, ReleaseOk(conf)
  PROVE  LET up(v) == upgradeHeight(conf, m_votingCompleteHeight, v)
         IN  /\ \A v \in Versions : up(v) \in 0 .. UNDEF_HEIGHT
             /\ \A v \in 3 .. 4 : up(v) = UNDEF_HEIGHT \/ up(v - 1) < up(v)
<1> DEFINE up(v) == upgradeHeight(conf, m_votingCompleteHeight, v)
           vch == m_votingCompleteHeight
<1>0. /\ conf \in [Versions -> 0 .. UNDEF_HEIGHT] /\ UNDEF_HEIGHT \in Nat /\ MaxBlocks \in Nat
      /\ UpgradeWindow \in Nat /\ UpgradeWindow >= 1 /\ UNDEF_HEIGHT > MaxBlocks + UpgradeWindow
      /\ vch \in [Versions -> 0 .. MaxBlocks \cup {UNDEF_HEIGHT}]
      /\ blocks \in Seq(Block) /\ Len(blocks) \in 1 .. MaxBlocks
  BY ConfigsAssumption, UndefAssumption, MaxBlocksAssumption, UpgradeWindowAssumption DEF IInv, TypeOK
<1>1. \A v \in Versions : up(v) \in 0 .. UNDEF_HEIGHT
  BY <1>0 DEF upgradeHeight
<1>2. ASSUME NEW v \in 3 .. 4, up(v) # UNDEF_HEIGHT PROVE up(v - 1) < up(v)
  <2>0. v \in Versions /\ v - 1 \in Versions /\ v - 1 \in 2 .. 3
    BY DEF Versions
  <2>1. CASE ~ByVote(conf, v)
    <3>1. up(v) = conf[v] /\ conf[v] # UNDEF_HEIGHT
      BY <2>1 DEF upgradeHeight, ByVote
    <3>2. conf[v - 1] # UNDEF_HEIGHT /\ conf[v - 1] < conf[v]
      BY <1>2, <3>1 DEF ReleaseOk
    <3>3. up(v - 1) = conf[v - 1]
      BY <3>2 DEF upgradeHeight, ByVote
    <3> QED BY <3>1, <3>2, <3>3
  <2>2. CASE ByVote(conf, v)
    <3>1. vch[v] # UNDEF_HEIGHT /\ up(v) = vch[v] + UpgradeWindow
      BY <1>2, <2>2 DEF upgradeHeight
    <3>2. vch[v] \in 0 .. Len(blocks) - 1 /\ isVotingComplete(blocks, v, vch[v])
      BY <2>0, <2>2, <3>1 DEF IInv, VoteOutcome
    <3>3. PICK i \in 0 .. vch[v] : blocks[i + 1].major = v - 1
      <4>1. vch[v] \in Nat
        BY <1>0, <3>2
      <4> QED BY <1>0, <2>0, <3>2, <4>1, VoteHasVoter, Zenon
    <3>4. i \in 0 .. Len(blocks) - 1
      BY <1>0, <3>2, <3>3
    <3>5. getBlockMajorVersionForHeight(conf, vch, i) = v - 1
      BY <3>3, <3>4 DEF IInv, BlocksFollowDetectors
    <3>6. i > up(v - 1)
      BY <1>2, <2>0, <3>5 DEF getBlockMajorVersionForHeight
    <3>7. up(v - 1) \in 0 .. UNDEF_HEIGHT
      BY <1>1, <2>0
    <3> HIDE DEF up
    <3> QED BY <1>0, <3>1, <3>2, <3>4, <3>6, <3>7, SMTT(30)
  <2> QED BY <2>1, <2>2
<1> QED BY <1>1, <1>2

\* A block has at least version v exactly above v's upgrade height.
LEMMA VersionAbove ==
  ASSUME IInv, ReleaseOk(conf), NEW v \in Versions, NEW h \in 0 .. Len(blocks) - 1
  PROVE  /\ blocks[h + 1].major \in 1 .. 4
         /\ blocks[h + 1].major >= v <=> h > upgradeHeight(conf, m_votingCompleteHeight, v)
<1> DEFINE up(w) == upgradeHeight(conf, m_votingCompleteHeight, w)
<1>0. /\ UNDEF_HEIGHT \in Nat /\ MaxBlocks \in Nat /\ UNDEF_HEIGHT > MaxBlocks
      /\ Len(blocks) \in 1 .. MaxBlocks
  BY UndefAssumption, MaxBlocksAssumption, UpgradeWindowAssumption DEF IInv, TypeOK
<1>1. blocks[h + 1].major =
        IF h > up(4) THEN 4 ELSE IF h > up(3) THEN 3 ELSE IF h > up(2) THEN 2 ELSE 1
  BY DEF IInv, BlocksFollowDetectors, getBlockMajorVersionForHeight
<1>2. /\ \A w \in Versions : up(w) \in 0 .. UNDEF_HEIGHT
      /\ \A w \in 3 .. 4 : up(w) = UNDEF_HEIGHT \/ up(w - 1) < up(w)
  BY UpgradesOrdered
<1>3. /\ up(2) \in 0 .. UNDEF_HEIGHT /\ up(3) \in 0 .. UNDEF_HEIGHT /\ up(4) \in 0 .. UNDEF_HEIGHT
      /\ up(3) = UNDEF_HEIGHT \/ up(2) < up(3)
      /\ up(4) = UNDEF_HEIGHT \/ up(3) < up(4)
  <2>1. 4 \in 3 .. 4 /\ 3 \in 3 .. 4 /\ 4 - 1 = 3 /\ 3 - 1 = 2
    OBVIOUS
  <2> HIDE DEF up
  <2> QED BY <1>2, <2>1 DEF Versions
<1>4. v = 2 \/ v = 3 \/ v = 4
  BY DEF Versions
<1> SUFFICES /\ blocks[h + 1].major \in 1 .. 4
             /\ blocks[h + 1].major >= v <=> h > up(v)
  OBVIOUS
<1> HIDE DEF up
<1> QED BY <1>0, <1>1, <1>3, <1>4, SMTT(30)

\* BasicUpgradeDetector::init on a chain the release built succeeds, finds the
\* recorded voting height, and passes checkUpgradeHeight.
LEMMA InitAgrees ==
  ASSUME IInv, ReleaseOk(conf), NEW v \in Versions
  PROVE  /\ InitSucceeds(conf, blocks, v)
         /\ InitVotingHeight(conf, NoVotes, blocks, v) = m_votingCompleteHeight[v]
         /\ checkUpgradeHeight(conf, m_votingCompleteHeight, blocks, v)
<1> DEFINE n == Len(blocks) - 1
           vch == m_votingCompleteHeight
           up(w) == upgradeHeight(conf, vch, w)
<1>0. /\ conf \in [Versions -> 0 .. UNDEF_HEIGHT] /\ UNDEF_HEIGHT \in Nat /\ MaxBlocks \in Nat
      /\ UpgradeWindow \in Nat /\ UpgradeWindow >= 1 /\ UNDEF_HEIGHT > MaxBlocks + UpgradeWindow
      /\ vch \in [Versions -> 0 .. MaxBlocks \cup {UNDEF_HEIGHT}]
      /\ blocks \in Seq(Block) /\ n \in 0 .. MaxBlocks - 1 /\ Len(blocks) = n + 1
      /\ VoteOutcome(v)
  BY ConfigsAssumption, UndefAssumption, MaxBlocksAssumption, UpgradeWindowAssumption DEF IInv, TypeOK
<1>1. \A h \in 0 .. n : /\ blocks[h + 1].major \in 1 .. 4
                        /\ blocks[h + 1].major >= v <=> h > up(v)
  BY VersionAbove
<1>2. ASSUME v - 1 \in Versions
      PROVE  \A h \in 0 .. n : blocks[h + 1].major >= v - 1 <=> h > up(v - 1)
  BY <1>2, VersionAbove
<1>3. ASSUME v + 1 \in Versions
      PROVE  /\ \A h \in 0 .. n : blocks[h + 1].major >= v + 1 <=> h > up(v + 1)
             /\ up(v + 1) = UNDEF_HEIGHT \/ up(v) < up(v + 1)
             /\ up(v + 1) \in 0 .. UNDEF_HEIGHT
  <2>1. \A h \in 0 .. n : blocks[h + 1].major >= v + 1 <=> h > up(v + 1)
    BY <1>3, VersionAbove
  <2>2. v + 1 \in 3 .. 4 /\ (v + 1) - 1 = v
    BY <1>3 DEF Versions
  <2>3. /\ \A w \in Versions : up(w) \in 0 .. UNDEF_HEIGHT
        /\ \A w \in 3 .. 4 : up(w) = UNDEF_HEIGHT \/ up(w - 1) < up(w)
    BY UpgradesOrdered
  <2> HIDE DEF up
  <2> QED BY <1>3, <2>1, <2>2, <2>3
<1>4. up(v) \in 0 .. UNDEF_HEIGHT
  BY UpgradesOrdered
<1>5. \A h \in 0 .. n : h = up(v) + 1 => blocks[h + 1].major = v
  <2> SUFFICES ASSUME NEW h \in 0 .. n, h = up(v) + 1 PROVE blocks[h + 1].major = v
    OBVIOUS
  <2> HIDE DEF up
  <2>1. blocks[h + 1].major \in 1 .. 4 /\ blocks[h + 1].major >= v
    BY <1>1, <1>4
  <2>2. CASE v = 4
    BY <2>1, <2>2
  <2>3. CASE v + 1 \in Versions
    <3>1. ~(h > up(v + 1))
      BY <1>0, <1>3, <1>4, <2>3
    <3>2. ~(blocks[h + 1].major >= v + 1)
      BY <1>3, <2>3, <3>1
    <3> QED BY <2>1, <3>2 DEF Versions
  <2> QED BY <2>2, <2>3 DEF Versions
<1>6. checkUpgradeHeight(conf, vch, blocks, v)
  <2> SUFFICES ASSUME up(v) # UNDEF_HEIGHT, up(v) + 1 < Len(blocks)
               PROVE  blocks[up(v) + 2].major = v
    BY DEF checkUpgradeHeight
  <2>1. up(v) + 1 \in 0 .. n /\ (up(v) + 1) + 1 = up(v) + 2
    BY <1>0, <1>4
  <2> HIDE DEF up
  <2> QED BY <1>5, <2>1
<1>7. CASE ~ByVote(conf, v)
  <2>1. vch[v] = UNDEF_HEIGHT
    BY <1>0, <1>7 DEF VoteOutcome
  <2>2. InitVotingHeight(conf, NoVotes, blocks, v) = vch[v]
    BY <1>7, <2>1 DEF InitVotingHeight, NoVotes
  <2>3. up(v) = conf[v] /\ conf[v] \in Nat
    BY <1>0, <1>7 DEF upgradeHeight
  <2>4. ASSUME Len(blocks) <= conf[v] + 1 PROVE Tip(blocks).major < v
    <3>1. n \in 0 .. n /\ ~(n > up(v))
      BY <1>0, <2>3, <2>4
    <3>2. blocks[n + 1].major \in 1 .. 4 /\ ~(blocks[n + 1].major >= v)
      BY <1>1, <3>1
    <3> QED BY <1>0, <3>2, SMTT(30) DEF Tip, Versions
  <2>5. ASSUME ~(Len(blocks) <= conf[v] + 1)
        PROVE  blocks[conf[v] + 1].major = v - 1 /\ blocks[conf[v] + 2].major = v
    <3>1. conf[v] \in 0 .. n /\ conf[v] + 1 \in 0 .. n /\ (conf[v] + 1) + 1 = conf[v] + 2
      BY <1>0, <2>3, <2>5
    <3>2. blocks[conf[v] + 2].major = v
      BY <1>5, <2>3, <3>1
    <3>3. blocks[conf[v] + 1].major \in 1 .. 4 /\ ~(blocks[conf[v] + 1].major >= v)
      <4>1. ~(conf[v] > up(v))
        BY <2>3
      <4> QED BY <1>1, <3>1, <4>1
    <3>4. CASE v = 2
      BY <3>2, <3>3, <3>4
    <3>5. CASE v - 1 \in Versions
      <4>1. v \in 3 .. 4
        BY <3>5 DEF Versions
      <4>2. conf[v] # UNDEF_HEIGHT
        BY <1>7 DEF ByVote
      <4>3. conf[v - 1] # UNDEF_HEIGHT /\ conf[v - 1] < conf[v]
        BY <4>1, <4>2 DEF ReleaseOk
      <4>4. up(v - 1) = conf[v - 1]
        BY <4>3 DEF upgradeHeight, ByVote
      <4>5. blocks[conf[v] + 1].major >= v - 1
        BY <1>2, <3>1, <3>5, <4>3, <4>4, <1>0
      <4> QED BY <3>2, <3>3, <4>5 DEF Versions
    <3> QED BY <3>4, <3>5 DEF Versions
  <2>6. InitSucceeds(conf, blocks, v)
    BY <1>7, <2>4, <2>5 DEF InitSucceeds
  <2> QED BY <1>6, <2>2, <2>6
<1>8. CASE ByVote(conf, v)
  <2> DEFINE reach(p) == IF p > 7 * UpgradeWindow THEN p - 7 * UpgradeWindow ELSE 0
  <2>0. \A p \in Nat : /\ findVotingCompleteHeight(blocks, v, p) = FirstComplete(blocks, v, reach(p), p)
                       /\ reach(p) \in Nat
                       /\ \A t \in Nat : p <= t + UpgradeWindow + 1 => reach(p) <= t
    BY <1>0 DEF findVotingCompleteHeight
  <2>1. ASSUME vch[v] # UNDEF_HEIGHT
        PROVE  /\ vch[v] \in 0 .. n
               /\ isVotingComplete(blocks, v, vch[v])
               /\ \A h \in 0 .. vch[v] - 1 : ~isVotingComplete(blocks, v, h)
               /\ up(v) = vch[v] + UpgradeWindow
    BY <1>0, <1>8, <2>1 DEF VoteOutcome, upgradeHeight
  <2>2. ASSUME vch[v] = UNDEF_HEIGHT
        PROVE  /\ \A h \in 0 .. n : ~isVotingComplete(blocks, v, h)
               /\ up(v) = UNDEF_HEIGHT
    BY <1>0, <1>8, <2>2 DEF VoteOutcome, upgradeHeight
  <2>3. ASSUME NEW p \in 0 .. n, vch[v] # UNDEF_HEIGHT => vch[v] <= p /\ p <= up(v) + 1
        PROVE  findVotingCompleteHeight(blocks, v, p) = vch[v]
    <3>0. p \in Nat /\ reach(p) \in Nat
      BY <1>0, <2>0, <2>3
    <3>1. CASE vch[v] = UNDEF_HEIGHT
      <4>1. \A h \in reach(p) .. p : ~isVotingComplete(blocks, v, h)
        BY <1>0, <2>2, <2>3, <3>0, <3>1
      <4> QED BY <2>0, <3>0, <3>1, <4>1, FirstCompleteNone
    <3>2. CASE vch[v] # UNDEF_HEIGHT
      <4>1. vch[v] \in Nat /\ vch[v] \in reach(p) .. p
        BY <1>0, <2>0, <2>1, <2>3, <3>0, <3>2, SMTT(40)
      <4>2. \A h \in reach(p) .. vch[v] - 1 : ~isVotingComplete(blocks, v, h)
        BY <2>1, <3>0, <3>2, <4>1
      <4>3. FirstComplete(blocks, v, reach(p), p) = vch[v]
        BY <2>1, <3>0, <3>2, <4>1, <4>2, FirstCompleteIs, SMTT(30)
      <4> QED BY <2>0, <3>0, <4>3
    <3> QED BY <3>1, <3>2
  <2>4. Tip(blocks).major = blocks[n + 1].major /\ n \in 0 .. n
    BY <1>0 DEF Tip
  <2>5. CASE Tip(blocks).major >= v
    <3>1. n > up(v)
      BY <1>1, <2>4, <2>5
    <3>2. vch[v] # UNDEF_HEIGHT
      BY <1>0, <2>2, <3>1
    <3>3. up(v) + 1 \in 0 .. n /\ vch[v] <= up(v) + 1
      BY <1>0, <1>4, <2>1, <3>1, <3>2
    <3>4. FirstWithVersion(blocks, v) = up(v) + 1
      <4> DEFINE P(h) == /\ blocks[h + 1].major >= v
                         /\ \A g \in 0 .. h - 1 : blocks[g + 1].major < v
      <4>1. \A h \in 0 .. n : blocks[h + 1].major < v <=> ~(h > up(v))
        BY <1>1 DEF Versions
      <4>2. P(up(v) + 1)
        <5> HIDE DEF up
        <5>1. blocks[(up(v) + 1) + 1].major >= v
          BY <1>1, <1>4, <3>3
        <5>2. \A g \in 0 .. (up(v) + 1) - 1 : g \in 0 .. n /\ ~(g > up(v))
          BY <1>0, <1>4, <3>3
        <5> QED BY <4>1, <5>1, <5>2
      <4>3. \A h \in 0 .. n : P(h) => h = up(v) + 1
        <5> SUFFICES ASSUME NEW h \in 0 .. n, P(h) PROVE h = up(v) + 1
          BY Zenon
        <5>1. h > up(v)
          BY <1>1
        <5>2. ~(up(v) + 1 \in 0 .. h - 1)
          BY <3>3, <4>1, <1>4, SMTT(40)
        <5> HIDE DEF up
        <5> QED BY <1>4, <5>1, <5>2
      <4>4. FirstWithVersion(blocks, v) = CHOOSE h \in 0 .. n : P(h)
        BY DEF FirstWithVersion
      <4> HIDE DEF P, up
      <4> QED BY <3>3, <4>2, <4>3, <4>4
    <3>5. findVotingCompleteHeight(blocks, v, up(v) + 1) = vch[v]
      BY <1>4, <2>3, <3>3
    <3>6. blocks[FirstWithVersion(blocks, v) + 1].major = v
      BY <1>5, <3>3, <3>4
    <3>7. ~(Tip(blocks).major = v - 1)
      BY <2>5 DEF Versions
    <3> QED BY <1>6, <1>8, <2>5, <3>2, <3>4, <3>5, <3>6, <3>7 DEF InitSucceeds, InitVotingHeight
  <2>6. CASE ~(Tip(blocks).major >= v)
    <3>1. InitSucceeds(conf, blocks, v)
      BY <1>8, <2>6 DEF InitSucceeds
    <3>2. ~(n > up(v))
      BY <1>1, <2>4, <2>6
    <3>3. CASE Tip(blocks).major = v - 1
      <4>1. vch[v] # UNDEF_HEIGHT => vch[v] <= n /\ n <= up(v) + 1
        BY <1>0, <1>4, <2>1, <3>2
      <4>2. findVotingCompleteHeight(blocks, v, n) = vch[v]
        BY <2>3, <2>4, <4>1
      <4> QED BY <1>6, <1>8, <3>1, <3>3, <4>2 DEF InitVotingHeight
    <3>4. CASE Tip(blocks).major # v - 1
      <4>1. vch[v] = UNDEF_HEIGHT
        <5> SUFFICES ASSUME vch[v] # UNDEF_HEIGHT PROVE FALSE
          OBVIOUS
        <5>1. PICK i \in 0 .. vch[v] : blocks[i + 1].major = v - 1
          <6>1. vch[v] \in Nat
            BY <1>0, <2>1
          <6> QED BY <1>0, <2>1, <6>1, VoteHasVoter, Zenon
        <5>2. i \in 0 .. n
          BY <1>0, <2>1, <5>1
        <5>3. v - 1 \in Versions
          <6>1. CASE v = 2
            <7>1. blocks[n + 1].major \in 1 .. 4
              BY <1>1, <2>4, Zenon
            <7> QED BY <2>4, <2>6, <3>4, <6>1, <7>1
          <6> QED BY <6>1 DEF Versions
        <5>4. i > up(v - 1)
          BY <1>2, <5>1, <5>2, <5>3 DEF Versions
        <5>5. up(v - 1) \in 0 .. UNDEF_HEIGHT
          BY <5>3, UpgradesOrdered
        <5>6. n > up(v - 1)
          BY <1>0, <5>2, <5>4, <5>5
        <5>7. Tip(blocks).major >= v - 1 /\ blocks[n + 1].major \in 1 .. 4
          BY <1>1, <1>2, <2>4, <5>3, <5>6
        <5> QED BY <2>4, <2>6, <3>4, <5>7 DEF Versions
      <4>2. InitVotingHeight(conf, NoVotes, blocks, v) = UNDEF_HEIGHT
        BY <1>8, <2>6, <3>4 DEF InitVotingHeight
      <4> QED BY <1>6, <3>1, <4>1, <4>2
    <3> QED BY <3>3, <3>4
  <2> QED BY <2>5, <2>6
<1> QED BY <1>7, <1>8

\* A restart of the same release changes nothing.
LEMMA RestartStep ==
  ASSUME IInv, ReleaseOk(conf), StartWith(conf)
  PROVE  running' = TRUE /\ UNCHANGED vars
<1> DEFINE found == [v \in Versions |-> InitVotingHeight(conf, NoVotes, blocks, v)]
           bad == {v \in Versions : ~checkUpgradeHeight(conf, found, blocks, v)}
<1>1. found = m_votingCompleteHeight
  <2>1. m_votingCompleteHeight = [v \in Versions |-> m_votingCompleteHeight[v]]
    BY DEF IInv, TypeOK
  <2>2. \A v \in Versions : found[v] = m_votingCompleteHeight[v]
    BY InitAgrees
  <2> HIDE DEF found
  <2>3. found = [v \in Versions |-> found[v]]
    BY DEF found
  <2> QED BY <2>1, <2>2, <2>3
<1>2. \A v \in Versions : InitSucceeds(conf, blocks, v)
  BY InitAgrees
<1>3. bad = {}
  <2> HIDE DEF found
  <2> QED BY <1>1, InitAgrees
<1>4. /\ conf' = conf
      /\ releases' = releases \cup {conf}
      /\ \/ \E v \in Versions : ~InitSucceeds(conf, blocks, v)
         \/ /\ running' = TRUE
            /\ m_votingCompleteHeight' = found
            /\ UNCHANGED blocks
         \/ bad # {}
  BY Zenon DEF StartWith
<1> HIDE DEF found, bad
<1> QED BY <1>1, <1>2, <1>3, <1>4, Zenon DEF vars, IInv, OneRelease

\* The invariant of any mixture of releases: IInv while only one has run.
GInv ==
    /\ conf \in Configs
    /\ conf \in releases
    /\ OneRelease => IInv

\* The initial states satisfy the invariant.
LEMMA InitGInv == Init => GInv
BY InitIInv DEF Init, GInv

\* Every step keeps the invariant, when every release is made as it should.
LEMMA NextGInv ==
  ASSUME \A c \in Configs : ReleaseOk(c)
  PROVE  GInv /\ [Next]_vars => GInv'
<1> SUFFICES ASSUME GInv, [Next]_vars PROVE GInv'
  OBVIOUS
<1>2. ASSUME NEW minor \in {0, 1}, PushBlock(minor) PROVE GInv'
  <2>1. conf' = conf /\ releases' = releases
    BY <1>2 DEF PushBlock
  <2> QED BY <1>2, <2>1, PushIInv DEF GInv, OneRelease
<1>3. CASE PopBlock
  <2>1. conf' = conf /\ releases' = releases
    BY <1>3 DEF PopBlock
  <2> QED BY <1>3, <2>1, PopIInv DEF GInv, OneRelease
<1>4. ASSUME NEW c \in Configs, StartWith(c) PROVE GInv'
  <2>1. conf' = c /\ releases' = releases \cup {c}
    BY <1>4 DEF StartWith
  <2>2. ASSUME OneRelease' PROVE IInv'
    <3>1. conf = c /\ OneRelease
      BY <2>1, <2>2 DEF GInv, OneRelease
    <3>2. UNCHANGED vars
      BY <1>4, <3>1, RestartStep, Zenon DEF GInv
    <3> QED BY <3>1, <3>2
          DEF GInv, vars, IInv, TypeOK, OneRelease, BlocksFollowDetectors, VoteOutcome
  <2> QED BY <2>1, <2>2 DEF GInv
<1>5. CASE UNCHANGED vars
  BY <1>5 DEF GInv, vars, IInv, TypeOK, OneRelease, BlocksFollowDetectors, VoteOutcome
<1> QED BY <1>2, <1>3, <1>4, <1>5 DEF Next, Restart

\* For every set of releases whose configured heights increase, whatever the
\* windows and the threshold: as long as one release opens the data directory,
\* each block keeps the version that checkBlockVersion demands at its height,
\* through every push, pop and restart.
THEOREM VersionsFollow ==
  ASSUME \A c \in Configs : ReleaseOk(c)
  PROVE  Spec => []VersionsFollowDetectors
<1>1. GInv /\ [Next]_vars => GInv'
  BY NextGInv
<1>2. GInv => VersionsFollowDetectors
  BY DEF GInv, IInv, VersionsFollowDetectors
<1> QED BY <1>1, <1>2, InitGInv, PTL DEF Spec

\* Under the same hypotheses the recorded voting height is always the first
\* height of the chain at which the vote was complete.
THEOREM VotingExact ==
  ASSUME \A c \in Configs : ReleaseOk(c)
  PROVE  Spec => []VotingHeightExact
<1>1. GInv /\ [Next]_vars => GInv'
  BY NextGInv
<1>2. GInv => VotingHeightExact
  BY ExactFromIInv DEF GInv, VotingHeightExact
<1> QED BY <1>1, <1>2, InitGInv, PTL DEF Spec

\* Under the same hypotheses restarting that release changes nothing: init()
\* accepts the stored chain, rolls nothing back, and its bounded search finds
\* the voting heights the running node had.
THEOREM RestartIsInvisible ==
  ASSUME \A c \in Configs : ReleaseOk(c)
  PROVE  Spec => RestartInvisible
<1>1. GInv /\ [Next]_vars => GInv'
  BY NextGInv
<1>2. GInv => [OneRelease /\ StartWith(conf)
                => running' /\ UNCHANGED <<blocks, m_votingCompleteHeight>>]_vars
  <2> SUFFICES ASSUME GInv, OneRelease, StartWith(conf)
               PROVE  running' /\ UNCHANGED <<blocks, m_votingCompleteHeight>>
    OBVIOUS
  <2> QED BY RestartStep, Zenon DEF vars, GInv
<1> QED BY <1>1, <1>2, InitGInv, PTL DEF Spec, RestartInvisible

-----------------------------------------------------------------------------
(* A start with any release *)

\* Well-founded induction in the form the provers can use: a set of natural numbers that is
\* not empty has a least element.
LEMMA MinimalElement ==
    ASSUME NEW R, IsWellFoundedOn(R, Nat), NEW T, T \subseteq Nat, T # {}
    PROVE  \E m \in T : \A k \in T : ~(<<k, m>> \in R)
BY WFMin, Zenon

\* An element of a set of numbers that has none of the set before it is its least.
LEMMA MinimalIsLeast ==
    ASSUME NEW R, \A x, y \in Nat : x < y => <<x, y>> \in R, NEW T, T \subseteq Nat,
           NEW m \in T, \A k \in T : ~(<<k, m>> \in R)
    PROVE  \A k \in T : m <= k
<1> TAKE k \in T
<1>1. k \in Nat /\ m \in Nat
  OBVIOUS
<1>2. ~(k < m)
  BY <1>1, Zenon
<1> QED BY <1>1, <1>2

\* A set of numbers that is not empty has a least element.
LEMMA LeastElement ==
    ASSUME NEW T, T \subseteq Nat, T # {}
    PROVE  \E m \in T : \A k \in T : m <= k
<1>1. \A x, y \in Nat : x < y => <<x, y>> \in OpToRel(<, Nat)
  BY DEF OpToRel
<1>2. \E m \in T : \A k \in T : ~(<<k, m>> \in OpToRel(<, Nat))
  BY MinimalElement, NatLessThanWellFounded, Zenon
<1> QED BY <1>1, <1>2, MinimalIsLeast, Zenon


\* FirstComplete is the least complete height, if there is one.
LEMMA FirstCompleteFinds ==
  ASSUME NEW bs, NEW v, NEW lo \in Nat, NEW hi \in Nat, NEW t,
         t = FirstComplete(bs, v, lo, hi), t # UNDEF_HEIGHT
  PROVE  /\ t \in lo .. hi /\ isVotingComplete(bs, v, t)
         /\ \A h \in lo .. t - 1 : ~isVotingComplete(bs, v, h)
<1> DEFINE complete == {i \in lo .. hi : isVotingComplete(bs, v, i)}
<1>1. complete \subseteq Nat /\ complete # {}
  BY FirstCompleteNone
<1>2. PICK m \in complete : \A k \in complete : m <= k
  <2> HIDE DEF complete
  <2> QED BY <1>1, LeastElement, Zenon
<1>3. isVotingComplete(bs, v, m) /\ m \in lo .. hi /\ \A h \in lo .. m - 1 : ~isVotingComplete(bs, v, h)
  BY <1>2
<1>4. t = m
  BY <1>3, FirstCompleteIs
<1> QED BY <1>3, <1>4

\* A block has one of the four versions.
LEMMA MajorOf ==
  ASSUME NEW bs \in Seq(Block), NEW i \in 1 .. Len(bs)
  PROVE  bs[i].major \in 1 .. 4
<1>1. bs[i] \in Block
  OBVIOUS
<1> HIDE DEF Block
<1>2. \A b \in Block : b.major \in 1 .. 4
  BY Zenon DEF Block
<1> QED BY <1>1, <1>2

\* The height from which init() searches back for the vote of version v.
Probable(bs, v) == IF Tip(bs).major >= v THEN FirstWithVersion(bs, v) ELSE Len(bs) - 1
SearchedFrom(p) == IF p > 7 * UpgradeWindow THEN p - 7 * UpgradeWindow ELSE 0

\* A height init finds by searching is the first complete one of the heights it searches.
LEMMA InitSearches ==
  ASSUME NEW c, NEW f, NEW bs \in Seq(Block), bs # <<>>, NEW v \in Versions, ByVote(c, v),
         InitVotingHeight(c, f, bs, v) # UNDEF_HEIGHT
  PROVE  /\ Tip(bs).major >= v - 1
         /\ InitVotingHeight(c, f, bs, v) = FirstComplete(bs, v, SearchedFrom(Probable(bs, v)), Probable(bs, v))
<1>1. Tip(bs).major \in 1 .. 4
  BY MajorOf DEF Tip
<1> QED BY <1>1 DEF InitVotingHeight, findVotingCompleteHeight, SearchedFrom, Probable, Versions

\* std::lower_bound finds the first block with the version.
LEMMA FirstWithVersionIs ==
  ASSUME NEW bs \in Seq(Block), bs # <<>>, NEW v \in Versions, Tip(bs).major >= v
  PROVE  LET h == FirstWithVersion(bs, v)
         IN  /\ h \in 0 .. Len(bs) - 1 /\ bs[h + 1].major >= v
             /\ \A g \in 0 .. h - 1 : bs[g + 1].major < v
<1> DEFINE T == {h \in 0 .. Len(bs) - 1 : bs[h + 1].major >= v}
<1>1. Len(bs) - 1 \in T /\ T \subseteq Nat
  <2>1. Len(bs) \in Nat /\ Len(bs) > 0 /\ (Len(bs) - 1) + 1 = Len(bs)
    OBVIOUS
  <2> QED BY <2>1 DEF Tip
<1>2. PICK m \in T : \A k \in T : m <= k
  <2> HIDE DEF T
  <2> QED BY <1>1, LeastElement, Zenon
<1>3. \A i \in 1 .. Len(bs) : bs[i].major \in 1 .. 4
  BY MajorOf, Zenon
<1>4. \A g \in 0 .. m - 1 : bs[g + 1].major < v
  <2> TAKE g \in 0 .. m - 1
  <2>1. g \in 0 .. Len(bs) - 1 /\ g + 1 \in 1 .. Len(bs) /\ ~(m <= g)
    BY <1>2
  <2>2. g \notin T
    <3> HIDE DEF T
    <3> QED BY <1>2, <2>1, Zenon
  <2> QED BY <1>3, <2>1, <2>2 DEF Versions
<1>5. \E h \in 0 .. Len(bs) - 1 : bs[h + 1].major >= v /\ \A g \in 0 .. h - 1 : bs[g + 1].major < v
  BY <1>2, <1>4
<1> QED BY <1>5, Zenon DEF FirstWithVersion
\* A vote that the detectors find on the front of a chain is the one they found on the whole chain,
\* or ended too far back for the search there.
LEMMA VoteOnFront ==
  ASSUME NEW c, NEW f, NEW bs \in Seq(Block), Ascending(bs), NEW H \in 1 .. Len(bs),
         NEW cs \in Seq(Block), cs = SubSeq(bs, 1, H), NEW v \in Versions, ByVote(c, v), NEW w,
         w = InitVotingHeight(c, f, cs, v), w # UNDEF_HEIGHT
  PROVE  /\ w \in 0 .. H - 1 /\ isVotingComplete(bs, v, w)
         /\ w = InitVotingHeight(c, NoVotes, bs, v) \/ w + 7 * UpgradeWindow < Len(bs) - 1
<1> DEFINE L == Len(bs)
           p == Probable(cs, v)
           q == Probable(bs, v)
<1>1. /\ L \in Nat /\ H \in Nat /\ Len(cs) = H /\ cs # <<>> /\ bs # <<>>
      /\ \A i \in 1 .. H : cs[i] = bs[i] /\ i \in 1 .. L
  OBVIOUS
<1>2. /\ Tip(cs).major = bs[H].major /\ Tip(bs).major = bs[L].major
      /\ Tip(cs).major \in 1 .. 4 /\ Tip(bs).major \in 1 .. 4 /\ bs[H].major <= bs[L].major
  BY <1>1, MajorOf DEF Tip, Ascending
<1>3. Tip(cs).major >= v - 1 /\ w = FirstComplete(cs, v, SearchedFrom(p), p)
  BY <1>1, InitSearches, ZenonT(30)
<1>4. p \in 0 .. H - 1 /\ q \in p .. L - 1
  <2>1. CASE Tip(cs).major >= v
    <3>1. /\ p = FirstWithVersion(cs, v) /\ q = FirstWithVersion(bs, v)
      BY <1>2, <2>1 DEF Probable, Versions
    <3>2. p \in 0 .. H - 1 /\ cs[p + 1].major >= v /\ \A h \in 0 .. p - 1 : cs[h + 1].major < v
      BY <1>1, <2>1, <3>1, FirstWithVersionIs, Zenon
    <3>3. q \in 0 .. L - 1 /\ bs[q + 1].major >= v
      <4>1. Tip(bs).major >= v
        BY <1>2, <2>1 DEF Versions
      <4> QED BY <1>1, <3>1, <4>1, FirstWithVersionIs
    <3>4. ~(q < p)
      <4> SUFFICES ASSUME q < p PROVE FALSE
        OBVIOUS
      <4>1. q \in 0 .. p - 1 /\ q + 1 \in 1 .. H
        BY <3>2, <3>3
      <4>2. bs[q + 1].major < v /\ bs[q + 1].major \in 1 .. 4
        BY <1>1, <3>2, <4>1, MajorOf, SMTT(30)
      <4> QED BY <3>3, <4>2 DEF Versions
    <3> HIDE DEF p, q
    <3> QED BY <1>1, <3>2, <3>3, <3>4
  <2>2. CASE ~(Tip(cs).major >= v) /\ Tip(bs).major >= v
    <3>1. p = H - 1 /\ q = FirstWithVersion(bs, v)
      BY <1>1, <2>2 DEF Probable
    <3>2. q \in 0 .. L - 1 /\ bs[q + 1].major >= v
      BY <1>1, <2>2, <3>1, FirstWithVersionIs
    <3>3. ~(q + 1 <= H)
      <4> SUFFICES ASSUME q + 1 <= H PROVE FALSE
        OBVIOUS
      <4>0. q + 1 \in 1 .. L /\ H \in 1 .. L
        BY <1>1, <3>2
      <4>1. bs[q + 1].major <= bs[H].major /\ bs[q + 1].major \in 1 .. 4
        BY <4>0, MajorOf DEF Ascending
      <4> QED BY <1>2, <2>2, <3>2, <4>1 DEF Versions
    <3> HIDE DEF p, q
    <3> QED BY <1>1, <3>1, <3>2, <3>3
  <2>3. CASE ~(Tip(cs).major >= v) /\ ~(Tip(bs).major >= v)
    BY <1>1, <2>3 DEF Probable
  <2>4. Tip(cs).major >= v => Tip(bs).major >= v
    BY <1>2 DEF Versions
  <2> QED BY <2>1, <2>2, <2>3, <2>4
<1> HIDE DEF p, q
<1>5. /\ SearchedFrom(p) \in Nat /\ SearchedFrom(q) \in Nat /\ SearchedFrom(p) <= SearchedFrom(q)
      /\ \A h \in Nat : h < SearchedFrom(q) => h + 7 * UpgradeWindow < q
  <2> DEFINE d == 7 * UpgradeWindow
  <2>1. d \in Nat /\ p \in Nat /\ q \in Nat /\ p <= q
    BY <1>4, UpgradeWindowAssumption
  <2> HIDE DEF d
  <2> QED BY <2>1 DEF SearchedFrom, d
<1>6. /\ w \in SearchedFrom(p) .. p /\ isVotingComplete(cs, v, w)
      /\ \A h \in SearchedFrom(p) .. w - 1 : ~isVotingComplete(cs, v, h)
  BY <1>3, <1>4, <1>5, FirstCompleteFinds
<1>7. \A h \in 0 .. H - 1 : isVotingComplete(cs, v, h) <=> isVotingComplete(bs, v, h)
  <2> TAKE h \in 0 .. H - 1
  <2>1. h \in Nat /\ \A i \in 0 .. h : cs[i + 1] = bs[i + 1]
    BY <1>1
  <2> QED BY <2>1, VotesLocal, Zenon
<1>8. w \in 0 .. H - 1 /\ isVotingComplete(bs, v, w)
  BY <1>4, <1>5, <1>6, <1>7
<1>9. CASE w >= SearchedFrom(q)
  <2>1. w \in SearchedFrom(q) .. q
    BY <1>4, <1>5, <1>6, <1>9
  <2>2. \A h \in SearchedFrom(q) .. w - 1 : ~isVotingComplete(bs, v, h)
    <3> TAKE h \in SearchedFrom(q) .. w - 1
    <3>1. h \in SearchedFrom(p) .. w - 1 /\ h \in 0 .. H - 1
      BY <1>5, <1>8
    <3> QED BY <1>6, <1>7, <3>1, Zenon
  <2>3. FirstComplete(bs, v, SearchedFrom(q), q) = w
    BY <1>4, <1>5, <1>8, <2>1, <2>2, FirstCompleteIs, SMTT(30)
  <2>4. Tip(bs).major >= v - 1
    BY <1>2, <1>3 DEF Versions
  <2>5. InitVotingHeight(c, NoVotes, bs, v) = FirstComplete(bs, v, SearchedFrom(q), q)
    BY <1>2, <2>4 DEF InitVotingHeight, findVotingCompleteHeight, SearchedFrom, Probable, q, Versions
  <2> QED BY <1>8, <2>3, <2>5
<1>10. CASE ~(w >= SearchedFrom(q))
  <2>1. w \in Nat /\ w < SearchedFrom(q)
    BY <1>5, <1>8, <1>10
  <2>2. w + 7 * UpgradeWindow < q
    BY <1>5, <2>1
  <2> DEFINE d == 7 * UpgradeWindow
  <2>3. d \in Nat
    BY UpgradeWindowAssumption
  <2>4. w + d < L - 1
    <3> HIDE DEF d
    <3> QED BY <1>1, <1>4, <2>1, <2>2, <2>3 DEF d
  <2> QED BY <1>8, <2>4
<1> QED BY <1>8, <1>9, <1>10
\* A fixed height that init() accepts is right on every front of the chain.
LEMMA FixedChecked ==
  ASSUME NEW c \in Configs, NEW f, NEW bs \in Seq(Block), NEW v \in Versions, ~ByVote(c, v),
         InitSucceeds(c, bs, v), NEW H \in 1 .. Len(bs)
  PROVE  checkUpgradeHeight(c, f, SubSeq(bs, 1, H), v)
<1>1. c[v] \in Nat
  BY UndefAssumption, ConfigsAssumption
<1>2. Len(bs) \in Nat /\ Len(SubSeq(bs, 1, H)) = H /\ \A i \in 1 .. H : SubSeq(bs, 1, H)[i] = bs[i]
  OBVIOUS
<1>3. upgradeHeight(c, f, v) = c[v]
  BY DEF upgradeHeight
<1>4. ASSUME c[v] + 1 < H PROVE SubSeq(bs, 1, H)[c[v] + 2].major = v
  <2>1. c[v] + 2 \in 1 .. H /\ ~(Len(bs) <= c[v] + 1)
    BY <1>1, <1>2, <1>4
  <2>2. bs[c[v] + 2].major = v
    BY <2>1, Zenon DEF InitSucceeds
  <2> QED BY <1>2, <2>1, <2>2
<1> QED BY <1>2, <1>3, <1>4, Zenon DEF checkUpgradeHeight

\* When a later version's vote is complete at w, the blocks after w no longer vote for an earlier
\* version: a vote for that one that is complete at t was complete at w.
LEMMA EarlierVote ==
  ASSUME NEW bs \in Seq(Block), Ascending(bs), NEW u \in Versions, NEW v \in Versions, u < v,
         NEW t \in 0 .. Len(bs) - 1, isVotingComplete(bs, u, t),
         NEW w \in 0 .. t, isVotingComplete(bs, v, w)
  PROVE  isVotingComplete(bs, u, w)
<1> DEFINE need == VotingThreshold * VotingWindow
<1>1. need \in Nat /\ need > 0 /\ VotingWindow \in Nat
  BY WindowAssumption, ThresholdAssumption
<1>2. w \in Nat /\ t \in Nat /\ u \in 2 .. 4 /\ v \in 2 .. 4 /\ Len(bs) \in Nat
  BY DEF Versions
<1>3. ~(w < VotingWindow - 1) /\ ~(t < VotingWindow - 1)
  <2> HIDE DEF need
  <2>1. ~(need <= 100 * 0)
    BY <1>1
  <2> QED BY <2>1, Zenon DEF isVotingComplete, getNumberOfVotes, need
<1>4. PICK i \in 0 .. w : bs[i + 1].major = v - 1
  BY <1>2, VoteHasVoter
<1>5. Votes(bs, u, t) \subseteq Votes(bs, u, w)
  <2> SUFFICES ASSUME NEW j \in Votes(bs, u, t) PROVE j \in Votes(bs, u, w)
    OBVIOUS
  <2>1. j \in (t + 1 - VotingWindow) .. t /\ bs[j + 1].major = u - 1 /\ bs[j + 1].minor = 1
    BY DEF Votes
  <2>2. j + 1 \in 1 .. Len(bs) /\ i + 1 \in 1 .. Len(bs)
    BY <1>1, <1>2, <1>3, <1>4, <2>1, SMTT(30)
  <2>3. ~(i <= j)
    <3> SUFFICES ASSUME i <= j PROVE FALSE
      OBVIOUS
    <3>1. i + 1 <= j + 1
      BY <1>4, <2>1
    <3>2. bs[i + 1].major <= bs[j + 1].major
      BY <2>2, <3>1, Zenon DEF Ascending
    <3> QED BY <1>2, <1>4, <2>1, <3>2
  <2>4. j \in (w + 1 - VotingWindow) .. w
    BY <1>1, <1>2, <1>4, <2>1, <2>2, <2>3
  <2> QED BY <2>1, <2>4 DEF Votes
<1>6. IsFiniteSet(Votes(bs, u, w))
  <2>1. IsFiniteSet((w + 1 - VotingWindow) .. w)
    BY <1>1, <1>2, FS_Interval
  <2> QED BY <2>1, FS_Subset, Zenon DEF Votes
<1>7. /\ Cardinality(Votes(bs, u, t)) \in Nat /\ Cardinality(Votes(bs, u, w)) \in Nat
      /\ Cardinality(Votes(bs, u, t)) <= Cardinality(Votes(bs, u, w))
  BY <1>5, <1>6, FS_Subset, FS_CardinalityType
<1>8. need <= 100 * Cardinality(Votes(bs, u, t))
  BY <1>3, Zenon DEF isVotingComplete, getNumberOfVotes
<1>9. need <= 100 * Cardinality(Votes(bs, u, w))
  <2> HIDE DEF need
  <2> QED BY <1>1, <1>7, <1>8
<1> QED BY <1>3, <1>9, Zenon DEF isVotingComplete, getNumberOfVotes
\* The vote that init() finds is the first complete one of the stretch it searches.
LEMMA InitFinds ==
  ASSUME NEW c, NEW f, NEW bs \in Seq(Block), bs # <<>>, NEW v \in Versions, ByVote(c, v), NEW t,
         t = InitVotingHeight(c, f, bs, v), t # UNDEF_HEIGHT
  PROVE  /\ t \in 0 .. Len(bs) - 1 /\ isVotingComplete(bs, v, t)
         /\ \A h \in 0 .. t - 1 : isVotingComplete(bs, v, h) => h + 7 * UpgradeWindow < Len(bs) - 1
<1> DEFINE d == 7 * UpgradeWindow
           q == Probable(bs, v)
<1>1. d \in Nat /\ Len(bs) \in Nat /\ Len(bs) > 0
  BY UpgradeWindowAssumption
<1>2. q \in 0 .. Len(bs) - 1
  <2>1. CASE Tip(bs).major >= v
    BY <2>1, FirstWithVersionIs DEF Probable
  <2>2. CASE ~(Tip(bs).major >= v)
    BY <1>1, <2>2 DEF Probable
  <2> QED BY <2>1, <2>2
<1>3. t = FirstComplete(bs, v, SearchedFrom(q), q)
  BY InitSearches
<1> HIDE DEF q
<1>4. SearchedFrom(q) \in Nat /\ \A h \in Nat : h < SearchedFrom(q) => h + d < q
  <2> HIDE DEF d
  <2> QED BY <1>1, <1>2 DEF SearchedFrom, d
<1>5. /\ t \in SearchedFrom(q) .. q /\ isVotingComplete(bs, v, t)
      /\ \A h \in SearchedFrom(q) .. t - 1 : ~isVotingComplete(bs, v, h)
  BY <1>2, <1>3, <1>4, FirstCompleteFinds
<1>6. t \in 0 .. Len(bs) - 1
  BY <1>1, <1>2, <1>4, <1>5
<1>7. ASSUME NEW h \in 0 .. t - 1, isVotingComplete(bs, v, h) PROVE h + d < Len(bs) - 1
  <2>1. h \in Nat /\ ~(h \in SearchedFrom(q) .. t - 1)
    BY <1>5, <1>7, <1>6
  <2>2. h < SearchedFrom(q)
    BY <1>4, <1>6, <2>1
  <2>3. h + d < q
    BY <1>4, <2>1, <2>2
  <2> HIDE DEF d
  <2> QED BY <1>1, <1>2, <2>1, <2>3
<1> QED BY <1>5, <1>6, <1>7

\* The second initialisation of a start, on the chain that was rolled back to the first wrong
\* upgrade height.
LEMMA RolledBackOnce ==
  ASSUME NEW c \in Configs, NEW bs \in Seq(Block), bs # <<>>, Len(bs) <= MaxBlocks, Ascending(bs),
         NEW f, f = [v \in Versions |-> InitVotingHeight(c, NoVotes, bs, v)],
         \A v \in Versions : InitSucceeds(c, bs, v),
         NEW u \in Versions, ~checkUpgradeHeight(c, f, bs, u),
         \A v \in Versions : ~checkUpgradeHeight(c, f, bs, v) => u <= v,
         NEW cs, cs = rollbackBlockchainTo(bs, upgradeHeight(c, f, u)),
         NEW g, g = [v \in Versions |-> InitVotingHeight(c, f, cs, v)],
         NEW v \in Versions
  PROVE  \/ checkUpgradeHeight(c, g, cs, v)
         \/ ByVote(c, v) /\ g[v] + 7 * UpgradeWindow < Len(bs) - 1
<1> DEFINE L == Len(bs)
           w == g[v]
           t == f[u]
           H == t + UpgradeWindow + 1
<1>1. /\ L \in Nat /\ L \in 1 .. L /\ bs = SubSeq(bs, 1, L) /\ UpgradeWindow \in Nat
      /\ UNDEF_HEIGHT \in Nat /\ UNDEF_HEIGHT > L + UpgradeWindow
  BY UpgradeWindowAssumption, UndefAssumption, MaxBlocksAssumption
<1>2. ByVote(c, u)
  <2> SUFFICES ASSUME ~ByVote(c, u) PROVE FALSE
    OBVIOUS
  <2>1. checkUpgradeHeight(c, f, SubSeq(bs, 1, L), u)
    BY <1>1, FixedChecked
  <2> QED BY <1>1, <2>1, ZenonT(30)
<1>3. /\ t = InitVotingHeight(c, NoVotes, bs, u) /\ t # UNDEF_HEIGHT
      /\ upgradeHeight(c, f, u) = t + UpgradeWindow /\ t + UpgradeWindow + 1 < L
  BY <1>2 DEF checkUpgradeHeight, upgradeHeight
<1>4. /\ t \in 0 .. L - 1 /\ isVotingComplete(bs, u, t)
      /\ \A h \in 0 .. t - 1 : isVotingComplete(bs, u, h) => h + 7 * UpgradeWindow < L - 1
  BY <1>2, <1>3, InitFinds
<1>5. H \in 1 .. L /\ H < L /\ cs = SubSeq(bs, 1, H)
  BY <1>1, <1>3, <1>4, SMTT(30) DEF rollbackBlockchainTo
<1> HIDE DEF H
<1>6. cs \in Seq(Block) /\ Len(cs) = H /\ \A i \in 1 .. H : cs[i] = bs[i]
  BY <1>1, <1>5
<1>7. CASE ~ByVote(c, v)
  BY <1>5, <1>7, FixedChecked, Zenon
<1>8. CASE ByVote(c, v) /\ w = UNDEF_HEIGHT
  BY <1>8 DEF checkUpgradeHeight, upgradeHeight
<1>9. ASSUME ByVote(c, v), w # UNDEF_HEIGHT, ~(w + 7 * UpgradeWindow < L - 1)
      PROVE  checkUpgradeHeight(c, g, cs, v)
  <2>1. w = InitVotingHeight(c, f, cs, v) /\ f[v] = InitVotingHeight(c, NoVotes, bs, v)
    OBVIOUS
  <2>2. w \in 0 .. H - 1 /\ isVotingComplete(bs, v, w) /\ w = f[v]
    <3> HIDE DEF w
    <3>1. H \in 1 .. Len(bs)
      BY <1>5
    <3>2. /\ w \in 0 .. H - 1 /\ isVotingComplete(bs, v, w)
          /\ w = InitVotingHeight(c, NoVotes, bs, v) \/ w + 7 * UpgradeWindow < Len(bs) - 1
      <4> HIDE DEF H, t
      <4>1. cs \in Seq(Block) /\ cs = SubSeq(bs, 1, H)
        BY <1>5, <1>6
      <4> QED BY <1>9, <2>1, <3>1, <4>1, VoteOnFront, ZenonT(30)
    <3> QED BY <1>9, <2>1, <3>2
  <2>3. upgradeHeight(c, g, v) = w + UpgradeWindow /\ upgradeHeight(c, f, v) = w + UpgradeWindow
    BY <1>9, <2>2 DEF upgradeHeight
  <2> HIDE DEF w, t
  <2> SUFFICES ASSUME w + UpgradeWindow + 1 < H PROVE cs[w + UpgradeWindow + 2].major = v
    BY <1>6, <2>3 DEF checkUpgradeHeight
  <2>4. /\ w \in 0 .. t /\ w < t /\ w + UpgradeWindow + 2 \in 1 .. H
        /\ w + UpgradeWindow # UNDEF_HEIGHT /\ w + UpgradeWindow + 1 < L
    BY <1>1, <1>4, <1>5, <2>2, SMTT(30) DEF H
  <2>5. checkUpgradeHeight(c, f, bs, v)
    <3> SUFFICES ASSUME ~checkUpgradeHeight(c, f, bs, v) PROVE FALSE
      OBVIOUS
    <3>1. u <= v /\ u # v
      BY <1>4, <2>2, <2>4 DEF t
    <3>2. u < v
      BY <3>1 DEF Versions
    <3>3. isVotingComplete(bs, u, w)
      BY <1>4, <2>2, <2>4, <3>2, EarlierVote
    <3>4. w \in 0 .. t - 1
      BY <1>4, <2>4
    <3> QED BY <1>4, <1>9, <3>3, <3>4
  <2>6. bs[w + UpgradeWindow + 2].major = v
    <3>1. w + UpgradeWindow # UNDEF_HEIGHT /\ w + UpgradeWindow + 1 < Len(bs)
      BY <2>4
    <3> QED BY <2>3, <2>5, <3>1, Zenon DEF checkUpgradeHeight
  <2> QED BY <1>6, <2>4, <2>6
<1> QED BY <1>7, <1>8, <1>9

\* What every start finds: a known release and a chain within the bound.
StoredChain == conf \in Configs /\ blocks \in Seq(Block) /\ Len(blocks) \in 1 .. MaxBlocks

\* Cutting the chain because of a failed check leaves blocks, the genesis block at least.
LEMMA RollbackStored ==
  ASSUME NEW c \in Configs, StoredChain, NEW f,
         f = [v \in Versions |-> InitVotingHeight(c, NoVotes, blocks, v)],
         \A v \in Versions : InitSucceeds(c, blocks, v),
         NEW u \in Versions, ~checkUpgradeHeight(c, f, blocks, u),
         NEW cs, cs = rollbackBlockchainTo(blocks, upgradeHeight(c, f, u))
  PROVE  cs \in Seq(Block) /\ Len(cs) \in 1 .. MaxBlocks
<1> DEFINE L == Len(blocks)
           up == upgradeHeight(c, f, u)
<1>1. L \in 1 .. MaxBlocks /\ blocks \in Seq(Block) /\ blocks # <<>> /\ MaxBlocks \in Nat
  BY MaxBlocksAssumption DEF StoredChain
<1>2. up \in Nat
  <2>1. CASE ~ByVote(c, u)
    BY <2>1, ConfigsAssumption, UndefAssumption DEF upgradeHeight
  <2>2. CASE ByVote(c, u)
    <3>1. f[u] = InitVotingHeight(c, NoVotes, blocks, u) /\ f[u] # UNDEF_HEIGHT
      BY <2>2 DEF checkUpgradeHeight, upgradeHeight
    <3>2. f[u] \in 0 .. L - 1
      BY <1>1, <2>2, <3>1, InitFinds
    <3> QED BY <1>1, <2>2, <3>1, <3>2, UpgradeWindowAssumption DEF upgradeHeight
  <2> QED BY <2>1, <2>2
<1> HIDE DEF up
<1>3. PICK m \in 1 .. L : cs = SubSeq(blocks, 1, m)
  <2>1. (IF up + 1 < L THEN up + 1 ELSE L) \in 1 .. L
    BY <1>1, <1>2
  <2> QED BY <2>1 DEF rollbackBlockchainTo, up
<1> QED BY <1>1, <1>3

\* The start of a release: the chain it leaves, and what init() checked on it.
LEMMA StartStep ==
  ASSUME StoredChain, NEW c \in Configs, StartWith(c)
  PROVE  /\ StoredChain'
         /\ running' /\ Ascending(blocks) =>
              \A v \in Versions :
                 \/ checkUpgradeHeight(conf', m_votingCompleteHeight', blocks', v)
                 \/ ByVote(conf', v) /\ BeyondSearch(m_votingCompleteHeight'[v])
<1> DEFINE f == [v \in Versions |-> InitVotingHeight(c, NoVotes, blocks, v)]
           bad == {v \in Versions : ~checkUpgradeHeight(c, f, blocks, v)}
           u == CHOOSE v \in bad : \A w \in bad : v <= w
           cs == rollbackBlockchainTo(blocks, upgradeHeight(c, f, u))
           g == [v \in Versions |-> InitVotingHeight(c, f, cs, v)]
<1>1. conf' = c /\ blocks \in Seq(Block) /\ blocks # <<>> /\ Len(blocks) <= MaxBlocks
  BY MaxBlocksAssumption DEF StartWith, StoredChain
<1>2. CASE (\E v \in Versions : ~InitSucceeds(c, blocks, v)) /\ running' = FALSE /\ blocks' = blocks
  BY <1>1, <1>2 DEF StoredChain
<1>3. CASE bad = {} /\ m_votingCompleteHeight' = f /\ blocks' = blocks
  BY <1>1, <1>3 DEF StoredChain
<1>4. CASE /\ \A v \in Versions : InitSucceeds(c, blocks, v)
           /\ bad # {} /\ m_votingCompleteHeight' = g /\ blocks' = cs
  <2>1. u \in bad /\ \A w \in bad : u <= w
    <3>1. bad \subseteq Nat /\ bad # {}
      BY <1>4 DEF Versions
    <3> HIDE DEF bad
    <3>2. \E m \in bad : \A k \in bad : m <= k
      BY <3>1, LeastElement, Zenon
    <3> QED BY <3>2, Zenon
  <2>2. u \in Versions /\ ~checkUpgradeHeight(c, f, blocks, u)
    BY <2>1
  <2>3. \A v \in Versions : ~checkUpgradeHeight(c, f, blocks, v) => u <= v
    BY <2>1
  <2> HIDE DEF f, u, bad, cs, g
  <2>4. cs \in Seq(Block) /\ Len(cs) \in 1 .. MaxBlocks
    BY <1>4, <2>2, RollbackStored DEF cs, f
  <2>5. ASSUME Ascending(blocks), NEW v \in Versions
        PROVE  checkUpgradeHeight(c, g, cs, v) \/ (ByVote(c, v) /\ BeyondSearch(g[v]))
    <3>1. /\ f = [x \in Versions |-> InitVotingHeight(c, NoVotes, blocks, x)]
          /\ cs = rollbackBlockchainTo(blocks, upgradeHeight(c, f, u))
          /\ g = [x \in Versions |-> InitVotingHeight(c, f, cs, x)]
      BY DEF f, cs, g
    <3>2. \/ checkUpgradeHeight(c, g, cs, v)
          \/ ByVote(c, v) /\ g[v] + 7 * UpgradeWindow < Len(blocks) - 1
      BY <1>1, <1>4, <2>2, <2>3, <2>5, <3>1, RolledBackOnce, Zenon
    <3> QED BY <3>2 DEF BeyondSearch
  <2> QED BY <1>1, <1>4, <2>4, <2>5, Zenon DEF StoredChain
<1> QED BY <1>2, <1>3, <1>4, Zenon DEF StartWith

\* Every step keeps the stored chain as it is described.
LEMMA StoredChainInductive == StoredChain /\ [Next]_vars => StoredChain'
<1> SUFFICES ASSUME StoredChain, [Next]_vars PROVE StoredChain'
  OBVIOUS
<1>1. ASSUME NEW minor \in {0, 1}, PushBlock(minor) PROVE StoredChain'
  <2> DEFINE m == getBlockMajorVersionForHeight(conf, m_votingCompleteHeight, Len(blocks))
  <2>1. [major |-> m, minor |-> minor] \in Block
    BY MajorRange DEF Block
  <2>2. blocks' = Append(blocks, [major |-> m, minor |-> minor]) /\ conf' = conf /\ Len(blocks) < MaxBlocks
    BY <1>1, Zenon DEF PushBlock
  <2> HIDE DEF m
  <2> QED BY <2>1, <2>2, MaxBlocksAssumption DEF StoredChain
<1>2. CASE PopBlock
  <2>1. blocks' = SubSeq(blocks, 1, Len(blocks) - 1) /\ conf' = conf /\ Len(blocks) > 1
    BY <1>2, Zenon DEF PopBlock
  <2> QED BY <2>1, MaxBlocksAssumption DEF StoredChain
<1>3. ASSUME NEW c \in Configs, StartWith(c) PROVE StoredChain'
  BY <1>3, StartStep, Zenon
<1>4. CASE UNCHANGED vars
  BY <1>4 DEF vars, StoredChain
<1> QED BY <1>1, <1>2, <1>3, <1>4 DEF Next, Restart

\* For every set of releases, in whatever order they open the data directory: a start that
\* succeeds on a chain whose versions ascend leaves, after each detector's upgrade height, a
\* block of the version it upgrades to, except after a vote too old for the search of the
\* first initialisation.
THEOREM StartsOnCheckedVersions == Spec => StartedOnCheckedVersions
<1>1. Init => StoredChain
  BY MaxBlocksAssumption DEF Init, StoredChain, Block
<1>2. StoredChain /\ [Next]_vars => StoredChain'
  BY StoredChainInductive
<1>3. StoredChain => [Restart /\ running' /\ Ascending(blocks) =>
        \A v \in Versions :
            \/ checkUpgradeHeight(conf', m_votingCompleteHeight', blocks', v)
            \/ ByVote(conf', v) /\ BeyondSearch(m_votingCompleteHeight'[v])]_vars
  BY StartStep, Zenon DEF Restart
<1> QED BY <1>1, <1>2, <1>3, PTL DEF Spec, StartedOnCheckedVersions
=============================================================================
