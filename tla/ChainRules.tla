----------------------------- MODULE ChainRules ------------------------------
(***************************************************************************)
(* The rules of a block that depend on its place: difficulty, timestamp,   *)
(* size and reward.  Blockchain computes them from the last blocks of the  *)
(* main chain, and for an alternative block a second time, by other code,  *)
(* from the alternative chain and the main chain below it; a switch then   *)
(* applies the first set of rules to blocks that were let in by the second.*)
(* The rules of block versions 1 to 3 on the main net.                     *)
(***************************************************************************)
EXTENDS Integers, Sequences, FiniteSets, Functions

CONSTANTS
    Window, Cut, Lag,  \* m_difficultyWindow, m_difficultyCut, m_difficultyLag
    Target,            \* m_difficultyTarget
    Fixed,             \* the heights with a difficulty written into the code: <<first, last, difficulty>>
    Word,              \* 2^64
    CheckWindow,       \* m_timestampCheckWindow
    FutureLimit,       \* m_blockFutureTimeLimit
    MaxSize, Growth,   \* maxBlockCumulativeSize: m_maxBlockSizeInitial, blocks per unit of growth
    RewardWindow,      \* m_rewardBlocksWindow
    Zone,              \* blockGrantedFullRewardZone
    MoneySupply,
    Speed,             \* 2^m_emissionSpeedFactor
    FreeUntil,         \* the last height whose coinbase amount is not compared with the reward
    Templates,         \* what a miner may choose: seconds after the parent, size, fee, excess of the coinbase, luck
    MaxHeight,         \* bound: height of the chains
    MaxAlternative,    \* bound: blocks of the alternative chain
    Clocks             \* bound: the readings of the clock

ASSUME ParametersAssumption ==
    /\ Window \in Nat /\ Cut \in Nat /\ Lag \in Nat /\ 2 * Cut <= Window - 2
    /\ CheckWindow \in Nat \ {0} /\ RewardWindow \in Nat \ {0} /\ Zone \in Nat \ {0}
    /\ Growth \in Nat \ {0} /\ Speed \in Nat \ {0} /\ MoneySupply \in Nat
    /\ Target \in Nat /\ Word \in Nat /\ Fixed \subseteq Nat \X Nat \X Nat
    /\ FutureLimit \in Nat /\ MaxSize \in Nat /\ FreeUntil \in Nat
ASSUME TemplatesAssumption ==
    Templates \subseteq [step : Int, size : Nat, fee : Nat, extra : Nat, luck : Nat]
ASSUME BoundsAssumption == MaxHeight \in Nat /\ MaxAlternative \in Nat /\ Clocks \subseteq Nat

VARIABLES
    m_blocks,  \* the main chain; the block of height h is m_blocks[h + 1]
    fork,      \* the blocks of the main chain below the alternative one
    alt_chain, \* the alternative chain
    limit,     \* m_current_block_cumul_sz_limit
    clock,     \* get_adjusted_time
    switching, \* inside switch_to_alternative_blockchain, m_blockchain_lock held
    rolledBack \* no block was pushed since rollbackBlockchain

vars == <<m_blocks, fork, alt_chain, limit, clock, switching, rolledBack>>

-----------------------------------------------------------------------------
(* Windows *)

Least(m, n) == IF m <= n THEN m ELSE n
Greatest(m, n) == IF m >= n THEN m ELSE n
LastOf(s, n) == SubSeq(s, Len(s) - Least(n, Len(s)) + 1, Len(s))
Tip(chain) == chain[Len(chain)]
Field(s, f) == [i \in DOMAIN s |-> s[i][f]]

\* The i-th in order: fewer than i are less, and i or more are not greater.
Ranked(s, i) ==
    CHOOSE x \in Range(s) :
        /\ Cardinality({j \in DOMAIN s : s[j] < x}) < i
        /\ i <= Cardinality({j \in DOMAIN s : s[j] <= x})
Sorted(s) == [i \in DOMAIN s |-> Ranked(s, i)]
medianValue(v) ==
    LET n == Len(v) \div 2
    IN  IF v = <<>> THEN 0
        ELSE IF Len(v) % 2 = 1 THEN Sorted(v)[n + 1]
        ELSE (Sorted(v)[n] + Sorted(v)[n + 1]) \div 2

-----------------------------------------------------------------------------
(* Difficulty *)

FixedAt(h) == {f[3] : f \in {f \in Fixed : f[1] <= h /\ h <= f[2]}}

\* The first Window blocks, without the extreme timestamps
nextDifficulty(h, blocks) ==
    LET kept == SubSeq(blocks, 1, Least(Len(blocks), Window))
        times == Sorted(Field(kept, "time"))
        middle == Window - 2 * Cut
        cutBegin == IF Len(kept) <= middle THEN 0 ELSE (Len(kept) - middle + 1) \div 2
        cutEnd == IF Len(kept) <= middle THEN Len(kept) ELSE cutBegin + middle
        timeSpan == Greatest(1, times[cutEnd] - times[cutBegin + 1])
        totalWork == kept[cutEnd].work - kept[cutBegin + 1].work
        low == totalWork * Target
    IN  IF Len(kept) <= 1 THEN 1
        ELSE IF low + timeSpan - 1 >= Word THEN 0
        ELSE IF FixedAt(h) # {} THEN CHOOSE d \in FixedAt(h) : TRUE
        ELSE (low + timeSpan - 1) \div timeSpan

difficultyBlocksCount == Window + Lag

\* The genesis block is left out.
getDifficultyForNextBlock(chain) ==
    LET offset == Len(chain) - Least(Len(chain), difficultyBlocksCount)
    IN  nextDifficulty(Len(chain), SubSeq(chain, Greatest(offset, 1) + 1, Len(chain)))

\* Mutant: the genesis block is not skipped.
DifficultyFromGenesis(main, f, alt) ==
    LET count == Least(difficultyBlocksCount - Len(alt), f)
    IN  nextDifficulty(Len(main), IF Len(alt) < difficultyBlocksCount THEN SubSeq(main, f - count + 1, f) \o alt
                                  ELSE LastOf(alt, difficultyBlocksCount))

\* The height is that of the main chain.
get_next_difficulty_for_alternative_chain(main, f, alt) ==
    LET count == Least(difficultyBlocksCount - Len(alt), f)
        start == Greatest(f - count, 1)
    IN  nextDifficulty(Len(main), IF Len(alt) < difficultyBlocksCount THEN SubSeq(main, start + 1, f) \o alt
                                  ELSE LastOf(alt, difficultyBlocksCount))

-----------------------------------------------------------------------------
(* Timestamps *)

check_block_timestamp(times, t) == Len(times) < CheckWindow \/ t >= medianValue(times)

check_block_timestamp_main(chain, t, now) ==
    /\ t <= now + FutureLimit
    /\ check_block_timestamp(Field(LastOf(chain, CheckWindow), "time"), t)

\* Mutant: the block at the stop offset is taken too.
CompleteThroughStop(main, top, times) ==
    LET need == CheckWindow - Len(times)
        stop == IF top > need THEN top - need ELSE 0
    IN  IF Len(times) >= CheckWindow THEN times
        ELSE times \o [i \in 1..top - stop + 1 |-> main[top + 2 - i].time]

\* From height top downwards: as many as are missing, but never the genesis block unless it is alone.
complete_timestamps_vector(main, top, times) ==
    LET need == CheckWindow - Len(times)
        stop == IF top > need THEN top - need ELSE 0
    IN  IF Len(times) >= CheckWindow THEN times
        ELSE times \o (IF top = 0 THEN <<main[1].time>>
                       ELSE [i \in 1..top - stop |-> main[top + 2 - i].time])

\* What handle_alternative_block collects: the alternative chain from its head down, then the main chain.
CollectedTimestamps(main, f, alt) ==
    complete_timestamps_vector(main, f - 1, [i \in DOMAIN alt |-> alt[Len(alt) + 1 - i].time])

-----------------------------------------------------------------------------
(* Size and reward *)

maxBlockCumulativeSize(h) == MaxSize + h \div Growth

SizeMedian(chain) == Greatest(medianValue(Field(LastOf(chain, RewardWindow), "size")), Zone)
update_next_cumulative_size_limit(chain) == 2 * SizeMedian(chain)

getPenalizedAmount(amount, median, size) ==
    IF size <= median THEN amount ELSE ((amount * ((2 * median - size) * size)) \div median) \div median

baseReward(generated) == (MoneySupply - generated) \div Speed

\* Mutant: the fees count as new coins.
RewardCountsFees(medianSize, generated, b) ==
    LET m == Greatest(medianSize, Zone)
        base == getPenalizedAmount(baseReward(generated), m, b.size)
        fee == getPenalizedAmount(b.fee, m, b.size)
    IN  [fits |-> b.size <= 2 * m, reward |-> base + fee, emission |-> base + fee]

\* reward and emissionChange
getBlockReward(medianSize, generated, b) ==
    LET m == Greatest(medianSize, Zone)
        base == getPenalizedAmount(baseReward(generated), m, b.size)
        fee == getPenalizedAmount(b.fee, m, b.size)
    IN  [fits |-> b.size <= 2 * m, reward |-> base + fee, emission |-> base - (b.fee - fee)]

-----------------------------------------------------------------------------
(* A block is judged: pow is the difficulty its hash meets, extra what its *)
(* coinbase pays more than the reward.                                     *)

Genesis == [time |-> 0, size |-> 1, fee |-> 0, extra |-> 0, pow |-> 1, work |-> 1, coins |-> MoneySupply \div Speed]

Place(chain, b) == getBlockReward(medianValue(Field(LastOf(chain, RewardWindow), "size")), Tip(chain).coins, b)

\* validate_miner_transaction
PaysReward(chain, b) == Place(chain, b).fits /\ (Len(chain) <= FreeUntil \/ b.extra = 0)

\* pushBlock's checks; the fee comes from inputs, which are outputs of this chain ...
Accepted(chain, b, now) ==
    /\ b.fee <= Tip(chain).coins
    /\ check_block_timestamp_main(chain, b.time, now)
    /\ getDifficultyForNextBlock(chain) \in 1..b.pow
    /\ b.size <= maxBlockCumulativeSize(Len(chain))
    /\ PaysReward(chain, b)

\* ... and the entry it stores
BlockEntry(chain, b) ==
    [time |-> b.time, size |-> b.size, fee |-> b.fee, extra |-> b.extra, pow |-> b.pow,
     work |-> Tip(chain).work + getDifficultyForNextBlock(chain),
     coins |-> Tip(chain).coins + Place(chain, b).emission]

\* handle_alternative_block's checks ...
AcceptedAside(main, f, alt, b) ==
    /\ b.size <= maxBlockCumulativeSize(f + Len(alt))
    /\ check_block_timestamp(CollectedTimestamps(main, f, alt), b.time)
    /\ get_next_difficulty_for_alternative_chain(main, f, alt) \in 1..b.pow

\* Mutant: the work is added to that of the tip of the main chain.
WorkOnTip(main, f, alt, b) ==
    [b EXCEPT !.work = (IF alt = <<>> THEN Tip(main).work ELSE Tip(alt).work)
                       + get_next_difficulty_for_alternative_chain(main, f, alt)]

\* ... and the entry it stores: the reward is not looked at.
AlternativeEntry(main, f, alt, b) ==
    [b EXCEPT !.work = (IF alt = <<>> THEN main[f].work ELSE Tip(alt).work)
                       + get_next_difficulty_for_alternative_chain(main, f, alt)]

\* One block after the other, up to the first that is refused
Connected(c, b) ==
    IF c.open /\ Accepted(c.chain, b, clock)
    THEN [c EXCEPT !.chain = Append(@, BlockEntry(c.chain, b))]
    ELSE [c EXCEPT !.open = FALSE]
Connect(chain, blocks) ==
    LET after[n \in 0..Len(blocks)] ==
            IF n = 0 THEN [chain |-> chain, open |-> TRUE] ELSE Connected(after[n - 1], blocks[n])
    IN  after[Len(blocks)]

HandledAside(c, b) ==
    IF c.open /\ AcceptedAside(c.main, c.fork, c.alt, b)
    THEN [c EXCEPT !.alt = Append(@, AlternativeEntry(c.main, c.fork, c.alt, b))]
    ELSE [c EXCEPT !.open = FALSE]
SetAside(main, f, blocks) ==
    LET after[n \in 0..Len(blocks)] ==
            IF n = 0 THEN [main |-> main, fork |-> f, alt |-> <<>>, open |-> TRUE]
            ELSE HandledAside(after[n - 1], blocks[n])
    IN  after[Len(blocks)].alt

-----------------------------------------------------------------------------
Init ==
    /\ m_blocks = <<Genesis>>
    /\ fork = 1
    /\ alt_chain = <<>>
    /\ limit = update_next_cumulative_size_limit(<<Genesis>>)
    /\ clock \in Clocks
    /\ switching = FALSE
    /\ rolledBack = FALSE

\* A miner's block on a parent; the hash meets the difficulty asked for there, or a higher one.
Made(parent, t, difficulty) ==
    [time |-> Greatest(0, parent.time + t.step), size |-> t.size, fee |-> t.fee, extra |-> t.extra,
     pow |-> difficulty + t.luck, work |-> 0, coins |-> 0]

\* addNewBlock on the tip
pushBlock(t) ==
    /\ ~switching
    /\ Len(m_blocks) <= MaxHeight
    /\ \E b \in {Made(Tip(m_blocks), t, getDifficultyForNextBlock(m_blocks))} :
          /\ Accepted(m_blocks, b, clock)
          /\ m_blocks' = Append(m_blocks, BlockEntry(m_blocks, b))
    /\ limit' = update_next_cumulative_size_limit(m_blocks')
    /\ rolledBack' = FALSE
    /\ UNCHANGED <<fork, alt_chain, clock, switching>>

Heavier(alt, main) == alt # <<>> /\ Tip(alt).work > Tip(main).work

\* addNewBlock elsewhere: on a block of the main chain (alt is empty, and an earlier alternative
\* chain is not followed any further) or on the last alternative block.
handle_alternative_block(t, f, alt) ==
    /\ ~switching
    /\ f \in 1..Len(m_blocks) - 1
    /\ Len(alt) < MaxAlternative /\ f + Len(alt) <= MaxHeight
    /\ \E b \in {Made(IF alt = <<>> THEN m_blocks[f] ELSE Tip(alt), t,
                      get_next_difficulty_for_alternative_chain(m_blocks, f, alt))} :
          /\ AcceptedAside(m_blocks, f, alt, b)
          /\ alt_chain' = Append(alt, AlternativeEntry(m_blocks, f, alt, b))
    /\ fork' = f
    /\ switching' = Heavier(alt_chain', m_blocks)
    /\ UNCHANGED <<m_blocks, limit, clock, rolledBack>>

Below == SubSeq(m_blocks, 1, fork)
Disconnected == SubSeq(m_blocks, fork + 1, Len(m_blocks))

\* Mutant: the limit is computed by addNewBlock only.
SwitchKeepsLimit ==
    /\ switching
    /\ \E c \in {Connect(Below, alt_chain)} :
          /\ c.open
          /\ m_blocks' = c.chain
          /\ alt_chain' = SetAside(c.chain, fork, Disconnected)
    /\ switching' = Heavier(alt_chain', m_blocks')
    /\ rolledBack' = FALSE
    /\ UNCHANGED <<fork, limit, clock>>

\* The old chain is handed to handle_alternative_block, which may switch again.
switch_to_alternative_blockchain ==
    /\ switching
    /\ \E c \in {Connect(Below, alt_chain)} :
          /\ c.open
          /\ m_blocks' = c.chain
          /\ alt_chain' = SetAside(c.chain, fork, Disconnected)
    /\ limit' = update_next_cumulative_size_limit(m_blocks')
    /\ switching' = Heavier(alt_chain', m_blocks')
    /\ rolledBack' = FALSE
    /\ UNCHANGED <<fork, clock>>

\* The refused block and those above it are erased.
rollback_blockchain_switching ==
    /\ switching
    /\ \E c \in {Connect(Below, alt_chain)} :
          /\ ~c.open
          /\ alt_chain' = SubSeq(alt_chain, 1, Len(c.chain) - fork)
    /\ m_blocks' = Connect(Below, Disconnected).chain
    /\ limit' = update_next_cumulative_size_limit(m_blocks')
    /\ switching' = FALSE
    /\ rolledBack' = FALSE
    /\ UNCHANGED <<fork, clock>>

\* The Poisson check and the search for lacking transactions: either outcome
switchRefused ==
    /\ switching
    /\ switching' = FALSE
    /\ UNCHANGED <<m_blocks, fork, alt_chain, limit, clock, rolledBack>>

\* A restart, with --rollback when h is not the tip: init computes the limit before the blocks go.
rollbackBlockchain(h) ==
    /\ ~switching
    /\ h \in 1..Len(m_blocks)
    /\ m_blocks' = SubSeq(m_blocks, 1, h)
    /\ fork' = 1
    /\ alt_chain' = <<>>
    /\ limit' = update_next_cumulative_size_limit(m_blocks)
    /\ rolledBack' = (h < Len(m_blocks))
    /\ UNCHANGED <<clock, switching>>

Tick ==
    /\ clock' \in {c \in Clocks : c > clock}
    /\ UNCHANGED <<m_blocks, fork, alt_chain, limit, switching, rolledBack>>

Switches == switchRefused \/ switch_to_alternative_blockchain \/ rollback_blockchain_switching

Next ==
    \/ \E t \in Templates :
          \/ pushBlock(t)
          \/ handle_alternative_block(t, fork, alt_chain)
          \/ \E f \in 1..MaxHeight : handle_alternative_block(t, f, <<>>)
    \/ Switches
    \/ \E h \in 1..MaxHeight + 1 : rollbackBlockchain(h)
    \/ Tick

\* m_blockchain_lock is held until the switch returns.
Fairness == WF_vars(Switches)

Spec == Init /\ [][Next]_vars /\ Fairness

-----------------------------------------------------------------------------
Entry == [time : Nat, size : Nat, fee : Nat, extra : Nat, pow : Nat, work : Nat, coins : Int]

\* Every variable holds a value of its kind, the chain starts with the genesis block, and the block the
\* alternative chain starts from is still there, also after rollbackBlockchain.
TypeOK ==
    /\ m_blocks \in Seq(Entry) /\ m_blocks # <<>> /\ m_blocks[1] = Genesis
    /\ fork \in 1..Len(m_blocks)
    /\ alt_chain \in Seq(Entry)
    /\ limit \in Nat
    /\ clock \in Clocks
    /\ switching \in BOOLEAN /\ rolledBack \in BOOLEAN

AlternativeChain == Below \o alt_chain

\* The difficulty asked of the next alternative block, computed from two chains, is the one asked of
\* it when the alternative chain has become the main one, unless a difficulty written into the code
\* is meant for one of the two heights.
DifficultyAgrees ==
    FixedAt(Len(m_blocks)) = FixedAt(Len(AlternativeChain))
        => get_next_difficulty_for_alternative_chain(m_blocks, fork, alt_chain)
           = getDifficultyForNextBlock(AlternativeChain)

\* The verdict on an alternative block's timestamp is the one the main chain's rule gives, unless the
\* alternative chain is longer than the window or the two chains fill it together with the genesis block.
TimestampsAgree ==
    Len(alt_chain) <= CheckWindow /\ Len(AlternativeChain) # CheckWindow
        => \E aside \in {CollectedTimestamps(m_blocks, fork, alt_chain)},
              main \in {Field(LastOf(AlternativeChain, CheckWindow), "time")} :
                  \A t \in UNION {{time - 1, time} : time \in Range(aside) \cup Range(main)} :
                      check_block_timestamp(aside, t) = check_block_timestamp(main, t)

\* The coins generated stay within the supply: "assert(alreadyGeneratedCoins <= m_moneySupply)".
SupplyBounded == TypeOK /\ \A i \in 1..Len(m_blocks) : m_blocks[i].coins \in 0..MoneySupply

\* What get_block_template puts into a block (time, and a reward computed from the size limit) is what
\* pushBlock asks for, whatever was connected and disconnected before.
TemplateAccepted ==
    \A t \in Templates :
        LET n == Len(m_blocks)
            times == Field(LastOf(m_blocks, CheckWindow), "time")
            time == IF n >= CheckWindow THEN Greatest(clock, medianValue(times)) ELSE clock
            b == [size |-> t.size, fee |-> t.fee]
        IN  ~switching /\ ~rolledBack
                => /\ check_block_timestamp_main(m_blocks, time, clock)
                   /\ getBlockReward(limit \div 2, Tip(m_blocks).coins, b) = Place(m_blocks, b)

\* No difficulty of the code is meant for a height from f on.
Settled(f) == \A h \in f..MaxHeight + 1 : FixedAt(h) = {}

\* A switch replaces the main chain by one with more work, the work its blocks had as alternative ones
\* ("check if difficulty bigger then in main chain"), and the old chain does not win it back; one that
\* fails puts back the chain it found ("return back original chain").
SwitchGainsWork ==
    [][/\ switch_to_alternative_blockchain /\ Settled(fork)
            => /\ Tip(m_blocks').work > Tip(m_blocks).work
               /\ Tip(m_blocks').work = Tip(alt_chain).work
               /\ ~switching'
       /\ rollback_blockchain_switching => m_blocks' = m_blocks]_vars
=============================================================================
