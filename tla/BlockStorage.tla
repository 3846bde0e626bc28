----------------------------- MODULE BlockStorage -----------------------------
(***************************************************************************)
(* Blockchain's files: the blocks in a SwappedVector, and two files with   *)
(* the structures it derives from them.  deinit saves these, init loads    *)
(* them when they were saved at the last stored block, and otherwise       *)
(* rebuilds both.  The program may be killed at any moment.                *)
(***************************************************************************)
EXTENDS SwappedVector

CONSTANTS
    Genesis,
    Parent,         \* previousBlockHash of every other block
    MaxKills        \* bound: kills of the program

ASSUME TreeAssumption == Genesis \in Items /\ Parent \in [Items \ {Genesis} -> Items]
ASSUME ReferenceAssumption == PoolSize >= 2   \* rebuildCache holds a block while it reads the next

VARIABLES
    phase,          \* "down", "up", saving a file ("cache" or "indices"), or "failed": init threw
    derived,        \* per file, the chain that the structures saved in it describe
    saved,          \* the files: last_block, the chain saved, and whether the file is complete
    clean,          \* history: the program last ended through deinit
    grown,          \* history: no block was popped since the index file's buffer was last empty
    torn,           \* history: a kill found the disk with the number of a popped block, not the block
    kills

vars == <<vectorVars, phase, derived, saved, clean, grown, torn, kills>>
ownVars == <<phase, derived, saved, clean, grown, torn, kills>>

Files == {"cache", "indices"}   \* blocksCacheFileName, blockchainIndicesFileName
NoFile == [last |-> Nothing, chain |-> <<>>, whole |-> FALSE]

StorageInit ==
    /\ Init /\ phase = "down"
    /\ derived = [f \in Files |-> <<>>] /\ saved = [f \in Files |-> NoFile]
    /\ clean = TRUE /\ grown = TRUE /\ torn = FALSE /\ kills = 0

\* open: the offset of an item is the sum of the sizes before it
Offsets(s) ==
    LET offset[i \in 1..(MaxItems + 1)] == IF i = 1 THEN 0 ELSE offset[i - 1] + s[i - 1]
    IN  offset
StoredOffset == Offsets(sizes)
OnDisk(p) == items[p]
Stored(i) == Deserialized(StoredOffset[i], OnDisk)
StoredChain == [i \in 1..count |-> Stored(i)]

open ==
    /\ offsets' = [i \in 1..count |-> StoredOffset[i]]
    /\ itemsFileSize' = StoredOffset[count + 1]
    /\ blocks' = StoredChain
    /\ intact' = \A i \in 1..count : Stored(i) # Nothing /\ Size[Stored(i)] = sizes[i]
    /\ wItems' = NoCells /\ pushing' = Nothing /\ got' = <<>>
    /\ UNCHANGED <<items, count, sizes>>

Loads(f) == saved[f].last = Stored(count)
loaded(f) == Loads(f) /\ saved[f].whole
\* the indices are only tried when the cache was loaded
needRebuild == ~(loaded("cache") /\ loaded("indices"))
\* Mutant: nothing is cleared.
rebuildCacheUpon(found) == found \o StoredChain

\* what a file that ends early has put there is cleared
rebuildCache(found) == StoredChain
Derive(f) == IF needRebuild THEN rebuildCache(IF Loads(f) THEN saved[f].chain ELSE <<>>) ELSE saved[f].chain

\* init reads the last block, all of them to rebuild, and the first
ReadAtStart == <<count>> \o (IF needRebuild THEN [i \in 1..count |-> i] ELSE <<>>) \o <<1>>
Used(m, i) == IF i \in DOMAIN m.items THEN touch(m, i) ELSE prepare(m, i, Stored(i))
MemoryAtStart ==
    LET after[n \in 0..Len(ReadAtStart)] ==
            IF n = 0 THEN EmptyMemory ELSE Used(after[n - 1], ReadAtStart[n])
    IN  after[Len(ReadAtStart)]

init ==
    /\ phase = "down" /\ count > 0
    /\ open /\ wCount' = Nothing
    /\ IF \E i \in Range(ReadAtStart) : Stored(i) = Nothing
       THEN phase' = "failed" /\ memory' = EmptyMemory /\ UNCHANGED derived
       ELSE /\ phase' = "up"
            /\ memory' = MemoryAtStart
            /\ derived' = [f \in Files |-> Derive(f)]
    /\ grown' = TRUE
    /\ UNCHANGED <<saved, clean, torn, kills>>

\* Nothing is stored: clear, before the genesis block is pushed.
initEmpty ==
    /\ phase = "down" /\ count = 0
    /\ open /\ wCount' = 0 /\ memory' = EmptyMemory
    /\ phase' = "up" /\ derived' = [f \in Files |-> <<>>] /\ grown' = TRUE
    /\ UNCHANGED <<saved, clean, torn, kills>>

TailId(c) == c[Len(c)]

\* pushBlock: a block on top of the last one of m_blockIndex, in two steps
WriteBlock(b) ==
    /\ phase = "up"
    /\ IF size = 0 THEN b = Genesis ELSE b # Genesis /\ Parent[b] = TailId(derived["cache"])
    /\ WriteItem(b)
    /\ UNCHANGED ownVars

pushBlock ==
    /\ phase = "up"
    /\ WriteIndex
    /\ derived' = [f \in Files |-> Append(derived[f], pushing)]
    /\ grown' = TRUE
    /\ UNCHANGED <<phase, saved, clean, torn, kills>>

\* popBlock and removeLastBlock have read the last block when they pop it.
popBlock ==
    /\ phase = "up" /\ size > 1
    /\ got = <<size, blocks[size]>>
    /\ pop_back
    /\ derived' = [f \in Files |-> SubSeq(derived[f], 1, size - 1)]
    /\ grown' = FALSE
    /\ UNCHANGED <<phase, saved, clean, torn, kills>>

getBlock(i) == phase = "up" /\ (Hit(i) \/ Miss(i)) /\ UNCHANGED ownVars

(***************************************************************************)
(* deinit calls storeCache, which truncates one file after the other and   *)
(* writes it; a killed program leaves its front.                           *)
(***************************************************************************)
BrokenOff(f) == {[last |-> TailId(derived["cache"]), chain |-> SubSeq(derived[f], 1, n), whole |-> FALSE] : n \in 0..(size - 1)}
Complete(f) == [last |-> TailId(derived["cache"]), chain |-> derived[f], whole |-> TRUE]

storeCache ==
    /\ phase = "up" /\ pushing = Nothing /\ size > 0
    /\ \E front \in BrokenOff("cache") : saved' = [saved EXCEPT !["cache"] = front]
    /\ phase' = "cache"
    /\ UNCHANGED <<vectorVars, derived, clean, grown, torn, kills>>

storeIndices ==
    /\ phase = "cache"
    /\ \E front \in BrokenOff("indices") :
          saved' = [saved EXCEPT !["cache"] = Complete("cache"), !["indices"] = front]
    /\ phase' = "indices"
    /\ UNCHANGED <<vectorVars, derived, clean, grown, torn, kills>>

\* The streams of the vector are closed, their buffers written, when Blockchain is destroyed.
deinit ==
    /\ phase = "indices"
    /\ saved' = [saved EXCEPT !["indices"] = Complete("indices")]
    /\ FlushItems /\ FlushCount /\ wItems' = NoCells /\ wCount' = Nothing
    /\ phase' = "down" /\ clean' = TRUE /\ grown' = TRUE
    /\ UNCHANGED <<sizes, offsets, itemsFileSize, memory, pushing, blocks, got, intact, derived, torn, kills>>

\* pop_back has sent the number that push_back wrote to the disk, and the item that it counts is
\* still in the buffer: the disk has an older item in that place.
PoppedUnwritten == pushing = Nothing /\ count > size /\ itemsFileSize \in DOMAIN wItems

\* What was in memory is lost; open gives it other values.
Kill ==
    /\ phase \in {"up", "cache", "indices"} /\ kills < MaxKills
    /\ kills' = kills + 1 /\ phase' = "down" /\ clean' = FALSE
    /\ torn' = (torn \/ PoppedUnwritten)
    /\ UNCHANGED <<vectorVars, derived, saved, grown>>

Next ==
    \/ init \/ initEmpty
    \/ \E b \in Items : WriteBlock(b)
    \/ pushBlock \/ popBlock
    \/ \E i \in 1..size : getBlock(i)
    \/ storeCache \/ storeIndices \/ deinit \/ Kill

Spec == StorageInit /\ [][Next]_vars

-----------------------------------------------------------------------------
TypeOK ==
    /\ items \in [Cells -> {Hole} \cup (Items \X Nat)]
    /\ count \in 0..MaxItems /\ sizes \in [1..MaxItems -> 0..MaxCells]
    /\ DOMAIN wItems \subseteq Cells /\ wCount \in 0..MaxItems \cup {Nothing}
    /\ offsets \in Seq(Cells) /\ itemsFileSize \in 0..MaxCells
    /\ Len(memory.used) <= PoolSize /\ Range(memory.used) = DOMAIN memory.items /\ IsInjective(memory.used)
    /\ pushing \in Items \cup {Nothing}
    /\ phase \in {"down", "up", "cache", "indices", "failed"}

Running == phase \in {"up", "cache", "indices"}

\* A program killed after it has written an item over a popped one, and before the index, leaves
\* the new item with the size of the old.  If it is larger, the next push overwrites its end.
Readable == Nothing \notin Range(blocks)

\* The blocks that init accepts are a chain from the genesis block on, as rebuildCache asserts
\* (it takes a block's hash from the block after it).
Linked(c) == c # <<>> => c[1] = Genesis /\ \A i \in 2..Len(c) : c[i] # Genesis /\ Parent[c[i]] = c[i - 1]
StartsLinked == Running /\ Readable => Linked(blocks)

\* The structures that init has loaded or rebuilt, and every push and pop since, describe the
\* stored blocks: a cache saved at another block, or broken off, or only one of the two files
\* new, is never believed.
DerivedFromBlocks == Running /\ Readable /\ pushing = Nothing => \A f \in Files : derived[f] = blocks

\* A program that runs has a chain and the structures of that chain, however it ended before,
\* unless it was killed after it popped a block of which nothing had reached the disk.
DerivedActual == TypeOK /\ (~torn => StartsLinked /\ DerivedFromBlocks)

\* Killed while the chain grows, the program loses no more than its last block: the number of
\* items reaches the disk only after the items it counts.
GrowthDurable ==
    Running /\ intact /\ grown =>
        count \in (size - 1)..size /\ \A i \in 1..count : Stored(i) = blocks[i]

\* Killed at any moment, also between a pop and the push over the popped item, all blocks but
\* the last counted one are stored as they were.
LossBounded ==
    Running /\ intact =>
        count \in (size - 1)..(size + 1) /\ \A i \in 1..(count - 1) : Stored(i) = blocks[i]

\* After a normal end, the next start finds every block, and has nothing to rebuild.
CleanEndKeepsAll ==
    phase = "down" /\ clean /\ intact /\ ~torn /\ blocks # <<>> => StoredChain = blocks /\ ~needRebuild

\* What is on the disk at any moment is enough for the next start.
Durable == GrowthDurable /\ LossBounded /\ CleanEndKeepsAll
=============================================================================
