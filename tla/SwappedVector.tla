---------------------------- MODULE SwappedVector ----------------------------
(***************************************************************************)
(* A vector in two files: the items one after the other, and an index with *)
(* their number and sizes.  The last used items stay in memory.  Both      *)
(* files are written through buffers, which go to the disk when the        *)
(* program seeks, and the item file's also when it is full: what a killed  *)
(* program leaves is on the disk, what it had in its buffers is lost.      *)
(***************************************************************************)
EXTENDS Naturals, Sequences, Functions

CONSTANTS
    Items,          \* what is stored
    Size,           \* the number of cells that each item takes in the file
    PoolSize,       \* the items kept in memory: m_poolSize
    MaxItems,       \* bounds: items stored at once,
    MaxCells,       \*   and cells of the item file
    Hole, Nothing   \* a cell that was never written; no item

ASSUME SizeAssumption == Size \in [Items -> Nat \ {0}]
ASSUME NothingAssumption == Nothing \notin Items \cup Nat
ASSUME PoolAssumption == PoolSize \in Nat \ {0}
ASSUME BoundAssumption == MaxItems \in Nat /\ MaxCells \in Nat

VARIABLES
    items,          \* the item file on the disk
    count, sizes,   \* the index file on the disk
    wItems,         \* m_itemsFile's buffer: cells not yet on the disk, by place
    wCount,         \* m_indexesFile's buffer: a number of items not yet on the disk, or Nothing
    offsets,        \* m_offsets
    itemsFileSize,  \* m_itemsFileSize
    memory,         \* m_items: the items in memory by index; m_cache: their indices, the longest unused first
    pushing,        \* the item that push_back has written to its file, or Nothing
    blocks,         \* history: the items pushed and not popped
    got,            \* history: index and item of the last read
    intact          \* history: when the files were opened, each size was that of its item

fileVars == <<items, count, sizes, wItems, wCount>>
vectorVars == <<fileVars, offsets, itemsFileSize, memory, pushing, blocks, got, intact>>

Cells == 0..(MaxCells - 1)
size == Len(offsets)

\* Mutant: reads do not see what is still in the buffer.
InFileUnflushed(p) == items[p]

\* what the program itself finds in the item file
InFile(p) == IF p \in DOMAIN wItems THEN wItems[p] ELSE items[p]
FlushItems == items' = [p \in Cells |-> InFile(p)]
FlushCount == count' = IF wCount = Nothing THEN count ELSE wCount
NoCells == [p \in {} |-> Hole]

\* The item whose cells start at p, if the cells there are one item's.
Whole(x, p, Cell(_)) == \A k \in 0..(Size[x] - 1) : p + k \in Cells /\ Cell(p + k) = <<x, k>>
Deserialized(p, Cell(_)) ==
    IF \E x \in Items : Whole(x, p, Cell) THEN CHOOSE x \in Items : Whole(x, p, Cell) ELSE Nothing

EmptyMemory == [items |-> [i \in {} |-> Nothing], used |-> <<>>]
Cached(i) == i \in DOMAIN memory.items
Place(used, i) == CHOOSE k \in DOMAIN used : used[k] = i
Unused(used, i) ==
    IF i \notin Range(used) THEN used
    ELSE [k \in 1..(Len(used) - 1) |-> used[IF k < Place(used, i) THEN k ELSE k + 1]]
Drop(m, i) == [items |-> [j \in DOMAIN m.items \ {i} |-> m.items[j]], used |-> Unused(m.used, i)]
touch(m, i) == [m EXCEPT !.used = Append(Unused(m.used, i), i)]

\* an item comes into memory; a full pool loses the longest unused one
prepare(m, i, x) ==
    LET full == Len(m.used) = PoolSize
        kept == IF full THEN DOMAIN m.items \ {m.used[1]} ELSE DOMAIN m.items
    IN  [items |-> [j \in kept \cup {i} |-> IF j = i THEN x ELSE m.items[j]],
         used |-> Append(IF full THEN Tail(m.used) ELSE m.used, i)]

Init ==
    /\ items = [p \in Cells |-> Hole] /\ count = 0 /\ sizes = [i \in 1..MaxItems |-> 0]
    /\ wItems = NoCells /\ wCount = Nothing
    /\ offsets = <<>> /\ itemsFileSize = 0 /\ memory = EmptyMemory /\ pushing = Nothing
    /\ blocks = <<>> /\ got = <<>> /\ intact = TRUE

(***************************************************************************)
(* push_back: the seek sends the buffer of the item file to the disk, then *)
(* the item is written, of which some cells may overflow to the disk ...   *)
(***************************************************************************)
WriteItem(x) ==
    /\ pushing = Nothing /\ size < MaxItems /\ itemsFileSize + Size[x] <= MaxCells
    /\ \E n \in 0..Size[x] :
          /\ items' = [p \in Cells |-> IF p \in itemsFileSize..(itemsFileSize + n - 1)
                                       THEN <<x, p - itemsFileSize>> ELSE InFile(p)]
          /\ wItems' = [p \in (itemsFileSize + n)..(itemsFileSize + Size[x] - 1) |-> <<x, p - itemsFileSize>>]
    /\ pushing' = x
    /\ UNCHANGED <<count, sizes, wCount, offsets, itemsFileSize, memory, blocks, got, intact>>

\* Mutant: the number of items is on the disk before the item is.
WriteIndexFirst ==
    /\ pushing # Nothing
    /\ count' = size + 1
    /\ sizes' = [sizes EXCEPT ![size + 1] = Size[pushing]]
    /\ wCount' = Nothing
    /\ offsets' = Append(offsets, itemsFileSize)
    /\ itemsFileSize' = itemsFileSize + Size[pushing]
    /\ memory' = prepare(memory, size + 1, pushing)
    /\ blocks' = Append(blocks, pushing)
    /\ pushing' = Nothing
    /\ UNCHANGED <<items, wItems, got, intact>>

\* ... and then its size, which the seek to the front sends to the disk, and the number of items.
WriteIndex ==
    /\ pushing # Nothing
    /\ FlushCount
    /\ sizes' = [sizes EXCEPT ![size + 1] = Size[pushing]]
    /\ wCount' = size + 1
    /\ offsets' = Append(offsets, itemsFileSize)
    /\ itemsFileSize' = itemsFileSize + Size[pushing]
    /\ memory' = prepare(memory, size + 1, pushing)
    /\ blocks' = Append(blocks, pushing)
    /\ pushing' = Nothing
    /\ UNCHANGED <<items, wItems, got, intact>>

\* Mutant: a popped item stays in memory.
pop_backCached ==
    /\ pushing = Nothing /\ offsets # <<>>
    /\ FlushCount
    /\ wCount' = size - 1
    /\ itemsFileSize' = offsets[size]
    /\ offsets' = SubSeq(offsets, 1, size - 1)
    /\ memory' = memory
    /\ blocks' = SubSeq(blocks, 1, size - 1)
    /\ UNCHANGED <<items, wItems, sizes, pushing, got, intact>>

pop_back ==
    /\ pushing = Nothing /\ offsets # <<>>
    /\ FlushCount
    /\ wCount' = size - 1
    /\ itemsFileSize' = offsets[size]
    /\ offsets' = SubSeq(offsets, 1, size - 1)
    /\ memory' = Drop(memory, size)
    /\ blocks' = SubSeq(blocks, 1, size - 1)
    /\ UNCHANGED <<items, wItems, sizes, pushing, got, intact>>

\* operator[]: from memory, or from the file, whose buffer the seek sends to the disk.
Hit(i) ==
    /\ pushing = Nothing /\ i \in 1..size
    /\ Cached(i)
    /\ memory' = touch(memory, i)
    /\ got' = <<i, memory.items[i]>>
    /\ UNCHANGED <<fileVars, offsets, itemsFileSize, pushing, blocks, intact>>

Miss(i) ==
    /\ pushing = Nothing /\ i \in 1..size /\ ~Cached(i)
    /\ FlushItems /\ wItems' = NoCells
    /\ LET x == Deserialized(offsets[i], InFile)
       IN  got' = <<i, x>> /\ memory' = prepare(memory, i, x)
    /\ UNCHANGED <<count, sizes, wCount, offsets, itemsFileSize, pushing, blocks, intact>>

Operation ==
    \/ \E x \in Items : WriteItem(x)
    \/ WriteIndex
    \/ pop_back
    \/ \E i \in 1..size : Hit(i) \/ Miss(i)

VectorSpec == Init /\ [][Operation]_vectorVars

\* Whether an item is in memory or was swapped out to its file and is read back, and however
\* pushes, pops and reads follow each other: operator[] returns the item that was pushed at its
\* index, and the two files with the pool are one vector, once they were opened in agreement.
V == INSTANCE Vector WITH vec <- blocks, got <- got
ReadsBack == V!Init /\ [][intact' => V!Next]_(V!vars)

\* What makes it so: the items lie in their file one after the other, each whole where its
\* offset says, and those in memory are the same.
Coherent ==
    intact =>
        /\ Len(offsets) = Len(blocks)
        /\ \A i \in 1..Len(blocks) :
              /\ Whole(blocks[i], offsets[i], InFile)
              /\ offsets[i] + Size[blocks[i]] = IF i < Len(blocks) THEN offsets[i + 1] ELSE itemsFileSize
        /\ \A i \in DOMAIN memory.items : i \in 1..Len(blocks) /\ memory.items[i] = blocks[i]
=============================================================================
