------------------------- MODULE BlockStorageProofs --------------------------
(***************************************************************************)
(* For any blocks, sizes, pool and file: Blockchain, which keeps its       *)
(* blocks in a SwappedVector and may be killed at any moment, starts again *)
(* on a chain, with the structures of that chain, and has lost at most its *)
(* last block.                                                             *)
(***************************************************************************)
EXTENDS BlockStorageLemmas

-----------------------------------------------------------------------------
(* Chains *)

Fits(c, y) == IF c = <<>> THEN y = Genesis ELSE y # Genesis /\ Parent[y] = TailId(c)

\* A block on top of the last one makes a chain.
LEMMA LinkedAppend ==
    ASSUME NEW c \in Seq(Items), Linked(c), NEW y \in Items, Fits(c, y)
    PROVE  Linked(Append(c, y))
<1> DEFINE e == Append(c, y)
           n == Len(c)
<1>1. n \in Nat /\ Len(e) = n + 1 /\ e[n + 1] = y /\ \A i \in 1..n : e[i] = c[i]
  OBVIOUS
<1> HIDE DEF e
<1>2. CASE c = <<>>
  BY <1>1, <1>2 DEF Fits, Linked, e
<1>3. CASE c # <<>>
  <2>1. n >= 1 /\ y # Genesis /\ Parent[y] = c[n] /\ c[1] = Genesis
    BY <1>1, <1>3 DEF Fits, TailId, Linked
  <2> HIDE DEF n
  <2>2. e[1] = Genesis
    BY <1>1, <2>1
  <2>3. ASSUME NEW i \in 2..(n + 1) PROVE e[i] # Genesis /\ Parent[e[i]] = e[i - 1]
    <3>1. CASE i = n + 1
      BY <1>1, <2>1, <3>1
    <3>2. CASE i # n + 1
      <4>1. i \in 2..n /\ i \in 1..n /\ i - 1 \in 1..n
        BY <1>1, <3>2
      <4>2. c[i] # Genesis /\ Parent[c[i]] = c[i - 1]
        BY <1>3, <4>1 DEF Linked, n
      <4> QED BY <1>1, <4>1, <4>2
    <3> QED BY <3>1, <3>2
  <2> QED BY <1>1, <2>2, <2>3 DEF Linked, e
<1> QED BY <1>2, <1>3

\* The blocks up to any are one, ...
LEMMA LinkedFront ==
    ASSUME NEW c \in Seq(Items), Linked(c), NEW n \in 0..Len(c)
    PROVE  /\ SubSeq(c, 1, n) \in Seq(Items) /\ Len(SubSeq(c, 1, n)) = n /\ Linked(SubSeq(c, 1, n))
           /\ \A i \in 1..n : SubSeq(c, 1, n)[i] = c[i]
<1> DEFINE e == SubSeq(c, 1, n)
<1>1. e \in Seq(Items) /\ Len(e) = n /\ n \in Nat /\ n <= Len(c) /\ Len(c) \in Nat /\ \A i \in 1..n : e[i] = c[i]
  OBVIOUS
<1> HIDE DEF e
<1>2. ASSUME e # <<>> PROVE e[1] = Genesis /\ \A i \in 2..n : e[i] # Genesis /\ Parent[e[i]] = e[i - 1]
  <2>1. n >= 1 /\ c # <<>>
    BY <1>1, <1>2
  <2>2. c[1] = Genesis /\ \A i \in 2..Len(c) : c[i] # Genesis /\ Parent[c[i]] = c[i - 1]
    BY <2>1 DEF Linked
  <2>3. 1 \in 1..n /\ \A i \in 2..n : i \in 2..Len(c) /\ i \in 1..n /\ i - 1 \in 1..n
    BY <1>1, <2>1
  <2> QED BY <1>1, <2>2, <2>3, Zenon
<1>3. Linked(e)
  BY <1>1, <1>2 DEF Linked
<1> QED BY <1>1, <1>3 DEF e

\* ... on which the next one fits.
LEMMA LinkedLast ==
    ASSUME NEW c \in Seq(Items), Linked(c), c # <<>>
    PROVE  Fits(SubSeq(c, 1, Len(c) - 1), c[Len(c)])
<1> DEFINE n == Len(c)
           e == SubSeq(c, 1, n - 1)
<1>0. n \in Nat \ {0} /\ n - 1 \in 0..n
  OBVIOUS
<1>1. n \in Nat \ {0} /\ e \in Seq(Items) /\ Len(e) = n - 1 /\ \A i \in 1..(n - 1) : e[i] = c[i]
  BY <1>0, LinkedFront, ZenonT(30)
<1>2. c[1] = Genesis /\ \A i \in 2..n : c[i] # Genesis /\ Parent[c[i]] = c[i - 1]
  BY DEF Linked
<1> HIDE DEF e
<1>3. CASE n = 1
  <2>1. e = <<>>
    BY <1>1, <1>3
  <2> QED BY <1>2, <1>3, <2>1 DEF Fits, e
<1>4. CASE n # 1
  <2>1. n \in 2..n /\ n - 1 \in 1..(n - 1) /\ e # <<>>
    BY <1>1, <1>4
  <2>2. c[n] # Genesis /\ Parent[c[n]] = TailId(e)
    BY <1>1, <1>2, <2>1 DEF TailId
  <2> QED BY <2>1, <2>2 DEF Fits, e
<1> QED BY <1>3, <1>4

\* A chain is known by its last block: going back from it meets the same blocks.
LEMMA LinkedBack ==
    ASSUME NEW c \in Seq(Items), NEW e \in Seq(Items), c # <<>>, e # <<>>, Linked(c), Linked(e), TailId(c) = TailId(e)
    PROVE  \A k \in Nat : k < Len(c) => k < Len(e) /\ c[Len(c) - k] = e[Len(e) - k]
<1> DEFINE m == Len(c)
           n == Len(e)
           P == {k \in Nat : k < m => k < n /\ c[m - k] = e[n - k]}
<1>1. m \in Nat \ {0} /\ n \in Nat \ {0} /\ c[m] = e[n]
  BY DEF TailId
<1>2. e[1] = Genesis /\ \A i \in 2..m : c[i] # Genesis /\ Parent[c[i]] = c[i - 1]
  BY DEF Linked
<1>3. \A i \in 2..n : Parent[e[i]] = e[i - 1]
  BY DEF Linked
<1> HIDE DEF m, n
<1>4. 0 \in P
  BY <1>1
<1>5. ASSUME NEW k \in Nat, k \in P PROVE k + 1 \in P
  <2> SUFFICES ASSUME k + 1 < m PROVE k + 1 < n /\ c[m - (k + 1)] = e[n - (k + 1)]
    OBVIOUS
  <2>1. k < n /\ c[m - k] = e[n - k]
    BY <1>1, <1>5
  <2>2. m - k \in 2..m /\ (m - k) - 1 = m - (k + 1) /\ (n - k) - 1 = n - (k + 1)
    BY <1>1
  <2>3. c[m - k] # Genesis /\ Parent[c[m - k]] = c[m - (k + 1)]
    BY <1>2, <2>2
  <2>4. n - k # 1
    BY <1>2, <2>1, <2>3
  <2>5. n - k \in 2..n /\ k + 1 < n
    BY <1>1, <2>1, <2>4
  <2>6. Parent[e[n - k]] = e[n - (k + 1)]
    BY <1>3, <2>2, <2>5
  <2> QED BY <2>1, <2>3, <2>5, <2>6
<1> HIDE DEF P
<1>6. Nat \subseteq P
  BY <1>4, <1>5, Induction
<1> QED BY <1>6 DEF P, m, n

\* Two chains of blocks that end in the same block are the same chain.
LEMMA LinkedUnique ==
    ASSUME NEW c \in Seq(Items), NEW e \in Seq(Items), c # <<>>, e # <<>>, Linked(c), Linked(e), TailId(c) = TailId(e)
    PROVE  c = e
<1> DEFINE m == Len(c)
           n == Len(e)
<1>1. \A k \in Nat : k < m => k < n /\ c[m - k] = e[n - k]
  BY LinkedBack, Zenon
<1>2. \A k \in Nat : k < n => k < m
  BY LinkedBack, Zenon
<1>3. m \in Nat \ {0} /\ n \in Nat \ {0}
  OBVIOUS
<1>4. m = n
  <2>1. m - 1 \in Nat /\ m - 1 < m /\ n - 1 \in Nat /\ n - 1 < n
    BY <1>3
  <2>2. m - 1 < n /\ n - 1 < m
    BY <1>1, <1>2, <2>1
  <2> QED BY <1>3, <2>2
<1>5. ASSUME NEW i \in 1..m PROVE c[i] = e[i]
  <2>1. m - i \in Nat /\ m - i < m /\ m - (m - i) = i /\ n - (m - i) = i
    BY <1>3, <1>4
  <2> QED BY <1>1, <2>1
<1>6. c = [i \in 1..m |-> c[i]] /\ e = [i \in 1..n |-> e[i]]
  OBVIOUS
<1> QED BY <1>4, <1>5, <1>6

-----------------------------------------------------------------------------
(* What the disk holds for the next start *)

DiskLies(x, p) == \A k \in 0..(Size[x] - 1) : p + k \in Cells /\ items[p + k] = <<x, k>>

\* An item whole on the disk is the one that the next start reads there, ...
LEMMA StoredIs ==
    ASSUME NEW i, StoredOffset[i] \in Nat, NEW x \in Items, DiskLies(x, StoredOffset[i])
    PROVE  Stored(i) = x
<1> DEFINE p == StoredOffset[i]
           W(y) == Whole(y, p, OnDisk)
<1>1. \A y \in Items : W(y) <=> DiskLies(y, p)
  BY DEF Whole, DiskLies, OnDisk
<1>2. ASSUME NEW y \in Items, W(y) PROVE y = x
  <2>1. 0 \in 0..(Size[y] - 1) /\ 0 \in 0..(Size[x] - 1)
    BY SizeAssumption
  <2>2. <<y, 0>> = <<x, 0>>
    BY <1>1, <1>2, <2>1 DEF DiskLies
  <2> QED BY <2>2
<1>3. W(x)
  BY <1>1
<1>4. Stored(i) = IF \E y \in Items : W(y) THEN CHOOSE y \in Items : W(y) ELSE Nothing
  BY DEF Stored, Deserialized
<1> HIDE DEF W
<1> QED BY <1>2, <1>3, <1>4

\* ... and one that it reads there is whole on the disk.
LEMMA StoredLies ==
    ASSUME NEW i, StoredOffset[i] \in Nat, Stored(i) # Nothing
    PROVE  /\ Stored(i) \in Items /\ DiskLies(Stored(i), StoredOffset[i])
           /\ items[StoredOffset[i]] = <<Stored(i), 0>>
<1> DEFINE p == StoredOffset[i]
           W(y) == Whole(y, p, OnDisk)
           x == Stored(i)
<1>1. \A y \in Items : W(y) <=> DiskLies(y, p)
  BY DEF Whole, DiskLies, OnDisk
<1>2. Stored(i) = IF \E y \in Items : W(y) THEN CHOOSE y \in Items : W(y) ELSE Nothing
  BY DEF Stored, Deserialized
<1> HIDE DEF W
<1>3. x \in Items /\ DiskLies(x, p)
  BY <1>1, <1>2
<1> HIDE DEF x, p
<1>4. p \in Nat /\ 0 \in 0..(Size[x] - 1) /\ p + 0 = p
  BY <1>3, SizeAssumption DEF p
<1>5. items[p] = <<x, 0>>
  BY <1>3, <1>4 DEF DiskLies
<1> QED BY <1>3, <1>5 DEF x, p

-----------------------------------------------------------------------------
(* The chain of a program that was never killed between a pop and the flush of what it popped *)

D == derived["cache"]
Sound == phase # "failed" /\ ~torn

FirstIs(cell, y) == \A x \in Items : cell = <<x, 0>> => x = y
FirstFits(cell, c) == \A x \in Items : cell = <<x, 0>> => Fits(c, x)

\* The structures describe one chain, the vector holds its blocks, or what cannot be read.
Described ==
    /\ D \in Seq(Items) /\ Len(D) = size /\ derived = [f \in Files |-> D] /\ Linked(D)
    /\ \A i \in 1..size : blocks[i] \in {D[i], Nothing}
    /\ pushing # Nothing => Fits(D, pushing)

\* What begins at an offset is the chain's block there, for the program and for the disk as far as
\* the number on the disk counts; a popped block that it still counts fits on the chain.
Begun ==
    /\ \A i \in 1..size : FirstIs(InFile(offsets[i]), D[i])
    /\ \A i \in 1..size : pushing # Nothing \/ i <= count => FirstIs(items[offsets[i]], D[i])
    /\ count = size + 1 => /\ FirstFits(InFile(itemsFileSize), D)
                           /\ ~PoppedUnwritten => FirstFits(items[itemsFileSize], D)

\* A complete file holds a chain; saving is done in order.
WholeFile(r) == r.whole => r.chain \in Seq(Items) /\ r.chain # <<>> /\ Linked(r.chain) /\ r.last = TailId(r.chain)
SavedSo ==
    /\ \A f \in Files : WholeFile(saved[f])
    /\ phase = "indices" => saved["cache"] = Complete("cache")
    /\ phase = "down" => ~PoppedUnwritten
    /\ phase = "down" /\ clean /\ size > 0 => \A f \in Files : saved[f] = Complete(f)

Chain == Sound => Described /\ Begun /\ SavedSo

\* What does not depend on it
Shaped ==
    /\ phase \in {"down", "up", "cache", "indices", "failed"}
    /\ phase \in {"cache", "indices"} => size > 0 /\ pushing = Nothing
    /\ DOMAIN saved = Files

\* The blocks that the next start reads are blocks of one chain, with the last block read.
LEMMA StartChain ==
    ASSUME Frame, Described, Begun, ~PoppedUnwritten, count > 0, Stored(count) # Nothing
    PROVE  \E e \in Seq(Items) : /\ Len(e) = count /\ Linked(e) /\ e[count] = Stored(count)
                                 /\ \A i \in 1..count : FirstIs(items[StoredOffset[i]], e[i])
<1> DEFINE n == size
           f == StoredOffset
           x == Stored(count)
<1>1. /\ n \in 0..MaxItems /\ count \in 1..MaxItems /\ count \in (n - 1)..(n + 1) /\ MaxItems \in Nat
      /\ \A i \in 1..n : offsets[i] = f[i]
      /\ itemsFileSize = f[n + 1]
  BY BoundAssumption DEF Frame, Typed, Counted, Placed
<1>2. \A i \in 1..(MaxItems + 1) : f[i] \in Nat
  BY StoredOffsets DEF Frame
<1>3. x \in Items /\ items[f[count]] = <<x, 0>>
  <2>1. f[count] \in Nat
    BY <1>1, <1>2
  <2> QED BY <2>1, StoredLies
<1>4. D \in Seq(Items) /\ Len(D) = n /\ Linked(D)
  BY DEF Described
<1>5. \A i \in 1..n : i <= count => FirstIs(items[f[i]], D[i])
  BY <1>1 DEF Begun
<1>6. count = n + 1 => FirstFits(items[f[count]], D)
  BY <1>1 DEF Begun
<1> HIDE DEF n, f, x
<1>7. CASE count <= n
  <2> DEFINE e == SubSeq(D, 1, count)
  <2>1. count \in 0..Len(D)
    BY <1>1, <1>4, <1>7
  <2>2. e \in Seq(Items) /\ Len(e) = count /\ Linked(e) /\ \A i \in 1..count : e[i] = D[i]
    BY <1>4, <2>1, LinkedFront
  <2> HIDE DEF e
  <2>3. \A i \in 1..count : i \in 1..n /\ i <= count
    BY <1>1, <1>7
  <2>4. \A i \in 1..count : FirstIs(items[f[i]], e[i])
    BY <1>5, <2>2, <2>3
  <2>5. e[count] = x
    BY <1>1, <1>3, <2>4 DEF FirstIs
  <2> QED BY <2>2, <2>4, <2>5 DEF f, x
<1>8. CASE count = n + 1
  <2> DEFINE e == Append(D, x)
  <2>1. Fits(D, x)
    BY <1>3, <1>6, <1>8 DEF FirstFits
  <2>2. Linked(e)
    BY <1>3, <1>4, <2>1, LinkedAppend
  <2>3. e \in Seq(Items) /\ Len(e) = n + 1 /\ e[n + 1] = x /\ \A i \in 1..n : e[i] = D[i]
    BY <1>1, <1>3, <1>4
  <2> HIDE DEF e
  <2>4. ASSUME NEW i \in 1..count PROVE FirstIs(items[f[i]], e[i])
    <3>1. CASE i = n + 1
      BY <1>3, <1>8, <2>3, <3>1 DEF FirstIs
    <3>2. CASE i # n + 1
      <4>1. i \in 1..n /\ i <= count
        BY <1>1, <1>8, <3>2
      <4> QED BY <1>5, <2>3, <4>1
    <3> QED BY <3>1, <3>2
  <2> QED BY <1>8, <2>2, <2>3, <2>4 DEF f, x
<1> QED BY <1>1, <1>7, <1>8

\* A node that was never started has an empty chain.
LEMMA ChainInit == StorageInit => Chain /\ Shaped
<1> SUFFICES ASSUME StorageInit PROVE Chain /\ Shaped
  OBVIOUS
<1>1. size = 0 /\ D = <<>> /\ count = 0 /\ offsets = <<>> /\ blocks = <<>> /\ pushing = Nothing
  BY DEF StorageInit, Init, size, D, Files
<1>2. Described
  <2>1. derived = [f \in Files |-> D]
    BY <1>1 DEF StorageInit
  <2> QED BY <1>1, <2>1 DEF Described, Linked
<1>3. Begun
  BY <1>1 DEF Begun
<1>4. SavedSo
  BY <1>1 DEF StorageInit, SavedSo, NoFile, WholeFile, PoppedUnwritten
<1>5. Shaped
  BY DEF StorageInit, Shaped
<1> QED BY <1>2, <1>3, <1>4, <1>5 DEF Chain

\* The structures that init loads or rebuilds are of the one chain whose blocks it reads: a chain is
\* known by its last block, which a loaded file names, and rebuilding reads every block.
LEMMA StartDerives ==
    ASSUME count \in Nat \ {0}, \A f \in Files : WholeFile(saved[f]),
           \A i \in Range(ReadAtStart) : Stored(i) # Nothing,
           \A i \in 1..count : StoredOffset[i] \in Nat,
           NEW e \in Seq(Items), Len(e) = count, Linked(e), e[count] = Stored(count),
           \A i \in 1..count : FirstIs(items[StoredOffset[i]], e[i])
    PROVE  \A f \in Files : Derive(f) = e
<1>0. count \in Nat /\ count > 0
  OBVIOUS
<1>1. CASE needRebuild
  <2>0. \A i \in 1..count : \E k \in 1..Len(ReadAtStart) : ReadAtStart[k] = i
    BY <1>0, <1>1, ReadAtStartIs, Zenon
  <2>1. ASSUME NEW i \in 1..count PROVE Stored(i) = e[i]
    <3>1. PICK k \in 1..Len(ReadAtStart) : ReadAtStart[k] = i
      BY <2>0
    <3>2. i \in Range(ReadAtStart)
      BY <3>1, ReadAtStartIs DEF Range
    <3>3. Stored(i) # Nothing /\ StoredOffset[i] \in Nat
      BY <3>2
    <3>4. Stored(i) \in Items /\ items[StoredOffset[i]] = <<Stored(i), 0>>
      BY <3>3, StoredLies
    <3> QED BY <3>4 DEF FirstIs
  <2>2. StoredChain = e
    <3>1. e = [i \in 1..count |-> e[i]]
      OBVIOUS
    <3> QED BY <2>1, <3>1 DEF StoredChain
  <2> QED BY <1>1, <2>2 DEF Derive, rebuildCache
<1>2. CASE ~needRebuild
  <2> TAKE f \in Files
  <2>1. saved[f].last = Stored(count) /\ saved[f].whole
    BY <1>2 DEF needRebuild, loaded, Loads, Files
  <2>2. saved[f].chain \in Seq(Items) /\ saved[f].chain # <<>> /\ Linked(saved[f].chain) /\ saved[f].last = TailId(saved[f].chain)
    BY <2>1 DEF WholeFile
  <2>3. e # <<>> /\ TailId(saved[f].chain) = TailId(e)
    BY <2>1, <2>2 DEF TailId
  <2>4. saved[f].chain = e
    BY <2>2, <2>3, LinkedUnique
  <2> QED BY <1>2, <2>4 DEF Derive
<1> QED BY <1>1, <1>2

\* Opening the files, with every structure taken from the blocks they hold, gives a chain.
LEMMA ChainOpened ==
    ASSUME Frame, Frame', open, size' = count, StoredOffset' = StoredOffset, SavedSo, saved' = saved, phase' = "up",
           NEW e \in Seq(Items), Len(e) = count, Linked(e), derived' = [f \in Files |-> e],
           \A i \in 1..count : FirstIs(items[StoredOffset[i]], e[i])
    PROVE  Chain'
<1>1. D' = e /\ pushing' = Nothing /\ wItems' = NoCells /\ UNCHANGED <<items, count>> /\ blocks' = StoredChain
  BY DEF D, Files, open
<1>2. count \in 0..MaxItems /\ \A i \in 1..count : offsets'[i] = StoredOffset[i]
  BY <1>1 DEF open, Frame, Typed
<1>3. \A p : InFile(p)' = items[p]
  BY <1>1 DEF InFile, NoCells
<1>4. Described'
  <2>1. ASSUME NEW i \in 1..count PROVE blocks'[i] \in {e[i], Nothing}
    <3>1. blocks'[i] = Stored(i)
      BY <1>1 DEF StoredChain
    <3>2. CASE Stored(i) = Nothing
      BY <3>1, <3>2
    <3>3. CASE Stored(i) # Nothing
      <4>1. i \in 1..(MaxItems + 1)
        BY <1>2, BoundAssumption
      <4>2. StoredOffset[i] \in Nat
        BY <4>1, StoredOffsets DEF Frame
      <4>3. Stored(i) \in Items /\ items[StoredOffset[i]] = <<Stored(i), 0>>
        BY <3>3, <4>2, StoredLies
      <4> QED BY <3>1, <4>3 DEF FirstIs
    <3> QED BY <3>2, <3>3
  <2>2. derived' = [f \in Files |-> D]'
    BY <1>1 DEF Files
  <2> QED BY <1>1, <2>1, <2>2 DEF Described, Linked
<1>5. Begun'
  <2>1. \A i \in 1..count : FirstIs(InFile(offsets[i]), D[i])' /\ FirstIs(items[offsets[i]], D[i])'
    BY <1>1, <1>2, <1>3 DEF FirstIs
  <2>2. count' # size' + 1
    BY <1>1, <1>2
  <2> QED BY <2>1, <2>2, ZenonT(30) DEF Begun
<1>6. SavedSo'
  BY ZenonT(30) DEF SavedSo, WholeFile
<1> QED BY <1>4, <1>5, <1>6 DEF Chain

\* init of a node that has blocks gives a chain.
LEMMA ChainStart ==
    ASSUME Frame, Frame', Chain, init, size' = count, StoredOffset' = StoredOffset
    PROVE  Chain'
<1> SUFFICES ASSUME Sound' PROVE Chain'
  BY DEF Chain
<1>1. Sound /\ phase = "down" /\ count > 0 /\ open /\ saved' = saved
  BY DEF Sound, init
<1>2. /\ \A i \in Range(ReadAtStart) : Stored(i) # Nothing
      /\ phase' = "up" /\ derived' = [f \in Files |-> Derive(f)]
  BY DEF Sound, init
<1>3. Described /\ Begun /\ SavedSo /\ ~PoppedUnwritten
  BY <1>1 DEF Chain, SavedSo
<1>4. count \in Nat \ {0} /\ \A i \in 1..count : StoredOffset[i] \in Nat
  <2>1. count \in 1..MaxItems /\ MaxItems \in Nat
    BY <1>1, BoundAssumption DEF Frame, Typed
  <2>2. \A i \in 1..(MaxItems + 1) : StoredOffset[i] \in Nat
    BY StoredOffsets DEF Frame
  <2> QED BY <2>1, <2>2
<1>5. Stored(count) # Nothing
  <2>1. PICK k \in 1..Len(ReadAtStart) : ReadAtStart[k] = count
    BY <1>4, ReadAtStartIs
  <2>2. count \in Range(ReadAtStart)
    BY <1>4, <2>1, ReadAtStartIs DEF Range
  <2> QED BY <1>2, <2>2
<1>6. PICK e \in Seq(Items) : /\ Len(e) = count /\ Linked(e) /\ e[count] = Stored(count)
                              /\ \A i \in 1..count : FirstIs(items[StoredOffset[i]], e[i])
  BY <1>1, <1>3, <1>5, StartChain
<1>7. \A f \in Files : WholeFile(saved[f])
  BY <1>3 DEF SavedSo
<1>8. \A f \in Files : Derive(f) = e
  BY <1>2, <1>4, <1>6, <1>7, StartDerives
<1>9. derived' = [f \in Files |-> e]
  BY <1>2, <1>8
<1> QED BY <1>1, <1>2, <1>3, <1>6, <1>9, ChainOpened

\* init of a node that has no block gives the empty chain.
LEMMA ChainEmpty ==
    ASSUME Frame, Frame', Chain, initEmpty, size' = count, StoredOffset' = StoredOffset
    PROVE  Chain'
<1> SUFFICES ASSUME Sound' PROVE Chain'
  BY DEF Chain
<1>1. Sound /\ phase = "down" /\ count = 0 /\ open /\ saved' = saved /\ phase' = "up"
  BY DEF Sound, initEmpty
<1>2. derived' = [f \in Files |-> <<>>] /\ <<>> \in Seq(Items) /\ Len(<<>>) = count /\ Linked(<<>>)
  BY <1>1 DEF initEmpty, Linked
<1>3. SavedSo /\ \A i \in 1..count : FirstIs(items[StoredOffset[i]], <<>>[i])
  BY <1>1 DEF Chain
<1> QED BY <1>1, <1>2, <1>3, ChainOpened, ZenonT(30)

\* Beginning to store a block keeps the chain: nothing refers to the bytes written yet.
LEMMA ChainWrite ==
    ASSUME Frame, Frame', Chain, NEW b \in Items, WriteBlock(b)
    PROVE  Chain'
<1> SUFFICES ASSUME Sound' PROVE Chain'
  BY DEF Chain
<1>1. /\ Sound /\ UNCHANGED <<phase, derived, saved, clean>> /\ D' = D /\ phase = "up"
      /\ pushing = Nothing /\ pushing' = b
      /\ UNCHANGED <<count, offsets, itemsFileSize, blocks>>
  BY DEF Sound, WriteBlock, WriteItem, ownVars, D
<1>2. Described /\ Begun /\ SavedSo
  BY <1>1 DEF Chain
<1>3. Written(b)
  BY WriteItemWrites DEF WriteBlock, Frame, Typed
<1>4. size' = size /\ size \in Nat
  BY <1>1 DEF size, Frame, Typed
<1>5. Fits(D, b)
  BY <1>2, <1>4 DEF WriteBlock, Described, Fits, D
<1>6. Described'
  BY <1>1, <1>2, <1>4, <1>5 DEF Described, Linked, Fits, TailId
<1>7. \A i \in 1..size : offsets[i] \in Cells /\ offsets[i] < itemsFileSize
  BY Ends
<1>8. Begun'
  <2>1. ASSUME NEW i \in 1..size PROVE FirstIs(InFile(offsets[i]), D[i])' /\ FirstIs(items[offsets[i]], D[i])'
    <3>1. PICK p : p = offsets[i]
      OBVIOUS
    <3>2. InFile(p)' = InFile(p) /\ items'[p] = InFile(p) /\ offsets'[i] = p
      BY <1>1, <1>3, <1>7, <3>1 DEF Written
    <3>3. FirstIs(InFile(p), D[i])
      BY <1>2, <3>1 DEF Begun
    <3>4. InFile(offsets[i])' = InFile(p) /\ items'[offsets'[i]] = InFile(p) /\ D'[i] = D[i]
      BY <1>1, <3>2 DEF InFile
    <3> QED BY <3>3, <3>4 DEF FirstIs
  <2>2. count' = size' + 1 => FirstFits(InFile(itemsFileSize), D)' /\ FirstFits(items[itemsFileSize], D)'
    <3> SUFFICES ASSUME count = size + 1 PROVE FirstFits(InFile(itemsFileSize), D)' /\ FirstFits(items[itemsFileSize], D)'
      BY <1>1, <1>4
    <3>1. FirstFits(InFile(itemsFileSize), D)
      BY <1>2 DEF Begun
    <3>2. items'[itemsFileSize] \in {<<b, 0>>, InFile(itemsFileSize)}
      BY <1>3 DEF Written
    <3>3. InFile(itemsFileSize)' = <<b, 0>>
      BY <1>1, NothingAssumption DEF Frame, Placed
    <3> QED BY <1>1, <1>5, <3>1, <3>2, <3>3 DEF FirstFits, Fits, TailId
  <2> QED BY <1>4, <2>1, <2>2 DEF Begun
<1>9. SavedSo'
  BY <1>1, <1>2, ZenonT(30) DEF SavedSo, WholeFile
<1> QED BY <1>6, <1>8, <1>9 DEF Chain

\* pushBlock extends the chain by the block whose bytes were written.
LEMMA ChainPush ==
    ASSUME Frame, Frame', Chain, pushBlock, size' = size + 1, count' = size
    PROVE  Chain'
<1> SUFFICES ASSUME Sound' PROVE Chain'
  BY DEF Chain
<1> DEFINE n == size
           y == pushing
           e == Append(D, y)
<1>1. /\ Sound /\ UNCHANGED <<phase, saved, clean>> /\ phase = "up" /\ y \in Items /\ pushing' = Nothing
      /\ UNCHANGED <<items, wItems>> /\ offsets' = Append(offsets, itemsFileSize) /\ blocks' = Append(blocks, y)
  BY DEF Sound, pushBlock, WriteIndex, Frame, Typed
<1>2. Described /\ Begun /\ SavedSo
  BY <1>1 DEF Chain
<1>3. /\ D \in Seq(Items) /\ Len(D) = n /\ Linked(D) /\ Fits(D, y) /\ derived = [f \in Files |-> D]
      /\ \A i \in 1..n : blocks[i] \in {D[i], Nothing}
  BY <1>1, <1>2, NothingAssumption DEF Described
<1>4. D' = e /\ derived' = [f \in Files |-> e]
  <2>1. derived' = [f \in Files |-> Append(derived[f], y)] /\ "cache" \in Files
    BY DEF pushBlock, Files
  <2> QED BY <1>3, <2>1 DEF D
<1>5. n \in Nat /\ Len(blocks) = n /\ Len(offsets) = n /\ offsets \in Seq(Nat) /\ blocks \in Seq(Items \cup {Nothing}) /\ itemsFileSize \in Nat
  BY DEF Frame, Typed, size
<1>6. e \in Seq(Items) /\ Len(e) = n + 1 /\ e[n + 1] = y /\ \A i \in 1..n : e[i] = D[i]
  BY <1>1, <1>3, <1>5, SMTT(30)
<1>7. /\ blocks'[n + 1] = y /\ \A i \in 1..n : blocks'[i] = blocks[i]
  BY <1>1, <1>5
<1>8. /\ offsets'[n + 1] = itemsFileSize /\ \A i \in 1..n : offsets'[i] = offsets[i]
  BY <1>1, <1>5
<1>9. Linked(e)
  BY <1>1, <1>3, LinkedAppend
<1> HIDE DEF e, y, n
<1>10. \A i \in 1..(n + 1) : i = n + 1 \/ i \in 1..n
  BY <1>5
<1>11. Described'
  <2>1. \A i \in 1..(n + 1) : blocks'[i] \in {e[i], Nothing}
    BY <1>3, <1>6, <1>7, <1>10, Zenon
  <2> QED BY <1>1, <1>4, <1>6, <1>9, <2>1, ZenonT(30) DEF Described, Linked, n
<1>12. Begun'
  <2>1. \A p : InFile(p)' = InFile(p)
    BY <1>1, ZenonT(30) DEF InFile
  <2>2. ASSUME NEW i \in 1..(n + 1) PROVE FirstIs(InFile(offsets'[i]), e[i])
    <3>1. CASE i = n + 1
      <4>1. InFile(itemsFileSize) = <<y, 0>>
        BY <1>1, NothingAssumption DEF Frame, Placed, y
      <4> QED BY <1>6, <1>8, <3>1, <4>1 DEF FirstIs
    <3>2. CASE i # n + 1
      <4>1. i \in 1..n
        BY <1>10, <3>2
      <4>2. FirstIs(InFile(offsets[i]), D[i])
        BY <1>2, <4>1 DEF Begun, n
      <4> QED BY <1>6, <1>8, <4>1, <4>2
    <3> QED BY <3>1, <3>2
  <2>3. ASSUME NEW i \in 1..(n + 1), i <= n PROVE FirstIs(items[offsets'[i]], e[i])
    <3>1. i \in 1..n
      BY <1>5, <2>3
    <3>2. FirstIs(items[offsets[i]], D[i])
      BY <1>1, <1>2, <3>1, NothingAssumption DEF Begun, n, y
    <3> QED BY <1>6, <1>8, <3>1, <3>2
  <2>4. count' # size' + 1
    BY <1>5 DEF n
  <2>5. \A i \in 1..(n + 1) : InFile(offsets[i])' = InFile(offsets'[i])
    BY <1>1, ZenonT(30) DEF InFile
  <2>6. \A i \in 1..(n + 1) : FirstIs(InFile(offsets[i]), D[i])'
    BY <1>4, <2>2, <2>5 DEF FirstIs
  <2>7. \A i \in 1..(n + 1) : i <= count' => FirstIs(items[offsets[i]], D[i])'
    BY <1>1, <1>4, <2>3, ZenonT(30) DEF FirstIs, n
  <2> QED BY <1>1, <2>4, <2>6, <2>7, ZenonT(30) DEF Begun, n
<1>13. SavedSo'
  BY <1>1, <1>2 DEF SavedSo, WholeFile
<1> QED BY <1>11, <1>12, <1>13 DEF Chain

\* popBlock takes the last block off the chain.
LEMMA ChainPop ==
    ASSUME Frame, Frame', Chain, popBlock, size >= 1, size' = size - 1, count' = size
    PROVE  Chain'
<1> SUFFICES ASSUME Sound' PROVE Chain'
  BY DEF Chain
<1> DEFINE n == size
           e == SubSeq(D, 1, n - 1)
<1>1. /\ Sound /\ UNCHANGED <<phase, saved, clean>> /\ phase = "up" /\ pushing = Nothing /\ pushing' = Nothing
      /\ UNCHANGED <<items, wItems>> /\ offsets' = SubSeq(offsets, 1, n - 1) /\ blocks' = SubSeq(blocks, 1, n - 1)
      /\ itemsFileSize' = offsets[n]
  BY DEF Sound, popBlock, pop_back
<1>2. Described /\ Begun /\ SavedSo
  BY <1>1 DEF Chain
<1>3. /\ D \in Seq(Items) /\ Len(D) = n /\ Linked(D) /\ derived = [f \in Files |-> D]
      /\ \A i \in 1..n : blocks[i] \in {D[i], Nothing}
  BY <1>2 DEF Described
<1>4. D' = e /\ derived' = [f \in Files |-> e]
  <2>1. derived' = [f \in Files |-> SubSeq(derived[f], 1, n - 1)] /\ "cache" \in Files
    BY DEF popBlock, Files
  <2> QED BY <1>3, <2>1 DEF D
<1>5. n \in Nat /\ n >= 1 /\ n - 1 \in 0..n /\ Len(blocks) = n /\ Len(offsets) = n /\ count \in (n - 1)..(n + 1)
  BY DEF Frame, Typed, Counted, size
<1>6. e \in Seq(Items) /\ Len(e) = n - 1 /\ Linked(e) /\ \A i \in 1..(n - 1) : e[i] = D[i]
  BY <1>3, <1>5, LinkedFront
<1>7. Fits(e, D[n])
  <2>1. D # <<>>
    BY <1>3, <1>5
  <2> QED BY <1>3, <2>1, LinkedLast
<1>8. /\ \A i \in 1..(n - 1) : blocks'[i] = blocks[i] /\ offsets'[i] = offsets[i]
  BY <1>1, <1>5 DEF Frame, Typed
<1> HIDE DEF e, n
<1>9. n \in 1..n /\ \A i \in 1..(n - 1) : i \in 1..n /\ i <= count
  BY <1>5 DEF Frame, Typed
<1>10. Described'
  <2>1. \A i \in 1..(n - 1) : blocks'[i] \in {e[i], Nothing}
    BY <1>3, <1>6, <1>8, <1>9
  <2> QED BY <1>1, <1>4, <1>6, <2>1 DEF Described, Linked, n
<1>11. Begun'
  <2>1. ASSUME NEW i \in 1..(n - 1) PROVE FirstIs(InFile(offsets[i]), D[i])' /\ FirstIs(items[offsets[i]], D[i])'
    <3>1. FirstIs(InFile(offsets[i]), D[i]) /\ FirstIs(items[offsets[i]], D[i])
      BY <1>2, <1>9, ZenonT(30) DEF Begun, n
    <3>2. InFile(offsets[i])' = InFile(offsets[i])
      BY <1>1, <1>8, ZenonT(30) DEF InFile
    <3> QED BY <1>1, <1>4, <1>6, <1>8, <3>1, <3>2, ZenonT(30) DEF FirstIs
  <2>2. FirstIs(InFile(offsets[n]), D[n])
    BY <1>2, <1>9 DEF Begun, n
  <2>3. InFile(itemsFileSize)' = InFile(offsets[n])
    BY <1>1 DEF InFile
  <2>4. FirstFits(InFile(itemsFileSize), D)'
    BY <1>4, <1>7, <2>2, <2>3 DEF FirstFits, FirstIs, Fits, TailId
  <2>5. ~PoppedUnwritten' => items'[itemsFileSize'] = InFile(offsets[n])
    <3>1. count' > size'
      BY <1>5 DEF n
    <3> QED BY <1>1, <3>1 DEF PoppedUnwritten, InFile
  <2>6. ~PoppedUnwritten' => FirstFits(items[itemsFileSize], D)'
    BY <1>4, <1>7, <2>2, <2>5 DEF FirstFits, FirstIs, Fits, TailId
  <2> QED BY <2>1, <2>4, <2>6 DEF Begun, n
<1>12. SavedSo'
  BY <1>1, <1>2, ZenonT(30) DEF SavedSo, WholeFile
<1> QED BY <1>10, <1>11, <1>12 DEF Chain

\* Whether the structures describe the blocks depends on these variables alone.
LEMMA DescribedSame == Described /\ UNCHANGED <<derived, offsets, blocks, pushing>> => Described'
BY DEF Described, D, size, Linked, Fits, TailId

\* Whether a push has begun as it should depends on these variables alone.
LEMMA BegunSame == Begun /\ UNCHANGED <<derived, offsets, itemsFileSize, pushing, count, items, wItems>> => Begun'
<1> SUFFICES ASSUME Begun, UNCHANGED <<derived, offsets, itemsFileSize, pushing, count, items, wItems>> PROVE Begun'
  OBVIOUS
<1>1. D' = D /\ size' = size /\ (PoppedUnwritten' <=> PoppedUnwritten)
  BY DEF D, size, PoppedUnwritten
<1>2. InFile(itemsFileSize)' = InFile(itemsFileSize) /\ \A i : InFile(offsets[i])' = InFile(offsets[i])
  BY DEF InFile
<1> QED BY <1>1, <1>2, ZenonT(30) DEF Begun, FirstIs, FirstFits, Fits, TailId

\* With the buffer of the item file on the disk, the disk holds what the program does.
LEMMA BegunFlushed ==
    ASSUME Frame, Begun, pushing = Nothing, FlushItems, wItems' = NoCells, count' \in {count, size},
           UNCHANGED <<offsets, itemsFileSize, pushing, derived>>
    PROVE  Begun' /\ ~PoppedUnwritten'
<1>1. D' = D /\ size' = size /\ ~PoppedUnwritten' /\ size \in Nat /\ count \in Nat
  BY DEF D, size, PoppedUnwritten, NoCells, Frame, Typed
<1>2. \A p \in Cells : InFile(p)' = InFile(p) /\ items'[p] = InFile(p)
  BY Flushed
<1>3. /\ \A i \in 1..size : offsets[i] \in Cells
      /\ count = size + 1 => itemsFileSize \in Cells
  BY Ends
<1>4. ASSUME NEW i \in 1..size PROVE FirstIs(InFile(offsets[i]), D[i])' /\ FirstIs(items[offsets[i]], D[i])'
  <2>1. PICK p : p = offsets[i]
    OBVIOUS
  <2>2. FirstIs(InFile(p), D[i])
    BY <2>1 DEF Begun
  <2>3. InFile(p)' = InFile(p) /\ items'[p] = InFile(p) /\ offsets'[i] = p
    BY <1>2, <1>3, <2>1
  <2>4. InFile(offsets[i])' = InFile(p) /\ items'[offsets'[i]] = InFile(p)
    BY <2>3 DEF InFile
  <2> QED BY <1>1, <2>2, <2>4 DEF FirstIs
<1>5. count' = size' + 1 => FirstFits(InFile(itemsFileSize), D)' /\ FirstFits(items[itemsFileSize], D)'
  <2> SUFFICES ASSUME count = size + 1 PROVE FirstFits(InFile(itemsFileSize), D)' /\ FirstFits(items[itemsFileSize], D)'
    BY <1>1
  <2>1. PICK p : p = itemsFileSize
    OBVIOUS
  <2>2. FirstFits(InFile(p), D)
    BY <2>1 DEF Begun
  <2>3. InFile(p)' = InFile(p) /\ items'[p] = InFile(p) /\ itemsFileSize' = p
    BY <1>2, <1>3, <2>1
  <2>4. InFile(itemsFileSize)' = InFile(p) /\ items'[itemsFileSize'] = InFile(p)
    BY <2>3 DEF InFile
  <2> QED BY <1>1, <2>2, <2>4 DEF FirstFits, Fits, TailId
<1> QED BY <1>1, <1>4, <1>5, ZenonT(30) DEF Begun

\* Reading a block, through the cache or the file, keeps the chain.
LEMMA ChainGet ==
    ASSUME Frame, Chain, NEW i \in 1..size, getBlock(i)
    PROVE  Chain'
<1> SUFFICES ASSUME Sound' PROVE Chain'
  BY DEF Chain
<1>1. /\ Sound /\ UNCHANGED <<phase, derived, saved, clean>> /\ phase = "up"
      /\ UNCHANGED <<count, offsets, itemsFileSize, blocks, pushing>> /\ pushing = Nothing
  BY Zenon DEF Sound, getBlock, ownVars, Hit, Miss, fileVars
<1>2. Described /\ Begun /\ SavedSo
  BY <1>1 DEF Chain
<1>3. Described'
  BY <1>1, <1>2, DescribedSame
<1>4. Begun'
  <2>1. CASE Hit(i)
    <3>1. UNCHANGED <<items, wItems>>
      BY <2>1 DEF Hit, fileVars
    <3> QED BY <1>1, <1>2, <3>1, BegunSame
  <2>2. CASE Miss(i)
    <3>1. FlushItems /\ wItems' = NoCells
      BY <2>2 DEF Miss
    <3> QED BY <1>1, <1>2, <3>1, BegunFlushed
  <2> QED BY <2>1, <2>2 DEF getBlock
<1>5. SavedSo'
  BY <1>1, <1>2 DEF SavedSo, WholeFile
<1> QED BY <1>3, <1>4, <1>5 DEF Chain

\* What storeCache writes is a complete file.
LEMMA CompleteWhole ==
    ASSUME Described, size \in Nat, size > 0, NEW f \in Files
    PROVE  WholeFile(Complete(f)) /\ Complete(f).chain = D
<1>1. D \in Seq(Items) /\ D # <<>> /\ Linked(D) /\ derived[f] = D
  BY DEF Described
<1>2. Complete(f).chain = D /\ Complete(f).last = TailId(D)
  BY <1>1 DEF Complete, D
<1> QED BY <1>1, <1>2 DEF WholeFile

\* Saving the caches and the indices keeps the chain: what is saved is what describes it.
LEMMA ChainStore ==
    ASSUME Frame, Shaped, Chain, storeCache \/ storeIndices
    PROVE  Chain'
<1> SUFFICES ASSUME Sound' PROVE Chain'
  BY DEF Chain
<1>1. /\ Sound /\ UNCHANGED derived /\ phase' \in {"cache", "indices"}
      /\ UNCHANGED <<items, wItems, count, offsets, itemsFileSize, blocks, pushing>>
  BY DEF Sound, storeCache, storeIndices, vectorVars, fileVars
<1>2. Described /\ Begun /\ SavedSo /\ size \in Nat /\ size > 0
  BY <1>1 DEF Chain, Frame, Typed, Shaped, storeCache, storeIndices
<1>3. Described'
  BY <1>1, <1>2, DescribedSame
<1>4. Begun'
  BY <1>1, <1>2, BegunSame
<1>5. SavedSo'
  <2>1. \A f \in Files : Complete(f)' = Complete(f)
    BY <1>1 DEF Complete, TailId
  <2>2. CASE storeCache
    <3>1. PICK front : front.whole = FALSE /\ saved' = [saved EXCEPT !["cache"] = front]
      BY <2>2, ZenonT(30) DEF storeCache, BrokenOff
    <3>2. saved'["cache"] = front /\ \A f \in Files \ {"cache"} : saved'[f] = saved[f]
      BY <3>1 DEF Shaped, Files
    <3>3. \A f \in Files : WholeFile(saved'[f])
      BY <1>2, <3>1, <3>2 DEF SavedSo, WholeFile
    <3>4. \A f \in Files : WholeFile(saved[f])'
      BY <3>3 DEF WholeFile
    <3> QED BY <2>2, <3>4 DEF SavedSo, storeCache
  <2>3. CASE storeIndices
    <3>1. PICK front : front.whole = FALSE /\ saved' = [saved EXCEPT !["cache"] = Complete("cache"), !["indices"] = front]
      BY <2>3, ZenonT(30) DEF storeIndices, BrokenOff
    <3>2. saved'["cache"] = Complete("cache") /\ saved'["indices"] = front /\ "cache" \in Files
      BY <3>1 DEF Shaped, Files
    <3>3. WholeFile(Complete("cache"))
      BY <1>2, <3>2, CompleteWhole
    <3>4. \A f \in Files : WholeFile(saved'[f])
      BY <3>1, <3>2, <3>3 DEF Files, WholeFile
    <3>5. \A f \in Files : WholeFile(saved[f])'
      BY <3>4 DEF WholeFile
    <3> QED BY <1>1, <2>1, <2>3, <3>2, <3>5, Zenon DEF SavedSo, storeIndices
  <2> QED BY <2>2, <2>3
<1> QED BY <1>3, <1>4, <1>5 DEF Chain

\* deinit keeps the chain, and leaves it whole on disk.
LEMMA ChainEnd ==
    ASSUME Frame, Shaped, Chain, deinit
    PROVE  Chain'
<1> SUFFICES ASSUME Sound' PROVE Chain'
  BY DEF Chain
<1>1. /\ Sound /\ UNCHANGED derived /\ phase = "indices" /\ phase' = "down"
      /\ FlushItems /\ wItems' = NoCells /\ UNCHANGED <<offsets, itemsFileSize, blocks, pushing>>
      /\ saved' = [saved EXCEPT !["indices"] = Complete("indices")]
  BY DEF Sound, deinit
<1>2. Described /\ Begun /\ SavedSo /\ size \in Nat /\ size > 0 /\ pushing = Nothing
  BY <1>1 DEF Chain, Frame, Typed, Shaped
<1>3. count' = size
  BY CountFlushed DEF deinit, Frame
<1>4. Described'
  BY <1>1, <1>2, DescribedSame
<1>5. Begun' /\ ~PoppedUnwritten'
  BY <1>1, <1>2, <1>3, BegunFlushed
<1>6. SavedSo'
  <2>1. \A f \in Files : Complete(f)' = Complete(f)
    BY <1>1 DEF Complete, TailId
  <2>2. \A f \in Files : saved'[f] = Complete(f)
    <3>1. saved["cache"] = Complete("cache")
      BY <1>1, <1>2 DEF SavedSo
    <3> QED BY <1>1, <3>1 DEF Shaped, Files
  <2>3. \A f \in Files : WholeFile(saved'[f])
    BY <1>2, <2>2, CompleteWhole
  <2>4. \A f \in Files : WholeFile(saved[f])'
    BY <2>3 DEF WholeFile
  <2> QED BY <1>1, <1>5, <2>1, <2>2, <2>4 DEF SavedSo
<1> QED BY <1>4, <1>5, <1>6 DEF Chain

\* A kill keeps the chain: what is on disk is what it was.
LEMMA ChainKill ==
    ASSUME Chain, Kill
    PROVE  Chain'
<1> SUFFICES ASSUME Sound' PROVE Chain'
  BY DEF Chain
<1>1. /\ Sound /\ UNCHANGED <<derived, saved>> /\ phase' = "down" /\ ~clean' /\ ~PoppedUnwritten
      /\ UNCHANGED <<items, wItems, count, offsets, itemsFileSize, blocks, pushing>>
  BY ZenonT(30) DEF Sound, Kill, vectorVars, fileVars
<1>2. Described /\ Begun /\ SavedSo
  BY <1>1 DEF Chain
<1>3. Described'
  BY <1>1, <1>2, DescribedSame
<1>4. Begun'
  BY <1>1, <1>2, BegunSame
<1>5. SavedSo'
  <2>1. ~PoppedUnwritten'
    BY <1>1 DEF PoppedUnwritten, size
  <2>2. \A f \in Files : WholeFile(saved[f])'
    BY <1>1, <1>2 DEF SavedSo, WholeFile
  <2> QED BY <1>1, <2>1, <2>2 DEF SavedSo
<1> QED BY <1>3, <1>4, <1>5 DEF Chain

\* A step that changes nothing keeps the chain.
LEMMA ChainStutter == Chain /\ UNCHANGED vars => Chain'
<1> SUFFICES ASSUME Chain, UNCHANGED vars, Sound PROVE Described' /\ Begun' /\ SavedSo'
  BY DEF Chain, Sound, vars
<1>1. /\ UNCHANGED <<derived, saved, phase, clean>>
      /\ UNCHANGED <<items, wItems, count, offsets, itemsFileSize, blocks, pushing>>
  BY DEF vars, vectorVars, fileVars
<1>2. Described /\ Begun /\ SavedSo
  BY DEF Chain
<1>3. Described'
  BY <1>1, <1>2, DescribedSame
<1>4. Begun'
  BY <1>1, <1>2, BegunSame
<1>5. SavedSo'
  <2>1. size' = size /\ (PoppedUnwritten' <=> PoppedUnwritten)
    BY <1>1 DEF size, PoppedUnwritten
  <2>2. \A f \in Files : Complete(f)' = Complete(f) /\ (WholeFile(saved[f])' <=> WholeFile(saved[f]))
    BY <1>1 DEF Complete, TailId, WholeFile
  <2>3. Complete("cache")' = Complete("cache")
    BY <2>2 DEF Files
  <2> QED BY <1>1, <1>2, <2>1, <2>2, <2>3 DEF SavedSo
<1> QED BY <1>3, <1>4, <1>5

-----------------------------------------------------------------------------
(* What a kill leaves of the blocks *)

\* While the files have agreed since they were opened: the items before the last are on the disk, and
\* the last is when the next has been written over the end of the file, or the buffer was flushed.
Filed ==
    /\ \A i \in 1..size : sizes[i] = Size[blocks[i]]
    /\ \A i \in 1..size : i < size \/ pushing # Nothing \/ count > size \/ DOMAIN wItems = {} => DiskLies(blocks[i], offsets[i])
    /\ grown => count <= size /\ (count = size => pushing # Nothing \/ DOMAIN wItems = {})
    /\ phase = "down" /\ clean => count = size /\ DOMAIN wItems = {}

Disk == intact => IInv /\ Filed

\* A node that was never started has nothing on disk.
LEMMA DiskInit == StorageInit => Disk
<1> SUFFICES ASSUME StorageInit PROVE Disk
  OBVIOUS
<1>1. IInv
  BY InitOK DEF StorageInit
<1>2. size = 0 /\ count = 0 /\ DOMAIN wItems = {}
  BY DEF StorageInit, Init, size, NoCells
<1> QED BY <1>1, <1>2 DEF Disk, Filed

\* What is true of the disk depends on these variables alone.
LEMMA DiskSame ==
    ASSUME Disk, UNCHANGED <<items, count, sizes, wItems, offsets, itemsFileSize, memory, pushing, blocks, intact, grown>>,
           phase' = "down" /\ clean' => phase = "down" /\ clean
    PROVE  Disk'
<1> SUFFICES ASSUME intact PROVE IInv' /\ Filed'
  BY DEF Disk
<1>1. IInv /\ Filed
  BY DEF Disk
<1>2. IInv'
  BY <1>1, LayoutSame DEF IInv, Types, InMemory
<1>3. Filed'
  BY <1>1, ZenonT(30) DEF Filed, size, DiskLies, Cells
<1> QED BY <1>2, <1>3

\* What lies where the buffer does not reach, or was flushed, is on the disk.
LEMMA LiesOnDisk ==
    ASSUME NEW x, NEW p, Lies(x, p), \A k \in 0..(Size[x] - 1) : items'[p + k] = InFile(p + k)
    PROVE  DiskLies(x, p)'
BY DEF Lies, DiskLies, Cells

\* Beginning to store a block leaves the stored blocks as they were.
LEMMA DiskWrite ==
    ASSUME Frame, Disk, NEW b \in Items, WriteBlock(b)
    PROVE  Disk'
<1> SUFFICES ASSUME intact PROVE IInv' /\ Filed'
  BY ZenonT(30) DEF Disk, WriteBlock, WriteItem
<1>1. IInv /\ Filed /\ WriteItem(b)
  BY DEF Disk, WriteBlock
<1>2. IInv'
  BY <1>1, WriteItemOK
<1>3. /\ phase' = "up" /\ grown' = grown /\ pushing' = b
      /\ UNCHANGED <<count, sizes, offsets, itemsFileSize, blocks>> /\ size' = size
  BY DEF WriteBlock, WriteItem, ownVars, size
<1>4. Written(b)
  BY <1>1, WriteItemWrites DEF Frame, Typed
<1>5. ASSUME NEW i \in 1..size PROVE DiskLies(blocks[i], offsets[i])'
  <2>1. i \in 1..Len(blocks) /\ blocks[i] \in Items /\ offsets[i] \in Nat /\ itemsFileSize \in Nat
    BY <1>1 DEF IInv, Types, size
  <2>2. Lies(blocks[i], offsets[i]) /\ offsets[i] + Size[blocks[i]] <= itemsFileSize
    BY <1>1, <2>1 DEF IInv, Layout, EndOf
  <2>3. PICK x \in Items, p \in Nat : x = blocks[i] /\ p = offsets[i]
    BY <2>1
  <2>4. ASSUME NEW k \in 0..(Size[x] - 1) PROVE items'[p + k] = InFile(p + k)
    <3>1. p + k \in Cells
      BY <2>2, <2>3 DEF Lies
    <3>2. Size[x] \in Nat
      BY SizeAssumption
    <3>3. p + k < itemsFileSize
      BY <2>1, <2>2, <2>3, <3>2, SMTT(30)
    <3> QED BY <1>4, <3>1, <3>3 DEF Written
  <2>5. DiskLies(x, p)'
    BY <2>2, <2>3, <2>4, LiesOnDisk, ZenonT(30)
  <2> QED BY <1>3, <2>3, <2>5 DEF DiskLies
<1>6. Filed'
  BY <1>1, <1>3, <1>5, NothingAssumption, ZenonT(30) DEF Filed
<1> QED BY <1>2, <1>6

\* pushBlock leaves the stored blocks as they were and adds one.
LEMMA DiskPush ==
    ASSUME Frame, Disk, pushBlock, size' = size + 1, count' = size
    PROVE  Disk'
<1> SUFFICES ASSUME intact PROVE IInv' /\ Filed'
  BY DEF Disk, pushBlock, WriteIndex
<1> DEFINE n == size
           y == pushing
<1>1. IInv /\ Filed /\ WriteIndex
  BY DEF Disk, pushBlock
<1>2. IInv'
  BY <1>1, WriteIndexOK
<1>3. /\ phase' = "up" /\ pushing' = Nothing /\ pushing # Nothing /\ UNCHANGED <<items, wItems>>
      /\ offsets' = Append(offsets, itemsFileSize) /\ blocks' = Append(blocks, y)
      /\ sizes' = [sizes EXCEPT ![n + 1] = Size[y]]
  BY DEF pushBlock, WriteIndex
<1>4. /\ n \in Nat /\ Len(blocks) = n /\ Len(offsets) = n /\ offsets \in Seq(Nat) /\ blocks \in Seq(Items)
      /\ itemsFileSize \in Nat /\ y \in Items /\ n + 1 \in 1..MaxItems /\ sizes \in [1..MaxItems -> 0..MaxCells] /\ MaxItems \in Nat
  BY <1>1, <1>3, BoundAssumption DEF IInv, Types, size, Frame, Typed, Placed
<1>5. /\ blocks'[n + 1] = y /\ \A i \in 1..n : blocks'[i] = blocks[i]
  BY <1>3, <1>4
<1>6. /\ offsets'[n + 1] = itemsFileSize /\ \A i \in 1..n : offsets'[i] = offsets[i]
  BY <1>3, <1>4, SMTT(30)
<1>7. sizes'[n + 1] = Size[y] /\ \A i \in 1..n : sizes'[i] = sizes[i]
  BY <1>3, <1>4
<1>8. Lies(y, itemsFileSize)
  BY <1>1, <1>3 DEF IInv, Layout
<1>9. \A i \in 1..n : DiskLies(blocks[i], offsets[i]) /\ sizes[i] = Size[blocks[i]]
  BY <1>1, <1>3 DEF Filed
<1> HIDE DEF n, y
<1>10. \A i \in 1..(n + 1) : i = n + 1 \/ i \in 1..n
  BY <1>4
<1>11. \A i \in 1..(n + 1) : sizes'[i] = Size[blocks'[i]]
  BY <1>5, <1>7, <1>9, <1>10
<1>12. ASSUME NEW i \in 1..(n + 1), i < n + 1 \/ DOMAIN wItems = {} PROVE DiskLies(blocks[i], offsets[i])'
  <2>1. CASE i = n + 1
    <3>1. \A p : items'[p] = InFile(p)
      BY <1>3, <1>4, <1>12, <2>1 DEF InFile
    <3>2. DiskLies(y, itemsFileSize)
      BY <1>8, <3>1, <1>3 DEF Lies, DiskLies
    <3> QED BY <1>3, <1>5, <1>6, <2>1, <3>2, ZenonT(30) DEF DiskLies, Cells
  <2>2. CASE i \in 1..n
    BY <1>3, <1>5, <1>6, <1>9, <2>2, ZenonT(30) DEF DiskLies, Cells
  <2> QED BY <1>10, <2>1, <2>2
<1>13. count' < size' /\ size' = n + 1
  BY <1>4 DEF n
<1>14. Filed'
  <2>1. ~(count' > size') /\ count' <= size' /\ count' # size'
    BY <1>4, <1>13 DEF n
  <2>2. \A i \in 1..size' : i < size' \/ DOMAIN wItems' = {} => DiskLies(blocks[i], offsets[i])'
    BY <1>3, <1>12, <1>13, ZenonT(30)
  <2> QED BY <1>3, <1>11, <1>13, <2>1, <2>2, Zenon DEF Filed
<1> QED BY <1>2, <1>14

\* popBlock leaves the stored blocks below the last as they were.
LEMMA DiskPop ==
    ASSUME Frame, Disk, popBlock, size >= 1, size' = size - 1, count' = size
    PROVE  Disk'
<1> SUFFICES ASSUME intact PROVE IInv' /\ Filed'
  BY DEF Disk, popBlock, pop_back
<1> DEFINE n == size
<1>1. IInv /\ Filed /\ pop_back
  BY DEF Disk, popBlock
<1>2. IInv'
  BY <1>1, PopOK
<1>3. /\ phase' = "up" /\ ~grown' /\ UNCHANGED <<items, wItems, sizes>>
      /\ offsets' = SubSeq(offsets, 1, n - 1) /\ blocks' = SubSeq(blocks, 1, n - 1)
  BY DEF popBlock, pop_back
<1>4. n \in Nat /\ Len(blocks) = n /\ Len(offsets) = n /\ offsets \in Seq(Nat) /\ blocks \in Seq(Items)
  BY <1>1 DEF IInv, Types, size
<1>5. \A i \in 1..(n - 1) : blocks'[i] = blocks[i] /\ offsets'[i] = offsets[i]
  BY <1>3, <1>4
<1> HIDE DEF n
<1>6. \A i \in 1..(n - 1) : i \in 1..n /\ i < n
  BY <1>4
<1>7. \A i \in 1..(n - 1) : DiskLies(blocks[i], offsets[i]) /\ sizes[i] = Size[blocks[i]]
  BY <1>1, <1>6 DEF Filed, n
<1>8. ASSUME NEW i \in 1..(n - 1) PROVE DiskLies(blocks[i], offsets[i])'
  <2>1. DiskLies(blocks'[i], offsets'[i])
    BY <1>5, <1>7
  <2> QED BY <1>3, <2>1, Zenon DEF DiskLies, Cells
<1>9. Filed'
  BY <1>3, <1>5, <1>7, <1>8, ZenonT(30) DEF Filed, n
<1> QED BY <1>2, <1>9

\* A flush of the item file, with that of the index or without
LEMMA FiledFlushed ==
    ASSUME Frame, IInv, Filed, pushing = Nothing, FlushItems, wItems' = NoCells,
           UNCHANGED <<sizes, offsets, blocks>>,
           (count' = count /\ grown' = grown) \/ count' = size, phase' = "down" => count' = size
    PROVE  Filed'
<1>1. size' = size /\ size \in Nat /\ count \in Nat /\ DOMAIN wItems' = {}
  BY DEF size, Frame, Typed, NoCells
<1>2. ASSUME NEW i \in 1..size PROVE DiskLies(blocks[i], offsets[i])'
  <2>1. i \in 1..Len(blocks)
    BY DEF IInv, Types, size
  <2>2. Lies(blocks[i], offsets[i])
    BY <2>1 DEF IInv, Layout
  <2>3. PICK x, p : x = blocks[i] /\ p = offsets[i]
    OBVIOUS
  <2>4. \A k \in 0..(Size[x] - 1) : items'[p + k] = InFile(p + k)
    BY <2>2, <2>3, Flushed DEF Lies
  <2>5. DiskLies(x, p)'
    BY <2>2, <2>3, <2>4, LiesOnDisk
  <2> QED BY <2>3, <2>5 DEF DiskLies
<1> QED BY <1>1, <1>2 DEF Filed

\* Reading a block may flush what was written, and writes nothing else.
LEMMA DiskGet ==
    ASSUME Frame, Disk, NEW i \in 1..size, getBlock(i)
    PROVE  Disk'
<1>1. phase' = "up" /\ grown' = grown /\ pushing = Nothing
  BY DEF getBlock, ownVars, Hit, Miss
<1> SUFFICES ASSUME intact PROVE IInv' /\ Filed'
  BY ZenonT(30) DEF Disk, getBlock, Hit, Miss
<1>2. IInv /\ Filed
  BY DEF Disk
<1>3. CASE Hit(i)
  <2>1. IInv'
    BY <1>2, <1>3, HitOK
  <2>2. UNCHANGED <<items, count, sizes, wItems, offsets, pushing, blocks>>
    BY <1>3 DEF Hit, fileVars
  <2>3. Filed'
    BY <1>1, <1>2, <2>2, ZenonT(30) DEF Filed, size, DiskLies, Cells
  <2> QED BY <2>1, <2>3
<1>4. CASE Miss(i)
  <2>1. IInv'
    BY <1>2, <1>4, MissOK
  <2>2. FlushItems /\ wItems' = NoCells /\ UNCHANGED <<count, sizes, offsets, blocks>>
    BY <1>4 DEF Miss
  <2>3. Filed'
    BY <1>1, <1>2, <2>2, FiledFlushed
  <2> QED BY <2>1, <2>3
<1> QED BY <1>3, <1>4 DEF getBlock

\* deinit flushes everything: the disk then holds all blocks.
LEMMA DiskEnd ==
    ASSUME Frame, Shaped, Disk, deinit
    PROVE  Disk'
<1> SUFFICES ASSUME intact PROVE IInv' /\ Filed'
  BY DEF Disk, deinit
<1>1. IInv /\ Filed
  BY DEF Disk
<1>2. /\ FlushItems /\ wItems' = NoCells /\ pushing = Nothing
      /\ UNCHANGED <<sizes, offsets, itemsFileSize, memory, pushing, blocks, intact>>
  BY DEF deinit, Shaped
<1>3. count' = size
  BY CountFlushed DEF deinit, Frame
<1>4. Filed'
  BY <1>1, <1>2, <1>3, FiledFlushed
<1>5. Layout'
  BY <1>1, <1>2, LayoutFlushed DEF IInv
<1> QED BY <1>1, <1>2, <1>4, <1>5 DEF IInv, Types, InMemory

\* Files that agree when they are opened
LEMMA DiskOpened ==
    ASSUME Frame, Frame', open, size' = count, StoredOffset' = StoredOffset, phase' # "down",
           intact' => \A i \in DOMAIN memory'.items : i \in 1..count /\ memory'.items[i] = Stored(i)
    PROVE  Disk'
<1> SUFFICES ASSUME intact' PROVE IInv' /\ Filed'
  BY DEF Disk
<1> DEFINE n == count
           f == StoredOffset
           s == blocks'
<1>1. /\ offsets' = [i \in 1..n |-> f[i]] /\ itemsFileSize' = f[n + 1] /\ s = [i \in 1..n |-> Stored(i)]
      /\ wItems' = NoCells /\ pushing' = Nothing /\ UNCHANGED <<items, count, sizes>>
  BY ZenonT(30) DEF open, StoredChain
<1>2. \A i \in 1..n : Stored(i) # Nothing /\ Size[Stored(i)] = sizes[i]
  BY ZenonT(30) DEF open
<1>3. intact' = TRUE
  BY <1>2 DEF open
<1>4. n \in 0..MaxItems /\ MaxItems \in Nat
  BY BoundAssumption DEF Frame, Typed
<1>5. /\ sizes \in [1..MaxItems -> Nat]
      /\ \A i \in 1..MaxItems : f[i + 1] = f[i] + sizes[i]
      /\ \A i \in 1..(MaxItems + 1) : f[i] \in Nat
  BY StoredOffsets DEF Frame
<1>6. ASSUME NEW i \in 1..n PROVE /\ s[i] \in Items /\ DiskLies(s[i], f[i]) /\ sizes[i] = Size[s[i]] /\ s[i] = Stored(i)
  <2>1. f[i] \in Nat /\ s[i] = Stored(i)
    BY <1>1, <1>4, <1>5
  <2> QED BY <1>2, <2>1, StoredLies
<1>7. /\ s \in Seq(Items) /\ Len(s) = n /\ offsets' \in Seq(Nat) /\ Len(offsets') = n
      /\ \A i \in 1..n : offsets'[i] = f[i]
  BY <1>1, <1>4, <1>5, <1>6
<1>8. ASSUME NEW i \in 1..MaxItems, NEW j \in 1..(MaxItems + 1), i < j PROVE f[i] + sizes[i] <= f[j]
  BY <1>5, <1>8, OffsetsGrow, Zenon DEF StoredOffset
<1> HIDE DEF n, f, s
<1>9. Types'
  <2>1. f[n + 1] \in Nat
    BY <1>4, <1>5
  <2> QED BY <1>1, <1>3, <1>7, <2>1, Zenon DEF Types, s
<1>10. Layout'
  <2>1. ASSUME NEW i \in 1..n PROVE /\ EndOf(i)' = f[i] + sizes[i] /\ EndOf(i)' = f[i + 1] /\ EndOf(i)' <= f[n + 1]
                                    /\ \A j \in 1..n : i < j => EndOf(i)' <= f[j]
    <3>1. i \in 1..MaxItems /\ n + 1 \in 1..(MaxItems + 1) /\ i < n + 1
      BY <1>4
    <3>2. EndOf(i)' = f[i] + sizes[i]
      BY <1>6, <1>7, ZenonT(30) DEF EndOf, s
    <3>3. f[i + 1] = f[i] + sizes[i] /\ f[i] + sizes[i] <= f[n + 1]
      BY <1>5, <1>8, <3>1, ZenonT(30)
    <3>4. \A j \in 1..n : j \in 1..(MaxItems + 1)
      BY <1>4
    <3> QED BY <1>8, <3>1, <3>2, <3>3, <3>4
  <2>2. ASSUME NEW i \in 1..n PROVE Lies(blocks[i], offsets[i])'
    <3>1. DiskLies(s[i], offsets'[i])
      BY <1>6, <1>7, Zenon
    <3>2. \A p : InFile(p)' = items[p]
      BY <1>1, ZenonT(30) DEF InFile, NoCells
    <3> QED BY <3>1, <3>2, ZenonT(30) DEF Lies, DiskLies, s, Cells
  <2>3. \A i \in 1..n : i < n => i + 1 \in 1..n
    BY <1>4
  <2>4. \A i \in 1..n : EndOf(i)' = IF i < n THEN offsets'[i + 1] ELSE itemsFileSize'
    <3> TAKE i \in 1..n
    <3>1. CASE i < n
      BY <1>7, <2>1, <2>3, <3>1, SMTT(30)
    <3>2. CASE ~(i < n)
      <4>1. i = n
        BY <1>4, <3>2
      <4> QED BY <1>1, <2>1, <3>2, <4>1 DEF n, f
    <3> QED BY <3>1, <3>2
  <2>5. \A i, j \in 1..n : i < j => EndOf(i)' <= offsets'[j]
    BY <1>7, <2>1, SMTT(30)
  <2>6. \A i \in 1..n : EndOf(i)' <= itemsFileSize'
    BY <1>1, <2>1 DEF n, f
  <2>7. Len(blocks') = n
    BY <1>7 DEF s
  <2> HIDE DEF s
  <2> QED BY <1>1, <2>2, <2>4, <2>5, <2>6, <2>7, Zenon DEF Layout
<1>11. InMemory'
  BY <1>6, <1>7 DEF InMemory, s, n
<1>12. Filed'
  <2>1. ASSUME NEW i \in 1..n PROVE DiskLies(blocks[i], offsets[i])' /\ sizes'[i] = Size[blocks'[i]]
    <3>1. DiskLies(blocks'[i], offsets'[i]) /\ sizes[i] = Size[blocks'[i]]
      BY <1>6, <1>7, ZenonT(30) DEF s
    <3> QED BY <1>1, <3>1, ZenonT(30) DEF DiskLies, Cells
  <2>2. count' = n /\ size' = n /\ DOMAIN wItems' = {} /\ count' <= size'
    BY <1>1, <1>4 DEF n, NoCells
  <2> QED BY <2>1, <2>2, ZenonT(30) DEF Filed
<1> QED BY <1>9, <1>10, <1>11, <1>12 DEF IInv

-----------------------------------------------------------------------------
(* Every step keeps it *)

StorageInv == Frame /\ Shaped /\ Chain /\ Disk

\* The pool of a vector just opened is empty.
LEMMA EmptyPool == ASSUME NEW n \in Nat PROVE Pool(EmptyMemory, n) /\ DOMAIN EmptyMemory.items = {}
BY PoolAssumption DEF Pool, EmptyMemory, Range, IsInjective

\* The pool caches items of the vector only.
LEMMA PoolIn == ASSUME NEW n \in Nat, NEW m, Pool(m, n) PROVE \A i \in DOMAIN m.items : i \in 1..n
BY DEF Pool, Range

\* init on stored blocks keeps the invariant.
LEMMA StepInit == StorageInv /\ init => StorageInv'
<1> SUFFICES ASSUME StorageInv, init PROVE StorageInv'
  OBVIOUS
<1>1. Frame /\ Shaped /\ Chain /\ Disk /\ open /\ wCount' = Nothing /\ phase' \in {"up", "failed"} /\ saved' = saved
  BY DEF StorageInv, init
<1>2. count \in Nat /\ count > 0
  BY <1>1, BoundAssumption DEF init, Frame, Typed
<1>3. /\ Pool(memory', count)
      /\ intact' => \A i \in DOMAIN memory'.items : i \in 1..count /\ memory'.items[i] = Stored(i)
  <2>1. CASE memory' = EmptyMemory
    BY <1>2, <2>1, EmptyPool
  <2>2. CASE memory' = MemoryAtStart
    <3>1. Reads(MemoryAtStart)
      BY <1>2, MemoryAtStartReads
    <3>2. \A i \in DOMAIN MemoryAtStart.items : i \in 1..count
      BY <1>2, <3>1, PoolIn DEF Reads
    <3> QED BY <2>2, <3>1, <3>2 DEF Reads
  <2> QED BY <2>1, <2>2 DEF init
<1>4. Frame' /\ size' = count /\ count' = count /\ StoredOffset' = StoredOffset
  BY <1>1, <1>3, FrameOpen, ZenonT(30)
<1>5. Shaped'
  BY <1>1 DEF Shaped
<1>6. Chain'
  BY <1>1, <1>4, ChainStart
<1>7. Disk'
  BY <1>1, <1>3, <1>4, DiskOpened
<1> QED BY <1>4, <1>5, <1>6, <1>7 DEF StorageInv

\* init on empty files keeps the invariant.
LEMMA StepInitEmpty == StorageInv /\ initEmpty => StorageInv'
<1> SUFFICES ASSUME StorageInv, initEmpty PROVE StorageInv'
  OBVIOUS
<1>1. /\ Frame /\ Shaped /\ Chain /\ Disk /\ open /\ wCount' = 0 /\ count = 0
      /\ memory' = EmptyMemory /\ phase' = "up" /\ saved' = saved
  BY DEF StorageInv, initEmpty
<1>2. Pool(memory', count) /\ DOMAIN memory'.items = {}
  BY <1>1, EmptyPool
<1>3. Frame' /\ size' = count /\ count' = count /\ StoredOffset' = StoredOffset
  BY <1>1, <1>2, FrameOpen
<1>4. Shaped'
  BY <1>1 DEF Shaped
<1>5. Chain'
  BY <1>1, <1>3, ChainEmpty
<1>6. Disk'
  BY <1>1, <1>2, <1>3, DiskOpened
<1> QED BY <1>3, <1>4, <1>5, <1>6 DEF StorageInv

\* Beginning to store a block keeps the invariant.
LEMMA StepWriteBlock == ASSUME StorageInv, NEW b \in Items, WriteBlock(b) PROVE StorageInv'
<1>1. Frame /\ Shaped /\ Chain /\ Disk /\ WriteItem(b) /\ phase' = "up" /\ saved' = saved
  BY DEF StorageInv, WriteBlock, ownVars
<1>2. Frame'
  BY <1>1, FrameWriteItem
<1>3. Shaped'
  BY <1>1 DEF Shaped
<1>4. Chain'
  BY <1>1, <1>2, ChainWrite
<1>5. Disk'
  BY <1>1, DiskWrite
<1> QED BY <1>2, <1>3, <1>4, <1>5 DEF StorageInv

\* pushBlock keeps the invariant.
LEMMA StepPushBlock == StorageInv /\ pushBlock => StorageInv'
<1> SUFFICES ASSUME StorageInv, pushBlock PROVE StorageInv'
  OBVIOUS
<1>1. Frame /\ Shaped /\ Chain /\ Disk /\ WriteIndex /\ phase' = "up" /\ saved' = saved
  BY DEF StorageInv, pushBlock
<1>2. Frame' /\ size' = size + 1 /\ count' = size
  BY <1>1, FrameWriteIndex
<1>3. Shaped'
  BY <1>1 DEF Shaped
<1>4. Chain'
  BY <1>1, <1>2, ChainPush
<1>5. Disk'
  BY <1>1, <1>2, DiskPush
<1> QED BY <1>2, <1>3, <1>4, <1>5 DEF StorageInv

\* popBlock keeps the invariant.
LEMMA StepPopBlock == StorageInv /\ popBlock => StorageInv'
<1> SUFFICES ASSUME StorageInv, popBlock PROVE StorageInv'
  OBVIOUS
<1>1. Frame /\ Shaped /\ Chain /\ Disk /\ pop_back /\ phase' = "up" /\ saved' = saved
  BY DEF StorageInv, popBlock
<1>2. Frame' /\ size >= 1 /\ size' = size - 1 /\ count' = size
  BY <1>1, FramePop
<1>3. Shaped'
  BY <1>1 DEF Shaped
<1>4. Chain'
  BY <1>1, <1>2, ChainPop
<1>5. Disk'
  BY <1>1, <1>2, DiskPop
<1> QED BY <1>2, <1>3, <1>4, <1>5 DEF StorageInv

\* Reading a block keeps the invariant.
LEMMA StepGetBlock == ASSUME StorageInv, NEW i \in 1..size, getBlock(i) PROVE StorageInv'
<1>1. Frame /\ Shaped /\ Chain /\ Disk /\ (Hit(i) \/ Miss(i)) /\ phase' = "up" /\ saved' = saved
  BY DEF StorageInv, getBlock, ownVars
<1>2. Frame'
  BY <1>1, FrameHit, FrameMiss
<1>3. Shaped'
  BY <1>1 DEF Shaped
<1>4. Chain'
  BY <1>1, ChainGet
<1>5. Disk'
  BY <1>1, DiskGet
<1> QED BY <1>2, <1>3, <1>4, <1>5 DEF StorageInv

\* Saving the caches or the indices keeps the invariant.
LEMMA StepStore == StorageInv /\ (storeCache \/ storeIndices) => StorageInv'
<1> SUFFICES ASSUME StorageInv, storeCache \/ storeIndices PROVE StorageInv'
  OBVIOUS
<1>1. Frame /\ Shaped /\ Chain /\ Disk
  BY DEF StorageInv
<1>2. /\ UNCHANGED FrameVars /\ UNCHANGED <<intact, grown>> /\ phase' \in {"cache", "indices"}
  BY DEF storeCache, storeIndices, vectorVars, fileVars, FrameVars
<1>3. Frame'
  BY <1>1, <1>2, FrameSame
<1>4. Shaped'
  <2>1. DOMAIN saved' = Files
    BY <1>1 DEF Shaped, storeCache, storeIndices
  <2>2. size > 0 /\ pushing = Nothing
    BY <1>1 DEF Shaped, storeCache, storeIndices
  <2> QED BY <1>2, <2>1, <2>2 DEF Shaped, FrameVars, size
<1>5. Chain'
  BY <1>1, ChainStore
<1>6. Disk'
  BY <1>1, <1>2, DiskSame DEF FrameVars
<1> QED BY <1>3, <1>4, <1>5, <1>6 DEF StorageInv

\* deinit keeps the invariant.
LEMMA StepDeinit == StorageInv /\ deinit => StorageInv'
<1> SUFFICES ASSUME StorageInv, deinit PROVE StorageInv'
  OBVIOUS
<1>1. Frame /\ Shaped /\ Chain /\ Disk
  BY DEF StorageInv
<1>2. /\ FlushItems /\ wItems' = NoCells /\ FlushCount /\ wCount' = Nothing /\ phase' = "down" /\ pushing = Nothing
      /\ UNCHANGED <<sizes, offsets, itemsFileSize, memory, pushing, blocks>>
  BY <1>1 DEF deinit, Shaped
<1>3. Pool(memory', size)
  BY <1>1, <1>2, Zenon DEF Frame
<1>4. Frame'
  BY <1>1, <1>2, <1>3, FrameFlush
<1>5. Shaped'
  BY <1>1, <1>2 DEF Shaped, deinit
<1>6. Chain'
  BY <1>1, ChainEnd
<1>7. Disk'
  BY <1>1, DiskEnd
<1> QED BY <1>4, <1>5, <1>6, <1>7 DEF StorageInv

\* A kill keeps the invariant.
LEMMA StepKill == StorageInv /\ Kill => StorageInv'
<1> SUFFICES ASSUME StorageInv, Kill PROVE StorageInv'
  OBVIOUS
<1>1. Frame /\ Shaped /\ Chain /\ Disk
  BY DEF StorageInv
<1>2. UNCHANGED FrameVars /\ UNCHANGED <<intact, grown, saved>> /\ phase' = "down" /\ clean' = FALSE
  BY DEF Kill, vectorVars, fileVars, FrameVars
<1>3. Frame'
  BY <1>1, <1>2, FrameSame
<1>4. Shaped'
  BY <1>1, <1>2 DEF Shaped
<1>5. Chain'
  BY <1>1, ChainKill
<1>6. Disk'
  BY <1>1, <1>2, DiskSame DEF FrameVars
<1> QED BY <1>3, <1>4, <1>5, <1>6 DEF StorageInv

\* The invariant depends on the variables of the specification alone.
LEMMA StepStutter == StorageInv /\ UNCHANGED vars => StorageInv'
<1> SUFFICES ASSUME StorageInv, UNCHANGED vars PROVE StorageInv'
  OBVIOUS
<1>1. Frame /\ Shaped /\ Chain /\ Disk
  BY DEF StorageInv
<1>2. UNCHANGED FrameVars /\ UNCHANGED <<intact, grown, saved, phase, clean, derived, torn>>
  BY DEF vars, vectorVars, fileVars, FrameVars
<1>3. Frame'
  BY <1>1, <1>2, FrameSame
<1>4. Shaped'
  BY <1>1, <1>2 DEF Shaped, FrameVars, size
<1>5. Chain'
  BY <1>1, ChainStutter
<1>6. Disk'
  BY <1>1, <1>2, DiskSame DEF FrameVars
<1> QED BY <1>3, <1>4, <1>5, <1>6 DEF StorageInv

\* The initial states satisfy the invariant.
LEMMA StorageInitOK == StorageInit => StorageInv
BY FrameInit, ChainInit, DiskInit DEF StorageInit, StorageInv

\* Every step keeps the invariant.
LEMMA StorageStep == StorageInv /\ [Next]_vars => StorageInv'
<1> SUFFICES ASSUME StorageInv, [Next]_vars PROVE StorageInv'
  OBVIOUS
<1>1. CASE init  BY <1>1, StepInit
<1>2. CASE initEmpty  BY <1>2, StepInitEmpty
<1>3. CASE \E b \in Items : WriteBlock(b)  BY <1>3, StepWriteBlock
<1>4. CASE pushBlock  BY <1>4, StepPushBlock
<1>5. CASE popBlock  BY <1>5, StepPopBlock
<1>6. CASE \E i \in 1..size : getBlock(i)  BY <1>6, StepGetBlock
<1>7. CASE storeCache \/ storeIndices  BY <1>7, StepStore
<1>8. CASE deinit  BY <1>8, StepDeinit
<1>9. CASE Kill  BY <1>9, StepKill
<1>10. CASE UNCHANGED vars  BY <1>10, StepStutter
<1> QED BY <1>1, <1>2, <1>3, <1>4, <1>5, <1>6, <1>7, <1>8, <1>9, <1>10 DEF Next

-----------------------------------------------------------------------------
(* What init, deinit and the kills between them never break *)

\* By the invariant, what the pool caches is what the file holds.
LEMMA InvCoherent == IInv => Coherent
<1> SUFFICES ASSUME IInv PROVE Coherent
  OBVIOUS
<1>1. \A i \in 1..Len(blocks) : Whole(blocks[i], offsets[i], InFile)
  BY DEF IInv, Layout, Lies, Whole
<1>2. \A i \in 1..Len(blocks) :
        offsets[i] + Size[blocks[i]] = (IF i < Len(blocks) THEN offsets[i + 1] ELSE itemsFileSize)
  BY Zenon DEF IInv, Layout, EndOf
<1>3. Len(offsets) = Len(blocks) /\ InMemory
  BY Zenon DEF IInv, Types
<1> QED BY <1>1, <1>2, <1>3, Zenon DEF Coherent, InMemory

\* Blockchain's m_blocks, closed, killed and opened again any number of times: when its files agree
\* at the start, its items lie in the file one after the other, and those in memory are the same.
THEOREM StorageCoherent == Spec => []Coherent
<1>1. StorageInv => Coherent
  BY InvCoherent, Zenon DEF StorageInv, Disk, Coherent
<1> QED BY StorageInitOK, StorageStep, <1>1, PTL DEF Spec

\* Every step that leaves the vector intact is a step of the plain vector, or changes nothing of
\* it.
LEMMA StorageRefines == StorageInv /\ [Next]_vars => [intact' => V!Next]_(V!vars)
<1> SUFFICES ASSUME StorageInv, [Next]_vars, intact' PROVE V!Next \/ UNCHANGED V!vars
  OBVIOUS
<1>1. CASE init \/ initEmpty
  <2>1. open
    BY <1>1 DEF init, initEmpty
  <2>2. StorageInv'
    BY <1>1, StepInit, StepInitEmpty
  <2>3. blocks' \in Seq(Items)
    BY <2>2 DEF StorageInv, Disk, IInv, Types
  <2>4. got' = <<>>
    BY <2>1 DEF open
  <2> QED BY <2>3, <2>4 DEF V!Next, V!reopen
<1>2. CASE (\E b \in Items : WriteBlock(b)) \/ pushBlock \/ popBlock \/ \E i \in 1..size : getBlock(i)
  <2>1. Operation /\ intact
    BY <1>2, ZenonT(30) DEF Operation, WriteBlock, pushBlock, popBlock, getBlock, WriteItem, WriteIndex, pop_back, Hit, Miss
  <2>2. IInv
    BY <2>1 DEF StorageInv, Disk
  <2> QED BY <2>1, <2>2, StepRefines
<1>3. CASE storeCache \/ storeIndices \/ deinit \/ Kill \/ UNCHANGED vars
  BY <1>3, ZenonT(30) DEF storeCache, storeIndices, deinit, Kill, vars, vectorVars, V!vars
<1> QED BY <1>1, <1>2, <1>3 DEF Next

\* Blockchain reads back from m_blocks what it pushed there: between two starts, the vector it uses
\* is the vector that SwappedVector stands for.
THEOREM StorageReadsBack == Spec => ReadsBack
<1>1. StorageInit => V!Init
  BY DEF StorageInit, Init, V!Init
<1> QED BY StorageInitOK, StorageStep, StorageRefines, <1>1, PTL DEF Spec, ReadsBack

\* The invariant includes the types.
LEMMA InvType == Frame /\ Shaped => TypeOK
<1> SUFFICES ASSUME Frame, Shaped PROVE TypeOK
  OBVIOUS
<1>1. offsets \in Seq(Cells) /\ itemsFileSize \in 0..MaxCells
  <2>1. \A i \in 1..size : offsets[i] \in Cells
    BY Ends
  <2>2. offsets \in Seq(Nat) /\ size = Len(offsets)
    BY DEF Frame, Typed, size
  <2> QED BY <2>1, <2>2, Ends, SMTT(30)
<1>2. wCount \in 0..MaxItems \cup {Nothing}
  BY DEF Frame, Typed, Counted
<1>3. DOMAIN wItems \subseteq Cells
  BY DEF Frame, Typed
<1> QED BY <1>1, <1>2, <1>3 DEF TypeOK, Frame, Typed, Pool, Shaped

\* By the invariant, a node no kill has torn has a chain, with its structures.
LEMMA InvDerived == StorageInv /\ ~torn => StartsLinked /\ DerivedFromBlocks
<1> SUFFICES ASSUME StorageInv, ~torn, Running, Readable
             PROVE  Linked(blocks) /\ \A f \in Files : derived[f] = blocks
  BY DEF StartsLinked, DerivedFromBlocks
<1>1. Described
  BY DEF StorageInv, Chain, Sound, Running
<1>2. /\ D \in Seq(Items) /\ Len(D) = size /\ Linked(D) /\ derived = [f \in Files |-> D]
      /\ \A i \in 1..size : blocks[i] \in {D[i], Nothing}
  BY <1>1 DEF Described
<1>3. blocks \in Seq(Items \cup {Nothing}) /\ Len(blocks) = size
  BY DEF StorageInv, Frame, Typed, size
<1>4. \A i \in 1..size : blocks[i] = D[i]
  BY <1>2, <1>3 DEF Readable, Range
<1>5. blocks = D
  <2>1. blocks = [i \in 1..size |-> blocks[i]] /\ D = [i \in 1..size |-> D[i]]
    BY <1>2, <1>3
  <2> QED BY <1>4, <2>1
<1> QED BY <1>2, <1>5

\* Started after deinit or after a kill at any moment, init accepts only a chain from the genesis
\* block on, and what it loads or rebuilds describes that chain, until the program ends, for any
\* blocks, of any sizes; unless a kill came between popBlock and the flush of the popped block.
THEOREM StartsOnItsChain == Spec => []DerivedActual
<1>1. StorageInv => DerivedActual
  BY InvType, InvDerived DEF StorageInv, DerivedActual
<1> QED BY StorageInitOK, StorageStep, <1>1, PTL DEF Spec

\* By the invariant, every block but one being stored is read back from the disk as it was pushed.
LEMMA InvStored ==
    ASSUME StorageInv, intact, NEW i \in 1..size, i < size \/ pushing # Nothing \/ count > size \/ DOMAIN wItems = {}
    PROVE  Stored(i) = blocks[i] /\ blocks[i] \in Items
<1>1. IInv /\ Filed /\ Frame
  BY DEF StorageInv, Disk
<1>2. DiskLies(blocks[i], offsets[i]) /\ blocks[i] \in Items
  BY <1>1 DEF Filed, IInv, Types, size
<1>3. offsets[i] = StoredOffset[i] /\ offsets[i] \in Nat
  BY <1>1 DEF Frame, Typed, Placed, size
<1> QED BY <1>2, <1>3, StoredIs

\* By the invariant, a kill loses at most the last block.
LEMMA InvDurable == StorageInv => Durable
<1> SUFFICES ASSUME StorageInv PROVE Durable
  OBVIOUS
<1>1. size \in Nat /\ count \in Nat /\ count \in (size - 1)..(size + 1)
  BY DEF StorageInv, Frame, Typed, Counted
<1>2. GrowthDurable
  <2> SUFFICES ASSUME intact, grown PROVE count \in (size - 1)..size /\ \A i \in 1..count : Stored(i) = blocks[i]
    BY DEF GrowthDurable
  <2>1. count <= size /\ (count = size => pushing # Nothing \/ DOMAIN wItems = {})
    BY ZenonT(30) DEF StorageInv, Disk, Filed
  <2>2. \A i \in 1..count : i \in 1..size /\ (i < size \/ pushing # Nothing \/ DOMAIN wItems = {})
    BY <1>1, <2>1
  <2>3. \A i \in 1..count : Stored(i) = blocks[i]
    BY <2>2, InvStored
  <2> QED BY <1>1, <2>1, <2>3
<1>3. LossBounded
  <2> SUFFICES ASSUME intact PROVE \A i \in 1..(count - 1) : Stored(i) = blocks[i]
    BY <1>1 DEF LossBounded
  <2>1. \A i \in 1..(count - 1) : i \in 1..size /\ (i < size \/ count > size)
    BY <1>1
  <2> QED BY <2>1, InvStored
<1>4. CleanEndKeepsAll
  <2> SUFFICES ASSUME phase = "down", clean, intact, ~torn, blocks # <<>> PROVE StoredChain = blocks /\ ~needRebuild
    BY DEF CleanEndKeepsAll
  <2>1. count = size /\ DOMAIN wItems = {}
    BY ZenonT(30) DEF StorageInv, Disk, Filed
  <2>2. \A i \in 1..size : Stored(i) = blocks[i] /\ blocks[i] \in Items
    BY <2>1, InvStored
  <2>3. blocks \in Seq(Items \cup {Nothing}) /\ Len(blocks) = size /\ size > 0
    BY <1>1 DEF StorageInv, Frame, Typed, size
  <2>4. StoredChain = blocks
    <3>1. blocks = [i \in 1..size |-> blocks[i]]
      BY <2>3
    <3> QED BY <2>1, <2>2, <3>1 DEF StoredChain
  <2>5. Described /\ SavedSo
    BY DEF StorageInv, Chain, Sound
  <2>6. size \in 1..size
    BY <1>1, <2>3
  <2>7. Stored(count) = TailId(derived["cache"])
    BY <2>1, <2>2, <2>5, <2>6, NothingAssumption DEF Described, TailId, D
  <2>8. \A f \in Files : saved[f] = Complete(f)
    BY <2>3, <2>5 DEF SavedSo
  <2>9. \A f \in Files : loaded(f)
    <3> TAKE f \in Files
    <3>1. saved[f].last = TailId(derived["cache"]) /\ saved[f].whole = TRUE
      <4>1. saved[f] = Complete(f)
        BY <2>8, Zenon
      <4>2. Complete(f).last = TailId(derived["cache"]) /\ Complete(f).whole = TRUE
        BY DEF Complete
      <4> QED BY <4>1, <4>2, Zenon
    <3> QED BY <2>7, <3>1 DEF loaded, Loads
  <2> QED BY <2>4, <2>9 DEF needRebuild, Files
<1> QED BY <1>2, <1>3, <1>4 DEF Durable

\* Whenever the program is killed, the disk has all blocks but the last that it counts, and all of
\* them while the chain grows, but for the last pushed; after deinit it has all, and nothing to
\* rebuild: push_back flushes an item before the number that counts it.
THEOREM LosesAtMostTheLast == Spec => []Durable
BY StorageInitOK, StorageStep, InvDurable, PTL DEF Spec
=============================================================================
