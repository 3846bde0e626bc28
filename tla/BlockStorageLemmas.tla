------------------------- MODULE BlockStorageLemmas --------------------------
(***************************************************************************)
(* For any items, sizes, pool and file: the two files and the pool of a    *)
(* SwappedVector are one vector, as long as they were opened in agreement; *)
(* and what stays true of its numbers, offsets and pool whatever is found  *)
(* in the files when they are opened.                                      *)
(***************************************************************************)
EXTENDS BlockStorage, NaturalsInduction, WellFoundedInduction, TLAPS

-----------------------------------------------------------------------------
(* Induction *)

\* Well-founded induction in the form the provers can use: a set of natural numbers that is
\* not empty has a least element.
LEMMA MinimalElement ==
    ASSUME NEW R, IsWellFoundedOn(R, Nat), NEW T, T \subseteq Nat, T # {}
    PROVE  \E m \in T : \A k \in T : ~(<<k, m>> \in R)
BY WFMin, Zenon

\* An element of a set of numbers that has none of the set before it is its least.
LEMMA MinimalIsLeast ==
    ASSUME NEW R, \A x, y \in Nat : x < y => <<x, y>> \in R, NEW T, T \subseteq Nat,
           NEW m \in T, \A k \in T : ~(<<k, m>> \in R)
    PROVE  \A k \in T : m <= k
<1> TAKE k \in T
<1>1. k \in Nat /\ m \in Nat
  OBVIOUS
<1>2. ~(k < m)
  BY <1>1, Zenon
<1> QED BY <1>1, <1>2

\* A set of numbers that is not empty has a least element.
LEMMA LeastElement ==
    ASSUME NEW T, T \subseteq Nat, T # {}
    PROVE  \E m \in T : \A k \in T : m <= k
<1>1. \A x, y \in Nat : x < y => <<x, y>> \in OpToRel(<, Nat)
  BY DEF OpToRel
<1>2. \E m \in T : \A k \in T : ~(<<k, m>> \in OpToRel(<, Nat))
  BY MinimalElement, NatLessThanWellFounded, Zenon
<1> QED BY <1>1, <1>2, MinimalIsLeast, Zenon

\* A set that has 0, and with a number its successor, has all natural numbers.
LEMMA Induction ==
    ASSUME NEW P, 0 \in P, \A n \in Nat : n \in P => n + 1 \in P
    PROVE  Nat \subseteq P
<1> SUFFICES ASSUME Nat \ P # {} PROVE FALSE
  OBVIOUS
<1>1. PICK m \in Nat \ P : \A k \in Nat \ P : m <= k
  BY LeastElement, Zenon
<1>2. m - 1 \in Nat /\ (m - 1) + 1 = m
  BY <1>1
<1>3. m - 1 \in P
  BY <1>1, <1>2
<1> QED BY <1>1, <1>2, <1>3

-----------------------------------------------------------------------------
(* The vector *)

Types ==
    /\ blocks \in Seq(Items) /\ offsets \in Seq(Nat) /\ Len(offsets) = Len(blocks)
    /\ itemsFileSize \in Nat /\ pushing \in Items \cup {Nothing} /\ intact = TRUE

\* item x lies whole at p
Lies(x, p) == \A k \in 0..(Size[x] - 1) : p + k \in Cells /\ InFile(p + k) = <<x, k>>

\* the end of the i-th item
EndOf(i) == offsets[i] + Size[blocks[i]]

(***************************************************************************)
(* An item ends before every later one and before the end of the file: so  *)
(* what is written there, over popped items too, touches none of them.     *)
(***************************************************************************)
Layout ==
    /\ \A i \in 1..Len(blocks) : Lies(blocks[i], offsets[i]) /\ EndOf(i) <= itemsFileSize
    /\ \A i, j \in 1..Len(blocks) : i < j => EndOf(i) <= offsets[j]
    /\ \A i \in 1..Len(blocks) : EndOf(i) = IF i < Len(blocks) THEN offsets[i + 1] ELSE itemsFileSize
    /\ pushing # Nothing => Lies(pushing, itemsFileSize)

InMemory == \A i \in DOMAIN memory.items : i \in 1..Len(blocks) /\ memory.items[i] = blocks[i]

IInv == Types /\ Layout /\ InMemory

\* Only one item lies at a place.
LEMMA OneLies ==
    ASSUME NEW x \in Items, NEW y \in Items, NEW p \in Nat, Lies(x, p), Lies(y, p)
    PROVE  x = y
<1>1. Size[x] \in Nat \ {0} /\ Size[y] \in Nat \ {0}  BY SizeAssumption
<1>2. 0 \in 0..(Size[x] - 1) /\ 0 \in 0..(Size[y] - 1)  BY <1>1
<1>3. <<x, 0>> = <<y, 0>>  BY <1>2 DEF Lies
<1> QED BY <1>3

\* What operator[] reads at the place of an item is the item.
LEMMA ReadsWhatLies ==
    ASSUME NEW x \in Items, NEW p \in Nat, Lies(x, p)
    PROVE  Deserialized(p, InFile) = x
<1> DEFINE W(y) == Whole(y, p, InFile)
<1>1. \A y \in Items : W(y) <=> Lies(y, p)  BY DEF Whole, Lies
<1>2. W(x)  BY <1>1
<1>3. \A y \in Items : W(y) => y = x  BY <1>1, OneLies
<1>4. (CHOOSE y \in Items : W(y)) = x
  <2> HIDE DEF W
  <2> QED BY <1>2, <1>3
<1> QED BY <1>2, <1>4 DEF Deserialized

\* A SwappedVector just opened on empty files satisfies the invariant.
LEMMA InitOK == Init => IInv
BY BoundAssumption DEF Init, IInv, Types, Layout, InMemory, EmptyMemory

\* push_back, its item: it lies at the end of the file, and nothing before the end changes.
Written(x) ==
    /\ \A p \in Cells : p < itemsFileSize => InFile(p)' = InFile(p) /\ items'[p] = InFile(p)
    /\ \A k \in 0..(Size[x] - 1) : itemsFileSize + k \in Cells
    /\ \A p \in itemsFileSize..(itemsFileSize + Size[x] - 1) : InFile(p)' = <<x, p - itemsFileSize>>
    /\ itemsFileSize \in Cells /\ items'[itemsFileSize] \in {<<x, 0>>, InFile(itemsFileSize)}

\* What push_back writes to the items file lies behind the items, whole, and changes none of them.
LEMMA WriteItemWrites ==
    ASSUME itemsFileSize \in Nat, NEW x \in Items, WriteItem(x)
    PROVE  Written(x)
<1> DEFINE F == itemsFileSize
           S == Size[x]
<1>1. PICK n \in 0..S :
         /\ items' = [p \in Cells |-> IF p \in F..(F + n - 1) THEN <<x, p - F>> ELSE InFile(p)]
         /\ wItems' = [p \in (F + n)..(F + S - 1) |-> <<x, p - F>>]
  BY DEF WriteItem
<1>2. S \in Nat \ {0} /\ F \in Nat /\ n \in Nat /\ n <= S /\ F + S <= MaxCells
  BY SizeAssumption DEF WriteItem
<1> HIDE DEF F, S
<1>3. \A p \in Cells : p \in Nat /\ p < MaxCells
  BY BoundAssumption DEF Cells
<1>4. \A p \in Nat : p < MaxCells => p \in Cells
  BY BoundAssumption DEF Cells
<1>5. ASSUME NEW p \in Cells, p < F PROVE InFile(p)' = InFile(p) /\ items'[p] = InFile(p)
  <2>1. p \notin (F + n)..(F + S - 1) /\ p \notin F..(F + n - 1)
    BY <1>2, <1>3, <1>5
  <2>2. p \notin DOMAIN wItems' /\ items'[p] = InFile(p)
    BY <1>1, <2>1
  <2> QED BY <2>2 DEF InFile
<1>6. ASSUME NEW p \in F..(F + S - 1) PROVE p \in Cells /\ InFile(p)' = <<x, p - F>>
  <2>1. p \in Cells
    BY <1>2, <1>4, BoundAssumption
  <2>2. CASE p \in F..(F + n - 1)
    <3>1. p \notin (F + n)..(F + S - 1)
      BY <1>2, <2>2
    <3>2. p \notin DOMAIN wItems' /\ items'[p] = <<x, p - F>>
      BY <1>1, <2>1, <2>2, <3>1
    <3> QED BY <2>1, <3>2 DEF InFile
  <2>3. CASE p \notin F..(F + n - 1)
    <3>1. p \in (F + n)..(F + S - 1)
      BY <1>2, <2>3
    <3>2. p \in DOMAIN wItems' /\ wItems'[p] = <<x, p - F>>
      BY <1>1, <3>1
    <3> QED BY <2>1, <3>2 DEF InFile
  <2> QED BY <2>2, <2>3
<1>7. \A k \in 0..(S - 1) : F + k \in F..(F + S - 1)
  BY <1>2
<1>8. F \in Cells /\ items'[F] \in {<<x, 0>>, InFile(F)}
  <2>1. F \in F..(F + S - 1) /\ F - F = 0
    BY <1>2
  <2>2. F \in Cells
    BY <1>6, <2>1
  <2> QED BY <1>1, <2>1, <2>2
<1> QED BY <1>5, <1>6, <1>7, <1>8, Zenon DEF Written, F, S

\* The first write of push_back keeps the invariant.
LEMMA WriteItemOK == IInv /\ (\E x \in Items : WriteItem(x)) => IInv'
<1> SUFFICES ASSUME IInv, NEW x \in Items, WriteItem(x) PROVE IInv'
  OBVIOUS
<1> USE DEF IInv, Types
<1>1. Written(x)
  BY WriteItemWrites
<1>2. /\ pushing' = x /\ UNCHANGED <<offsets, itemsFileSize, memory, blocks, intact>>
  BY DEF WriteItem
<1>3. Size[x] \in Nat \ {0}  BY SizeAssumption
<1>4. \A p \in Cells : p < itemsFileSize => InFile(p)' = InFile(p)
  BY <1>1, Zenon DEF Written
<1>5. Lies(x, itemsFileSize)'
  <2> SUFFICES ASSUME NEW k \in 0..(Size[x] - 1)
               PROVE  itemsFileSize + k \in Cells /\ InFile(itemsFileSize + k)' = <<x, k>>
    BY <1>2 DEF Lies, Cells
  <2>0. PICK p \in Nat : p = itemsFileSize + k
    OBVIOUS
  <2>1. p \in Cells  BY <1>1, <2>0 DEF Written
  <2>2. p \in itemsFileSize..(itemsFileSize + Size[x] - 1) /\ p - itemsFileSize = k  BY <1>3, <2>0
  <2>3. \A q \in itemsFileSize..(itemsFileSize + Size[x] - 1) : InFile(q)' = <<x, q - itemsFileSize>>
    BY <1>1 DEF Written
  <2>4. InFile(p)' = <<x, k>>
    BY <2>2, <2>3
  <2> QED BY <1>2, <2>0, <2>1, <2>4 DEF InFile
<1>6. \A i \in 1..Len(blocks) : Lies(blocks[i], offsets[i])'
  <2> SUFFICES ASSUME NEW i \in 1..Len(blocks), NEW k \in 0..(Size[blocks[i]] - 1)
               PROVE  offsets[i] + k \in Cells /\ InFile(offsets[i] + k)' = <<blocks[i], k>>
    BY <1>2 DEF Lies, Cells
  <2>1. offsets[i] + k \in Cells /\ InFile(offsets[i] + k) = <<blocks[i], k>>  BY DEF Layout, Lies
  <2>2. offsets[i] + k < itemsFileSize
    <3>1. blocks[i] \in Items /\ offsets[i] \in Nat  OBVIOUS
    <3>2. Size[blocks[i]] \in Nat /\ EndOf(i) <= itemsFileSize  BY <3>1, SizeAssumption DEF Layout
    <3> QED BY <3>1, <3>2, SMTT(30) DEF EndOf
  <2> QED BY <1>2, <1>4, <2>1, <2>2
<1>7. Layout'
  <2>1. \A i \in 1..Len(blocks) : EndOf(i)' = EndOf(i)  BY <1>2 DEF EndOf
  <2> QED BY <1>2, <1>5, <1>6, <2>1 DEF Layout
<1> QED BY <1>2, <1>7 DEF InMemory

\* push_back, its index: the item written becomes the last.
LEMMA WriteIndexOK == IInv /\ WriteIndex => IInv'
<1> SUFFICES ASSUME IInv, WriteIndex PROVE IInv'
  OBVIOUS
<1> USE DEF IInv, Types
<1>0. PICK n \in Nat : n = Len(blocks)
  OBVIOUS
<1>1. /\ pushing \in Items /\ pushing' = Nothing
      /\ offsets' = Append(offsets, itemsFileSize) /\ blocks' = Append(blocks, pushing)
      /\ itemsFileSize' = itemsFileSize + Size[pushing] /\ memory' = prepare(memory, n + 1, pushing)
      /\ UNCHANGED <<items, wItems, intact>>
  BY <1>0 DEF WriteIndex, size
<1>2. Size[pushing] \in Nat \ {0}  BY <1>1, SizeAssumption
<1>3. Types'  BY <1>1, <1>2
<1>4. \A i \in 1..n : blocks'[i] = blocks[i] /\ offsets'[i] = offsets[i] /\ EndOf(i)' = EndOf(i)
  BY <1>0, <1>1 DEF EndOf
<1>5. blocks'[n + 1] = pushing /\ offsets'[n + 1] = itemsFileSize /\ EndOf(n + 1)' = itemsFileSize'
  BY <1>0, <1>1 DEF EndOf
<1>6. \A x, p : Lies(x, p)' <=> Lies(x, p)  BY <1>1 DEF Lies, InFile, Cells
<1>7. \A i \in 1..n : EndOf(i) \in Nat /\ EndOf(i) <= itemsFileSize
  <2> TAKE i \in 1..n
  <2>1. offsets[i] \in Nat /\ Size[blocks[i]] \in Nat  BY <1>0, SizeAssumption
  <2> QED BY <1>0, <2>1 DEF EndOf, Layout
<1>8. Len(blocks') = n + 1 /\ n \in Nat  BY <1>0, <1>1
<1>9. Layout'
  <2>1. \A i \in 1..(n + 1) : Lies(blocks[i], offsets[i])' /\ EndOf(i)' <= itemsFileSize'
    <3> TAKE i \in 1..(n + 1)
    <3>1. CASE i = n + 1
      <4>1. Lies(pushing, itemsFileSize)  BY <1>1, NothingAssumption DEF Layout
      <4>2. Lies(blocks'[i], offsets'[i])  BY <1>5, <3>1, <4>1
      <4>3. Lies(blocks[i], offsets[i])'  BY <1>1, <4>2, Zenon DEF Lies, InFile, Cells
      <4>4. EndOf(i)' = itemsFileSize' /\ itemsFileSize' \in Nat  BY <1>3, <1>5, <3>1
      <4> QED BY <4>3, <4>4
    <3>2. CASE i \in 1..n
      <4>1. Lies(blocks[i], offsets[i])'  BY <1>0, <1>4, <1>6, <3>2, Zenon DEF Layout
      <4>2. EndOf(i)' <= itemsFileSize'  BY <1>1, <1>2, <1>4, <1>7, <3>2, SMTT(30)
      <4> QED BY <4>1, <4>2
    <3> QED BY <1>8, <3>1, <3>2
  <2>2. \A i, j \in 1..(n + 1) : i < j => EndOf(i)' <= offsets'[j]
    <3> SUFFICES ASSUME NEW i \in 1..(n + 1), NEW j \in 1..(n + 1), i < j PROVE EndOf(i)' <= offsets'[j]
      OBVIOUS
    <3>1. i \in 1..n  BY <1>8
    <3>2. CASE j = n + 1  BY <1>4, <1>5, <1>7, <3>1, <3>2
    <3>3. CASE j \in 1..n  BY <1>0, <1>4, <3>1, <3>3, Zenon DEF Layout
    <3> QED BY <1>8, <3>2, <3>3
  <2>3. \A i \in 1..(n + 1) : EndOf(i)' = IF i < n + 1 THEN offsets'[i + 1] ELSE itemsFileSize'
    <3> TAKE i \in 1..(n + 1)
    <3>1. CASE i = n + 1  BY <1>5, <1>8, <3>1
    <3>2. CASE i = n  BY <1>0, <1>4, <1>5, <1>8, <3>2 DEF Layout
    <3>3. CASE i \in 1..(n - 1)
      <4>1. i \in 1..n /\ i + 1 \in 1..n /\ i < n  BY <1>8, <3>3
      <4> QED BY <1>0, <1>4, <1>8, <4>1, SMTT(30) DEF Layout
    <3> QED BY <1>8, <3>1, <3>2, <3>3
  <2> QED BY <1>1, <1>8, <2>1, <2>2, <2>3 DEF Layout
<1>10. InMemory'
  <2> SUFFICES ASSUME NEW i \in DOMAIN memory'.items
               PROVE  i \in 1..(n + 1) /\ memory'.items[i] = blocks'[i]
    BY <1>8 DEF InMemory
  <2>1. i = n + 1 \/ i \in DOMAIN memory.items  BY <1>1 DEF prepare
  <2>2. memory'.items[i] = IF i = n + 1 THEN pushing ELSE memory.items[i]  BY <1>1 DEF prepare
  <2> QED BY <1>0, <1>4, <1>5, <1>8, <2>1, <2>2 DEF InMemory
<1> QED BY <1>3, <1>9, <1>10

\* pop_back: the file ends where the popped item began.
LEMMA PopOK == IInv /\ pop_back => IInv'
<1> SUFFICES ASSUME IInv, pop_back PROVE IInv'
  OBVIOUS
<1> USE DEF IInv, Types
<1>0. PICK n \in Nat \ {0} : n = Len(blocks)
  BY DEF pop_back
<1>1. /\ pushing' = Nothing
      /\ offsets' = SubSeq(offsets, 1, n - 1) /\ blocks' = SubSeq(blocks, 1, n - 1)
      /\ itemsFileSize' = offsets[n] /\ memory' = Drop(memory, n)
      /\ UNCHANGED <<items, wItems, intact>>
  BY <1>0 DEF pop_back, size
<1>2. Types' /\ Len(blocks') = n - 1  BY <1>0, <1>1, SMTT(30)
<1>3. \A i \in 1..(n - 1) : blocks'[i] = blocks[i] /\ offsets'[i] = offsets[i] /\ EndOf(i)' = EndOf(i)
  BY <1>0, <1>1 DEF EndOf
<1>4. \A i \in 1..(n - 1) : Lies(blocks[i], offsets[i])'
  <2> TAKE i \in 1..(n - 1)
  <2>1. Lies(blocks'[i], offsets'[i])  BY <1>0, <1>3, SMTT(30) DEF Layout
  <2> QED BY <1>1, <2>1, SMTT(30) DEF Lies, InFile, Cells
<1>5. \A i \in 1..(n - 1) : EndOf(i)' <= itemsFileSize'
  <2> TAKE i \in 1..(n - 1)
  <2>1. i \in 1..n /\ n \in 1..n /\ i < n  BY <1>0
  <2>2. EndOf(i) <= offsets[n]  BY <1>0, <2>1 DEF Layout
  <2> QED BY <1>1, <1>3, <2>2, Zenon
<1>6. \A i \in 1..(n - 1) : EndOf(i)' = IF i < n - 1 THEN offsets'[i + 1] ELSE itemsFileSize'
  <2> TAKE i \in 1..(n - 1)
  <2>1. i \in 1..n /\ i + 1 \in 1..n /\ i < n  BY <1>0
  <2>2. EndOf(i) = offsets[i + 1]  BY <1>0, <2>1 DEF Layout
  <2>3. CASE i < n - 1
    <3>1. i + 1 \in 1..(n - 1)  BY <1>0, <2>3
    <3> QED BY <1>3, <2>2, <2>3, <3>1
  <2>4. CASE i = n - 1
    <3>1. i + 1 = n  BY <1>0, <2>4
    <3> QED BY <1>1, <1>3, <2>2, <2>4, <3>1
  <2> QED BY <1>0, <2>3, <2>4
<1>7. Layout'
  <2>1. \A i, j \in 1..(n - 1) : i < j => EndOf(i)' <= offsets'[j]
    <3> SUFFICES ASSUME NEW i \in 1..(n - 1), NEW j \in 1..(n - 1), i < j PROVE EndOf(i)' <= offsets'[j]
      OBVIOUS
    <3>1. i \in 1..n /\ j \in 1..n  BY <1>0
    <3> QED BY <1>0, <1>3, <3>1, Zenon DEF Layout
  <2>2. Len(blocks') = n - 1
    BY <1>2
  <2>3. \A i \in 1..Len(blocks') : Lies(blocks[i], offsets[i])' /\ EndOf(i)' <= itemsFileSize'
    BY <1>4, <1>5, <2>2, Zenon
  <2>4. \A i, j \in 1..Len(blocks') : i < j => EndOf(i)' <= offsets'[j]
    BY <2>1, <2>2, Zenon
  <2>5. \A i \in 1..Len(blocks') : EndOf(i)' = IF i < Len(blocks') THEN offsets'[i + 1] ELSE itemsFileSize'
    BY <1>6, <2>2, Zenon
  <2> HIDE DEF IInv, Types
  <2>6. ~(pushing' # Nothing)
    BY <1>1
  <2> QED BY <2>3, <2>4, <2>5, <2>6 DEF Layout
<1>8. InMemory'
  <2> SUFFICES ASSUME NEW i \in DOMAIN memory'.items
               PROVE  i \in 1..(n - 1) /\ memory'.items[i] = blocks'[i]
    BY <1>2 DEF InMemory
  <2>1. i \in DOMAIN memory.items /\ i # n /\ memory'.items[i] = memory.items[i]  BY <1>1 DEF Drop
  <2>2. i \in 1..n  BY <1>0, <2>1 DEF InMemory
  <2>3. i \in 1..(n - 1)  BY <1>0, <2>1, <2>2
  <2>4. memory.items[i] = blocks[i]  BY <2>1 DEF InMemory
  <2> QED BY <1>3, <2>1, <2>3, <2>4
<1> QED BY <1>2, <1>7, <1>8

\* The layout of the items file depends on the files, the offsets and the push under way alone.
LEMMA LayoutSame == Layout /\ UNCHANGED <<items, wItems, offsets, itemsFileSize, pushing, blocks>> => Layout'
<1> SUFFICES ASSUME Layout, UNCHANGED <<items, wItems, offsets, itemsFileSize, pushing, blocks>> PROVE Layout'
  OBVIOUS
<1>1. \A i : EndOf(i)' = EndOf(i)  BY DEF EndOf
<1>2. \A i \in 1..Len(blocks) : Lies(blocks[i], offsets[i])'
  <2> TAKE i \in 1..Len(blocks)
  <2>1. Lies(blocks'[i], offsets'[i])  BY DEF Layout
  <2> QED BY <2>1, Zenon DEF Lies, InFile, Cells
<1>3. pushing' # Nothing => Lies(pushing, itemsFileSize)'
  <2>1. pushing' # Nothing => Lies(pushing', itemsFileSize')  BY DEF Layout
  <2> QED BY <2>1 DEF Lies, InFile, Cells
<1> QED BY <1>1, <1>2, <1>3 DEF Layout

\* The seek of the item file: its buffer is on the disk, and the program reads what it did.
LEMMA Flushed ==
    ASSUME FlushItems, wItems' = NoCells
    PROVE  \A p \in Cells : InFile(p)' = InFile(p) /\ items'[p] = InFile(p)
<1> TAKE p \in Cells
<1>1. p \notin DOMAIN wItems' /\ items'[p] = InFile(p)
  BY DEF FlushItems, NoCells
<1> QED BY <1>1 DEF InFile

\* Flushing what was written of the items keeps their layout.
LEMMA LayoutFlushed ==
    ASSUME Layout, FlushItems, wItems' = NoCells, UNCHANGED <<offsets, itemsFileSize, pushing, blocks>>
    PROVE  Layout'
<1>1. ASSUME NEW x, NEW p, Lies(x, p) PROVE Lies(x, p)'
  <2> SUFFICES ASSUME NEW k \in 0..(Size[x] - 1) PROVE p + k \in Cells /\ InFile(p + k)' = <<x, k>>
    BY DEF Lies, Cells
  <2>1. p + k \in Cells /\ InFile(p + k) = <<x, k>>  BY <1>1 DEF Lies
  <2> QED BY <2>1, Flushed
<1>2. \A j \in 1..Len(blocks) : Lies(blocks[j], offsets[j])'
  <2> TAKE j \in 1..Len(blocks)
  <2>1. Lies(blocks'[j], offsets'[j])  BY DEF Layout
  <2> QED BY <1>1, <2>1
<1>3. pushing' # Nothing => Lies(pushing, itemsFileSize)'
  <2> SUFFICES ASSUME pushing' # Nothing PROVE Lies(pushing, itemsFileSize)'
    OBVIOUS
  <2>1. Lies(pushing', itemsFileSize')  BY DEF Layout
  <2> QED BY <1>1, <2>1
<1>4. \A j : EndOf(j)' = EndOf(j)  BY DEF EndOf
<1> QED BY <1>2, <1>3, <1>4 DEF Layout

\* operator[] of an item in memory
LEMMA HitOK == ASSUME NEW i \in 1..size, IInv, Hit(i) PROVE IInv' /\ got' = <<i, blocks[i]>>
<1> USE DEF IInv, Types
<1>1. /\ UNCHANGED <<items, wItems, offsets, itemsFileSize, pushing, blocks, intact>>
      /\ i \in DOMAIN memory.items /\ memory' = touch(memory, i) /\ got' = <<i, memory.items[i]>>
  BY DEF Hit, fileVars, Cached
<1>2. Layout'  BY <1>1, LayoutSame
<1>3. InMemory' /\ memory.items[i] = blocks[i]
  <2>1. memory'.items = memory.items  BY <1>1 DEF touch
  <2> QED BY <1>1, <2>1 DEF InMemory
<1> QED BY <1>1, <1>2, <1>3

\* operator[] of an item that was swapped out
LEMMA MissOK == ASSUME NEW i \in 1..size, IInv, Miss(i) PROVE IInv' /\ got' = <<i, blocks[i]>>
<1> USE DEF IInv, Types
<1>0. i \in 1..Len(blocks) /\ blocks[i] \in Items /\ offsets[i] \in Nat  BY DEF size
<1>1. Deserialized(offsets[i], InFile) = blocks[i]
  <2>1. Lies(blocks[i], offsets[i])  BY <1>0 DEF Layout
  <2> QED BY <1>0, <2>1, ReadsWhatLies
<1>2. /\ items' = [p \in Cells |-> InFile(p)] /\ wItems' = NoCells
      /\ got' = <<i, blocks[i]>> /\ memory' = prepare(memory, i, blocks[i])
      /\ UNCHANGED <<offsets, itemsFileSize, pushing, blocks, intact>>
  BY <1>1 DEF Miss, FlushItems
<1>4. Layout'  BY <1>2, LayoutFlushed DEF FlushItems
<1>5. InMemory'
  <2> SUFFICES ASSUME NEW j \in DOMAIN memory'.items
               PROVE  j \in 1..Len(blocks) /\ memory'.items[j] = blocks[j]
    BY <1>2 DEF InMemory
  <2>1. j = i \/ j \in DOMAIN memory.items  BY <1>2 DEF prepare
  <2>2. memory'.items[j] = IF j = i THEN blocks[i] ELSE memory.items[j]  BY <1>2 DEF prepare
  <2> QED BY <1>0, <2>1, <2>2 DEF InMemory
<1> QED BY <1>2, <1>4, <1>5

\* Every operation of the vector keeps its invariant.
LEMMA StepOK == IInv /\ [Operation]_vectorVars => IInv'
<1> SUFFICES ASSUME IInv, [Operation]_vectorVars PROVE IInv'
  OBVIOUS
<1>1. CASE \E x \in Items : WriteItem(x)  BY <1>1, WriteItemOK
<1>2. CASE WriteIndex  BY <1>2, WriteIndexOK
<1>3. CASE pop_back  BY <1>3, PopOK
<1>4. CASE \E i \in 1..size : Hit(i) \/ Miss(i)  BY <1>4, HitOK, MissOK
<1>5. CASE UNCHANGED vectorVars
  <2>1. UNCHANGED <<items, wItems, offsets, itemsFileSize, memory, pushing, blocks, intact>>
    BY <1>5 DEF vectorVars, fileVars
  <2>2. Layout'  BY <2>1, LayoutSame DEF IInv
  <2> QED BY <2>1, <2>2 DEF IInv, Types, InMemory
<1> QED BY <1>1, <1>2, <1>3, <1>4, <1>5 DEF Operation

\* The items of a SwappedVector lie in their file one after the other, whole, and those in
\* memory are the same, after any sequence of push_back, pop_back and operator[].
THEOREM VectorCoherent == VectorSpec => []Coherent
<1>1. IInv => Coherent
  <2> SUFFICES ASSUME IInv PROVE Coherent
    OBVIOUS
  <2>1. \A i \in 1..Len(blocks) : Whole(blocks[i], offsets[i], InFile)
    BY DEF IInv, Layout, Lies, Whole
  <2> QED BY <2>1 DEF Coherent, IInv, Types, Layout, InMemory, EndOf
<1> QED BY InitOK, StepOK, <1>1, PTL DEF VectorSpec

\* A step of SwappedVector is a step of the vector it stands for, or changes nothing of it.
LEMMA StepRefines == IInv /\ [Operation]_vectorVars => [intact' => V!Next]_(V!vars)
<1> SUFFICES ASSUME IInv, [Operation]_vectorVars PROVE V!Next \/ UNCHANGED V!vars
  OBVIOUS
<1> USE DEF V!vars
<1>1. CASE \E x \in Items : WriteItem(x)  BY <1>1 DEF WriteItem
<1>2. CASE WriteIndex
  <2>1. pushing \in Items /\ blocks' = Append(blocks, pushing) /\ got' = got
    BY <1>2 DEF WriteIndex, IInv, Types
  <2>2. V!push_back(pushing)  BY <2>1 DEF V!push_back
  <2> QED BY <2>1, <2>2 DEF V!Next
<1>3. CASE pop_back
  <2>1. blocks # <<>> /\ blocks' = SubSeq(blocks, 1, Len(blocks) - 1) /\ got' = got
    BY <1>3 DEF pop_back, size, IInv, Types
  <2> QED BY <2>1 DEF V!Next, V!pop_back
<1>4. ASSUME NEW i \in 1..size, Hit(i) \/ Miss(i) PROVE V!Next
  <2>1. got' = <<i, blocks[i]>>  BY <1>4, HitOK, MissOK
  <2>2. i \in 1..Len(blocks) /\ blocks' = blocks  BY <1>4, Zenon DEF Hit, Miss, size, IInv, Types
  <2>3. V!at(i)  BY <2>1, <2>2 DEF V!at
  <2> QED BY <2>2, <2>3 DEF V!Next
<1>5. CASE UNCHANGED vectorVars  BY <1>5 DEF vectorVars
<1> QED BY <1>1, <1>2, <1>3, <1>4, <1>5 DEF Operation

\* operator[] returns what was pushed at its index, from memory or from the file, for any items,
\* sizes, pool and file: SwappedVector implements a vector.
THEOREM VectorRefines == VectorSpec => ReadsBack
<1>1. Init => V!Init  BY DEF Init, V!Init
<1>2. QED BY InitOK, StepOK, StepRefines, <1>1, PTL DEF VectorSpec, ReadsBack
-----------------------------------------------------------------------------
(* Offsets *)

\* What the recursive definition of the offsets gives at each item: open() adds up the sizes
\* before it.
LEMMA OffsetsDefined ==
    ASSUME NEW s
    PROVE  \A i \in 1..(MaxItems + 1) : Offsets(s)[i] = IF i = 1 THEN 0 ELSE Offsets(s)[i - 1] + s[i - 1]
<1> DEFINE n == MaxItems + 1
           G(g, m) == g = [i \in 1..m |-> IF i = 1 THEN 0 ELSE g[i - 1] + s[i - 1]]
           f == CHOOSE g : G(g, n)
<1>1. n \in Nat
  BY BoundAssumption
<1>2. Offsets(s) = f
  BY Zenon DEF Offsets
<1> HIDE DEF n
<1>3. \E g : G(g, n)
  <2> DEFINE P == {m \in Nat : \E g : G(g, m)}
  <2>1. 0 \in P
    <3>1. G([i \in 1..0 |-> 0], 0)
      OBVIOUS
    <3> QED BY <3>1, ZenonT(30)
  <2>2. ASSUME NEW m \in Nat, NEW g, G(g, m) PROVE \E h : G(h, m + 1)
    <3> DEFINE h == [i \in 1..(m + 1) |-> IF i = m + 1 THEN (IF i = 1 THEN 0 ELSE g[m] + s[m]) ELSE g[i]]
    <3>1. ASSUME NEW i \in 1..(m + 1) PROVE h[i] = IF i = 1 THEN 0 ELSE h[i - 1] + s[i - 1]
      <4>1. CASE i = m + 1
        BY <4>1
      <4>2. CASE i # m + 1
        <5>1. i \in 1..m /\ h[i] = g[i] /\ (i # 1 => h[i - 1] = g[i - 1])
          BY <4>2
        <5>2. g[i] = IF i = 1 THEN 0 ELSE g[i - 1] + s[i - 1]
          BY <2>2, <5>1, Zenon
        <5> QED BY <5>1, <5>2, Zenon
      <4> QED BY <4>1, <4>2
    <3>2. h = [i \in 1..(m + 1) |-> h[i]]
      OBVIOUS
    <3> HIDE DEF h
    <3>3. G(h, m + 1)
      BY <3>1, <3>2, Zenon
    <3> QED BY <3>3, Zenon
  <2> HIDE DEF G
  <2>3. \A m \in Nat : m \in P => m + 1 \in P
    BY <2>2
  <2> HIDE DEF P
  <2>4. Nat \subseteq P
    BY <2>1, <2>3, Induction
  <2> QED BY <1>1, <2>4 DEF P
<1>4. G(f, n)
  BY <1>3, Zenon
<1> HIDE DEF f
<1>5. \A i \in 1..n : f[i] = IF i = 1 THEN 0 ELSE f[i - 1] + s[i - 1]
  BY <1>4, Zenon
<1> QED BY <1>2, <1>5 DEF n

\* open adds up the sizes.
LEMMA OffsetsAre ==
    ASSUME NEW s \in [1..MaxItems -> Nat]
    PROVE  /\ Offsets(s)[1] = 0
           /\ \A i \in 1..MaxItems : Offsets(s)[i + 1] = Offsets(s)[i] + s[i]
           /\ \A i \in 1..(MaxItems + 1) : Offsets(s)[i] \in Nat
<1> DEFINE f == Offsets(s)
           P == {i \in Nat : i <= MaxItems => f[i + 1] \in Nat}
<1>1. \A i \in 1..(MaxItems + 1) : f[i] = IF i = 1 THEN 0 ELSE f[i - 1] + s[i - 1]
  BY OffsetsDefined, Zenon
<1> HIDE DEF f
<1>2. f[1] = 0
  BY <1>1, BoundAssumption
<1>3. \A i \in 1..MaxItems : f[i + 1] = f[i] + s[i]
  <2> TAKE i \in 1..MaxItems
  <2>1. i + 1 \in 1..(MaxItems + 1) /\ i + 1 # 1 /\ (i + 1) - 1 = i
    BY BoundAssumption
  <2> QED BY <1>1, <2>1
<1>4. 0 \in P
  BY <1>2
<1>5. ASSUME NEW i \in Nat, i \in P PROVE i + 1 \in P
  <2> SUFFICES ASSUME i + 1 <= MaxItems PROVE f[(i + 1) + 1] \in Nat
    OBVIOUS
  <2>1. i + 1 \in 1..MaxItems /\ f[i + 1] \in Nat
    BY <1>5, BoundAssumption
  <2> QED BY <1>3, <2>1
<1> HIDE DEF P
<1>6. Nat \subseteq P
  BY <1>4, <1>5, Induction
<1>7. ASSUME NEW i \in 1..(MaxItems + 1) PROVE f[i] \in Nat
  <2>1. i - 1 \in Nat /\ i - 1 <= MaxItems /\ (i - 1) + 1 = i
    BY BoundAssumption
  <2>2. i - 1 \in P
    BY <1>6, <2>1
  <2> QED BY <2>1, <2>2 DEF P
<1> QED BY <1>2, <1>3, <1>7 DEF f

\* An offset depends on the sizes before it.
LEMMA OffsetsAlike ==
    ASSUME NEW s \in [1..MaxItems -> Nat], NEW t \in [1..MaxItems -> Nat],
           NEW n \in 0..MaxItems, \A i \in 1..n : s[i] = t[i]
    PROVE  \A i \in 1..(n + 1) : Offsets(s)[i] = Offsets(t)[i]
<1> DEFINE f == Offsets(s)
           g == Offsets(t)
           P == {i \in Nat : i <= n => f[i + 1] = g[i + 1]}
<1>1. f[1] = g[1] /\ \A i \in 1..MaxItems : f[i + 1] = f[i] + s[i] /\ g[i + 1] = g[i] + t[i]
  <2>1. f[1] = 0 /\ \A i \in 1..MaxItems : f[i + 1] = f[i] + s[i]
    BY OffsetsAre, Zenon
  <2>2. g[1] = 0 /\ \A i \in 1..MaxItems : g[i + 1] = g[i] + t[i]
    BY OffsetsAre, Zenon
  <2> HIDE DEF f, g
  <2> QED BY <2>1, <2>2
<1> HIDE DEF f, g
<1>2. 0 \in P
  BY <1>1
<1>3. ASSUME NEW i \in Nat, i \in P PROVE i + 1 \in P
  <2> SUFFICES ASSUME i + 1 <= n PROVE f[(i + 1) + 1] = g[(i + 1) + 1]
    OBVIOUS
  <2>1. i + 1 \in 1..n /\ i + 1 \in 1..MaxItems /\ f[i + 1] = g[i + 1]
    BY <1>3, BoundAssumption
  <2> QED BY <1>1, <2>1
<1> HIDE DEF P
<1>4. Nat \subseteq P
  BY <1>2, <1>3, Induction
<1>5. ASSUME NEW i \in 1..(n + 1) PROVE f[i] = g[i]
  <2>1. i - 1 \in Nat /\ i - 1 <= n /\ (i - 1) + 1 = i
    BY BoundAssumption
  <2>2. i - 1 \in P
    BY <1>4, <2>1
  <2> QED BY <2>1, <2>2 DEF P
<1> QED BY <1>5 DEF f, g

\* Offsets grow: an item lies before all later ones.
LEMMA OffsetsGrow ==
    ASSUME NEW s \in [1..MaxItems -> Nat], NEW i \in 1..MaxItems, NEW j \in 1..(MaxItems + 1), i < j
    PROVE  Offsets(s)[i] + s[i] <= Offsets(s)[j]
<1> DEFINE f == Offsets(s)
           P == {k \in Nat : (i + 1) + k <= MaxItems + 1 => f[i] + s[i] <= f[(i + 1) + k]}
<1>1. /\ \A k \in 1..MaxItems : f[k + 1] = f[k] + s[k]
      /\ \A k \in 1..(MaxItems + 1) : f[k] \in Nat
  BY OffsetsAre, Zenon
<1> HIDE DEF f
<1>2. f[i] \in Nat /\ s[i] \in Nat /\ f[i + 1] = f[i] + s[i]
  BY <1>1, BoundAssumption
<1>3. 0 \in P
  BY <1>2
<1>4. ASSUME NEW k \in Nat, k \in P PROVE k + 1 \in P
  <2> SUFFICES ASSUME (i + 1) + (k + 1) <= MaxItems + 1 PROVE f[i] + s[i] <= f[(i + 1) + (k + 1)]
    OBVIOUS
  <2>1. /\ (i + 1) + k \in 1..MaxItems /\ (i + 1) + k \in 1..(MaxItems + 1)
        /\ (i + 1) + (k + 1) = ((i + 1) + k) + 1 /\ f[i] + s[i] <= f[(i + 1) + k]
    BY <1>4, BoundAssumption
  <2>2. f[(i + 1) + (k + 1)] = f[(i + 1) + k] + s[(i + 1) + k] /\ f[(i + 1) + k] \in Nat /\ s[(i + 1) + k] \in Nat
    BY <1>1, <2>1
  <2> QED BY <1>2, <2>1, <2>2
<1> HIDE DEF P
<1>5. Nat \subseteq P
  BY <1>3, <1>4, Induction
<1>6. j - (i + 1) \in Nat /\ (i + 1) + (j - (i + 1)) = j /\ j <= MaxItems + 1
  BY BoundAssumption
<1>7. j - (i + 1) \in P
  BY <1>5, <1>6
<1> QED BY <1>6, <1>7 DEF P, f
-----------------------------------------------------------------------------
(* The items in memory *)

\* The pool: its list of uses has each index of an item in memory once.
Pool(m, n) ==
    /\ m.used \in Seq(1..n) /\ Len(m.used) <= PoolSize
    /\ Range(m.used) = DOMAIN m.items /\ IsInjective(m.used)

\* The list of uses without one entry
LEMMA UnusedIs ==
    ASSUME NEW n \in Nat, NEW used \in Seq(1..n), IsInjective(used), NEW i
    PROVE  /\ Unused(used, i) \in Seq(1..n) /\ IsInjective(Unused(used, i))
           /\ Range(Unused(used, i)) = Range(used) \ {i}
           /\ Len(Unused(used, i)) = IF i \in Range(used) THEN Len(used) - 1 ELSE Len(used)
<1>1. CASE i \notin Range(used)
  BY <1>1 DEF Unused
<1>2. CASE i \in Range(used)
  <2> DEFINE k == Place(used, i)
             u == [j \in 1..(Len(used) - 1) |-> used[IF j < k THEN j ELSE j + 1]]
             l == Len(used)
  <2>1. \E j \in DOMAIN used : used[j] = i
    BY <1>2 DEF Range
  <2>2. k \in DOMAIN used /\ used[k] = i
    BY <2>1, Zenon DEF Place
  <2>3. Unused(used, i) = u
    BY <1>2 DEF Unused
  <2> HIDE DEF k
  <2>4. l \in Nat /\ l >= 1 /\ k \in 1..l /\ DOMAIN used = 1..l /\ \A j \in 1..l : used[j] \in 1..n
    BY <2>2
  <2>5. \A j \in 1..(l - 1) : u[j] = used[IF j < k THEN j ELSE j + 1] /\ (IF j < k THEN j ELSE j + 1) \in 1..l
    BY <2>4
  <2>6. u \in Seq(1..n) /\ Len(u) = l - 1 /\ DOMAIN u = 1..(l - 1)
    BY <2>4, <2>5
  <2>7. \A a, b \in 1..l : used[a] = used[b] => a = b
    BY <2>4, Zenon DEF IsInjective
  <2>8. IsInjective(u)
    <3> SUFFICES ASSUME NEW a \in 1..(l - 1), NEW b \in 1..(l - 1), u[a] = u[b] PROVE a = b
      BY <2>6, Zenon DEF IsInjective
    <3>1. (IF a < k THEN a ELSE a + 1) = (IF b < k THEN b ELSE b + 1)
      BY <2>5, <2>7, Zenon
    <3> QED BY <2>4, <3>1, SMTT(30)
  <2>9. Range(u) = Range(used) \ {i}
    <3>1. ASSUME NEW j \in 1..(l - 1) PROVE u[j] \in Range(used) \ {i}
      <4> DEFINE h == IF j < k THEN j ELSE j + 1
      <4>1. h \in 1..l /\ h # k /\ u[j] = used[h]
        BY <2>4, <2>5
      <4> HIDE DEF h
      <4> QED BY <2>2, <2>4, <2>7, <4>1, Zenon DEF Range
    <3>2. ASSUME NEW j \in 1..l, used[j] # i PROVE \E h \in 1..(l - 1) : u[h] = used[j]
      <4> DEFINE h == IF j < k THEN j ELSE j - 1
      <4>0. j # k
        BY <2>2, <3>2
      <4>1. h \in 1..(l - 1) /\ (IF h < k THEN h ELSE h + 1) = j
        BY <2>4, <4>0
      <4>2. u[h] = used[j]
        BY <2>5, <4>1
      <4> QED BY <4>1, <4>2
    <3> HIDE DEF u
    <3>3. \A y : y \in Range(u) <=> \E j \in 1..(l - 1) : y = u[j]
      BY <2>6, Zenon DEF Range
    <3>4. \A y : y \in Range(used) <=> \E j \in 1..l : y = used[j]
      BY <2>4 DEF Range
    <3>5. Range(u) \subseteq Range(used) \ {i}
      BY <3>1, <3>3
    <3>6. Range(used) \ {i} \subseteq Range(u)
      BY <3>2, <3>3, <3>4, SMTT(30)
    <3> QED BY <3>5, <3>6, Zenon
  <2> HIDE DEF u
  <2> QED BY <1>2, <2>3, <2>6, <2>8, <2>9
<1> QED BY <1>1, <1>2

\* An entry at the end
LEMMA AppendOnce ==
    ASSUME NEW n \in Nat, NEW used \in Seq(1..n), IsInjective(used), NEW i \in 1..n, i \notin Range(used)
    PROVE  /\ Append(used, i) \in Seq(1..n) /\ IsInjective(Append(used, i))
           /\ Range(Append(used, i)) = Range(used) \cup {i} /\ Len(Append(used, i)) = Len(used) + 1
<1> DEFINE u == Append(used, i)
           l == Len(used)
<1>1. l \in Nat /\ DOMAIN used = 1..l /\ u \in Seq(1..n) /\ Len(u) = l + 1 /\ DOMAIN u = 1..(l + 1)
  OBVIOUS
<1>2. u[l + 1] = i /\ \A j \in 1..l : u[j] = used[j]
  OBVIOUS
<1> HIDE DEF u
<1>3. \A y : y \in Range(u) <=> \E j \in 1..(l + 1) : y = u[j]
  BY <1>1, Zenon DEF Range
<1>4. \A y : y \in Range(used) <=> \E j \in 1..l : y = used[j]
  BY <1>1, Zenon DEF Range
<1>5. \A j \in 1..(l + 1) : j \in 1..l \/ j = l + 1
  BY <1>1
<1>6. \A j \in 1..l : j \in 1..(l + 1)
  BY <1>1
<1>7. l + 1 \in 1..(l + 1)
  BY <1>1
<1>8. Range(u) = Range(used) \cup {i}
  <2>1. Range(u) \subseteq Range(used) \cup {i}
    BY <1>2, <1>3, <1>4, <1>5
  <2>2. Range(used) \subseteq Range(u) /\ i \in Range(u)
    BY <1>2, <1>3, <1>4, <1>6, <1>7, SMTT(30)
  <2> QED BY <2>1, <2>2
<1>9. IsInjective(u)
  <2> SUFFICES ASSUME NEW a \in 1..(l + 1), NEW b \in 1..(l + 1), u[a] = u[b] PROVE a = b
    BY <1>1, Zenon DEF IsInjective
  <2>1. CASE a \in 1..l /\ b \in 1..l
    BY <1>1, <1>2, <2>1, Zenon DEF IsInjective
  <2>2. CASE a = l + 1 /\ b \in 1..l
    BY <1>2, <1>4, <2>2, Zenon
  <2>3. CASE b = l + 1 /\ a \in 1..l
    BY <1>2, <1>4, <2>3, Zenon
  <2> QED BY <1>5, <2>1, <2>2, <2>3
<1> QED BY <1>1, <1>8, <1>9 DEF u

\* operator[] of an item in memory moves its entry to the end.
LEMMA PoolTouch ==
    ASSUME NEW n \in Nat, NEW m, Pool(m, n), NEW i \in DOMAIN m.items
    PROVE  Pool(touch(m, i), n)
<1> DEFINE u == Unused(m.used, i)
<1>1. i \in Range(m.used) /\ i \in 1..n
  BY DEF Pool, Range
<1>2. /\ u \in Seq(1..n) /\ IsInjective(u) /\ Range(u) = Range(m.used) \ {i} /\ Len(u) = Len(m.used) - 1
  BY <1>1, UnusedIs, Zenon DEF Pool
<1>3. touch(m, i).items = m.items /\ touch(m, i).used = Append(u, i)
  BY DEF touch
<1> HIDE DEF u
<1>4. i \notin Range(u)
  BY <1>2
<1>5. /\ Append(u, i) \in Seq(1..n) /\ IsInjective(Append(u, i))
      /\ Range(Append(u, i)) = Range(u) \cup {i} /\ Len(Append(u, i)) = Len(u) + 1
  BY <1>1, <1>2, <1>4, AppendOnce
<1>6. Range(Append(u, i)) = DOMAIN m.items
  BY <1>1, <1>2, <1>5 DEF Pool
<1>7. Len(Append(u, i)) <= PoolSize
  BY <1>2, <1>5, PoolAssumption DEF Pool
<1> QED BY <1>3, <1>5, <1>6, <1>7 DEF Pool

\* The tail of a sequence, by its length and its elements.
LEMMA TailIs ==
    ASSUME NEW X, NEW s \in Seq(X), s # <<>>
    PROVE  /\ Tail(s) \in Seq(X) /\ Len(Tail(s)) = Len(s) - 1 /\ DOMAIN Tail(s) = 1..(Len(s) - 1)
           /\ \A j \in 1..(Len(s) - 1) : Tail(s)[j] = s[j + 1]
OBVIOUS

\* operator[] of another item, or push_back: the longest unused item makes room.
LEMMA PoolPrepare ==
    ASSUME NEW n \in Nat, NEW m, Pool(m, n), NEW i \in 1..n, i \notin DOMAIN m.items, NEW x
    PROVE  Pool(prepare(m, i, x), n)
<1> DEFINE full == Len(m.used) = PoolSize
           u == IF full THEN Tail(m.used) ELSE m.used
           kept == IF full THEN DOMAIN m.items \ {m.used[1]} ELSE DOMAIN m.items
           l == Len(m.used)
<1>1. prepare(m, i, x).used = Append(u, i) /\ DOMAIN prepare(m, i, x).items = kept \cup {i}
  BY DEF prepare
<1>2. /\ m.used \in Seq(1..n) /\ l \in Nat /\ l <= PoolSize /\ DOMAIN m.used = 1..l
      /\ Range(m.used) = DOMAIN m.items /\ IsInjective(m.used)
  BY DEF Pool
<1>3. u \in Seq(1..n) /\ IsInjective(u) /\ Range(u) = kept /\ Len(u) < PoolSize
  <2>1. CASE full
    <3> DEFINE t == Tail(m.used)
    <3>1. l >= 1 /\ m.used # <<>>
      BY <1>2, <2>1, PoolAssumption
    <3>2. t \in Seq(1..n) /\ Len(t) = l - 1 /\ DOMAIN t = 1..(l - 1) /\ \A j \in 1..(l - 1) : t[j] = m.used[j + 1]
      BY <1>2, <3>1, TailIs, Zenon
    <3> HIDE DEF t
    <3>3. \A a, b \in 1..l : m.used[a] = m.used[b] => a = b
      BY <1>2, Zenon DEF IsInjective
    <3>4. IsInjective(t)
      <4> SUFFICES ASSUME NEW a \in 1..(l - 1), NEW b \in 1..(l - 1), t[a] = t[b] PROVE a = b
        BY <3>2, Zenon DEF IsInjective
      <4>1. a + 1 \in 1..l /\ b + 1 \in 1..l /\ m.used[a + 1] = m.used[b + 1]
        BY <1>2, <3>2
      <4>2. a + 1 = b + 1
        BY <3>3, <4>1
      <4> QED BY <4>2
    <3>5. ASSUME NEW j \in 1..(l - 1) PROVE t[j] \in Range(m.used) \ {m.used[1]}
      <4>1. j + 1 \in 1..l /\ 1 \in 1..l /\ j + 1 # 1 /\ t[j] = m.used[j + 1]
        BY <1>2, <3>1, <3>2, SMTT(30)
      <4> QED BY <1>2, <3>3, <4>1 DEF Range
    <3>6. ASSUME NEW j \in 1..l, m.used[j] # m.used[1] PROVE \E h \in 1..(l - 1) : t[h] = m.used[j]
      <4>1. j # 1
        BY <3>6
      <4>2. j - 1 \in 1..(l - 1) /\ (j - 1) + 1 = j
        BY <1>2, <4>1
      <4>3. t[j - 1] = m.used[j]
        BY <3>2, <4>2
      <4> QED BY <4>2, <4>3
    <3>7. \A y : y \in Range(t) <=> \E j \in 1..(l - 1) : y = t[j]
      BY <3>2, Zenon DEF Range
    <3>8. \A y : y \in Range(m.used) <=> \E j \in 1..l : y = m.used[j]
      BY <1>2 DEF Range
    <3>9. Range(t) = Range(m.used) \ {m.used[1]}
      <4>1. Range(t) \subseteq Range(m.used) \ {m.used[1]}
        BY <3>5, <3>7
      <4>2. Range(m.used) \ {m.used[1]} \subseteq Range(t)
        BY <3>6, <3>7, <3>8
      <4> QED BY <4>1, <4>2, Zenon
    <3> QED BY <1>2, <2>1, <3>2, <3>4, <3>9, PoolAssumption DEF t
  <2>2. CASE ~full
    BY <1>2, <2>2, PoolAssumption
  <2> QED BY <2>1, <2>2
<1>4. i \notin Range(u)
  BY <1>3
<1> HIDE DEF u, kept
<1>5. /\ Append(u, i) \in Seq(1..n) /\ IsInjective(Append(u, i))
      /\ Range(Append(u, i)) = Range(u) \cup {i} /\ Len(Append(u, i)) = Len(u) + 1
  BY <1>3, <1>4, AppendOnce
<1>6. Len(u) \in Nat /\ Len(u) + 1 <= PoolSize
  BY <1>3, PoolAssumption
<1> QED BY <1>1, <1>3, <1>5, <1>6 DEF Pool

\* pop_back: the last item leaves the pool, if it is there.
LEMMA PoolDrop ==
    ASSUME NEW n \in Nat, NEW m, Pool(m, n + 1)
    PROVE  Pool(Drop(m, n + 1), n)
<1> DEFINE u == Unused(m.used, n + 1)
<1>1. /\ u \in Seq(1..(n + 1)) /\ IsInjective(u) /\ Range(u) = Range(m.used) \ {n + 1}
      /\ Len(u) = IF n + 1 \in Range(m.used) THEN Len(m.used) - 1 ELSE Len(m.used)
  <2>1. n + 1 \in Nat
    OBVIOUS
  <2> QED BY <2>1, UnusedIs, Zenon DEF Pool
<1>2. Drop(m, n + 1).used = u /\ DOMAIN Drop(m, n + 1).items = DOMAIN m.items \ {n + 1}
  BY DEF Drop
<1> HIDE DEF u
<1>3. \A j \in 1..Len(u) : u[j] \in 1..n
  <2> TAKE j \in 1..Len(u)
  <2>1. u[j] \in Range(u) /\ u[j] \in 1..(n + 1)
    BY <1>1 DEF Range
  <2> QED BY <1>1, <2>1
<1>4. u \in Seq(1..n)
  BY <1>1, <1>3, SMTT(30)
<1>5. Len(m.used) \in Nat /\ Len(u) <= PoolSize
  BY <1>1, PoolAssumption DEF Pool
<1> QED BY <1>1, <1>2, <1>4, <1>5, Zenon DEF Pool

\* The pool still fits after push_back: the new item is not cached yet.
LEMMA PoolGrows ==
    ASSUME NEW n \in Nat, NEW m, Pool(m, n)
    PROVE  Pool(m, n + 1) /\ n + 1 \notin DOMAIN m.items
<1>1. m.used \in Seq(1..(n + 1))
  BY DEF Pool
<1>2. n + 1 \notin Range(m.used)
  BY DEF Pool, Range
<1> QED BY <1>1, <1>2 DEF Pool

\* What init reads
LEMMA ReadAtStartIs ==
    ASSUME count \in Nat, count > 0
    PROVE  /\ ReadAtStart \in Seq(1..count) /\ ReadAtStart # <<>>
           /\ \E k \in 1..Len(ReadAtStart) : ReadAtStart[k] = count
           /\ needRebuild => \A i \in 1..count : \E k \in 1..Len(ReadAtStart) : ReadAtStart[k] = i
<1> DEFINE mid == IF needRebuild THEN [i \in 1..count |-> i] ELSE <<>>
<1>1. mid \in Seq(1..count) /\ (needRebuild => Len(mid) = count /\ \A i \in 1..count : mid[i] = i)
  <2> DEFINE all == [i \in 1..count |-> i]
  <2>1. all \in Seq(1..count) /\ Len(all) = count /\ \A i \in 1..count : all[i] = i
    OBVIOUS
  <2> HIDE DEF all
  <2>2. CASE needRebuild
    <3>1. mid = all
      BY <2>2 DEF all
    <3> QED BY <2>1, <3>1
  <2>3. CASE ~needRebuild
    BY <2>3
  <2> QED BY <2>2, <2>3
<1>2. ReadAtStart = <<count>> \o mid \o <<1>>
  BY DEF ReadAtStart
<1> HIDE DEF mid
<1> DEFINE r == <<count>> \o mid \o <<1>>
<1>3. r \in Seq(1..count) /\ Len(r) = Len(mid) + 2 /\ Len(mid) \in Nat
  BY <1>1
<1>4. r[1] = count
  BY <1>1
<1>5. \A i \in 1..Len(mid) : r[i + 1] = mid[i]
  BY <1>1
<1> HIDE DEF r
<1>6. ReadAtStart = r
  BY <1>2 DEF r
<1>7. 1 \in 1..Len(r) /\ \A i \in 1..Len(mid) : i + 1 \in 1..Len(r)
  BY <1>3
<1>8. needRebuild => \A i \in 1..count : \E k \in 1..Len(r) : r[k] = i
  <2> SUFFICES ASSUME needRebuild, NEW i \in 1..count PROVE \E k \in 1..Len(r) : r[k] = i
    OBVIOUS
  <2>1. i \in 1..Len(mid) /\ mid[i] = i
    BY <1>1
  <2>2. i + 1 \in 1..Len(r) /\ r[i + 1] = i
    BY <1>5, <1>7, <2>1
  <2> QED BY <2>2
<1>9. \E k \in 1..Len(r) : r[k] = count
  BY <1>4, <1>7
<1>10. r # <<>>
  BY <1>3
<1> QED BY <1>3, <1>6, <1>8, <1>9, <1>10

\* Memory as it is while init reads
Reads(m) == Pool(m, count) /\ \A i \in DOMAIN m.items : m.items[i] = Stored(i)

\* Reading an item through the cache keeps the cache equal to the file.
LEMMA UsedReads ==
    ASSUME count \in Nat, NEW m, Reads(m), NEW i \in 1..count
    PROVE  Reads(Used(m, i))
<1>1. CASE i \in DOMAIN m.items
  <2>1. Used(m, i) = touch(m, i) /\ touch(m, i).items = m.items
    BY <1>1 DEF Used, touch
  <2>2. Pool(touch(m, i), count)
    BY <1>1, PoolTouch DEF Reads
  <2> QED BY <2>1, <2>2 DEF Reads
<1>2. CASE i \notin DOMAIN m.items
  <2> DEFINE q == prepare(m, i, Stored(i))
  <2>1. Used(m, i) = q
    BY <1>2 DEF Used
  <2>2. Pool(q, count)
    BY <1>2, PoolPrepare DEF Reads
  <2>3. \A j \in DOMAIN q.items : (j = i \/ j \in DOMAIN m.items) /\ q.items[j] = IF j = i THEN Stored(i) ELSE m.items[j]
    BY DEF prepare
  <2> HIDE DEF q
  <2> QED BY <2>1, <2>2, <2>3 DEF Reads
<1> QED BY <1>1, <1>2

\* After init, the items in memory are those on the disk.
LEMMA MemoryAtStartReads ==
    ASSUME count \in Nat, count > 0
    PROVE  Reads(MemoryAtStart)
<1> DEFINE r == ReadAtStart
           n == Len(ReadAtStart)
           G(g, m) == g = [k \in 0..m |-> IF k = 0 THEN EmptyMemory ELSE Used(g[k - 1], r[k])]
           run == CHOOSE g : G(g, n)
<1>1. n \in Nat /\ \A k \in 1..n : r[k] \in 1..count
  BY ReadAtStartIs
<1>2. MemoryAtStart = run[n]
  BY Zenon DEF MemoryAtStart
<1>3. Reads(EmptyMemory)
  BY PoolAssumption DEF Reads, Pool, EmptyMemory, Range, IsInjective
<1> HIDE DEF n, r
<1>4. \E g : G(g, n)
  <2> DEFINE P == {m \in Nat : \E g : G(g, m)}
  <2>1. 0 \in P
    <3>1. G([k \in 0..0 |-> EmptyMemory], 0)
      OBVIOUS
    <3> QED BY <3>1, ZenonT(30)
  <2>2. ASSUME NEW m \in Nat, NEW g, G(g, m) PROVE \E h : G(h, m + 1)
    <3> DEFINE h == [k \in 0..(m + 1) |-> IF k = m + 1 THEN Used(g[m], r[m + 1]) ELSE g[k]]
    <3>1. ASSUME NEW k \in 0..(m + 1) PROVE h[k] = IF k = 0 THEN EmptyMemory ELSE Used(h[k - 1], r[k])
      <4>1. CASE k = m + 1
        <5>1. k # 0 /\ k - 1 = m /\ h[k - 1] = g[m] /\ h[k] = Used(g[m], r[m + 1])
          BY <4>1
        <5> QED BY <4>1, <5>1, Zenon
      <4>2. CASE k # m + 1
        <5>1. k \in 0..m /\ h[k] = g[k] /\ (k # 0 => h[k - 1] = g[k - 1])
          BY <4>2
        <5>2. g[k] = IF k = 0 THEN EmptyMemory ELSE Used(g[k - 1], r[k])
          BY <2>2, <5>1, Zenon
        <5> QED BY <5>1, <5>2, Zenon
      <4> QED BY <4>1, <4>2
    <3>2. h = [k \in 0..(m + 1) |-> h[k]]
      OBVIOUS
    <3> HIDE DEF h
    <3>3. G(h, m + 1)
      BY <3>1, <3>2, Zenon
    <3> QED BY <3>3, Zenon
  <2> HIDE DEF G
  <2>3. \A m \in Nat : m \in P => m + 1 \in P
    BY <2>2
  <2> HIDE DEF P
  <2>4. Nat \subseteq P
    BY <2>1, <2>3, Induction
  <2> QED BY <1>1, <2>4 DEF P
<1>5. G(run, n)
  BY <1>4, Zenon
<1> HIDE DEF run
<1>6. run[0] = EmptyMemory /\ \A k \in 1..n : run[k] = Used(run[k - 1], r[k])
  <2>1. \A k \in 0..n : run[k] = IF k = 0 THEN EmptyMemory ELSE Used(run[k - 1], r[k])
    BY <1>5, Zenon
  <2>2. 0 \in 0..n /\ \A k \in 1..n : k \in 0..n /\ k # 0
    BY <1>1
  <2> QED BY <2>1, <2>2, Zenon
<1> HIDE DEF G
<1>7. Reads(run[n])
  <2> DEFINE P == {k \in Nat : k <= n => Reads(run[k])}
  <2>1. 0 \in P
    BY <1>3, <1>6
  <2>2. ASSUME NEW k \in Nat, k \in P PROVE k + 1 \in P
    <3> SUFFICES ASSUME k + 1 <= n PROVE Reads(run[k + 1])
      OBVIOUS
    <3>1. k + 1 \in 1..n /\ (k + 1) - 1 = k /\ Reads(run[k])
      BY <1>1, <2>2
    <3>2. run[k + 1] = Used(run[k], r[k + 1]) /\ r[k + 1] \in 1..count
      BY <1>1, <1>6, <3>1
    <3> QED BY <3>1, <3>2, UsedReads
  <2> HIDE DEF P
  <2>3. Nat \subseteq P
    BY <2>1, <2>2, Induction
  <2> QED BY <1>1, <2>3 DEF P
<1> QED BY <1>2, <1>7

-----------------------------------------------------------------------------
(* The files, whatever they were opened with *)

Typed ==
    /\ blocks \in Seq(Items \cup {Nothing}) /\ offsets \in Seq(Nat) /\ Len(offsets) = Len(blocks)
    /\ size \in 0..MaxItems /\ itemsFileSize \in Nat
    /\ items \in [Cells -> {Hole} \cup (Items \X Nat)]
    /\ \A p \in DOMAIN wItems : p \in Cells /\ wItems[p] \in Items \X Nat
    /\ count \in 0..MaxItems /\ sizes \in [1..MaxItems -> 0..MaxCells]
    /\ pushing \in Items \cup {Nothing}

\* The number on the disk is that of the items, or one more after a pop, one less after a push.
Counted ==
    /\ count \in (size - 1)..(size + 1) /\ wCount \in {Nothing, size}
    /\ wCount = Nothing => count = size

\* Offsets are the sums of the sizes on the disk; what they say fits into the file, also of the
\* item that was popped last while the number on the disk still counts it.
Placed ==
    /\ \A i \in 1..size : offsets[i] = StoredOffset[i]
    /\ itemsFileSize = StoredOffset[size + 1]
    /\ \A i \in 1..MaxItems : i <= size \/ i <= count => sizes[i] >= 1 /\ StoredOffset[i] + sizes[i] <= MaxCells
    /\ pushing # Nothing => /\ size < MaxItems /\ itemsFileSize + Size[pushing] <= MaxCells
                            /\ InFile(itemsFileSize) = <<pushing, 0>>

Frame == Typed /\ Counted /\ Placed /\ Pool(memory, size)

\* The offsets that open computes
LEMMA StoredOffsets ==
    ASSUME Typed
    PROVE  /\ sizes \in [1..MaxItems -> Nat] /\ StoredOffset[1] = 0
           /\ \A i \in 1..MaxItems : StoredOffset[i + 1] = StoredOffset[i] + sizes[i]
           /\ \A i \in 1..(MaxItems + 1) : StoredOffset[i] \in Nat
<1>1. sizes \in [1..MaxItems -> Nat]
  BY BoundAssumption DEF Typed
<1> QED BY <1>1, OffsetsAre, Zenon DEF StoredOffset

\* Items lie before later ones and before the end of the file.
LEMMA Ends ==
    ASSUME Frame
    PROVE  /\ \A i \in 1..size : offsets[i] \in Cells /\ offsets[i] < itemsFileSize
           /\ \A i, j \in 1..size : i < j => offsets[i] < offsets[j]
           /\ itemsFileSize \in 0..MaxCells
           /\ count = size + 1 => itemsFileSize \in Cells
<1> DEFINE n == size
           f == StoredOffset
<1>1. /\ n \in 0..MaxItems /\ count \in 0..MaxItems /\ MaxItems \in Nat /\ MaxCells \in Nat
      /\ \A i \in 1..n : offsets[i] = f[i]
      /\ itemsFileSize = f[n + 1]
      /\ \A i \in 1..MaxItems : i <= n \/ i <= count => sizes[i] >= 1 /\ f[i] + sizes[i] <= MaxCells
  BY BoundAssumption DEF Frame, Typed, Placed
<1>2. /\ sizes \in [1..MaxItems -> Nat] /\ f[1] = 0
      /\ \A i \in 1..MaxItems : f[i + 1] = f[i] + sizes[i]
      /\ \A i \in 1..(MaxItems + 1) : f[i] \in Nat
  BY StoredOffsets DEF Frame
<1>3. ASSUME NEW i \in 1..MaxItems, NEW j \in 1..(MaxItems + 1), i < j PROVE f[i] + sizes[i] <= f[j]
  BY <1>2, <1>3, OffsetsGrow, Zenon DEF StoredOffset
<1> HIDE DEF n, f
<1>4. ASSUME NEW i \in 1..n
      PROVE  i \in 1..MaxItems /\ f[i] \in Nat /\ sizes[i] \in Nat /\ sizes[i] >= 1 /\ f[i] + sizes[i] <= MaxCells
  <2>1. i \in 1..MaxItems /\ i \in 1..(MaxItems + 1) /\ i <= n
    BY <1>1
  <2> QED BY <1>1, <1>2, <2>1
<1>5. ASSUME NEW i \in 1..n PROVE offsets[i] \in Cells /\ offsets[i] < itemsFileSize
  <2>1. f[i] \in Nat /\ sizes[i] \in Nat /\ sizes[i] >= 1 /\ f[i] + sizes[i] <= MaxCells /\ i \in 1..MaxItems
    BY <1>4
  <2>2. n + 1 \in 1..(MaxItems + 1) /\ i < n + 1
    BY <1>1
  <2>3. f[i] + sizes[i] <= f[n + 1] /\ f[n + 1] \in Nat
    BY <1>2, <1>3, <2>1, <2>2
  <2>4. f[i] < f[n + 1] /\ f[i] \in 0..(MaxCells - 1)
    BY <1>1, <2>1, <2>3
  <2> QED BY <1>1, <2>4 DEF Cells
<1>6. ASSUME NEW i \in 1..n, NEW j \in 1..n, i < j PROVE offsets[i] < offsets[j]
  <2>1. f[i] \in Nat /\ sizes[i] \in Nat /\ sizes[i] >= 1 /\ f[j] \in Nat /\ i \in 1..MaxItems
    BY <1>4
  <2>2. j \in 1..(MaxItems + 1)
    BY <1>1
  <2>3. f[i] + sizes[i] <= f[j]
    BY <1>3, <1>6, <2>1, <2>2
  <2> QED BY <1>1, <2>1, <2>3
<1>7. itemsFileSize \in 0..MaxCells
  <2>1. CASE n = 0
    BY <1>1, <1>2, <2>1
  <2>2. CASE n # 0
    <3>1. n \in 1..n
      BY <1>1, <2>2
    <3>2. f[n + 1] = f[n] + sizes[n]
      BY <1>2, <1>4, <3>1
    <3> QED BY <1>1, <1>4, <3>1, <3>2
  <2> QED BY <2>1, <2>2
<1>8. count = n + 1 => itemsFileSize \in Cells
  <2> SUFFICES ASSUME count = n + 1 PROVE itemsFileSize \in Cells
    OBVIOUS
  <2>1. n + 1 \in 1..MaxItems /\ n + 1 \in 1..(MaxItems + 1) /\ n + 1 <= count
    BY <1>1
  <2>2. f[n + 1] \in Nat /\ sizes[n + 1] \in Nat /\ sizes[n + 1] >= 1 /\ f[n + 1] + sizes[n + 1] <= MaxCells
    BY <1>1, <1>2, <2>1
  <2> QED BY <1>1, <2>2 DEF Cells
<1> QED BY <1>5, <1>6, <1>7, <1>8 DEF n

\* What a reader of the items file can see is a hole or a place of an item, as in memory.
LEMMA InFileTyped ==
    ASSUME Typed
    PROVE  [p \in Cells |-> InFile(p)] \in [Cells -> {Hole} \cup (Items \X Nat)]
BY DEF Typed, InFile

\* Flushing the index file writes the number of items the vector has.
LEMMA CountFlushed ==
    ASSUME Counted, FlushCount
    PROVE  count' = size
BY DEF Counted, FlushCount

\* An unchanged frame
FrameVars == <<items, count, sizes, wItems, wCount, offsets, itemsFileSize, memory, pushing, blocks>>

\* The frame depends on its own variables alone.
LEMMA FrameSame == Frame /\ UNCHANGED FrameVars => Frame'
<1> SUFFICES ASSUME Frame, UNCHANGED FrameVars PROVE Frame'
  OBVIOUS
<1> USE DEF FrameVars
<1>1. size' = size
  BY DEF size
<1>2. Typed'
  BY <1>1 DEF Frame, Typed, Cells
<1>3. Counted'
  BY <1>1 DEF Frame, Counted
<1>4. Placed'
  <2>1. StoredOffset' = StoredOffset
    BY DEF StoredOffset
  <2>2. InFile(itemsFileSize)' = InFile(itemsFileSize)
    BY DEF InFile
  <2> QED BY <1>1, <2>1, <2>2 DEF Frame, Placed
<1>5. Pool(memory, size)'
  BY <1>1 DEF Frame, Pool
<1> QED BY <1>2, <1>3, <1>4, <1>5 DEF Frame

\* The frame of an empty vector.
LEMMA FrameInit == Init => Frame
<1> SUFFICES ASSUME Init PROVE Frame
  OBVIOUS
<1>1. size = 0 /\ MaxItems \in Nat /\ MaxCells \in Nat /\ Len(blocks) = 0
  BY BoundAssumption DEF Init, size
<1>2. Typed
  BY <1>1 DEF Init, Typed, NoCells
<1>3. Counted
  BY <1>1 DEF Init, Counted
<1>4. Placed
  <2>1. StoredOffset[1] = 0
    BY <1>2, StoredOffsets
  <2> QED BY <1>1, <2>1 DEF Init, Placed
<1>5. Pool(memory, size)
  BY <1>1, PoolAssumption DEF Init, Pool, EmptyMemory, Range, IsInjective
<1> QED BY <1>2, <1>3, <1>4, <1>5 DEF Frame

\* The first write of push_back keeps the frame.
LEMMA FrameWriteItem ==
    ASSUME Frame, NEW x \in Items, WriteItem(x)
    PROVE  Frame'
<1> DEFINE F == itemsFileSize
           S == Size[x]
<1>1. PICK n \in 0..S :
         /\ items' = [p \in Cells |-> IF p \in F..(F + n - 1) THEN <<x, p - F>> ELSE InFile(p)]
         /\ wItems' = [p \in (F + n)..(F + S - 1) |-> <<x, p - F>>]
  BY DEF WriteItem
<1>2. /\ pushing = Nothing /\ size < MaxItems /\ F + S <= MaxCells /\ pushing' = x
      /\ UNCHANGED <<count, sizes, wCount, offsets, itemsFileSize, memory, blocks>>
  BY DEF WriteItem
<1>3. S \in Nat \ {0} /\ F \in Nat /\ n \in Nat /\ n <= S
  BY SizeAssumption DEF Frame, Typed
<1>4. Written(x)
  BY WriteItemWrites DEF Frame, Typed
<1>5. size' = size
  BY <1>2 DEF size
<1>6. items' \in [Cells -> {Hole} \cup (Items \X Nat)]
  <2>1. ASSUME NEW p \in Cells PROVE items'[p] \in {Hole} \cup (Items \X Nat)
    <3>1. CASE p \in F..(F + n - 1)
      <4>1. p - F \in Nat
        BY <1>3, <3>1
      <4> QED BY <1>1, <3>1, <4>1
    <3>2. CASE p \notin F..(F + n - 1)
      <4>1. InFile(p) \in {Hole} \cup (Items \X Nat)
        BY DEF Frame, Typed, InFile
      <4> QED BY <1>1, <3>2, <4>1
    <3> QED BY <3>1, <3>2
  <2>2. items' = [p \in Cells |-> items'[p]]
    BY <1>1
  <2> QED BY <2>1, <2>2
<1>7. ASSUME NEW p \in DOMAIN wItems' PROVE p \in Cells /\ wItems'[p] \in Items \X Nat
  <2>1. p \in (F + n)..(F + S - 1) /\ wItems'[p] = <<x, p - F>>
    BY <1>1
  <2>2. p \in Cells /\ p - F \in Nat
    BY <1>2, <1>3, <2>1, BoundAssumption DEF Cells
  <2> QED BY <2>1, <2>2
<1>8. Typed'
  BY <1>2, <1>5, <1>6, <1>7 DEF Frame, Typed, Cells
<1>9. Counted'
  BY <1>2, <1>5 DEF Frame, Counted
<1>10. Placed'
  <2>1. StoredOffset' = StoredOffset
    BY <1>2 DEF StoredOffset
  <2>2. InFile(itemsFileSize)' = <<x, 0>>
    <3>1. PICK p \in Nat : p = itemsFileSize
      BY <1>3
    <3>2. p \in itemsFileSize..(itemsFileSize + Size[x] - 1) /\ p - itemsFileSize = 0
      BY <1>3, <3>1
    <3>3. InFile(p)' = <<x, 0>>
      BY <1>4, <3>2 DEF Written
    <3> QED BY <1>2, <3>1, <3>3 DEF InFile
  <2> QED BY <1>2, <1>5, <2>1, <2>2 DEF Frame, Placed
<1>11. Pool(memory, size)'
  BY <1>2, <1>5 DEF Frame, Pool
<1> QED BY <1>8, <1>9, <1>10, <1>11 DEF Frame

\* The second write of push_back keeps the frame; the count on disk is that of before.
LEMMA FrameWriteIndex ==
    ASSUME Frame, WriteIndex
    PROVE  Frame' /\ size' = size + 1 /\ count' = size
<1> DEFINE F == itemsFileSize
           x == pushing
           n == size
<1>1. /\ x \in Items /\ x # Nothing /\ n \in 0..MaxItems /\ n < MaxItems /\ F \in Nat /\ F + Size[x] <= MaxCells
      /\ MaxItems \in Nat /\ MaxCells \in Nat /\ Len(blocks) = n /\ Len(offsets) = n
  BY NothingAssumption, BoundAssumption DEF WriteIndex, Frame, Typed, Placed, size
<1>2. /\ sizes' = [sizes EXCEPT ![n + 1] = Size[x]] /\ wCount' = n + 1
      /\ offsets' = Append(offsets, F) /\ itemsFileSize' = F + Size[x]
      /\ memory' = prepare(memory, n + 1, x) /\ blocks' = Append(blocks, x) /\ pushing' = Nothing
      /\ UNCHANGED <<items, wItems>>
  BY DEF WriteIndex
<1>3. count' = n
  BY CountFlushed DEF WriteIndex, Frame
<1>4. Size[x] \in Nat \ {0}
  BY <1>1, SizeAssumption
<1>5. offsets \in Seq(Nat) /\ blocks \in Seq(Items \cup {Nothing}) /\ sizes \in [1..MaxItems -> 0..MaxCells]
  BY DEF Frame, Typed
<1>6. offsets' \in Seq(Nat) /\ blocks' \in Seq(Items \cup {Nothing}) /\ Len(offsets') = n + 1 /\ Len(blocks') = n + 1
  BY <1>1, <1>2, <1>5
<1>7. size' = n + 1 /\ offsets'[n + 1] = F /\ \A i \in 1..n : offsets'[i] = offsets[i]
  BY <1>1, <1>2, <1>5, <1>6 DEF size
<1>8. sizes' \in [1..MaxItems -> 0..MaxCells]
  BY <1>1, <1>2, <1>4, <1>5, SMTT(30)
<1>9. Typed'
  <2>1. F + Size[x] \in Nat /\ n + 1 \in 0..MaxItems /\ n \in 0..MaxItems
    BY <1>1, <1>4
  <2>2. items' \in [Cells -> {Hole} \cup (Items \X Nat)] /\ \A p \in DOMAIN wItems' : p \in Cells /\ wItems'[p] \in Items \X Nat
    BY <1>2 DEF Frame, Typed
  <2> HIDE DEF F, x, n
  <2> QED BY <1>2, <1>3, <1>6, <1>7, <1>8, <2>1, <2>2 DEF Typed, Cells
<1>10. Counted'
  BY <1>1, <1>2, <1>3, <1>7, NothingAssumption DEF Counted
<1>11. Placed'
  <2> DEFINE f == Offsets(sizes)
             g == Offsets(sizes')
  <2>1. StoredOffset = f /\ StoredOffset' = g
    BY DEF StoredOffset
  <2>2. sizes \in [1..MaxItems -> Nat] /\ sizes' \in [1..MaxItems -> Nat]
    BY <1>1, <1>5, <1>8
  <2>3. \A i \in 1..n : sizes[i] = sizes'[i]
    BY <1>1, <1>2, <1>5
  <2>4. \A i \in 1..(n + 1) : f[i] = g[i]
    BY <1>1, <2>2, <2>3, OffsetsAlike, Zenon
  <2>5. \A i \in 1..MaxItems : g[i + 1] = g[i] + sizes'[i]
    BY <2>2, OffsetsAre, Zenon
  <2>6. /\ \A i \in 1..n : offsets[i] = f[i]
        /\ F = f[n + 1]
        /\ \A i \in 1..MaxItems : i <= n \/ i <= count => sizes[i] >= 1 /\ f[i] + sizes[i] <= MaxCells
    BY <2>1 DEF Frame, Placed
  <2> HIDE DEF f, g, F, n, x
  <2>7. sizes'[n + 1] = Size[x] /\ n + 1 \in 1..MaxItems /\ n + 1 \in 1..(n + 1)
    BY <1>1, <1>2, <1>5
  <2>8. g[n + 1] = F /\ g[(n + 1) + 1] = F + Size[x]
    BY <2>4, <2>5, <2>6, <2>7
  <2>9. ASSUME NEW i \in 1..(n + 1) PROVE offsets'[i] = g[i]
    <3>1. CASE i \in 1..n
      BY <1>1, <1>7, <2>4, <2>6, <3>1
    <3>2. CASE i = n + 1
      BY <1>7, <2>8, <3>2
    <3> QED BY <1>1, <3>1, <3>2
  <2>10. ASSUME NEW i \in 1..MaxItems, i <= n + 1 \/ i <= n PROVE sizes'[i] >= 1 /\ g[i] + sizes'[i] <= MaxCells
    <3>1. CASE i = n + 1
      BY <1>1, <1>4, <2>7, <2>8, <3>1
    <3>2. CASE i # n + 1
      <4>1. i \in 1..n /\ i <= n /\ i \in 1..(n + 1)
        BY <1>1, <2>10, <3>2
      <4> QED BY <2>3, <2>4, <2>6, <4>1
    <3> QED BY <3>1, <3>2
  <2> QED BY <1>2, <1>3, <1>7, <2>1, <2>8, <2>9, <2>10, Zenon DEF Placed
<1>12. Pool(memory, size)'
  <2>1. Pool(memory, n + 1) /\ n + 1 \notin DOMAIN memory.items
    BY <1>1, PoolGrows DEF Frame
  <2>2. n + 1 \in Nat /\ n + 1 \in 1..(n + 1)
    BY <1>1
  <2>3. Pool(prepare(memory, n + 1, x), n + 1)
    BY <2>1, <2>2, PoolPrepare
  <2>4. Pool(memory', n + 1)
    BY <1>2, <2>3, Zenon
  <2> QED BY <1>7, <2>4, Zenon DEF Pool
<1> QED BY <1>3, <1>7, <1>9, <1>10, <1>11, <1>12 DEF Frame

\* pop_back keeps the frame; the count on disk is that of before.
LEMMA FramePop ==
    ASSUME Frame, pop_back
    PROVE  Frame' /\ size >= 1 /\ size' = size - 1 /\ count' = size
<1> DEFINE n == size
<1>1. /\ n \in 1..MaxItems /\ MaxItems \in Nat /\ Len(blocks) = n /\ Len(offsets) = n
      /\ offsets \in Seq(Nat) /\ blocks \in Seq(Items \cup {Nothing})
  BY BoundAssumption DEF pop_back, Frame, Typed, size
<1>2. /\ pushing = Nothing /\ wCount' = n - 1 /\ offsets' = SubSeq(offsets, 1, n - 1) /\ itemsFileSize' = offsets[n]
      /\ memory' = Drop(memory, n) /\ blocks' = SubSeq(blocks, 1, n - 1)
      /\ UNCHANGED <<items, wItems, sizes, pushing>>
  BY DEF pop_back
<1>3. count' = n
  BY CountFlushed DEF pop_back, Frame
<1>4. /\ offsets' \in Seq(Nat) /\ blocks' \in Seq(Items \cup {Nothing}) /\ Len(offsets') = n - 1 /\ Len(blocks') = n - 1
      /\ \A i \in 1..(n - 1) : offsets'[i] = offsets[i]
  BY <1>1, <1>2, SMTT(30)
<1>5. size' = n - 1
  BY <1>4 DEF size
<1>6. Typed'
  <2>1. offsets[n] \in Nat /\ n - 1 \in 0..MaxItems /\ n \in 0..MaxItems
    BY <1>1
  <2>2. items' \in [Cells -> {Hole} \cup (Items \X Nat)] /\ \A p \in DOMAIN wItems' : p \in Cells /\ wItems'[p] \in Items \X Nat
    BY <1>2 DEF Frame, Typed
  <2>3. sizes' \in [1..MaxItems -> 0..MaxCells] /\ pushing' \in Items \cup {Nothing}
    BY <1>2 DEF Frame, Typed
  <2> HIDE DEF n
  <2> QED BY <1>2, <1>3, <1>4, <1>5, <2>1, <2>2, <2>3 DEF Typed, Cells
<1>7. Counted'
  BY <1>1, <1>2, <1>3, <1>5, NothingAssumption DEF Counted
<1>8. Placed'
  <2> DEFINE f == StoredOffset
  <2>1. StoredOffset' = f
    BY <1>2 DEF StoredOffset
  <2>2. /\ \A i \in 1..n : offsets[i] = f[i]
        /\ \A i \in 1..MaxItems : i <= n \/ i <= count => sizes[i] >= 1 /\ f[i] + sizes[i] <= MaxCells
    BY DEF Frame, Placed
  <2> HIDE DEF f, n
  <2>3. n \in 1..n /\ (n - 1) + 1 = n /\ \A i \in 1..(n - 1) : i \in 1..n
    BY <1>1
  <2>4. itemsFileSize' = f[(n - 1) + 1] /\ \A i \in 1..(n - 1) : offsets'[i] = f[i]
    BY <1>2, <1>4, <2>2, <2>3
  <2>5. \A i \in 1..MaxItems : i <= n - 1 \/ i <= n => sizes[i] >= 1 /\ f[i] + sizes[i] <= MaxCells
    BY <1>1, <2>2
  <2> QED BY <1>2, <1>3, <1>5, <2>1, <2>4, <2>5 DEF Placed
<1>9. Pool(memory, size)'
  <2>1. n - 1 \in Nat /\ (n - 1) + 1 = n
    BY <1>1
  <2>2. Pool(Drop(memory, n), n - 1)
    BY <2>1, PoolDrop DEF Frame
  <2>3. Pool(memory', n - 1)
    BY <1>2, <2>2, Zenon
  <2> QED BY <1>5, <2>3, Zenon DEF Pool
<1> QED BY <1>1, <1>3, <1>5, <1>6, <1>7, <1>8, <1>9 DEF Frame

\* Reading a cached item keeps the frame.
LEMMA FrameHit ==
    ASSUME Frame, NEW i \in 1..size, Hit(i)
    PROVE  Frame'
<1>1. /\ UNCHANGED <<items, count, sizes, wItems, wCount, offsets, itemsFileSize, pushing, blocks>>
      /\ memory' = touch(memory, i) /\ i \in DOMAIN memory.items
  BY DEF Hit, fileVars, Cached
<1>2. size' = size /\ size \in Nat
  BY <1>1 DEF size, Frame, Typed
<1>3. Typed'
  BY <1>1, <1>2 DEF Frame, Typed, Cells
<1>4. Counted'
  BY <1>1, <1>2 DEF Frame, Counted
<1>5. Placed'
  <2>1. StoredOffset' = StoredOffset
    BY <1>1 DEF StoredOffset
  <2>2. InFile(itemsFileSize)' = InFile(itemsFileSize)
    BY <1>1 DEF InFile
  <2>3. /\ offsets' = offsets /\ itemsFileSize' = itemsFileSize /\ sizes' = sizes
        /\ count' = count /\ pushing' = pushing
    BY <1>1
  <2>4. Placed
    BY DEF Frame
  <2> QED BY <1>2, <2>1, <2>2, <2>3, <2>4, Zenon DEF Placed
<1>6. Pool(memory', size)
  <2>1. Pool(touch(memory, i), size)
    BY <1>1, <1>2, PoolTouch DEF Frame
  <2> QED BY <1>1, <2>1, Zenon
<1>7. Pool(memory, size)'
  BY <1>2, <1>6, Zenon DEF Pool
<1> QED BY <1>3, <1>4, <1>5, <1>7 DEF Frame

\* The buffer of the item file goes to the disk, that of the index file may.
LEMMA FrameFlush ==
    ASSUME Frame, FlushItems, wItems' = NoCells, pushing = Nothing, Pool(memory', size),
           UNCHANGED <<sizes, offsets, itemsFileSize, pushing, blocks>>,
           UNCHANGED <<count, wCount>> \/ (FlushCount /\ wCount' = Nothing)
    PROVE  Frame'
<1>1. size' = size /\ size \in 0..MaxItems
  BY DEF size, Frame, Typed
<1>2. count' \in 0..MaxItems /\ (count' = count \/ count' = size)
  <2>1. CASE UNCHANGED <<count, wCount>>
    BY <2>1 DEF Frame, Typed
  <2>2. CASE FlushCount
    BY <1>1, <2>2, CountFlushed DEF Frame
  <2> QED BY <2>1, <2>2
<1>3. Typed'
  <2>1. items' \in [Cells -> {Hole} \cup (Items \X Nat)]
    BY InFileTyped DEF Frame, FlushItems
  <2> QED BY <1>1, <1>2, <2>1 DEF Frame, Typed, Cells, NoCells
<1>4. Counted'
  <2>1. CASE UNCHANGED <<count, wCount>>
    BY <1>1, <2>1 DEF Frame, Counted
  <2>2. CASE FlushCount /\ wCount' = Nothing
    <3>1. count' = size
      BY <2>2, CountFlushed DEF Frame
    <3> QED BY <1>1, <2>2, <3>1 DEF Counted
  <2> QED BY <2>1, <2>2
<1>5. Placed'
  <2> DEFINE f == StoredOffset
  <2>1. StoredOffset' = f
    BY DEF StoredOffset
  <2>2. /\ \A i \in 1..size : offsets[i] = f[i]
        /\ itemsFileSize = f[size + 1]
        /\ \A i \in 1..MaxItems : i <= size \/ i <= count => sizes[i] >= 1 /\ f[i] + sizes[i] <= MaxCells
    BY DEF Frame, Placed
  <2> HIDE DEF f
  <2> QED BY <1>1, <1>2, <2>1, <2>2 DEF Placed
<1>6. Pool(memory, size)'
  BY <1>1, Zenon DEF Pool
<1> QED BY <1>3, <1>4, <1>5, <1>6 DEF Frame

\* Reading an item from the file, and evicting another one, keeps the frame.
LEMMA FrameMiss ==
    ASSUME Frame, NEW i \in 1..size, Miss(i)
    PROVE  Frame'
<1>1. /\ FlushItems /\ wItems' = NoCells /\ pushing = Nothing /\ i \notin DOMAIN memory.items
      /\ UNCHANGED <<sizes, offsets, itemsFileSize, pushing, blocks>> /\ UNCHANGED <<count, wCount>>
  BY DEF Miss, Cached
<1>2. \E x : memory' = prepare(memory, i, x)
  BY DEF Miss
<1>3. size \in Nat
  BY DEF Frame, Typed
<1>4. Pool(memory', size)
  BY <1>1, <1>2, <1>3, PoolPrepare DEF Frame
<1> QED BY <1>1, <1>4, FrameFlush

\* open: the offsets are computed again.
LEMMA FrameOpen ==
    ASSUME Frame, open, Pool(memory', count), (wCount' = Nothing) \/ (wCount' = 0 /\ count = 0)
    PROVE  Frame' /\ size' = count /\ count' = count /\ StoredOffset' = StoredOffset
<1> DEFINE f == StoredOffset
           n == count
<1>1. /\ n \in 0..MaxItems /\ MaxItems \in Nat
      /\ f[1] = 0 /\ \A i \in 1..(MaxItems + 1) : f[i] \in Nat
  BY StoredOffsets, BoundAssumption DEF Frame, Typed
<1>2. /\ offsets' = [i \in 1..n |-> f[i]] /\ itemsFileSize' = f[n + 1] /\ blocks' = [i \in 1..n |-> Stored(i)]
      /\ wItems' = NoCells /\ pushing' = Nothing /\ UNCHANGED <<items, count, sizes>>
  BY DEF open, StoredChain
<1>3. StoredOffset' = f
  BY <1>2 DEF StoredOffset
<1>4. \A i : Stored(i) \in Items \cup {Nothing}
  <2> TAKE i
  <2> DEFINE W(y) == Whole(y, StoredOffset[i], OnDisk)
  <2>1. Stored(i) = IF \E y \in Items : W(y) THEN CHOOSE y \in Items : W(y) ELSE Nothing
    BY DEF Stored, Deserialized
  <2> HIDE DEF W
  <2> QED BY <2>1
<1> HIDE DEF f
<1>5. /\ offsets' \in Seq(Nat) /\ Len(offsets') = n /\ \A i \in 1..n : offsets'[i] = f[i]
  BY <1>1, <1>2
<1>6. /\ blocks' \in Seq(Items \cup {Nothing}) /\ Len(blocks') = n
  BY <1>1, <1>2, <1>4
<1>7. size' = n
  BY <1>5 DEF size
<1>8. Typed'
  <2>1. f[n + 1] \in Nat
    BY <1>1
  <2> QED BY <1>1, <1>2, <1>5, <1>6, <1>7, <2>1 DEF Frame, Typed, Cells, NoCells
<1>9. Counted'
  BY <1>1, <1>2, <1>7, NothingAssumption DEF Counted
<1>10. Placed'
  <2>1. \A i \in 1..MaxItems : i <= n => sizes[i] >= 1 /\ f[i] + sizes[i] <= MaxCells
    BY DEF Frame, Placed, f
  <2> QED BY <1>2, <1>3, <1>5, <1>7, <2>1 DEF Placed
<1>11. Pool(memory, size)'
  BY <1>7, Zenon DEF Pool
<1> QED BY <1>2, <1>3, <1>7, <1>8, <1>9, <1>10, <1>11 DEF Frame, f
=============================================================================
