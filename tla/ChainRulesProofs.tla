-------------------------- MODULE ChainRulesProofs ---------------------------
(***************************************************************************)
(* The rules of a block at its place, for every value of the parameters:   *)
(* a block is judged alike beside the main chain and on it, a switch gains *)
(* work, one that fails restores the chain, and the coins stay within the  *)
(* supply.  The argument rests on one inductive invariant, IInv: the main  *)
(* chain is one that pushBlock accepts block by block, and the work of an  *)
(* alternative block is what the main chain's rule gives it.               *)
(***************************************************************************)
EXTENDS ChainRulesLemmas

-----------------------------------------------------------------------------
(* The work of alternative blocks *)

\* The work of an alternative block is that of the block below it and the difficulty that the main chain's rule asks for.
WorkUnder(main, f, alt, i) == IF i = 1 THEN main[f].work ELSE alt[i - 1].work
WeighsAt(main, f, alt, i) ==
    alt[i].work = WorkUnder(main, f, alt, i) + getDifficultyForNextBlock(SubSeq(main, 1, f) \o SubSeq(alt, 1, i - 1))
Weighs(main, f, alt) == \A i \in 1..Len(alt) : WeighsAt(main, f, alt, i)

\* Another chain with the same blocks below
LEMMA WeighsElsewhere ==
    ASSUME NEW main, NEW other, NEW f, NEW alt, Weighs(main, f, alt),
           SubSeq(main, 1, f) = SubSeq(other, 1, f), main[f] = other[f]
    PROVE  Weighs(other, f, alt)
BY Zenon DEF Weighs, WeighsAt, WorkUnder

\* What is true of the weights of an alternative chain is true of its beginnings.
LEMMA WeighsPrefix ==
    ASSUME NEW main, NEW f, NEW alt \in Seq(Entry), Weighs(main, f, alt), NEW j \in 0..Len(alt)
    PROVE  Weighs(main, f, SubSeq(alt, 1, j))
<1> DEFINE s == SubSeq(alt, 1, j)
<1>1. /\ Len(s) = j
      /\ \A i \in 1..j : /\ i \in 1..Len(alt) /\ s[i] = alt[i] /\ SubSeq(s, 1, i - 1) = SubSeq(alt, 1, i - 1)
                         /\ (i # 1 => s[i - 1] = alt[i - 1])
  OBVIOUS
<1> HIDE DEF s
<1>2. ASSUME NEW i \in 1..j PROVE WeighsAt(main, f, s, i)
  <2>1. WorkUnder(main, f, s, i) = WorkUnder(main, f, alt, i)
    BY <1>1, Zenon DEF WorkUnder
  <2>2. WeighsAt(main, f, alt, i)
    BY <1>1, Zenon DEF Weighs
  <2> QED BY <1>1, <2>1, <2>2, Zenon DEF WeighsAt
<1> QED BY <1>1, <1>2, Zenon DEF Weighs, s

\* One more alternative block is weighed as the main chain would weigh it, when no fixed height
\* comes between.
LEMMA WeighsAppend ==
    ASSUME NEW main \in Seq(Entry), NEW f \in 1..Len(main), NEW alt \in Seq(Entry), Weighs(main, f, alt),
           FixedAt(Len(main)) = FixedAt(f + Len(alt)),
           NEW b \in Entry, AlternativeEntry(main, f, alt, b) \in Entry
    PROVE  Weighs(main, f, Append(alt, AlternativeEntry(main, f, alt, b)))
<1> DEFINE e == AlternativeEntry(main, f, alt, b)
           s == Append(alt, e)
           n == Len(alt)
<1>1. e.work = (IF alt = <<>> THEN main[f].work ELSE Tip(alt).work)
               + get_next_difficulty_for_alternative_chain(main, f, alt)
  BY DEF AlternativeEntry, Entry
<1>2. get_next_difficulty_for_alternative_chain(main, f, alt) = getDifficultyForNextBlock(SubSeq(main, 1, f) \o alt)
  BY AlternativeDifficulty
<1> HIDE DEF e
<1>3. /\ n \in Nat /\ Len(s) = n + 1 /\ s[n + 1] = e /\ SubSeq(s, 1, (n + 1) - 1) = alt
      /\ \A i \in 1..n : s[i] = alt[i] /\ SubSeq(s, 1, i - 1) = SubSeq(alt, 1, i - 1) /\ (i # 1 => s[i - 1] = alt[i - 1])
      /\ \A i \in 1..n + 1 : i \in 1..n \/ i = n + 1
  BY DEF e
<1>4. WorkUnder(main, f, s, n + 1) = IF alt = <<>> THEN main[f].work ELSE Tip(alt).work
  <2>1. CASE alt = <<>>
    BY <1>3, <2>1 DEF WorkUnder
  <2>2. CASE alt # <<>>
    <3>1. n + 1 # 1 /\ s[(n + 1) - 1] = alt[n]
      <4>1. n \in 1..n /\ n + 1 # 1 /\ (n + 1) - 1 = n
        BY <2>2
      <4> HIDE DEF s
      <4> QED BY <1>3, <4>1
    <3> QED BY <2>2, <3>1 DEF WorkUnder, Tip
  <2> QED BY <2>1, <2>2
<1> HIDE DEF s, n
<1>5. WeighsAt(main, f, s, n + 1)
  BY <1>1, <1>2, <1>3, <1>4, Zenon DEF WeighsAt
<1>6. ASSUME NEW i \in 1..n PROVE WeighsAt(main, f, s, i)
  <2>1. WorkUnder(main, f, s, i) = WorkUnder(main, f, alt, i)
    BY <1>3, Zenon DEF WorkUnder
  <2>2. WeighsAt(main, f, alt, i)
    BY Zenon DEF Weighs, n
  <2> QED BY <1>3, <2>1, <2>2, Zenon DEF WeighsAt
<1> QED BY <1>3, <1>5, <1>6, Zenon DEF Weighs, s, e

\* Sequences alike in times and weights stay so when like blocks are added.
LEMMA AlikeAppend ==
    ASSUME NEW X, NEW s \in Seq(X), NEW t \in Seq(X), Alike(s, t), NEW e \in X, NEW x \in X, e.time = x.time, e.work = x.work
    PROVE  Alike(Append(s, e), Append(t, x))
<1>1. Len(s) = Len(t) /\ \A i \in 1..Len(s) : s[i].time = t[i].time /\ s[i].work = t[i].work
  BY Zenon DEF Alike
<1>2. /\ Len(Append(s, e)) = Len(s) + 1 /\ Len(Append(t, x)) = Len(s) + 1
      /\ Append(s, e)[Len(s) + 1] = e /\ Append(t, x)[Len(s) + 1] = x
      /\ \A i \in 1..Len(s) : Append(s, e)[i] = s[i] /\ Append(t, x)[i] = t[i]
      /\ \A i \in 1..Len(s) + 1 : i \in 1..Len(s) \/ i = Len(s) + 1
  BY <1>1
<1> QED BY <1>1, <1>2, Zenon DEF Alike

\* The blocks of an alternative chain above those of the main chain, one more
OneMore(s, t, k) ==
    /\ s \o SubSeq(t, 1, k) \in Seq(Entry) /\ s \o SubSeq(t, 1, k) # <<>>
    /\ Len(s \o SubSeq(t, 1, k)) = Len(s) + k
    /\ s \o SubSeq(t, 1, k + 1) = Append(s \o SubSeq(t, 1, k), t[k + 1])
    /\ t[k + 1] \in Entry
    /\ (s \o SubSeq(t, 1, k))[Len(s) + k] = IF k = 0 THEN s[Len(s)] ELSE t[k]

\* Joining one block more of an alternative chain appends it.
LEMMA Joined ==
    ASSUME NEW s \in Seq(Entry), s # <<>>, NEW t \in Seq(Entry), NEW k \in 0..Len(t) - 1
    PROVE  OneMore(s, t, k)
<1>1. s \o SubSeq(t, 1, k + 1) = Append(s \o SubSeq(t, 1, k), t[k + 1])
  OBVIOUS
<1>2. (s \o SubSeq(t, 1, k))[Len(s) + k] = IF k = 0 THEN s[Len(s)] ELSE t[k]
  OBVIOUS
<1> QED BY <1>1, <1>2 DEF OneMore

\* Two blocks with the same work below them and the same difficulty asked
LEMMA ConnectWeighs ==
    ASSUME NEW main, SoundAt(main, clock), NEW f \in 1..Len(main), NEW alt \in Seq(Entry), Weighs(main, f, alt),
           NEW run, ConnectRun(run, SubSeq(main, 1, f), alt), run[Len(alt)].open
    PROVE  Alike(run[Len(alt)].chain, SubSeq(main, 1, f) \o alt)
<1> DEFINE below == SubSeq(main, 1, f)
           n == Len(alt)
           P == {k \in Nat : k <= n => Alike(run[k].chain, below \o SubSeq(alt, 1, k))}
<1>1. main \in Seq(Entry) /\ n \in Nat
  BY SoundLast
<1>2. below \in Seq(Entry) /\ below # <<>> /\ Len(below) = f /\ below[f] = main[f]
  BY <1>1
<1> HIDE DEF below
<1>3. ConnectRun(run, below, alt)
  BY DEF below
<1>4. \A k \in 0..n : run[k].open /\ run[k] \in Connections
  BY <1>2, <1>3, RunOpen, Zenon DEF ConnectRun
<1>5. 0 \in P
  <2>1. run[0].chain = below
    <3>1. run[0] = [chain |-> below, open |-> TRUE]
      BY <1>3, Zenon DEF ConnectRun
    <3> QED BY <3>1
  <2>2. below \o SubSeq(alt, 1, 0) = below
    BY <1>2
  <2> QED BY <2>1, <2>2 DEF Alike
<1>6. ASSUME NEW k \in Nat, k \in P PROVE k + 1 \in P
  <2> SUFFICES ASSUME k + 1 <= n PROVE Alike(run[k + 1].chain, below \o SubSeq(alt, 1, k + 1))
    OBVIOUS
  <2> DEFINE s == run[k].chain
             t == below \o SubSeq(alt, 1, k)
             j == k + 1
             x == alt[j]
             e == BlockEntry(s, x)
  <2>1. k \in 0..n /\ k \in 0..n - 1 /\ j \in 1..n /\ j \in 0..n /\ j - 1 = k /\ k <= n
    BY <1>1
  <2>2. Alike(s, t)
    BY <1>6, <2>1
  <2>3. /\ t \in Seq(Entry) /\ t # <<>> /\ Len(t) = f + k /\ below \o SubSeq(alt, 1, j) = Append(t, x) /\ x \in Entry
        /\ t[f + k] = IF k = 0 THEN main[f] ELSE alt[k]
    <3>1. k \in 0..Len(alt) - 1
      BY <2>1
    <3>2. OneMore(below, alt, k)
      BY <1>2, <3>1, Joined, Zenon
    <3> QED BY <1>2, <3>2, SMTT(30) DEF OneMore
  <2>4. /\ run[k] \in Connections /\ run[j].open
    BY <1>4, <2>1, Zenon
  <2>5. Grown(run[k], run[j], x)
    <3>1. Grown(run[j - 1], run[j], alt[j])
      BY <1>3, <2>1, RunStep, Zenon
    <3> QED BY <2>1, <3>1
  <2> HIDE DEF t, x
  <2>6. Accepted(s, x, clock) /\ run[j].chain = Append(s, e)
    BY <2>4, <2>5 DEF Grown
  <2>7. s \in Seq(Entry) /\ s # <<>> /\ Tip(s) = s[Len(s)] /\ Tip(s).coins \in 0..MoneySupply
    BY <2>4, ConnectionIs
  <2> HIDE DEF s
  <2>8. e \in Entry /\ e.time = x.time /\ e.work = Tip(s).work + getDifficultyForNextBlock(s)
    BY <2>3, <2>6, <2>7, AcceptedEntry, ZenonT(30) DEF BlockEntry
  <2>9. getDifficultyForNextBlock(s) = getDifficultyForNextBlock(t)
    BY <2>2, <2>3, <2>7, DifficultyAlike
  <2>10. Tip(s).work = WorkUnder(main, f, alt, j)
    <3>1. Len(s) = f + k /\ s[f + k].work = t[f + k].work
      <4>1. f + k \in 1..f + k
        BY <2>1
      <4>2. Len(s) = Len(t) /\ \A i \in 1..Len(s) : s[i].time = t[i].time /\ s[i].work = t[i].work
        BY <2>2, Zenon DEF Alike
      <4>3. Len(s) = f + k
        BY <2>3, <4>2
      <4> QED BY <4>1, <4>2, <4>3, Zenon
    <3>2. Tip(s).work = t[f + k].work
      BY <2>7, <3>1
    <3>3. WorkUnder(main, f, alt, j) = IF k = 0 THEN main[f].work ELSE alt[k].work
      <4>1. j = 1 <=> k = 0
        BY <2>1
      <4> QED BY <2>1, <4>1 DEF WorkUnder
    <3> QED BY <2>3, <3>2, <3>3
  <2>11. x.work = WorkUnder(main, f, alt, j) + getDifficultyForNextBlock(t)
    <3>1. WeighsAt(main, f, alt, j)
      BY <2>1, Zenon DEF Weighs
    <3> QED BY <2>1, <3>1 DEF WeighsAt, below, t, x
  <2>12. e.work = x.work
    BY <2>8, <2>9, <2>10, <2>11, Zenon
  <2>13. Alike(Append(s, e), Append(t, x))
    BY <2>2, <2>3, <2>7, <2>8, <2>12, AlikeAppend
  <2> QED BY <2>3, <2>6, <2>13, Zenon
<1> HIDE DEF P
<1>7. Nat \subseteq P
  BY <1>5, <1>6, Induction
<1>8. SubSeq(alt, 1, n) = alt
  OBVIOUS
<1>9. Alike(run[n].chain, below \o SubSeq(alt, 1, n))
  BY <1>1, <1>7 DEF P
<1> QED BY <1>8, <1>9, Zenon DEF below

-----------------------------------------------------------------------------
(* SetAside, one block after the other *)

\* The difficulty an alternative block is checked against is an integer.
LEMMA AlternativeDifficultyIsInt ==
    ASSUME NEW main \in Seq(Entry), NEW f \in 1..Len(main), NEW alt \in Seq(Entry)
    PROVE  get_next_difficulty_for_alternative_chain(main, f, alt) \in Int
<1> DEFINE s == SubSeq(main, 1, f) \o alt
           n == Len(s)
           a == Greatest(n - Least(n, difficultyBlocksCount), 1) + 1
<1>1. s \in Seq(Entry) /\ n \in Nat /\ n >= 1
  OBVIOUS
<1>2. AltWindow(main, f, alt) = MainWindow(s)
  BY SameWindow
<1> HIDE DEF s
<1>3. a \in Nat /\ 1 <= a /\ a <= n + 1
  BY <1>1, ParametersAssumption DEF difficultyBlocksCount, Least, Greatest
<1>4. MainWindow(s) = SubSeq(s, a, n)
  BY MainWindowIs, Zenon
<1> HIDE DEF a
<1>5. SubSeq(s, a, n) \in Seq(Entry)
  BY <1>1, <1>3
<1>6. nextDifficulty(Len(main), AltWindow(main, f, alt)) \in Int
  BY <1>2, <1>4, <1>5, NextDifficultyIsInt, Zenon
<1> QED BY <1>6 DEF get_next_difficulty_for_alternative_chain, AltWindow

\* What handle_alternative_block stores of a block it accepts
LEMMA AsideEntry ==
    ASSUME NEW main \in Seq(Entry), NEW f \in 1..Len(main), NEW alt \in Seq(Entry), NEW b \in Entry,
           AcceptedAside(main, f, alt, b)
    PROVE  AlternativeEntry(main, f, alt, b) \in Entry /\ AlternativeEntry(main, f, alt, b).time = b.time
<1> DEFINE d == get_next_difficulty_for_alternative_chain(main, f, alt)
           w == IF alt = <<>> THEN main[f].work ELSE Tip(alt).work
           t == w + d
<1>1. d \in Int
  BY AlternativeDifficultyIsInt
<1>2. d \in 1..b.pow
  BY DEF AcceptedAside
<1>3. b.pow \in Nat
  BY EntryFields
<1>4. d \in Nat
  BY <1>1, <1>2, <1>3
<1>5. w \in Nat
  <2>1. main[f] \in Entry /\ (alt # <<>> => Tip(alt) \in Entry)
    BY LastBlock
  <2> QED BY <2>1, EntryFields
<1>6. t \in Nat
  BY <1>4, <1>5
<1>7. AlternativeEntry(main, f, alt, b) = [b EXCEPT !.work = t]
  BY Zenon DEF AlternativeEntry
<1> HIDE DEF t
<1> QED BY <1>6, <1>7, ZenonT(30) DEF Entry

\* The states of SetAside
Asides(main, f) == [main : {main}, fork : {f}, alt : Seq(Entry), open : BOOLEAN]

\* A step of SetAside adds the block b, or ends the run.
GrownAside(main, f, p, q, b) ==
    \/ /\ p.open = TRUE /\ AcceptedAside(main, f, p.alt, b)
       /\ q.open = TRUE /\ q.alt = Append(p.alt, AlternativeEntry(main, f, p.alt, b))
    \/ q.open = FALSE /\ q.alt = p.alt

\* handle_alternative_block, on each block of a sequence: it is set aside, or the sequence ends
\* there.
LEMMA HandledStays ==
    ASSUME NEW main \in Seq(Entry), NEW f \in 1..Len(main), NEW c \in Asides(main, f), NEW b \in Entry
    PROVE  HandledAside(c, b) \in Asides(main, f) /\ GrownAside(main, f, c, HandledAside(c, b), b)
<1>1. c.main = main /\ c.fork = f /\ c.alt \in Seq(Entry)
  BY DEF Asides
<1>2. CASE c.open /\ AcceptedAside(c.main, c.fork, c.alt, b)
  <2> DEFINE e == AlternativeEntry(main, f, c.alt, b)
             s == Append(c.alt, e)
  <2>1. e \in Entry
    BY <1>1, <1>2, AsideEntry
  <2>2. s \in Seq(Entry)
    BY <1>1, <2>1
  <2>3. HandledAside(c, b) = [c EXCEPT !.alt = s]
    BY <1>1, <1>2 DEF HandledAside
  <2> HIDE DEF s
  <2>4. [c EXCEPT !.alt = s] \in Asides(main, f) /\ [c EXCEPT !.alt = s].alt = s /\ [c EXCEPT !.alt = s].open = c.open
        /\ (c.open => c.open = TRUE)
    BY <2>2, Zenon DEF Asides
  <2> QED BY <1>1, <1>2, <2>3, <2>4 DEF GrownAside, s
<1>3. CASE ~(c.open /\ AcceptedAside(c.main, c.fork, c.alt, b))
  <2>1. HandledAside(c, b) = [c EXCEPT !.open = FALSE]
    BY <1>3 DEF HandledAside
  <2>2. /\ [c EXCEPT !.open = FALSE] \in Asides(main, f)
        /\ [c EXCEPT !.open = FALSE].open = FALSE /\ [c EXCEPT !.open = FALSE].alt = c.alt
    BY Zenon DEF Asides
  <2> QED BY <2>1, <2>2 DEF GrownAside
<1> QED BY <1>2, <1>3

\* The steps of SetAside
AsideRun(run, main, f, blocks) ==
    /\ run[0].alt = <<>> /\ run[0].open = TRUE
    /\ \A k \in 1..Len(blocks) : GrownAside(main, f, run[k - 1], run[k], blocks[k])
    /\ \A k \in 0..Len(blocks) : run[k] \in Asides(main, f)
    /\ SetAside(main, f, blocks) = run[Len(blocks)].alt

\* Setting blocks aside one by one is a run of handle_alternative_block.
LEMMA AsideRuns ==
    ASSUME NEW main \in Seq(Entry), NEW f \in 1..Len(main), NEW blocks \in Seq(Entry)
    PROVE  \E run : AsideRun(run, main, f, blocks)
<1> DEFINE n == Len(blocks)
           S == Asides(main, f)
           base == [main |-> main, fork |-> f, alt |-> <<>>, open |-> TRUE]
           G(g, m) == g = [k \in 0..m |-> IF k = 0 THEN base ELSE HandledAside(g[k - 1], blocks[k])]
           run == CHOOSE g : G(g, n)
<1>1. n \in Nat /\ \A i \in 1..n : blocks[i] \in Entry
  OBVIOUS
<1>2. base \in S /\ base.alt = <<>> /\ base.open = TRUE
  BY DEF Asides
<1>0. \A c \in S, b \in Entry : HandledAside(c, b) \in S /\ GrownAside(main, f, c, HandledAside(c, b), b)
  BY HandledStays
<1> HIDE DEF S
<1>3. SetAside(main, f, blocks) = run[n].alt
  BY Zenon DEF SetAside
<1> HIDE DEF base
<1>4. \E g : G(g, n)
  <2> DEFINE P == {m \in Nat : \E g : G(g, m)}
  <2>1. 0 \in P
    <3>1. G([k \in 0..0 |-> base], 0)
      OBVIOUS
    <3> QED BY <3>1, ZenonT(30)
  <2>2. ASSUME NEW m \in Nat, NEW g, G(g, m) PROVE \E h : G(h, m + 1)
    <3> DEFINE h == [k \in 0..m + 1 |-> IF k = m + 1 THEN HandledAside(g[m], blocks[m + 1]) ELSE g[k]]
    <3>1. ASSUME NEW k \in 0..m + 1 PROVE h[k] = IF k = 0 THEN base ELSE HandledAside(h[k - 1], blocks[k])
      <4>1. CASE k = m + 1
        <5>1. k # 0 /\ k - 1 = m /\ h[k - 1] = g[m] /\ h[k] = HandledAside(g[m], blocks[m + 1])
          BY <4>1
        <5> QED BY <4>1, <5>1, Zenon
      <4>2. CASE k # m + 1
        <5>1. k \in 0..m /\ h[k] = g[k] /\ (k # 0 => h[k - 1] = g[k - 1])
          BY <4>2
        <5>2. g[k] = IF k = 0 THEN base ELSE HandledAside(g[k - 1], blocks[k])
          BY <2>2, <5>1, Zenon
        <5> QED BY <5>1, <5>2, Zenon
      <4> QED BY <4>1, <4>2
    <3>2. h = [k \in 0..m + 1 |-> h[k]]
      OBVIOUS
    <3> HIDE DEF h
    <3>3. G(h, m + 1)
      BY <3>1, <3>2, Zenon
    <3> QED BY <3>3, Zenon
  <2> HIDE DEF G
  <2>3. \A m \in Nat : m \in P => m + 1 \in P
    BY <2>2
  <2> HIDE DEF P
  <2>4. Nat \subseteq P
    BY <2>1, <2>3, Induction
  <2> QED BY <1>1, <2>4 DEF P
<1>5. G(run, n)
  BY <1>4, Zenon
<1> HIDE DEF run
<1>6. run[0] = base /\ \A k \in 1..n : run[k] = HandledAside(run[k - 1], blocks[k])
  <2>1. \A k \in 0..n : run[k] = IF k = 0 THEN base ELSE HandledAside(run[k - 1], blocks[k])
    BY <1>5, Zenon
  <2>2. 0 \in 0..n /\ \A k \in 1..n : k \in 0..n /\ k # 0
    BY <1>1
  <2> QED BY <2>1, <2>2, Zenon
<1> HIDE DEF G
<1>7. \A k \in 0..n : run[k] \in S
  <2> DEFINE P == {k \in Nat : k <= n => run[k] \in S}
  <2>1. 0 \in P
    BY <1>2, <1>6
  <2>2. ASSUME NEW k \in Nat, k \in P PROVE k + 1 \in P
    <3> SUFFICES ASSUME k + 1 <= n PROVE run[k + 1] \in S
      OBVIOUS
    <3>1. k + 1 \in 1..n /\ (k + 1) - 1 = k /\ run[k] \in S
      BY <1>1, <2>2
    <3>2. run[k + 1] = HandledAside(run[k], blocks[k + 1]) /\ blocks[k + 1] \in Entry
      BY <1>1, <1>6, <3>1
    <3> QED BY <1>0, <3>1, <3>2, Zenon
  <2> HIDE DEF P
  <2>3. Nat \subseteq P
    BY <2>1, <2>2, Induction
  <2> QED BY <1>1, <2>3 DEF P
<1>8. ASSUME NEW k \in 1..n PROVE GrownAside(main, f, run[k - 1], run[k], blocks[k])
  <2>1. k - 1 \in 0..n /\ blocks[k] \in Entry
    BY <1>1
  <2>2. run[k - 1] \in S
    BY <1>7, <2>1, Zenon
  <2> QED BY <1>0, <1>6, <2>1, <2>2, Zenon
<1>9. AsideRun(run, main, f, blocks)
  BY <1>2, <1>3, <1>6, <1>7, <1>8, Zenon DEF AsideRun, S
<1> QED BY <1>9, Zenon

\* What SetAside has after k blocks
AsideHas(main, f, blocks, c, k) ==
    /\ c.alt \in Seq(Entry) /\ Len(c.alt) <= k /\ (c.open => Len(c.alt) = k)
    /\ \A i \in 1..Len(c.alt) : c.alt[i].time = blocks[i].time
    /\ (\A h \in f..f + Len(blocks) : FixedAt(h) = FixedAt(Len(main))) => Weighs(main, f, c.alt)

\* What each step of such a run keeps.
LEMMA AsideStep ==
    ASSUME NEW main \in Seq(Entry), NEW f \in 1..Len(main), NEW blocks \in Seq(Entry), NEW k \in 0..Len(blocks) - 1,
           NEW p, NEW q, AsideHas(main, f, blocks, p, k), GrownAside(main, f, p, q, blocks[k + 1])
    PROVE  AsideHas(main, f, blocks, q, k + 1)
<1> DEFINE s == p.alt
           b == blocks[k + 1]
           e == AlternativeEntry(main, f, s, b)
<1>1. s \in Seq(Entry) /\ Len(s) <= k /\ (p.open => Len(s) = k) /\ (\A i \in 1..Len(s) : s[i].time = blocks[i].time)
  BY Zenon DEF AsideHas
<1>2. b \in Entry /\ k \in Nat
  OBVIOUS
<1>3. CASE q.open = FALSE /\ q.alt = p.alt
  <2>1. Len(s) <= k + 1
    BY <1>1
  <2> QED BY <1>1, <1>3, <2>1, Zenon DEF AsideHas
<1>4. CASE p.open = TRUE /\ AcceptedAside(main, f, s, b) /\ q.open = TRUE /\ q.alt = Append(s, e)
  <2>1. e \in Entry /\ e.time = b.time
    BY <1>1, <1>2, <1>4, AsideEntry
  <2>2. Len(s) = k
    BY <1>1, <1>4
  <2>3. ASSUME \A h \in f..f + Len(blocks) : FixedAt(h) = FixedAt(Len(main)) PROVE Weighs(main, f, q.alt)
    <3>1. Weighs(main, f, s)
      BY <2>3, Zenon DEF AsideHas
    <3>2. FixedAt(Len(main)) = FixedAt(f + Len(s))
      <4>1. f + Len(s) \in f..f + Len(blocks)
        BY <2>2
      <4> QED BY <2>3, <4>1, Zenon
    <3> QED BY <1>1, <1>2, <1>4, <2>1, <3>1, <3>2, WeighsAppend, ZenonT(30)
  <2> HIDE DEF s, e, b
  <2>4. /\ Append(s, e) \in Seq(Entry) /\ Len(Append(s, e)) = k + 1 /\ Append(s, e)[k + 1] = e
        /\ \A i \in 1..k : Append(s, e)[i] = s[i]
        /\ \A i \in 1..k + 1 : i \in 1..k \/ i = k + 1
        /\ k + 1 <= k + 1
    BY <1>1, <1>2, <2>1, <2>2
  <2>5. \A i \in 1..k + 1 : Append(s, e)[i].time = blocks[i].time
    BY <1>1, <2>1, <2>2, <2>4, Zenon DEF b
  <2> QED BY <1>4, <2>3, <2>4, <2>5, Zenon DEF AsideHas
<1> QED BY <1>3, <1>4, Zenon DEF GrownAside

\* What the blocks set aside are: the first of those offered, and weighed as the main chain would.
LEMMA AsideResult ==
    ASSUME NEW main \in Seq(Entry), NEW f \in 1..Len(main), NEW blocks \in Seq(Entry)
    PROVE  /\ SetAside(main, f, blocks) \in Seq(Entry) /\ Len(SetAside(main, f, blocks)) <= Len(blocks)
           /\ \A i \in 1..Len(SetAside(main, f, blocks)) : SetAside(main, f, blocks)[i].time = blocks[i].time
           /\ (\A h \in f..f + Len(blocks) : FixedAt(h) = FixedAt(Len(main)))
                  => Weighs(main, f, SetAside(main, f, blocks))
<1> DEFINE n == Len(blocks)
<1>1. PICK run : AsideRun(run, main, f, blocks)
  BY AsideRuns
<1> DEFINE P == {k \in Nat : k <= n => AsideHas(main, f, blocks, run[k], k)}
<1>2. 0 \in P
  <2>1. run[0].alt = <<>>
    BY <1>1, Zenon DEF AsideRun
  <2>2. <<>> \in Seq(Entry) /\ Len(<<>>) = 0 /\ 0 <= 0 /\ \A i \in 1..0 : FALSE
    OBVIOUS
  <2>3. AsideHas(main, f, blocks, run[0], 0)
    BY <2>1, <2>2, Zenon DEF AsideHas, Weighs
  <2> QED BY <2>3
<1>3. ASSUME NEW k \in Nat, k \in P PROVE k + 1 \in P
  <2> SUFFICES ASSUME k + 1 <= n PROVE AsideHas(main, f, blocks, run[k + 1], k + 1)
    OBVIOUS
  <2>1. k + 1 \in 1..n /\ (k + 1) - 1 = k /\ k \in 0..n - 1 /\ AsideHas(main, f, blocks, run[k], k)
    BY <1>3
  <2>2. GrownAside(main, f, run[k], run[k + 1], blocks[k + 1])
    <3>1. GrownAside(main, f, run[(k + 1) - 1], run[k + 1], blocks[k + 1])
      BY <1>1, <2>1, Zenon DEF AsideRun
    <3> QED BY <2>1, <3>1
  <2> QED BY <2>1, <2>2, AsideStep
<1> HIDE DEF P
<1>4. Nat \subseteq P
  BY <1>2, <1>3, Induction
<1>5. AsideHas(main, f, blocks, run[n], n)
  <2>1. n \in Nat /\ n <= n
    OBVIOUS
  <2> QED BY <1>4, <2>1, Zenon DEF P
<1>6. SetAside(main, f, blocks) = run[n].alt
  BY <1>1, Zenon DEF AsideRun
<1> QED BY <1>5, <1>6, Zenon DEF AsideHas

\* A chain cut at one of its blocks ends in it.
LEMMA PrefixOf ==
    ASSUME NEW X, NEW s \in Seq(X), NEW f \in 1..Len(s)
    PROVE  SubSeq(s, 1, f) \in Seq(X) /\ SubSeq(s, 1, f) # <<>> /\ Len(SubSeq(s, 1, f)) = f /\ SubSeq(s, 1, f)[f] = s[f]
OBVIOUS

\* The blocks of the old main chain have, as alternative ones, the work they had.
LEMMA AsideWeighs ==
    ASSUME NEW old, NEW now, SoundAt(old, now), NEW main, NEW f \in 1..Len(old), NEW alt \in Seq(Entry),
           f + Len(alt) <= Len(old), SubSeq(main, 1, f) = SubSeq(old, 1, f), main[f] = old[f],
           \A i \in 1..Len(alt) : alt[i].time = old[f + i].time,
           Weighs(main, f, alt)
    PROVE  Alike(SubSeq(old, 1, f) \o alt, SubSeq(old, 1, f + Len(alt)))
<1> DEFINE below == SubSeq(old, 1, f)
           n == Len(alt)
           P == {k \in Nat : k <= n => Alike(below \o SubSeq(alt, 1, k), SubSeq(old, 1, f + k))}
<1>1. old \in Seq(Entry) /\ n \in Nat
  BY SoundLast
<1>2. below \in Seq(Entry) /\ below # <<>> /\ Len(below) = f /\ below[f] = old[f]
  BY <1>1, PrefixOf, Zenon
<1> HIDE DEF below
<1>3. 0 \in P
  <2>1. below \o SubSeq(alt, 1, 0) = below /\ f + 0 = f
    BY <1>2
  <2> QED BY <2>1 DEF Alike, below
<1>4. ASSUME NEW k \in Nat, k \in P PROVE k + 1 \in P
  <2> SUFFICES ASSUME k + 1 <= n PROVE Alike(below \o SubSeq(alt, 1, k + 1), SubSeq(old, 1, f + (k + 1)))
    OBVIOUS
  <2> DEFINE s == SubSeq(old, 1, f + k)
             t == below \o SubSeq(alt, 1, k)
             j == k + 1
             x == alt[j]
             e == old[f + j]
  <2>1. /\ k \in 0..n - 1 /\ j \in 1..n /\ j - 1 = k /\ k <= n
        /\ f + j \in 2..Len(old) /\ (f + j) - 1 = f + k /\ f + k \in 1..Len(old)
    BY <1>1
  <2>2. Alike(t, s)
    BY <1>4, <2>1
  <2>3. /\ t \in Seq(Entry) /\ t # <<>> /\ Len(t) = f + k /\ below \o SubSeq(alt, 1, j) = Append(t, x) /\ x \in Entry
        /\ t[f + k] = IF k = 0 THEN old[f] ELSE alt[k]
    <3>1. k \in 0..Len(alt) - 1
      BY <2>1
    <3>2. OneMore(below, alt, k)
      BY <1>2, <3>1, Joined, Zenon
    <3> QED BY <1>2, <3>2, SMTT(30) DEF OneMore
  <2>4. s \in Seq(Entry) /\ s # <<>> /\ Tip(s) = s[f + k] /\ SubSeq(old, 1, f + j) = Append(s, e) /\ e \in Entry
    <3>1. s \in Seq(Entry) /\ s # <<>> /\ Len(s) = f + k
      BY <1>1, <2>1, PrefixOf, Zenon
    <3>2. SubSeq(old, 1, f + j) = Append(s, e) /\ e \in Entry
      BY <1>1, <2>1
    <3> QED BY <3>1, <3>2, Zenon DEF Tip
  <2>5. e.work = Tip(s).work + getDifficultyForNextBlock(s)
    <3>1. BlockSound(old, f + j, now)
      BY <2>1, Zenon DEF SoundAt
    <3>2. e = BlockEntry(s, e)
      BY <2>1, <3>1 DEF BlockSound
    <3>3. BlockEntry(s, e).work = Tip(s).work + getDifficultyForNextBlock(s)
      BY DEF BlockEntry
    <3> HIDE DEF e, s
    <3> QED BY <3>2, <3>3
  <2> HIDE DEF t, x, s, e
  <2>6. getDifficultyForNextBlock(t) = getDifficultyForNextBlock(s)
    BY <2>2, <2>3, <2>4, DifficultyAlike
  <2>7. Tip(s).work = WorkUnder(main, f, alt, j)
    <3>1. s[f + k].work = t[f + k].work
      <4>1. f + k \in 1..f + k
        BY <2>1
      <4> QED BY <2>2, <2>3, <4>1, ZenonT(30) DEF Alike
    <3>2. Tip(s).work = t[f + k].work
      BY <2>4, <3>1, Zenon
    <3>3. WorkUnder(main, f, alt, j) = IF k = 0 THEN old[f].work ELSE alt[k].work
      <4>1. j = 1 <=> k = 0
        BY <2>1
      <4> QED BY <2>1, <4>1 DEF WorkUnder
    <3> QED BY <2>3, <3>2, <3>3
  <2>8. x.work = WorkUnder(main, f, alt, j) + getDifficultyForNextBlock(t)
    <3>1. WeighsAt(main, f, alt, j)
      BY <2>1, Zenon DEF Weighs
    <3> QED BY <2>1, <3>1, Zenon DEF WeighsAt, below, t, x
  <2>9. x.work = e.work /\ x.time = e.time
    <3>1. x.time = e.time
      BY <2>1, Zenon DEF x, e
    <3> QED BY <2>5, <2>6, <2>7, <2>8, <3>1, Zenon
  <2>10. Alike(Append(t, x), Append(s, e))
    BY <2>2, <2>3, <2>4, <2>9, AlikeAppend
  <2> QED BY <2>3, <2>4, <2>10, ZenonT(30)
<1> HIDE DEF P
<1>5. Nat \subseteq P
  BY <1>3, <1>4, Induction, ZenonT(30)
<1>6. SubSeq(alt, 1, n) = alt
  OBVIOUS
<1>7. Alike(below \o SubSeq(alt, 1, n), SubSeq(old, 1, f + n))
  BY <1>1, <1>5 DEF P
<1> QED BY <1>6, <1>7, ZenonT(30) DEF below

-----------------------------------------------------------------------------
(* The invariant, action by action *)

\* The inductive invariant: the chain is sound, the limit is its own, a switch is under way only to a
\* heavier chain, and above the heights with a difficulty of their own the work of the alternative
\* blocks is the one the main chain's rule gives.
IInv ==
    /\ SoundAt(m_blocks, clock) /\ Len(m_blocks) <= MaxHeight + 1
    /\ fork \in 1..Len(m_blocks) /\ alt_chain \in Seq(Entry) /\ fork + Len(alt_chain) <= MaxHeight + 1
    /\ clock \in Clocks /\ limit \in Nat /\ switching \in BOOLEAN /\ rolledBack \in BOOLEAN
    /\ ~rolledBack => limit = update_next_cumulative_size_limit(m_blocks)
    /\ switching => Heavier(alt_chain, m_blocks)
    /\ Settled(fork) => Weighs(m_blocks, fork, alt_chain)

\* A block made from a template, and mined, has an entry.
LEMMA MadeIs ==
    ASSUME NEW parent \in Entry, NEW t \in Templates, NEW d \in Int, d \in 1..Made(parent, t, d).pow
    PROVE  Made(parent, t, d) \in Entry
<1>1. parent.time \in Nat
  BY EntryFields
<1>2. t.step \in Int /\ t.size \in Nat /\ t.fee \in Nat /\ t.extra \in Nat /\ t.luck \in Nat
  BY TemplatesAssumption
<1> DEFINE time == Greatest(0, parent.time + t.step)
           pow == d + t.luck
<1>3. time \in Nat
  BY <1>1, <1>2 DEF Greatest
<1>4. Made(parent, t, d) = [time |-> time, size |-> t.size, fee |-> t.fee, extra |-> t.extra,
                          pow |-> pow, work |-> 0, coins |-> 0]
  BY Zenon DEF Made
<1>5. pow \in Nat
  <2>1. Made(parent, t, d).pow = pow
    BY DEF Made
  <2> QED BY <1>2, <2>1
<1> HIDE DEF time, pow
<1> QED BY <1>2, <1>3, <1>4, <1>5 DEF Entry

\* IInv holds of the genesis block alone ...
LEMMA InvInit == Init => IInv
<1> SUFFICES ASSUME Init PROVE IInv
  OBVIOUS
<1>1. SoundAt(m_blocks, clock)
  BY GenesisSound DEF Init
<1>2. /\ m_blocks = <<Genesis>> /\ fork = 1 /\ alt_chain = <<>> /\ clock \in Clocks /\ switching = FALSE /\ rolledBack = FALSE
      /\ limit = update_next_cumulative_size_limit(m_blocks)
  BY DEF Init
<1>3. limit \in Nat
  <2>1. m_blocks \in Seq(Entry)
    BY <1>1, SoundLast
  <2> QED BY <1>2, <2>1, LimitIsNat, Zenon
<1>4. Len(m_blocks) = 1 /\ Len(alt_chain) = 0 /\ alt_chain \in Seq(Entry)
  BY <1>2
<1>5. Weighs(m_blocks, fork, alt_chain)
  BY <1>4 DEF Weighs
<1>6. Len(m_blocks) <= MaxHeight + 1 /\ fork \in 1..Len(m_blocks) /\ fork + Len(alt_chain) <= MaxHeight + 1
  BY <1>2, <1>4, BoundsAssumption
<1>7. switching \in BOOLEAN /\ rolledBack \in BOOLEAN /\ ~switching
  BY <1>2, Zenon
<1> QED BY <1>1, <1>2, <1>3, <1>4, <1>5, <1>6, <1>7, Zenon DEF IInv

\* addNewBlock on the tip
LEMMA PushKeeps ==
    ASSUME IInv, NEW t \in Templates, pushBlock(t)
    PROVE  IInv'
<1> DEFINE d == getDifficultyForNextBlock(m_blocks)
           b == Made(Tip(m_blocks), t, d)
           e == BlockEntry(m_blocks, b)
           n == Len(m_blocks)
<1>1. SoundAt(m_blocks, clock) /\ fork \in 1..n /\ (Settled(fork) => Weighs(m_blocks, fork, alt_chain))
  BY DEF IInv
<1>2. m_blocks \in Seq(Entry) /\ m_blocks # <<>> /\ n \in Nat /\ Tip(m_blocks) \in Entry /\ Tip(m_blocks).coins \in 0..MoneySupply
  BY <1>1, SoundLast
<1>3. Accepted(m_blocks, b, clock) /\ m_blocks' = Append(m_blocks, e)
  BY DEF pushBlock
<1>4. b \in Entry
  <2>1. d \in Int
    BY <1>2, DifficultyIsInt
  <2>2. d \in 1..b.pow
    BY <1>3 DEF Accepted
  <2> HIDE DEF d
  <2> QED BY <1>2, <2>1, <2>2, MadeIs
<1> HIDE DEF b
<1>5. e \in Entry
  BY <1>2, <1>3, <1>4, AcceptedEntry
<1>6. SoundAt(m_blocks', clock)
  BY <1>1, <1>3, <1>4, PushKeepsSound
<1> HIDE DEF e
<1>7. /\ m_blocks' \in Seq(Entry) /\ Len(m_blocks') = n + 1
      /\ SubSeq(m_blocks', 1, fork) = SubSeq(m_blocks, 1, fork) /\ m_blocks'[fork] = m_blocks[fork]
  BY <1>1, <1>2, <1>3, <1>5
<1>8. /\ fork' = fork /\ alt_chain' = alt_chain /\ clock' = clock /\ switching' = switching /\ switching = FALSE
      /\ limit' = update_next_cumulative_size_limit(m_blocks') /\ rolledBack' = FALSE /\ n <= MaxHeight
  BY DEF pushBlock, IInv
<1>9. limit' \in Nat
  BY <1>7, <1>8, LimitIsNat
<1>10. fork' \in 1..Len(m_blocks') /\ Len(m_blocks') <= MaxHeight + 1
  BY <1>1, <1>2, <1>7, <1>8, BoundsAssumption
<1>11. Settled(fork)' => Weighs(m_blocks', fork', alt_chain')
  <2>1. Settled(fork)' => Settled(fork)
    BY <1>8 DEF Settled
  <2>2. Settled(fork) => Weighs(m_blocks', fork, alt_chain)
    BY <1>1, <1>7, WeighsElsewhere, Zenon
  <2> QED BY <1>8, <2>1, <2>2
<1>12. SoundAt(m_blocks, clock)' /\ Weighs(m_blocks, fork, alt_chain)' = Weighs(m_blocks', fork', alt_chain')
  BY <1>6, <1>8
<1> QED BY <1>8, <1>9, <1>10, <1>11, <1>12, ZenonT(30) DEF IInv

\* addNewBlock elsewhere
LEMMA AlternativeKeeps ==
    ASSUME IInv, NEW t \in Templates, NEW f, NEW alt, handle_alternative_block(t, f, alt),
           (f = fork /\ alt = alt_chain) \/ (f \in 1..MaxHeight /\ alt = <<>>)
    PROVE  IInv'
<1> DEFINE parent == IF alt = <<>> THEN m_blocks[f] ELSE Tip(alt)
           d == get_next_difficulty_for_alternative_chain(m_blocks, f, alt)
           b == Made(parent, t, d)
           e == AlternativeEntry(m_blocks, f, alt, b)
           n == Len(m_blocks)
<1>1. /\ m_blocks \in Seq(Entry) /\ n \in Nat /\ n <= MaxHeight + 1 /\ fork \in 1..n
      /\ alt_chain \in Seq(Entry) /\ (Settled(fork) => Weighs(m_blocks, fork, alt_chain))
  BY SoundLast DEF IInv
<1>2. f \in 1..n - 1 /\ f + Len(alt) <= MaxHeight
  BY DEF handle_alternative_block
<1>3. f \in 1..n /\ alt \in Seq(Entry)
  <2>1. f \in 1..n
    BY <1>1, <1>2
  <2>2. <<>> \in Seq(Entry)
    OBVIOUS
  <2> QED BY <1>1, <2>1, <2>2, Zenon
<1>4. parent \in Entry
  <2>1. m_blocks[f] \in Entry /\ (alt # <<>> => Tip(alt) \in Entry)
    BY <1>1, <1>3, LastBlock
  <2> QED BY <2>1
<1>5. AcceptedAside(m_blocks, f, alt, b) /\ alt_chain' = Append(alt, e)
  BY DEF handle_alternative_block
<1>6. b \in Entry
  <2>1. d \in Int
    BY <1>1, <1>3, AlternativeDifficultyIsInt
  <2>2. d \in 1..b.pow
    BY <1>5 DEF AcceptedAside
  <2> HIDE DEF d, parent
  <2> QED BY <1>4, <2>1, <2>2, MadeIs
<1> HIDE DEF b
<1>7. e \in Entry
  BY <1>1, <1>3, <1>5, <1>6, AsideEntry
<1>8. /\ fork' = f /\ switching' = Heavier(alt_chain', m_blocks)
      /\ m_blocks' = m_blocks /\ limit' = limit /\ clock' = clock /\ rolledBack' = rolledBack
  BY DEF handle_alternative_block
<1>9. Settled(fork)' => Weighs(m_blocks, f, alt_chain')
  <2> SUFFICES ASSUME Settled(fork)' PROVE Weighs(m_blocks, f, alt_chain')
    OBVIOUS
  <2>1. \A h \in f..MaxHeight + 1 : FixedAt(h) = {}
    BY <1>8 DEF Settled
  <2>2. FixedAt(n) = FixedAt(f + Len(alt))
    <3>1. n \in f..MaxHeight + 1 /\ f + Len(alt) \in f..MaxHeight + 1
      BY <1>1, <1>2, <1>3, BoundsAssumption
    <3> QED BY <2>1, <3>1
  <2>3. Weighs(m_blocks, f, alt)
    <3>1. CASE f = fork /\ alt = alt_chain
      BY <1>1, <2>1, <3>1 DEF Settled
    <3>2. CASE alt = <<>>
      BY <3>2 DEF Weighs
    <3> QED BY <3>1, <3>2
  <2> QED BY <1>1, <1>3, <1>5, <1>6, <1>7, <2>2, <2>3, WeighsAppend
<1> HIDE DEF e
<1>10. alt_chain' \in Seq(Entry) /\ f + Len(alt_chain') <= MaxHeight + 1
  BY <1>2, <1>3, <1>5, <1>7, BoundsAssumption
<1>11. switching' \in BOOLEAN
  BY <1>8, Zenon DEF Heavier
<1>12. /\ SoundAt(m_blocks, clock)' = SoundAt(m_blocks, clock)
       /\ (Settled(fork)' => Weighs(m_blocks, fork, alt_chain)')
       /\ (switching' => Heavier(alt_chain, m_blocks)')
  BY <1>8, <1>9
<1>13. fork' \in 1..Len(m_blocks') /\ fork' + Len(alt_chain') <= MaxHeight + 1
  BY <1>3, <1>8, <1>10
<1> QED BY <1>8, <1>10, <1>11, <1>12, <1>13, Zenon DEF IInv

\* The facts about a switch
LEMMA SwitchFacts ==
    ASSUME IInv, switch_to_alternative_blockchain
    PROVE  /\ SoundAt(m_blocks', clock) /\ Len(m_blocks') = fork + Len(alt_chain)
           /\ SubSeq(m_blocks', 1, fork) = SubSeq(m_blocks, 1, fork) /\ m_blocks'[fork] = m_blocks[fork]
           /\ Settled(fork) => Alike(m_blocks', SubSeq(m_blocks, 1, fork) \o alt_chain)
<1> DEFINE below == SubSeq(m_blocks, 1, fork)
           c == Connect(below, alt_chain)
           n == Len(alt_chain)
<1>1. /\ SoundAt(m_blocks, clock) /\ fork \in 1..Len(m_blocks) /\ alt_chain \in Seq(Entry)
      /\ (Settled(fork) => Weighs(m_blocks, fork, alt_chain))
  BY DEF IInv
<1>2. c.open /\ m_blocks' = c.chain
  BY DEF switch_to_alternative_blockchain, Below
<1>3. m_blocks \in Seq(Entry)
  BY <1>1, SoundLast
<1>4. below \in Seq(Entry) /\ below # <<>> /\ Len(below) = fork /\ below[fork] = m_blocks[fork]
  BY <1>1, <1>3, PrefixOf, Zenon
<1>5. SoundAt(below, clock)
  BY <1>1, PrefixSound
<1>6. PICK run : ConnectRun(run, below, alt_chain)
  BY <1>1, <1>5, ConnectRuns
<1>7. c = run[n] /\ run[n] \in Connections
  <2>1. n \in 0..n
    BY <1>1
  <2> QED BY <1>6, <2>1, Zenon DEF ConnectRun
<1>8. Settled(fork) => Alike(m_blocks', below \o alt_chain)
  BY <1>1, <1>2, <1>6, <1>7, ConnectWeighs
<1>9. SoundAt(m_blocks', clock) /\ m_blocks' \in Seq(Entry)
  BY <1>2, <1>7, ConnectionIs
<1> HIDE DEF below, c
<1>10. Len(m_blocks') \in fork..fork + n /\ \A i \in 1..fork : m_blocks'[i] = below[i]
  <2>1. n \in 0..n
    BY <1>1
  <2>2. /\ Len(run[n].chain) \in Len(below)..Len(below) + n
        /\ \A i \in 1..Len(below) : run[n].chain[i] = below[i]
    BY <1>1, <1>4, <1>6, <2>1, RunKeeps, SMTT(30)
  <2> QED BY <1>2, <1>4, <1>7, <2>2, Zenon
<1>11. Len(m_blocks') = fork + n
  <2> DEFINE P == {k \in Nat : k <= n => Len(run[k].chain) = fork + k}
  <2>1. \A k \in 0..n : run[k].open
    BY <1>1, <1>2, <1>4, <1>6, <1>7, RunOpen
  <2>2. 0 \in P
    <3>1. run[0] = [chain |-> below, open |-> TRUE]
      BY <1>6, Zenon DEF ConnectRun
    <3> QED BY <1>1, <1>4, <3>1
  <2>3. ASSUME NEW k \in Nat, k \in P PROVE k + 1 \in P
    <3> SUFFICES ASSUME k + 1 <= n PROVE Len(run[k + 1].chain) = fork + (k + 1)
      OBVIOUS
    <3> DEFINE j == k + 1
    <3>1. j \in 1..n /\ j \in 0..n /\ j - 1 = k /\ k <= n
      BY <1>1
    <3> HIDE DEF j
    <3>2. run[j].open => Len(run[j].chain) = Len(run[j - 1].chain) + 1
      BY <1>1, <1>6, <3>1, StepKeeps
    <3>3. run[j].open
      BY <2>1, <3>1, Zenon
    <3>4. Len(run[k].chain) = fork + k
      BY <2>3, <3>1
    <3>5. Len(run[j].chain) = (fork + k) + 1
      BY <3>1, <3>2, <3>3, <3>4
    <3> QED BY <1>1, <3>5 DEF j
  <2> HIDE DEF P
  <2>4. Nat \subseteq P
    BY <2>2, <2>3, Induction
  <2>5. n \in Nat /\ n <= n
    BY <1>1
  <2>6. Len(run[n].chain) = fork + n
    BY <2>4, <2>5 DEF P
  <2> QED BY <1>2, <1>7, <2>6
<1>12. SubSeq(m_blocks', 1, fork) = below /\ m_blocks'[fork] = m_blocks[fork]
  <2>1. fork \in 1..Len(m_blocks') /\ fork \in 1..fork
    BY <1>1, <1>10, <1>11
  <2>2. /\ SubSeq(m_blocks', 1, fork) \in Seq(Entry) /\ Len(SubSeq(m_blocks', 1, fork)) = fork
        /\ \A i \in 1..fork : SubSeq(m_blocks', 1, fork)[i] = m_blocks'[i]
    BY <1>9, <2>1
  <2>3. SubSeq(m_blocks', 1, fork) = below
    BY <1>4, <1>10, <2>2
  <2> QED BY <1>4, <1>10, <2>1, <2>3, Zenon
<1> QED BY <1>8, <1>9, <1>11, <1>12, Zenon DEF below

\* The old chain set aside
LEMMA OldChain ==
    ASSUME IInv, switch_to_alternative_blockchain
    PROVE  /\ alt_chain' \in Seq(Entry) /\ fork + Len(alt_chain') <= Len(m_blocks)
           /\ \A i \in 1..Len(alt_chain') : alt_chain'[i].time = m_blocks[fork + i].time
           /\ Settled(fork) => Weighs(m_blocks', fork, alt_chain')
<1> DEFINE blocks == SubSeq(m_blocks, fork + 1, Len(m_blocks))
           n == Len(m_blocks)
<1>1. /\ m_blocks \in Seq(Entry) /\ n \in Nat /\ n <= MaxHeight + 1 /\ fork \in 1..n /\ alt_chain \in Seq(Entry)
      /\ fork + Len(alt_chain) <= MaxHeight + 1
  BY SoundLast DEF IInv
<1>2. m_blocks' \in Seq(Entry) /\ Len(m_blocks') = fork + Len(alt_chain)
  BY SwitchFacts, SoundLast
<1>3. fork \in 1..Len(m_blocks')
  BY <1>1, <1>2
<1>4. /\ blocks \in Seq(Entry) /\ Len(blocks) = n - fork
      /\ \A i \in 1..n - fork : blocks[i] = m_blocks[fork + i]
  BY <1>1
<1>5. alt_chain' = SetAside(m_blocks', fork, blocks)
  BY DEF switch_to_alternative_blockchain, Disconnected
<1> HIDE DEF blocks
<1>6. /\ alt_chain' \in Seq(Entry) /\ Len(alt_chain') <= Len(blocks)
      /\ \A i \in 1..Len(alt_chain') : alt_chain'[i].time = blocks[i].time
      /\ (\A h \in fork..fork + Len(blocks) : FixedAt(h) = FixedAt(Len(m_blocks'))) => Weighs(m_blocks', fork, alt_chain')
  BY <1>2, <1>3, <1>4, <1>5, AsideResult, ZenonT(30)
<1>7. fork + Len(alt_chain') <= n /\ \A i \in 1..Len(alt_chain') : i \in 1..n - fork
  BY <1>1, <1>4, <1>6
<1>8. \A i \in 1..Len(alt_chain') : alt_chain'[i].time = m_blocks[fork + i].time
  BY <1>4, <1>6, <1>7, Zenon
<1>9. Settled(fork) => \A h \in fork..fork + Len(blocks) : FixedAt(h) = FixedAt(Len(m_blocks'))
  <2> SUFFICES ASSUME Settled(fork), NEW h \in fork..fork + Len(blocks) PROVE FixedAt(h) = FixedAt(Len(m_blocks'))
    OBVIOUS
  <2>1. h \in fork..MaxHeight + 1 /\ Len(m_blocks') \in fork..MaxHeight + 1
    BY <1>1, <1>2, <1>4, BoundsAssumption
  <2> QED BY <2>1, Zenon DEF Settled
<1> QED BY <1>6, <1>7, <1>8, <1>9, Zenon

\* A switch of chains keeps the invariant.
LEMMA SwitchKeeps ==
    ASSUME IInv, switch_to_alternative_blockchain
    PROVE  IInv'
<1>1. /\ SoundAt(m_blocks', clock) /\ Len(m_blocks') = fork + Len(alt_chain)
      /\ alt_chain' \in Seq(Entry) /\ fork + Len(alt_chain') <= Len(m_blocks)
      /\ (Settled(fork) => Weighs(m_blocks', fork, alt_chain'))
  BY SwitchFacts, OldChain, Zenon
<1>2. /\ fork' = fork /\ clock' = clock /\ limit' = update_next_cumulative_size_limit(m_blocks')
      /\ switching' = Heavier(alt_chain', m_blocks') /\ rolledBack' = FALSE
  BY DEF switch_to_alternative_blockchain
<1>3. /\ fork \in 1..Len(m_blocks) /\ Len(m_blocks) <= MaxHeight + 1 /\ alt_chain \in Seq(Entry) /\ clock \in Clocks
      /\ fork + Len(alt_chain) <= MaxHeight + 1 /\ Len(m_blocks) \in Nat
  BY SoundLast DEF IInv
<1>4. m_blocks' \in Seq(Entry)
  BY <1>1, SoundLast
<1>5. limit' \in Nat
  BY <1>2, <1>4, LimitIsNat
<1>6. Len(m_blocks') <= MaxHeight + 1 /\ fork' \in 1..Len(m_blocks') /\ fork' + Len(alt_chain') <= MaxHeight + 1
  BY <1>1, <1>2, <1>3, BoundsAssumption
<1>7. switching' \in BOOLEAN /\ rolledBack' \in BOOLEAN
  BY <1>2, Zenon DEF Heavier
<1>8. /\ SoundAt(m_blocks, clock)' /\ (Settled(fork)' => Weighs(m_blocks, fork, alt_chain)')
      /\ (switching' => Heavier(alt_chain, m_blocks)')
  BY <1>1, <1>2 DEF Settled
<1> QED BY <1>1, <1>2, <1>3, <1>5, <1>6, <1>7, <1>8, Zenon DEF IInv

\* A switch gains work, keeps the work its blocks had, and is not undone.
LEMMA SwitchGains ==
    ASSUME IInv, switch_to_alternative_blockchain, Settled(fork)
    PROVE  /\ Tip(m_blocks').work > Tip(m_blocks).work
           /\ Tip(m_blocks').work = Tip(alt_chain).work
           /\ ~switching'
<1> DEFINE below == SubSeq(m_blocks, 1, fork)
           n == Len(alt_chain)
           q == Len(alt_chain')
<1>1. /\ SoundAt(m_blocks, clock) /\ fork \in 1..Len(m_blocks) /\ alt_chain \in Seq(Entry)
      /\ alt_chain # <<>> /\ Tip(alt_chain).work > Tip(m_blocks).work
  BY Zenon DEF IInv, switch_to_alternative_blockchain, Heavier
<1>2. m_blocks \in Seq(Entry)
  BY <1>1, SoundLast
<1>3. below \in Seq(Entry) /\ Len(below) = fork /\ below[fork] = m_blocks[fork]
  BY <1>1, <1>2, PrefixOf, Zenon
<1>4. SoundAt(m_blocks', clock) /\ Len(m_blocks') = fork + n /\ Alike(m_blocks', below \o alt_chain)
  BY SwitchFacts, Zenon
<1>5. m_blocks' \in Seq(Entry) /\ Tip(m_blocks') = m_blocks'[Len(m_blocks')]
  BY <1>4, SoundLast
<1>6. n \in Nat /\ n >= 1 /\ Tip(alt_chain) = alt_chain[n]
  BY <1>1, LastBlock
<1>7. Tip(m_blocks').work = Tip(alt_chain).work
  <2>1. (below \o alt_chain)[fork + n] = alt_chain[n] /\ fork + n \in 1..fork + n
    BY <1>1, <1>3, <1>6
  <2>2. m_blocks'[fork + n].work = (below \o alt_chain)[fork + n].work
    BY <1>4, <2>1, Zenon DEF Alike
  <2> QED BY <1>4, <1>5, <1>6, <2>1, <2>2, Zenon
<1>8. Tip(m_blocks').work > Tip(m_blocks).work
  BY <1>1, <1>7
<1>9. ASSUME alt_chain' # <<>> PROVE ~(Tip(alt_chain').work > Tip(m_blocks').work)
  <2>1. /\ alt_chain' \in Seq(Entry) /\ fork + q <= Len(m_blocks)
        /\ \A i \in 1..q : alt_chain'[i].time = m_blocks[fork + i].time
        /\ Weighs(m_blocks', fork, alt_chain')
    BY OldChain, Zenon
  <2>2. SubSeq(m_blocks', 1, fork) = below /\ m_blocks'[fork] = m_blocks[fork]
    BY SwitchFacts, Zenon
  <2>3. Alike(below \o alt_chain', SubSeq(m_blocks, 1, fork + q))
    BY <1>1, <2>1, <2>2, AsideWeighs
  <2>4. q \in Nat /\ q >= 1 /\ Tip(alt_chain') = alt_chain'[q]
    BY <1>9, <2>1, LastBlock
  <2>5. fork + q \in 1..fork + q /\ fork + q \in 1..Len(m_blocks)
    BY <1>1, <2>1, <2>4
  <2>6. (below \o alt_chain')[fork + q] = alt_chain'[q] /\ Len(below \o alt_chain') = fork + q
    BY <1>1, <1>3, <2>1, <2>4
  <2>7. SubSeq(m_blocks, 1, fork + q)[fork + q] = m_blocks[fork + q]
    BY <1>2, <2>5, PrefixOf, Zenon
  <2>8. Tip(alt_chain').work = m_blocks[fork + q].work
    BY <2>3, <2>4, <2>5, <2>6, <2>7, ZenonT(30) DEF Alike
  <2>9. m_blocks[fork + q].work \in Nat /\ m_blocks[fork + q].work <= Tip(m_blocks).work
    BY <1>1, <2>5, WorkGrows
  <2>10. Tip(m_blocks).work \in Nat /\ Tip(m_blocks').work \in Nat
    <3>1. Tip(m_blocks) \in Entry /\ Tip(m_blocks') \in Entry
      BY <1>1, <1>4, SoundLast
    <3> QED BY <3>1, EntryFields
  <2> QED BY <1>8, <2>8, <2>9, <2>10
<1>10. ~switching'
  <2>1. switching' = Heavier(alt_chain', m_blocks')
    BY DEF switch_to_alternative_blockchain
  <2> QED BY <1>9, <2>1, Zenon DEF Heavier
<1> QED BY <1>7, <1>8, <1>10

\* A switch that fails puts back the chain it found.
LEMMA RollbackRestores ==
    ASSUME IInv, rollback_blockchain_switching
    PROVE  m_blocks' = m_blocks
<1>1. SoundAt(m_blocks, clock) /\ fork \in 1..Len(m_blocks)
  BY DEF IInv
<1>2. m_blocks' = Connect(SubSeq(m_blocks, 1, fork), SubSeq(m_blocks, fork + 1, Len(m_blocks))).chain
  BY DEF rollback_blockchain_switching, Below, Disconnected
<1> QED BY <1>1, <1>2, ConnectAgain, Zenon

\* A switch that fails and is rolled back keeps the invariant.
LEMMA RollbackKeeps ==
    ASSUME IInv, rollback_blockchain_switching
    PROVE  IInv'
<1> DEFINE below == SubSeq(m_blocks, 1, fork)
           c == Connect(below, alt_chain)
           n == Len(alt_chain)
           j == Len(c.chain) - fork
<1>1. /\ SoundAt(m_blocks, clock) /\ fork \in 1..Len(m_blocks) /\ alt_chain \in Seq(Entry) /\ Len(m_blocks) <= MaxHeight + 1
      /\ (Settled(fork) => Weighs(m_blocks, fork, alt_chain)) /\ fork + n <= MaxHeight + 1 /\ clock \in Clocks
  BY DEF IInv
<1>2. m_blocks \in Seq(Entry) /\ Len(m_blocks) \in Nat
  BY <1>1, SoundLast
<1>3. below \in Seq(Entry) /\ Len(below) = fork
  BY <1>1, <1>2, PrefixOf, Zenon
<1>4. SoundAt(below, clock)
  BY <1>1, PrefixSound
<1>5. /\ m_blocks' = m_blocks /\ alt_chain' = SubSeq(alt_chain, 1, j)
      /\ fork' = fork /\ clock' = clock /\ switching' = FALSE /\ rolledBack' = FALSE
      /\ limit' = update_next_cumulative_size_limit(m_blocks')
  BY RollbackRestores, ZenonT(30) DEF rollback_blockchain_switching, Below
<1>6. PICK run : ConnectRun(run, below, alt_chain)
  BY <1>1, <1>4, ConnectRuns
<1> HIDE DEF below, c
<1>7. Len(c.chain) \in fork..fork + n
  <2>1. n \in 0..n
    BY <1>1
  <2>2. Len(run[n].chain) \in Len(below)..Len(below) + n
    BY <1>1, <1>3, <1>6, <2>1, RunKeeps
  <2>3. c = run[n]
    BY <1>6, Zenon DEF ConnectRun, c
  <2> QED BY <1>3, <2>2, <2>3, Zenon
<1>8. j \in 0..n
  BY <1>1, <1>7
<1> HIDE DEF j
<1>9. alt_chain' \in Seq(Entry) /\ Len(alt_chain') = j
  BY <1>1, <1>5, <1>8
<1>10. Settled(fork) => Weighs(m_blocks, fork, alt_chain')
  BY <1>1, <1>5, <1>8, WeighsPrefix
<1>11. fork' + Len(alt_chain') <= MaxHeight + 1
  BY <1>1, <1>5, <1>8, <1>9, BoundsAssumption
<1>12. limit' \in Nat
  BY <1>2, <1>5, LimitIsNat
<1>13. SoundAt(m_blocks, clock)' /\ (Settled(fork)' => Weighs(m_blocks, fork, alt_chain)')
  BY <1>1, <1>5, <1>10 DEF Settled
<1>14. switching' \in BOOLEAN /\ rolledBack' \in BOOLEAN /\ ~switching'
  BY <1>5, ZenonT(30)
<1>15. fork' \in 1..Len(m_blocks') /\ Len(m_blocks') <= MaxHeight + 1 /\ clock' \in Clocks
  BY <1>1, <1>5
<1> QED BY <1>5, <1>9, <1>11, <1>12, <1>13, <1>14, <1>15, Zenon DEF IInv

\* Cutting the chain at a height, as a start may do, keeps the invariant.
LEMMA RestartKeeps ==
    ASSUME IInv, NEW h, rollbackBlockchain(h)
    PROVE  IInv'
<1>1. /\ SoundAt(m_blocks, clock) /\ Len(m_blocks) <= MaxHeight + 1 /\ clock \in Clocks
  BY DEF IInv
<1>2. /\ h \in 1..Len(m_blocks) /\ m_blocks' = SubSeq(m_blocks, 1, h) /\ fork' = 1 /\ alt_chain' = <<>>
      /\ limit' = update_next_cumulative_size_limit(m_blocks) /\ rolledBack' = (h < Len(m_blocks))
      /\ clock' = clock /\ switching' = switching /\ ~switching
  BY DEF rollbackBlockchain
<1>3. m_blocks \in Seq(Entry) /\ Len(m_blocks) \in Nat
  BY <1>1, SoundLast
<1>4. SoundAt(m_blocks', clock)
  BY <1>1, <1>2, PrefixSound
<1>5. Len(m_blocks') = h
  BY <1>2, <1>3, PrefixOf, Zenon
<1>6. limit' \in Nat
  BY <1>2, <1>3, LimitIsNat
<1>7. Len(m_blocks') <= MaxHeight + 1 /\ fork' \in 1..Len(m_blocks')
  BY <1>1, <1>2, <1>3, <1>5, BoundsAssumption
<1>8. alt_chain' \in Seq(Entry) /\ fork' + Len(alt_chain') <= MaxHeight + 1 /\ Weighs(m_blocks, fork, alt_chain)'
  <2>1. Len(alt_chain') = 0
    BY <1>2
  <2> QED BY <1>2, <2>1, BoundsAssumption DEF Weighs
<1>9. ~rolledBack' => m_blocks' = m_blocks
  <2> SUFFICES ASSUME ~rolledBack' PROVE m_blocks' = m_blocks
    OBVIOUS
  <2>1. ~(h < Len(m_blocks))
    BY <1>2, Zenon
  <2>2. h = Len(m_blocks)
    BY <1>2, <1>3, <2>1
  <2>3. SubSeq(m_blocks, 1, Len(m_blocks)) = m_blocks
    BY <1>3
  <2> QED BY <1>2, <2>2, <2>3, Zenon
<1>10. rolledBack' \in BOOLEAN
  <2>1. (h < Len(m_blocks)) = TRUE \/ (h < Len(m_blocks)) = FALSE
    OBVIOUS
  <2> QED BY <1>2, <2>1, Zenon
<1>11. SoundAt(m_blocks, clock)' /\ clock' \in Clocks /\ switching' \in BOOLEAN
  BY <1>1, <1>2, <1>4 DEF IInv
<1>12. ~rolledBack' => limit' = update_next_cumulative_size_limit(m_blocks')
  BY <1>2, <1>9, Zenon
<1> QED BY <1>2, <1>6, <1>7, <1>8, <1>10, <1>11, <1>12, Zenon DEF IInv

\* The steps that leave the chain alone keep the invariant.
LEMMA OthersKeep ==
    ASSUME IInv, switchRefused \/ Tick \/ UNCHANGED vars
    PROVE  IInv'
<1>1. CASE switchRefused
  <2>1. /\ switching' = FALSE /\ m_blocks' = m_blocks /\ fork' = fork /\ alt_chain' = alt_chain /\ limit' = limit
        /\ clock' = clock /\ rolledBack' = rolledBack
    BY <1>1 DEF switchRefused
  <2> QED BY <2>1, ZenonT(30) DEF IInv, Settled
<1>2. CASE Tick
  <2>1. /\ clock' \in Clocks /\ clock' > clock /\ m_blocks' = m_blocks /\ fork' = fork /\ alt_chain' = alt_chain
        /\ limit' = limit /\ switching' = switching /\ rolledBack' = rolledBack
    BY <1>2 DEF Tick
  <2>2. clock \in Nat /\ clock' \in Nat /\ clock <= clock'
    BY <2>1, BoundsAssumption DEF IInv
  <2>3. SoundAt(m_blocks, clock')
    BY <2>2, LaterSound DEF IInv
  <2>4. SoundAt(m_blocks, clock)'
    BY <2>1, <2>3
  <2> QED BY <2>1, <2>4 DEF IInv, Settled, Heavier
<1>3. CASE UNCHANGED vars
  BY <1>3 DEF vars, IInv, Settled, Heavier
<1> QED BY <1>1, <1>2, <1>3

\* ... and every step keeps it.
LEMMA InvStep == IInv /\ [Next]_vars => IInv'
<1> SUFFICES ASSUME IInv, [Next]_vars PROVE IInv'
  OBVIOUS
<1>1. ASSUME NEW t \in Templates, pushBlock(t) PROVE IInv'
  BY <1>1, PushKeeps
<1>2. ASSUME NEW t \in Templates, handle_alternative_block(t, fork, alt_chain) PROVE IInv'
  BY <1>2, AlternativeKeeps
<1>3. ASSUME NEW t \in Templates, NEW f \in 1..MaxHeight, handle_alternative_block(t, f, <<>>) PROVE IInv'
  BY <1>3, AlternativeKeeps
<1>4. ASSUME NEW h \in 1..MaxHeight + 1, rollbackBlockchain(h) PROVE IInv'
  BY <1>4, RestartKeeps
<1> QED BY <1>1, <1>2, <1>3, <1>4, SwitchKeeps, RollbackKeeps, OthersKeep DEF Next, Switches

\* Whatever was pushed, set aside, switched, rolled back or cut off by a restart, the main chain is one
\* that pushBlock would accept again block by block, m_current_block_cumul_sz_limit is the one of its
\* tip, and alternative blocks have the work that the main chain's rule gives them.
THEOREM ChainsSound == Spec => []IInv
BY InvInit, InvStep, PTL DEF Spec

\* switch_to_alternative_blockchain replaces the main chain by one with more work, the work its blocks
\* had as alternative ones, and the old chain does not win it back; a switch that fails puts back the
\* very chain it found.  For chains of any length and any parameters of the difficulty.
THEOREM SwitchesGainWork == Spec => SwitchGainsWork
<1>1. ASSUME IInv, Next
      PROVE  /\ switch_to_alternative_blockchain /\ Settled(fork)
                  => /\ Tip(m_blocks').work > Tip(m_blocks).work
                     /\ Tip(m_blocks').work = Tip(alt_chain).work
                     /\ ~switching'
             /\ rollback_blockchain_switching => m_blocks' = m_blocks
  BY <1>1, SwitchGains, RollbackRestores, Zenon
<1>2. IInv /\ [Next]_vars
      => [/\ switch_to_alternative_blockchain /\ Settled(fork)
                  => /\ Tip(m_blocks').work > Tip(m_blocks).work
                     /\ Tip(m_blocks').work = Tip(alt_chain).work
                     /\ ~switching'
          /\ rollback_blockchain_switching => m_blocks' = m_blocks]_vars
  BY <1>1, Zenon
<1> QED BY <1>2, ChainsSound, PTL DEF Spec, SwitchGainsWork

-----------------------------------------------------------------------------
(* Supply, difficulty, templates and timestamps *)

\* By the invariant, no more coins exist than the supply.
LEMMA InvSupply == IInv => SupplyBounded
<1> SUFFICES ASSUME IInv PROVE SupplyBounded
  OBVIOUS
<1>1. SoundAt(m_blocks, clock)
  BY DEF IInv
<1> QED BY <1>1, Zenon DEF IInv, SoundAt, SupplyBounded, TypeOK

\* "assert(alreadyGeneratedCoins <= m_moneySupply)" holds of every block of the main chain.
THEOREM SupplyStaysBounded == Spec => []SupplyBounded
BY ChainsSound, InvSupply, PTL

\* By the invariant, both computations of the difficulty agree.
LEMMA InvDifficulty == IInv => DifficultyAgrees
<1> SUFFICES ASSUME IInv, FixedAt(Len(m_blocks)) = FixedAt(Len(AlternativeChain))
    PROVE  get_next_difficulty_for_alternative_chain(m_blocks, fork, alt_chain) = getDifficultyForNextBlock(AlternativeChain)
  BY DEF DifficultyAgrees
<1>1. m_blocks \in Seq(Entry) /\ fork \in 1..Len(m_blocks) /\ alt_chain \in Seq(Entry)
  BY SoundLast DEF IInv
<1>2. AlternativeChain = SubSeq(m_blocks, 1, fork) \o alt_chain
  BY DEF AlternativeChain, Below
<1>3. Len(AlternativeChain) = fork + Len(alt_chain)
  <2>1. SubSeq(m_blocks, 1, fork) \in Seq(Entry) /\ Len(SubSeq(m_blocks, 1, fork)) = fork
    BY <1>1, PrefixOf, Zenon
  <2> QED BY <1>1, <1>2, <2>1
<1>4. FixedAt(Len(m_blocks)) = FixedAt(fork + Len(alt_chain))
  BY <1>3
<1> QED BY <1>1, <1>2, <1>4, AlternativeDifficulty

\* The difficulty that get_next_difficulty_for_alternative_chain computes from two chains is the one that
\* getDifficultyForNextBlock computes once they are one, unless a fixed difficulty is meant for one of
\* the two heights.
THEOREM DifficultiesAgree == Spec => []DifficultyAgrees
BY ChainsSound, InvDifficulty, PTL

\* No timestamp of a sound chain is further in the future than the limit allows.
LEMMA TimesBounded ==
    ASSUME NEW chain, NEW now \in Nat, SoundAt(chain, now)
    PROVE  \A i \in 1..Len(chain) : chain[i].time <= now + FutureLimit
<1> SUFFICES ASSUME NEW i \in 1..Len(chain) PROVE chain[i].time <= now + FutureLimit
  OBVIOUS
<1>1. CASE i = 1
  <2>1. chain[1].time = 0
    BY DEF SoundAt, Genesis
  <2> QED BY <1>1, <2>1, ParametersAssumption
<1>2. CASE i # 1
  <2>1. i \in 2..Len(chain)
    BY <1>2, SoundLast
  <2>2. BlockSound(chain, i, now)
    BY <2>1, Zenon DEF SoundAt
  <2> QED BY <2>2 DEF BlockSound, Accepted, check_block_timestamp_main
<1> QED BY <1>1, <1>2

\* The median of the last timestamps
LEMMA LastTimes ==
    ASSUME NEW chain, NEW now \in Nat, SoundAt(chain, now)
    PROVE  /\ Len(Field(LastOf(chain, CheckWindow), "time")) = Least(CheckWindow, Len(chain))
           /\ medianValue(Field(LastOf(chain, CheckWindow), "time")) \in 0..now + FutureLimit
<1> DEFINE w == LastOf(chain, CheckWindow)
           n == Least(CheckWindow, Len(chain))
           times == Field(w, "time")
<1>1. chain \in Seq(Entry) /\ CheckWindow \in Nat /\ now + FutureLimit \in Nat
  BY SoundLast, ParametersAssumption
<1>2. /\ w \in Seq(Entry) /\ Len(w) = n /\ n \in 0..Len(chain)
      /\ \A i \in 1..n : w[i] = chain[(Len(chain) - n) + i]
  BY <1>1, WindowOf, Zenon
<1> HIDE DEF w, n
<1>3. times \in Seq(Nat) /\ Len(times) = n /\ \A i \in 1..n : times[i] = w[i].time
  BY <1>2, FieldOf, Zenon
<1>4. \A i \in 1..n : (Len(chain) - n) + i \in 1..Len(chain)
  BY <1>1, <1>2
<1>5. \A i \in 1..n : times[i] <= now + FutureLimit
  BY <1>2, <1>3, <1>4, TimesBounded, Zenon
<1> HIDE DEF times
<1>6. medianValue(times) \in 0..now + FutureLimit
  BY <1>1, <1>3, <1>5, MedianBounded
<1> QED BY <1>3, <1>6 DEF times, w, n

\* By the invariant, the block of a template is accepted.
LEMMA InvTemplate == IInv => TemplateAccepted
<1> SUFFICES ASSUME IInv, ~switching, ~rolledBack, NEW t \in Templates
    PROVE  LET n == Len(m_blocks)
               times == Field(LastOf(m_blocks, CheckWindow), "time")
               time == IF n >= CheckWindow THEN Greatest(clock, medianValue(times)) ELSE clock
               b == [size |-> t.size, fee |-> t.fee]
           IN  /\ check_block_timestamp_main(m_blocks, time, clock)
               /\ getBlockReward(limit \div 2, Tip(m_blocks).coins, b) = Place(m_blocks, b)
  BY Zenon DEF TemplateAccepted
<1> DEFINE n == Len(m_blocks)
           times == Field(LastOf(m_blocks, CheckWindow), "time")
           time == IF n >= CheckWindow THEN Greatest(clock, medianValue(times)) ELSE clock
           b == [size |-> t.size, fee |-> t.fee]
           sizes == medianValue(Field(LastOf(m_blocks, RewardWindow), "size"))
<1>1. SoundAt(m_blocks, clock) /\ m_blocks \in Seq(Entry) /\ n \in Nat /\ clock \in Nat
  BY SoundLast, BoundsAssumption DEF IInv
<1>2. CheckWindow \in Nat /\ FutureLimit \in Nat /\ Zone \in Nat
  BY ParametersAssumption
<1>3. Len(times) = Least(CheckWindow, n) /\ medianValue(times) \in 0..clock + FutureLimit
  BY <1>1, LastTimes
<1>4. check_block_timestamp_main(m_blocks, time, clock)
  <2> HIDE DEF times, n
  <2>1. CASE n >= CheckWindow
    <3>1. time \in Nat /\ time <= clock + FutureLimit /\ time >= medianValue(times)
      BY <1>1, <1>2, <1>3, <2>1 DEF Greatest
    <3> HIDE DEF time
    <3> QED BY <3>1, Zenon DEF check_block_timestamp_main, check_block_timestamp, times
  <2>2. CASE ~(n >= CheckWindow)
    <3>1. Len(times) < CheckWindow
      BY <1>1, <1>2, <1>3, <2>2 DEF Least
    <3>2. time <= clock + FutureLimit
      BY <1>1, <1>2, <2>2
    <3> HIDE DEF time
    <3> QED BY <3>1, <3>2, Zenon DEF check_block_timestamp_main, check_block_timestamp, times
  <2> QED BY <2>1, <2>2
<1>5. getBlockReward(limit \div 2, Tip(m_blocks).coins, b) = Place(m_blocks, b)
  <2>1. limit = 2 * Greatest(sizes, Zone)
    BY DEF IInv, update_next_cumulative_size_limit, SizeMedian
  <2>2. sizes \in Nat
    BY <1>1, SizesMedianIsNat
  <2> HIDE DEF sizes, b
  <2>3. Greatest(sizes, Zone) \in Nat /\ Greatest(Greatest(sizes, Zone), Zone) = Greatest(sizes, Zone)
    BY <1>2, <2>2 DEF Greatest
  <2>4. limit \div 2 = Greatest(sizes, Zone)
    BY <2>1, <2>3
  <2>5. Greatest(limit \div 2, Zone) = Greatest(sizes, Zone)
    BY <2>3, <2>4
  <2>6. getBlockReward(limit \div 2, Tip(m_blocks).coins, b) = getBlockReward(sizes, Tip(m_blocks).coins, b)
    BY <2>5, Zenon DEF getBlockReward
  <2> QED BY <2>6 DEF Place, sizes
<1> QED BY <1>4, <1>5, Zenon

\* pushBlock accepts the time and the reward that get_block_template puts into a block, for every
\* transaction size and fee.
THEOREM TemplatesAccepted == Spec => []TemplateAccepted
BY ChainsSound, InvTemplate, PTL

\* By the invariant, both checks of a timestamp agree.
LEMMA InvTimestamps == IInv => TimestampsAgree
<1> SUFFICES ASSUME IInv, Len(alt_chain) <= CheckWindow, Len(AlternativeChain) # CheckWindow
    PROVE  \A t : check_block_timestamp(CollectedTimestamps(m_blocks, fork, alt_chain), t)
                  = check_block_timestamp(Field(LastOf(AlternativeChain, CheckWindow), "time"), t)
  BY Zenon DEF TimestampsAgree
<1>1. m_blocks \in Seq(Entry) /\ fork \in 1..Len(m_blocks) /\ alt_chain \in Seq(Entry)
  BY SoundLast DEF IInv
<1>2. AlternativeChain = SubSeq(m_blocks, 1, fork) \o alt_chain
  BY DEF AlternativeChain, Below
<1> TAKE t
<1> DEFINE chain == AlternativeChain
<1>3. Len(chain) # CheckWindow /\ Len(alt_chain) <= CheckWindow /\ chain = SubSeq(m_blocks, 1, fork) \o alt_chain
  BY <1>2, Zenon
<1> HIDE DEF chain
<1>4. SameVerdict(CollectedTimestamps(m_blocks, fork, alt_chain), Field(LastOf(chain, CheckWindow), "time"), t)
  BY <1>1, <1>3, VerdictsAgree, Zenon
<1> QED BY <1>4 DEF chain, SameVerdict

\* handle_alternative_block and check_block_timestamp_main give the same verdict on the timestamp of an
\* alternative block, within TimestampsAgree's limits: the medians of a window and of its reverse agree.
THEOREM VerdictsAlwaysAgree == Spec => []TimestampsAgree
BY ChainsSound, InvTimestamps, PTL

=============================================================================
