---------------------------- MODULE Mtffs_proofs ----------------------------
(***************************************************************************)
(* The flash file system, for every number of files and blocks, every      *)
(* block size and every set of writes: that chains end, whatever power and *)
(* callers do; that a block belongs to one file, as long as no write       *)
(* leaves a hole and power is not lost within a pass; that no call loses a *)
(* block, as long as no file is unlinked that is open; and that a careful  *)
(* caller sees the files of FileStore.                                     *)
(*                                                                         *)
(* A chain is a recursive function, and what it holds is proved by         *)
(* induction over its index: by taking the least index for which it would  *)
(* not hold (Induction).                                                   *)
(***************************************************************************)
EXTENDS Mtffs, TLAPS, WellFoundedInduction, FiniteSetTheorems, SequenceTheorems

LEMMA Least ==
  ASSUME NEW T, T \subseteq Nat, T # {}
  PROVE  \E x \in T : \A y \in T : x <= y
<1> DEFINE R == OpToRel(<, Nat)
<1>1. IsWellFoundedOn(R, Nat)
  BY NatLessThanWellFounded
<1> HIDE DEF R
<1>2. PICK x \in T : \A y \in T : ~(<<y, x>> \in R)
  BY <1>1, WFMin, Zenon
<1>3. ASSUME NEW y \in T, y < x PROVE FALSE
  <2>1. <<y, x>> \in R
    BY <1>3 DEF R, OpToRel
  <2> QED BY <2>1, <1>2
<1> QED BY <1>3

(* Induction over a set of numbers.                                        *)
LEMMA Induction ==
  ASSUME NEW n \in Nat, NEW P, 0 \in P,
         \A k \in 1 .. n : k - 1 \in P => k \in P
  PROVE  \A k \in 0 .. n : k \in P
<1> SUFFICES ASSUME NEW j \in 0 .. n, j \notin P PROVE FALSE
  OBVIOUS
<1> DEFINE T == {k \in 0 .. n : k \notin P}
<1>0. T \subseteq Nat /\ T # {}
  OBVIOUS
<1>1. PICK m \in T : \A k \in T : m <= k
  <2> HIDE DEF T
  <2> QED BY <1>0, Least
<1>2. m \in 1 .. n
  BY <1>1
<1>3. m - 1 \in P
  BY <1>1, <1>2
<1> QED BY <1>1, <1>2, <1>3

(* One step along a chain, and a chain as far as its n-th block.           *)
Follow(fl, x) == IF x \in Block THEN fl.next[x] ELSE x
Unrolled(fl, b, n, g) ==
  g = [k \in 0 .. n |->
         IF k = 0 THEN b
         ELSE IF g[k - 1] \in Block THEN fl.next[g[k - 1]] ELSE g[k - 1]]

LEMMA UnrolledFirst ==
  ASSUME NEW fl, NEW b, NEW n \in Nat, NEW g, Unrolled(fl, b, n, g)
  PROVE  g[0] = b
  BY DEF Unrolled

LEMMA UnrolledNext ==
  ASSUME NEW fl, NEW b, NEW n \in Nat, NEW g, Unrolled(fl, b, n, g), NEW k \in 1 .. n
  PROVE  g[k] = Follow(fl, g[k - 1])
<1>1. k \in 0 .. n /\ k # 0
  OBVIOUS
<1>2. g[k] = IF g[k - 1] \in Block THEN fl.next[g[k - 1]] ELSE g[k - 1]
  BY <1>1 DEF Unrolled
<1> QED BY <1>2 DEF Follow

LEMMA UnrolledIf ==
  ASSUME NEW fl, NEW b, NEW n \in Nat, NEW g,
         g = [k \in 0 .. n |-> g[k]],
         g[0] = b,
         \A k \in 1 .. n : g[k] = Follow(fl, g[k - 1])
  PROVE  Unrolled(fl, b, n, g)
<1>1. \A k \in 0 .. n : g[k] = IF k = 0 THEN b
       ELSE IF g[k - 1] \in Block THEN fl.next[g[k - 1]] ELSE g[k - 1]
  <2> TAKE k \in 0 .. n
  <2>1. CASE k = 0
    BY <2>1
  <2>2. CASE k # 0
    <3>1. k \in 1 .. n
      BY <2>2
    <3>2. g[k] = Follow(fl, g[k - 1])
      BY <3>1
    <3> QED BY <2>2, <3>2 DEF Follow
  <2> QED BY <2>1, <2>2
<1> QED BY <1>1 DEF Unrolled

LEMMA ChainExists ==
  ASSUME NEW fl, NEW b, NEW n \in Nat
  PROVE  \E g : Unrolled(fl, b, n, g)
<1> DEFINE P == {m \in 0 .. n : \E g : Unrolled(fl, b, m, g)}
<1>1. 0 \in P
  <2> DEFINE g == [k \in 0 .. 0 |-> b]
  <2>1. g = [k \in 0 .. 0 |-> g[k]] /\ g[0] = b
    OBVIOUS
  <2> HIDE DEF g
  <2>2. Unrolled(fl, b, 0, g)
    <3>1. \A k \in 1 .. 0 : g[k] = Follow(fl, g[k - 1])
      OBVIOUS
    <3> QED BY <2>1, <3>1, UnrolledIf
  <2> QED BY <2>2
<1>2. ASSUME NEW m \in 1 .. n, m - 1 \in P
      PROVE  m \in P
  <2>0. m \in Nat /\ m - 1 \in Nat
    OBVIOUS
  <2>1. PICK g : Unrolled(fl, b, m - 1, g)
    BY <1>2
  <2>2. /\ g[0] = b
        /\ \A k \in 1 .. m - 1 : g[k] = Follow(fl, g[k - 1])
    BY <2>0, <2>1, UnrolledFirst, UnrolledNext
  <2> DEFINE h == [k \in 0 .. m |-> IF k = m THEN Follow(fl, g[m - 1]) ELSE g[k]]
  <2>3. /\ h = [k \in 0 .. m |-> h[k]]
        /\ h[0] = g[0]
        /\ \A k \in 0 .. m - 1 : h[k] = g[k]
        /\ h[m] = Follow(fl, g[m - 1])
    OBVIOUS
  <2> HIDE DEF h
  <2>4. \A k \in 1 .. m : h[k] = Follow(fl, h[k - 1])
    <3> TAKE k \in 1 .. m
    <3>0. k - 1 \in 0 .. m - 1
      OBVIOUS
    <3>1. h[k - 1] = g[k - 1]
      BY <2>3, <3>0
    <3>2. CASE k = m
      BY <3>1, <3>2, <2>3
    <3>3. CASE k # m
      <4>1. k \in 1 .. m - 1 /\ k \in 0 .. m - 1
        BY <3>3
      <4> QED BY <3>1, <4>1, <2>2, <2>3
    <3> QED BY <3>2, <3>3
  <2>5. Unrolled(fl, b, m, h)
    BY <2>0, <2>2, <2>3, <2>4, UnrolledIf
  <2> QED BY <2>5
<1>3. \A m \in 0 .. n : m \in P
  <2> HIDE DEF P
  <2> QED BY <1>1, <1>2, Induction
<1> QED BY <1>3

LEMMA ChainUnrolled ==
  ASSUME NEW fl, NEW b
  PROVE  Unrolled(fl, b, BLOCKS, Chain(fl, b))
<1>0. BLOCKS \in Nat
  BY SizeAssumption
<1>1. Chain(fl, b) = CHOOSE g : Unrolled(fl, b, BLOCKS, g)
  BY DEF Chain, Unrolled
<1> QED BY <1>0, <1>1, ChainExists

LEMMA ChainStep ==
  ASSUME NEW fl, NEW b
  PROVE  /\ Chain(fl, b)[0] = b
         /\ \A k \in 1 .. BLOCKS : Chain(fl, b)[k] = Follow(fl, Chain(fl, b)[k - 1])
<1>0. BLOCKS \in Nat
  BY SizeAssumption
<1>1. PICK at : at = Chain(fl, b)
  OBVIOUS
<1>2. Unrolled(fl, b, BLOCKS, at)
  BY <1>1, ChainUnrolled
<1>3. at[0] = b
  BY <1>0, <1>2, UnrolledFirst
<1>4. ASSUME NEW k \in 1 .. BLOCKS
      PROVE  at[k] = Follow(fl, at[k - 1])
  BY <1>0, <1>2, UnrolledNext
<1> QED BY <1>1, <1>3, <1>4

LEMMA Sizes ==
  /\ BLOCKS \in Nat /\ BLOCKS > 0
  /\ FILES \in Nat /\ FILES > 0
  /\ PAYLOAD \in Nat /\ PAYLOAD > 0
<1>1. FILES \in Nat \ {0} /\ BLOCKS \in Nat \ {0} /\ PAYLOAD \in Nat \ {0}
  BY SizeAssumption, Zenon
<1> QED BY <1>1

LEMMA EntryNat == \A e \in Entry : e \in Nat /\ e # 0
  BY Sizes DEF Entry

LEMMA FirstOf ==
  ASSUME NEW S, S \subseteq Nat
  PROVE  \/ S = {} /\ First(S) = 0
         \/ First(S) \in S /\ \A j \in S : First(S) <= j
<1>1. CASE S = {}
  BY <1>1 DEF First
<1>2. CASE S # {}
  <2>1. \E i \in S : \A j \in S : i <= j
    BY <1>2, Least
  <2> QED BY <1>2, <2>1 DEF First
<1> QED BY <1>1, <1>2

-----------------------------------------------------------------------------

(* Where a chain has left the blocks, it stays.                            *)
LEMMA ChainStays ==
  ASSUME NEW fl, NEW b, NEW j \in 0 .. BLOCKS, Chain(fl, b)[j] \notin Block
  PROVE  \A k \in 0 .. BLOCKS : k >= j => Chain(fl, b)[k] = Chain(fl, b)[j]
<1>1. PICK at : at = Chain(fl, b)
  OBVIOUS
<1>2. \A k \in 1 .. BLOCKS : at[k] = Follow(fl, at[k - 1])
  BY <1>1, ChainStep
<1> DEFINE P == {k \in 0 .. BLOCKS : k >= j => at[k] = at[j]}
<1>3. 0 \in P
  BY Sizes
<1>4. ASSUME NEW k \in 1 .. BLOCKS, k - 1 \in P
      PROVE  k \in P
  <2>1. CASE k <= j
    BY <2>1
  <2>2. CASE k > j
    <3>1. at[k - 1] = at[j]
      BY <1>4, <2>2
    <3>2. at[k] = Follow(fl, at[k - 1])
      BY <1>2
    <3> QED BY <3>1, <3>2, <1>1 DEF Follow
  <2> QED BY <2>1, <2>2
<1>5. \A k \in 0 .. BLOCKS : k \in P
  <2> HIDE DEF P
  <2> QED BY <1>3, <1>4, Sizes, Induction
<1> QED BY <1>1, <1>5

(* Every block before a block of a chain is one too, and the link between  *)
(* two of them is the header.                                              *)
LEMMA ChainBefore ==
  ASSUME NEW fl, NEW b, NEW j \in 0 .. BLOCKS, NEW k \in 0 .. BLOCKS,
         Chain(fl, b)[k] \in Block, j <= k
  PROVE  Chain(fl, b)[j] \in Block
<1>1. SUFFICES ASSUME Chain(fl, b)[j] \notin Block PROVE FALSE
  OBVIOUS
<1>2. Chain(fl, b)[k] = Chain(fl, b)[j]
  BY <1>1, ChainStays
<1> QED BY <1>1, <1>2

LEMMA ChainLink ==
  ASSUME NEW fl, NEW b, NEW k \in 1 .. BLOCKS, Chain(fl, b)[k - 1] \in Block
  PROVE  Chain(fl, b)[k] = fl.next[Chain(fl, b)[k - 1]]
  BY ChainStep DEF Follow

LinksOK(fl) == fl.next \in [Block -> -1 .. BLOCKS]

LEMMA ChainType ==
  ASSUME NEW fl, LinksOK(fl), NEW b \in -1 .. BLOCKS
  PROVE  \A k \in 0 .. BLOCKS : Chain(fl, b)[k] \in -1 .. BLOCKS
<1>1. PICK at : at = Chain(fl, b)
  OBVIOUS
<1>2. at[0] = b /\ \A k \in 1 .. BLOCKS : at[k] = Follow(fl, at[k - 1])
  BY <1>1, ChainStep
<1> DEFINE P == {k \in 0 .. BLOCKS : at[k] \in -1 .. BLOCKS}
<1>3. 0 \in P
  BY <1>2, Sizes
<1>4. ASSUME NEW k \in 1 .. BLOCKS, k - 1 \in P
      PROVE  k \in P
  <2>1. at[k] = Follow(fl, at[k - 1])
    BY <1>2
  <2> QED BY <1>4, <2>1 DEF Follow, LinksOK
<1>5. \A k \in 0 .. BLOCKS : k \in P
  <2> HIDE DEF P
  <2> QED BY <1>3, <1>4, Sizes, Induction
<1> QED BY <1>1, <1>5

(* No chain leads back into itself: a rank falls along every link.         *)
RankedBy(fl, rank) ==
  \A x \in Block : fl.next[x] \in Block => rank[fl.next[x]] < rank[x]
Ranked(fl) == \E rank \in [Block -> Nat] : RankedBy(fl, rank)

LEMMA RankFalls ==
  ASSUME NEW fl, NEW b, NEW rank \in [Block -> Nat], RankedBy(fl, rank),
         Chain(fl, b)[BLOCKS] \in Block, NEW i \in 0 .. BLOCKS
  PROVE  \A k \in 0 .. BLOCKS : k > i => rank[Chain(fl, b)[k]] < rank[Chain(fl, b)[i]]
<1>1. PICK at : at = Chain(fl, b)
  OBVIOUS
<1>2. \A k \in 0 .. BLOCKS : at[k] \in Block
  BY <1>1, ChainBefore, Sizes
<1>3. \A k \in 1 .. BLOCKS : at[k] = fl.next[at[k - 1]]
  <2> TAKE k \in 1 .. BLOCKS
  <2>1. k - 1 \in 0 .. BLOCKS
    BY Sizes
  <2> QED BY <1>1, <1>2, <2>1, ChainLink
<1> DEFINE P == {k \in 0 .. BLOCKS : k > i => rank[at[k]] < rank[at[i]]}
<1>4. 0 \in P
  BY Sizes
<1>5. ASSUME NEW k \in 1 .. BLOCKS, k - 1 \in P
      PROVE  k \in P
  <2>1. k \in 0 .. BLOCKS /\ k - 1 \in 0 .. BLOCKS
    BY Sizes
  <2>2. at[k] \in Block /\ at[k - 1] \in Block /\ at[i] \in Block
    BY <1>2, <2>1
  <2>3. rank[at[k]] < rank[at[k - 1]]
    BY <1>3, <2>2 DEF RankedBy
  <2>4. rank[at[k]] \in Nat /\ rank[at[k - 1]] \in Nat /\ rank[at[i]] \in Nat
    BY <2>2
  <2>5. CASE k <= i
    BY <2>5
  <2>6. CASE k = i + 1
    BY <2>3, <2>6, <2>1
  <2>7. CASE k > i + 1
    <3>1. rank[at[k - 1]] < rank[at[i]]
      BY <1>5, <2>7
    <3> QED BY <2>1, <2>3, <2>4, <3>1
  <2> QED BY <2>5, <2>6, <2>7
<1>6. \A k \in 0 .. BLOCKS : k \in P
  <2> HIDE DEF P
  <2> QED BY <1>4, <1>5, Sizes, Induction
<1> QED BY <1>1, <1>6

(* There are not enough blocks for a chain of BLOCKS + 1 of them.          *)
LEMMA ChainEnds ==
  ASSUME NEW fl, NEW b, Ranked(fl)
  PROVE  Chain(fl, b)[BLOCKS] \notin Block
<1>1. SUFFICES ASSUME Chain(fl, b)[BLOCKS] \in Block PROVE FALSE
  OBVIOUS
<1>2. PICK rank \in [Block -> Nat] : RankedBy(fl, rank)
  BY DEF Ranked
<1>3. PICK at : at = Chain(fl, b)
  OBVIOUS
<1>4. \A k \in 0 .. BLOCKS : at[k] \in Block
  BY <1>1, <1>3, ChainBefore, Sizes
<1> DEFINE f == [k \in 0 .. BLOCKS |-> at[k]]
<1>5. f \in [0 .. BLOCKS -> Block]
  BY <1>4
<1>6. /\ IsFiniteSet(0 .. BLOCKS) /\ Cardinality(0 .. BLOCKS) = BLOCKS + 1
      /\ IsFiniteSet(Block) /\ Cardinality(Block) = BLOCKS
  BY FS_Interval, Sizes DEF Block
<1>7. PICK x, y \in 0 .. BLOCKS : x # y /\ f[x] = f[y]
  <2>1. Cardinality(Block) < Cardinality(0 .. BLOCKS)
    BY <1>6, Sizes
  <2> HIDE DEF f
  <2> QED BY <1>5, <1>6, <2>1, FS_PigeonHole
<1>8. at[x] = at[y] /\ rank[at[x]] \in Nat
  BY <1>4, <1>7
<1>9. x < y \/ y < x
  BY <1>7
<1>10. rank[at[y]] < rank[at[x]] \/ rank[at[x]] < rank[at[y]]
  BY <1>1, <1>2, <1>3, <1>9, RankFalls
<1> QED BY <1>8, <1>10

-----------------------------------------------------------------------------

LEMMA DivisionWhole ==
  ASSUME NEW p \in Int, NEW d \in Int, d > 0
  PROVE  p = (p \div d) * d + (p % d)
  OBVIOUS

LEMMA Division ==
  ASSUME NEW p \in Nat, NEW d \in Nat, d > 0
  PROVE  /\ p \div d \in Nat /\ p % d \in 0 .. d - 1
         /\ p = (p \div d) * d + (p % d)
<1>1. p \div d \in Int /\ p % d \in 0 .. d - 1
  OBVIOUS
<1>2. PICK q \in Int, r \in 0 .. d - 1 : q = p \div d /\ r = p % d
  BY <1>1
<1>3. p = q * d + r
  BY <1>2
<1>4. ASSUME q < 0 PROVE FALSE
  <2>1. PICK m \in Nat : q = 0 - 1 - m
    <3>1. 0 - 1 - q \in Nat /\ q = 0 - 1 - (0 - 1 - q)
      BY <1>4
    <3> QED BY <3>1
  <2>2. q * d = 0 - d - m * d
    BY <2>1
  <2>3. PICK x \in Nat : x = m * d
    OBVIOUS
  <2>4. p = 0 - d - x + r
    BY <1>3, <2>2, <2>3
  <2> QED BY <2>4
<1>5. p \div d \in Nat
  BY <1>2, <1>4
<1>6. p = (p \div d) * d + (p % d)
  <2>1. p \in Int /\ d \in Int
    OBVIOUS
  <2> QED BY <2>1, DivisionWhole, Zenon
<1> QED BY <1>1, <1>5, <1>6, Zenon

(* A position in the q-th of n blocks of d units, and k units on from it,  *)
(* within the block.                                                       *)
LEMMA WithinBlocks ==
  ASSUME NEW q \in Nat, NEW r \in Nat, NEW d \in Nat, NEW n \in Nat,
         q < n, NEW k \in Nat, k <= d - r
  PROVE  q * d + r + k <= n * d
<1>1. PICK m \in Nat : n = q + 1 + m
  <2>1. n - q - 1 \in Nat /\ n = q + 1 + (n - q - 1)
    OBVIOUS
  <2> QED BY <2>1
<1>2. n * d = q * d + d + m * d
  BY <1>1
<1>3. PICK x \in Nat, y \in Nat : x = m * d /\ y = q * d
  OBVIOUS
<1> QED BY <1>2, <1>3

LEMMA ProductNat ==
  ASSUME NEW a \in Nat, NEW b \in Nat
  PROVE  a * b \in Nat
  OBVIOUS

-----------------------------------------------------------------------------

Size == BLOCKS * PAYLOAD

FlashRec == [fat : {<< >>} \cup [Entry -> Fe], next : [Block -> -1 .. BLOCKS],
             data : [Block -> [0 .. PAYLOAD - 1 -> Unit]]]
FileRec == [fe : 0 .. FILES, offset : 0 .. Size, append : BOOLEAN]
CallRec == [entry : Entry, start : 0 .. Size, data : Writes, done : Nat]

TypeInv ==
  /\ powered \in BOOLEAN /\ mounted \in BOOLEAN
  /\ fatbuffer \in [Entry -> Fe]
  /\ flash \in FlashRec
  /\ file \in [Handles -> FileRec]
  /\ call \in {<< >>} \cup CallRec
  /\ Idle \/ call.done < Len(call.data)
  /\ fd \in Handles

LEMMA SizeNat == Size \in Nat
  BY Sizes DEF Size

LEMMA WritesSeq == \A w \in Writes : w \in Seq(Units) /\ Len(w) \in Nat /\ Len(w) > 0
<1> TAKE w \in Writes
<1>1. w \in Seq(Units) /\ w # << >>
  BY SizeAssumption
<1> QED BY <1>1

LEMMA FeField ==
  ASSUME NEW fe \in Fe
  PROVE  /\ fe.filename \in Names \cup {""} /\ fe.filesize \in 0 .. Size
         /\ fe.nextblock \in 0 .. BLOCKS
  BY DEF Fe, Size

LEMMA FeRecord ==
  ASSUME NEW n \in Names \cup {""}, NEW s \in 0 .. Size, NEW b \in 0 .. BLOCKS
  PROVE  [filename |-> n, filesize |-> s, nextblock |-> b] \in Fe
  BY DEF Fe, Size

LEMMA FeUpdate ==
  ASSUME NEW fe \in Fe
  PROVE  /\ \A n \in Names \cup {""} : [fe EXCEPT !.filename = n] \in Fe
         /\ \A s \in 0 .. Size : [fe EXCEPT !.filesize = s] \in Fe
         /\ \A b \in 0 .. BLOCKS : [fe EXCEPT !.nextblock = b] \in Fe
  BY DEF Fe, Size

LEMMA Empty ==
  /\ EmptyFe \in Fe /\ NoFat \in [Entry -> Fe]
  /\ ErasedBlock \in [0 .. PAYLOAD - 1 -> Unit]
<1>1. EmptyFe \in Fe
  <2>1. "" \in Names \cup {""} /\ 0 \in 0 .. Size /\ 0 \in 0 .. BLOCKS
    BY Sizes, SizeNat
  <2> QED BY <2>1, FeRecord DEF EmptyFe
<1>2. ErasedBlock \in [0 .. PAYLOAD - 1 -> Unit]
  BY DEF ErasedBlock, Unit
<1> QED BY <1>1, <1>2 DEF NoFat

LEMMA FlashField ==
  ASSUME NEW fl \in FlashRec
  PROVE  /\ fl.fat \in {<< >>} \cup [Entry -> Fe]
         /\ fl.next \in [Block -> -1 .. BLOCKS] /\ LinksOK(fl)
         /\ fl.data \in [Block -> [0 .. PAYLOAD - 1 -> Unit]]
  BY DEF FlashRec, LinksOK

LEMMA FlashRecord ==
  ASSUME NEW fat \in {<< >>} \cup [Entry -> Fe], NEW next \in [Block -> -1 .. BLOCKS],
         NEW data \in [Block -> [0 .. PAYLOAD - 1 -> Unit]]
  PROVE  /\ [fat |-> fat, next |-> next, data |-> data] \in FlashRec
         /\ [fat |-> fat, next |-> next, data |-> data].fat = fat
         /\ [fat |-> fat, next |-> next, data |-> data].next = next
         /\ [fat |-> fat, next |-> next, data |-> data].data = data
  BY DEF FlashRec

LEMMA FlashFat ==
  ASSUME NEW fl \in FlashRec, NEW fat \in {<< >>} \cup [Entry -> Fe]
  PROVE  /\ [fl EXCEPT !.fat = fat] \in FlashRec
         /\ [fl EXCEPT !.fat = fat].fat = fat
         /\ [fl EXCEPT !.fat = fat].next = fl.next
         /\ [fl EXCEPT !.fat = fat].data = fl.data
  BY DEF FlashRec

LEMMA FlashLink ==
  ASSUME NEW fl \in FlashRec, NEW b \in Block, NEW n \in -1 .. BLOCKS
  PROVE  /\ [fl EXCEPT !.next[b] = n] \in FlashRec
         /\ [fl EXCEPT !.next[b] = n].fat = fl.fat
         /\ [fl EXCEPT !.next[b] = n].next = [fl.next EXCEPT ![b] = n]
         /\ [fl EXCEPT !.next[b] = n].data = fl.data
  BY DEF FlashRec

LEMMA FlashData ==
  ASSUME NEW fl \in FlashRec, NEW b \in Block, NEW d \in [0 .. PAYLOAD - 1 -> Unit]
  PROVE  /\ [fl EXCEPT !.data[b] = d] \in FlashRec
         /\ [fl EXCEPT !.data[b] = d].fat = fl.fat
         /\ [fl EXCEPT !.data[b] = d].next = fl.next
         /\ [fl EXCEPT !.data[b] = d].data = [fl.data EXCEPT ![b] = d]
  BY DEF FlashRec

Updated(new, fl, b, n, d) ==
  /\ new \in FlashRec /\ new.fat = fl.fat
  /\ new.next = [fl.next EXCEPT ![b] = n]
  /\ new.data = [fl.data EXCEPT ![b] = d]

LEMMA FlashUpdate ==
  ASSUME NEW fl \in FlashRec, NEW b \in Block, NEW n \in -1 .. BLOCKS,
         NEW d \in [0 .. PAYLOAD - 1 -> Unit]
  PROVE  Updated(updateblock(fl, b, n, d), fl, b, n, d)
<1>1. updateblock(fl, b, n, d) = [[fl EXCEPT !.next[b] = n] EXCEPT !.data[b] = d]
  BY DEF updateblock
<1>2. PICK g \in FlashRec : g = [fl EXCEPT !.next[b] = n]
  BY FlashLink
<1>3. g.fat = fl.fat /\ g.next = [fl.next EXCEPT ![b] = n] /\ g.data = fl.data
  BY <1>2, FlashLink
<1>4. PICK k : k = [g EXCEPT !.data[b] = d]
  OBVIOUS
<1>5. /\ k \in FlashRec /\ k.fat = g.fat /\ k.next = g.next
      /\ k.data = [g.data EXCEPT ![b] = d]
  BY <1>4, FlashData
<1>6. updateblock(fl, b, n, d) = k
  BY <1>1, <1>2, <1>4, Zenon
<1>7. Updated(k, fl, b, n, d)
  BY <1>3, <1>5 DEF Updated
<1> QED BY <1>6, <1>7, Zenon

LEMMA FlashErase ==
  ASSUME NEW fl \in FlashRec, NEW b \in Block
  PROVE  Updated(Erase(fl, b), fl, b, -1, ErasedBlock)
<1>1. Erase(fl, b) = updateblock(fl, b, -1, ErasedBlock)
  BY DEF Erase, updateblock
<1>2. -1 \in -1 .. BLOCKS
  BY Sizes
<1> QED BY <1>1, <1>2, Empty, FlashUpdate

(* The position of the first unit of block q of a file.                    *)
Start(q) == q * PAYLOAD

(* A pass of a write: where it is in the chain and how much it writes.     *)
LEMMA Pass ==
  ASSUME TypeInv, ~Idle
  PROVE  /\ call \in CallRec /\ call.entry \in Entry /\ call.data \in Writes
         /\ call.data \in Seq(Units) /\ Len(call.data) \in Nat
         /\ call.start \in Nat /\ call.done \in Nat /\ pos \in Nat
         /\ Wanted \in Nat /\ pos % PAYLOAD \in 0 .. PAYLOAD - 1
         /\ pos = Start(Wanted) + (pos % PAYLOAD)
         /\ Chunk \in Nat /\ Chunk > 0 /\ Chunk <= PAYLOAD - (pos % PAYLOAD)
         /\ Chunk <= Len(call.data) - call.done
<1>1. call \in CallRec
  BY DEF TypeInv, Idle
<1>2. call.entry \in Entry /\ call.data \in Writes /\ call.done \in Nat
  BY <1>1 DEF CallRec
<1>3. call.data \in Seq(Units) /\ Len(call.data) \in Nat
  BY <1>2, WritesSeq
<1>4. call.start \in Nat
  BY <1>1, SizeNat DEF CallRec
<1>5. pos \in Nat
  BY <1>2, <1>4 DEF pos
<1>6. /\ Wanted \in Nat /\ pos % PAYLOAD \in 0 .. PAYLOAD - 1
      /\ pos = Start(Wanted) + (pos % PAYLOAD)
  <2> DEFINE q == pos \div PAYLOAD
             r == pos % PAYLOAD
  <2>1. q \in Nat /\ r \in 0 .. PAYLOAD - 1 /\ pos = q * PAYLOAD + r
    BY <1>5, Sizes, Division, Zenon
  <2>2. Wanted = q
    BY DEF Wanted
  <2>3. pos = Start(q) + r
    BY <2>1, Zenon DEF Start
  <2> QED BY <2>1, <2>2, <2>3, Zenon
<1>7. call.done < Len(call.data)
  BY DEF TypeInv
<1>8. /\ Chunk \in Nat /\ Chunk > 0 /\ Chunk <= PAYLOAD - (pos % PAYLOAD)
      /\ Chunk <= Len(call.data) - call.done
  <2>1. PICK r \in 0 .. PAYLOAD - 1 : r = pos % PAYLOAD
    BY <1>6
  <2>2. Chunk = Lesser(Len(call.data) - call.done, PAYLOAD - r)
    BY <2>1 DEF Chunk
  <2> QED BY <1>2, <1>3, <1>7, <2>1, <2>2, Sizes DEF Lesser
<1> QED BY <1>1, <1>2, <1>3, <1>4, <1>5, <1>6, <1>8

LEMMA WriteToFlash ==
  ASSUME TypeInv, ~Idle, NEW fl \in FlashRec, NEW b \in Block
  PROVE  /\ WriteTo(fl, b) \in FlashRec /\ WriteTo(fl, b).fat = fl.fat
         /\ WriteTo(fl, b).next =
              [fl.next EXCEPT ![b] = IF fl.next[b] = -1 THEN 0 ELSE fl.next[b]]
<1> DEFINE new == [u \in 0 .. PAYLOAD - 1 |->
       IF u >= pos % PAYLOAD /\ u < (pos % PAYLOAD) + Chunk
         THEN call.data[call.done + 1 + u - (pos % PAYLOAD)] ELSE fl.data[b][u]]
           n == IF fl.next[b] = -1 THEN 0 ELSE fl.next[b]
<1>1. new \in [0 .. PAYLOAD - 1 -> Unit]
  <2> SUFFICES ASSUME NEW u \in 0 .. PAYLOAD - 1 PROVE new[u] \in Unit
    OBVIOUS
  <2>1. PICK r \in 0 .. PAYLOAD - 1 : r = pos % PAYLOAD
    BY Pass
  <2>2. CASE u >= r /\ u < r + Chunk
    <3>1. call.done + 1 + u - r \in 1 .. Len(call.data)
      BY <2>1, <2>2, Pass
    <3>2. call.data[call.done + 1 + u - r] \in Units
      BY <3>1, Pass
    <3> QED BY <2>1, <2>2, <3>2 DEF Unit
  <2>3. CASE ~(u >= r /\ u < r + Chunk)
    <3>1. fl.data \in [Block -> [0 .. PAYLOAD - 1 -> Unit]]
      BY FlashField
    <3>2. PICK d \in [0 .. PAYLOAD - 1 -> Unit] : d = fl.data[b]
      BY <3>1
    <3>3. fl.data[b][u] \in Unit
      BY <3>2
    <3> QED BY <2>1, <2>3, <3>3
  <2> QED BY <2>2, <2>3
<1>2. n \in -1 .. BLOCKS
  BY FlashField, Sizes
<1>3. WriteTo(fl, b) = updateblock(fl, b, n, new)
  BY DEF WriteTo
<1>4. PICK d \in [0 .. PAYLOAD - 1 -> Unit] : d = new
  BY <1>1
<1>5. PICK m \in -1 .. BLOCKS : m = n
  BY <1>2
<1>6. WriteTo(fl, b) = updateblock(fl, b, m, d)
  BY <1>3, <1>4, <1>5
<1> HIDE DEF new, n
<1>7. Updated(updateblock(fl, b, m, d), fl, b, m, d)
  BY FlashUpdate
<1> QED BY <1>5, <1>6, <1>7, Zenon DEF n, Updated

LEMMA StartNext ==
  ASSUME NEW q \in Nat, NEW n \in Nat, q < n
  PROVE  Start(q) \in Nat /\ Start(q) + PAYLOAD <= Start(n)
<1>1. PICK m \in Nat : n = q + 1 + m
  <2>1. n - q - 1 \in Nat /\ n = q + 1 + (n - q - 1)
    OBVIOUS
  <2> QED BY <2>1
<1>2. n * PAYLOAD = q * PAYLOAD + PAYLOAD + m * PAYLOAD
  BY <1>1, Sizes
<1>3. PICK x \in Nat, y \in Nat : x = m * PAYLOAD /\ y = q * PAYLOAD
  BY Sizes
<1> QED BY <1>2, <1>3, Sizes DEF Start

LEMMA PassEnds ==
  ASSUME TypeInv, ~Idle, Wanted < BLOCKS
  PROVE  pos + Chunk \in 0 .. Size
<1>1. PICK r \in 0 .. PAYLOAD - 1 : r = pos % PAYLOAD
  BY Pass, Zenon
<1>2. /\ pos = Start(Wanted) + (pos % PAYLOAD)
      /\ Chunk <= PAYLOAD - (pos % PAYLOAD)
      /\ Wanted \in Nat /\ Chunk \in Nat /\ pos \in Nat
  BY Pass, Zenon
<1>3. pos = Start(Wanted) + r /\ Chunk <= PAYLOAD - r
  BY <1>1, <1>2, Zenon
<1>4. Start(Wanted) \in Nat /\ Start(Wanted) + PAYLOAD <= Start(BLOCKS)
  BY <1>2, Sizes, StartNext
<1>5. Size = Start(BLOCKS)
  BY DEF Size, Start
<1> QED BY <1>1, <1>2, <1>3, <1>4, <1>5, SizeNat, Sizes

-----------------------------------------------------------------------------

LEMMA RankedFewer ==
  ASSUME NEW fl, NEW new, Ranked(fl),
         \A x \in Block : new.next[x] \in Block => new.next[x] = fl.next[x]
  PROVE  Ranked(new)
<1>1. PICK rank \in [Block -> Nat] : RankedBy(fl, rank)
  BY DEF Ranked
<1>2. RankedBy(new, rank)
  BY <1>1 DEF RankedBy
<1> QED BY <1>2 DEF Ranked

(* A link to a block that leads nowhere closes no circle.                  *)
LEMMA RankedLinked ==
  ASSUME NEW fl, NEW new, Ranked(fl), NEW last \in Block, NEW b \in Block,
         last # b, fl.next[b] \notin Block,
         \A x \in Block : new.next[x] \in Block =>
                            \/ new.next[x] = fl.next[x]
                            \/ x = last /\ new.next[x] = b
  PROVE  Ranked(new)
<1>1. PICK rank \in [Block -> Nat] : RankedBy(fl, rank)
  BY DEF Ranked
<1>2. PICK higher \in [Block -> Nat] :
        \A x \in Block : higher[x] = IF x = b THEN 0 ELSE rank[x] + 1
  <2> DEFINE r == [x \in Block |-> IF x = b THEN 0 ELSE rank[x] + 1]
  <2>1. r \in [Block -> Nat]
    OBVIOUS
  <2> QED BY <2>1
<1>3. RankedBy(new, higher)
  <2> SUFFICES ASSUME NEW x \in Block, new.next[x] \in Block
               PROVE  higher[new.next[x]] < higher[x]
    BY DEF RankedBy
  <2>1. x # b
    OBVIOUS
  <2>2. higher[x] = rank[x] + 1 /\ rank[x] \in Nat
    BY <1>2, <2>1
  <2>3. CASE new.next[x] = b
    BY <1>2, <2>2, <2>3
  <2>4. CASE new.next[x] # b
    <3>1. new.next[x] = fl.next[x]
      BY <2>4
    <3>2. rank[new.next[x]] < rank[x] /\ rank[new.next[x]] \in Nat
      BY <1>1, <3>1 DEF RankedBy
    <3>3. higher[new.next[x]] = rank[new.next[x]] + 1
      BY <1>2, <2>4
    <3> QED BY <2>2, <3>2, <3>3
  <2> QED BY <2>3, <2>4
<1> QED BY <1>3 DEF Ranked

(* What is not unlinked stays where it is in its chain.                    *)
LEMMA ChainKeptAlong ==
  ASSUME NEW fl, NEW new, NEW b,
         \A k \in 0 .. BLOCKS :
           LET x == Chain(fl, b)[k]
           IN x \in Block /\ fl.next[x] \in Block => new.next[x] = fl.next[x]
  PROVE  \A k \in 0 .. BLOCKS :
           Chain(fl, b)[k] \in Block => Chain(new, b)[k] = Chain(fl, b)[k]
<1>1. PICK at, to : at = Chain(fl, b) /\ to = Chain(new, b)
  OBVIOUS
<1>2. at[0] = b /\ to[0] = b
  BY <1>1, ChainStep
<1> DEFINE P == {k \in 0 .. BLOCKS : at[k] \in Block => to[k] = at[k]}
<1>3. 0 \in P
  BY <1>2, Sizes
<1>4. ASSUME NEW k \in 1 .. BLOCKS, k - 1 \in P
      PROVE  k \in P
  <2>1. SUFFICES ASSUME at[k] \in Block PROVE to[k] = at[k]
    OBVIOUS
  <2>2. k \in 0 .. BLOCKS /\ k - 1 \in 0 .. BLOCKS
    BY Sizes
  <2>3. at[k - 1] \in Block
    <3>1. k - 1 <= k
      OBVIOUS
    <3> QED BY <1>1, <2>1, <2>2, <3>1, ChainBefore
  <2>4. to[k - 1] = at[k - 1]
    BY <1>4, <2>3
  <2>5. at[k] = fl.next[at[k - 1]]
    BY <1>1, <2>3, ChainLink
  <2>6. to[k] = new.next[to[k - 1]]
    BY <1>1, <2>3, <2>4, ChainLink
  <2>7. new.next[at[k - 1]] = fl.next[at[k - 1]]
    BY <1>1, <2>1, <2>2, <2>3, <2>5
  <2> QED BY <2>4, <2>5, <2>6, <2>7
<1>5. \A k \in 0 .. BLOCKS : k \in P
  <2> HIDE DEF P
  <2> QED BY <1>3, <1>4, Sizes, Induction
<1> QED BY <1>1, <1>5

LEMMA ChainKept ==
  ASSUME NEW fl, NEW new, NEW b,
         \A x \in Block : fl.next[x] \in Block => new.next[x] = fl.next[x]
  PROVE  \A k \in 0 .. BLOCKS :
           Chain(fl, b)[k] \in Block => Chain(new, b)[k] = Chain(fl, b)[k]
  BY ChainKeptAlong

-----------------------------------------------------------------------------

(* Of a unit type, and no chain leads back into itself: what every step    *)
(* keeps, whatever may happen.                                             *)
Sound == TypeInv /\ Ranked(flash)

LEMMA Missing ==
  ASSUME Sound, ~Idle
  PROVE  /\ MissingAt \in 0 .. BLOCKS /\ Path[MissingAt] \notin Block
         /\ \A k \in 0 .. BLOCKS : k < MissingAt => Path[k] \in Block
         /\ \A k \in 0 .. BLOCKS : Path[k] \in -1 .. BLOCKS
         /\ Found => Wanted < BLOCKS /\ Path[Wanted] \in Block
<1>1. Path[BLOCKS] \notin Block
  BY ChainEnds DEF Sound, Path
<1>2. call.entry \in Entry /\ Wanted \in Nat
  BY Pass DEF Sound
<1>3. fatbuffer[call.entry] \in Fe
  BY <1>2 DEF Sound, TypeInv
<1>4. fatbuffer[call.entry].nextblock \in -1 .. BLOCKS
  <2>1. fatbuffer[call.entry].nextblock \in 0 .. BLOCKS
    BY <1>3, FeField
  <2> QED BY <2>1, Sizes
<1>5. \A k \in 0 .. BLOCKS : Path[k] \in -1 .. BLOCKS
  BY <1>4, ChainType, FlashField DEF Sound, TypeInv, Path
<1> DEFINE S == {k \in 0 .. BLOCKS : Path[k] \notin Block}
<1>6. S \subseteq Nat /\ S # {}
  BY <1>1, Sizes
<1>7. MissingAt = First(S)
  BY DEF MissingAt
<1>8. MissingAt \in S /\ \A j \in S : MissingAt <= j
  <2> HIDE DEF S
  <2> QED BY <1>6, <1>7, FirstOf
<1>9. \A k \in 0 .. BLOCKS : k < MissingAt => Path[k] \in Block
  <2> SUFFICES ASSUME NEW k \in 0 .. BLOCKS, k < MissingAt, k \in S PROVE FALSE
    OBVIOUS
  <2>1. MissingAt <= k /\ MissingAt \in Nat
    BY <1>6, <1>8
  <2> QED BY <2>1
<1>10. Found => Wanted < BLOCKS /\ Path[Wanted] \in Block
  BY <1>1, <1>2, Sizes DEF Found
<1> QED BY <1>5, <1>8, <1>9, <1>10

LEMMA Emptyblock ==
  ASSUME NEW fl, emptyblock(fl) # 0
  PROVE  emptyblock(fl) \in Block /\ fl.next[emptyblock(fl)] = -1
<1> DEFINE S == {b \in Block : fl.next[b] = -1}
<1>1. S \subseteq Nat
  BY Sizes DEF Block
<1>2. emptyblock(fl) = First(S)
  BY DEF emptyblock
<1>3. emptyblock(fl) \in S
  <2> HIDE DEF S
  <2> QED BY <1>1, <1>2, FirstOf
<1> QED BY <1>3

LEMMA Findfile ==
  ASSUME NEW n, findfile(n) # 0
  PROVE  findfile(n) \in Entry /\ fatbuffer[findfile(n)].filename = n
<1> DEFINE S == {e \in Entry : fatbuffer[e].filename = n}
<1>1. S \subseteq Nat
  BY Sizes DEF Entry
<1>2. findfile(n) = First(S)
  BY DEF findfile
<1>3. findfile(n) \in S
  <2> HIDE DEF S
  <2> QED BY <1>1, <1>2, FirstOf
<1> QED BY <1>3

LEMMA FindfileNone ==
  ASSUME NEW n, findfile(n) = 0
  PROVE  \A e \in Entry : fatbuffer[e].filename # n
<1> DEFINE S == {e \in Entry : fatbuffer[e].filename = n}
<1>1. S \subseteq Nat /\ 0 \notin S
  BY Sizes DEF Entry
<1>2. findfile(n) = First(S)
  BY DEF findfile
<1>3. S = {}
  <2> HIDE DEF S
  <2> QED BY <1>1, <1>2, FirstOf
<1> QED BY <1>3

-----------------------------------------------------------------------------

(* The end of a pass: the chains are those of fat, one size may have grown. *)
LEMMA AdvanceTo ==
  ASSUME TypeInv, ~Idle, Wanted < BLOCKS, NEW fat \in [Entry -> Fe], Advance(fat)
  PROVE  /\ fatbuffer' \in [Entry -> Fe]
         /\ \A e \in Entry : /\ fatbuffer'[e].nextblock = fat[e].nextblock
                             /\ fatbuffer'[e].filename = fat[e].filename
                             /\ fatbuffer'[e].filesize =
                                  IF e = call.entry /\ call' = << >>
                                    THEN Greater(fat[e].filesize, pos + Chunk)
                                    ELSE fat[e].filesize
         /\ file' \in [Handles -> FileRec]
         /\ \A h \in Handles : file'[h].fe = file[h].fe
         /\ \/ /\ call' = [call EXCEPT !.done = call.done + Chunk]
               /\ call' \in CallRec /\ call'.done < Len(call'.data)
               /\ call'.entry = call.entry /\ call'.start = call.start
               /\ call'.data = call.data /\ call'.done = call.done + Chunk
            \/ call' = << >>
<1>1. /\ call \in CallRec /\ call.entry \in Entry /\ call.data \in Seq(Units)
      /\ call.done \in Nat /\ call.start \in Nat /\ Chunk \in Nat
      /\ Len(call.data) \in Nat
  BY Pass
<1>2. pos + Chunk \in 0 .. Size /\ pos + Chunk = call.start + (call.done + Chunk)
  BY PassEnds, <1>1 DEF pos
<1>3. CASE call.done + Chunk < Len(call.data)
  <2>1. /\ call' = [call EXCEPT !.done = call.done + Chunk]
        /\ fatbuffer' = fat /\ file' = file
    BY <1>3 DEF Advance
  <2>2. /\ call' \in CallRec /\ call'.entry = call.entry /\ call'.start = call.start
        /\ call'.data = call.data /\ call'.done = call.done + Chunk
    <3>1. PICK n \in Nat : n = call.done + Chunk
      BY <1>1
    <3>2. call' = [call EXCEPT !.done = n]
      BY <2>1, <3>1
    <3> QED BY <1>1, <3>1, <3>2 DEF CallRec
  <2>3. call' # << >>
    <3> SUFFICES ASSUME call' = << >> PROVE FALSE
      OBVIOUS
    <3>1. DOMAIN call' = {"entry", "start", "data", "done"}
      BY <2>2 DEF CallRec
    <3>2. DOMAIN << >> = {}
      OBVIOUS
    <3> QED BY <3>1, <3>2
  <2> QED BY <1>3, <2>1, <2>2, <2>3 DEF TypeInv
<1>4. CASE ~(call.done + Chunk < Len(call.data))
  <2>1. /\ call' = << >>
        /\ fatbuffer' = [fat EXCEPT ![call.entry].filesize =
                           Greater(@, call.start + (call.done + Chunk))]
        /\ file' = [file EXCEPT ![fd].offset = call.start + (call.done + Chunk)]
    BY <1>4 DEF Advance
  <2>2. PICK fe \in Fe : fe = fat[call.entry]
    BY <1>1
  <2>3. PICK s \in 0 .. Size : s = Greater(fe.filesize, pos + Chunk)
    BY <1>2, FeField DEF Greater
  <2>4. fatbuffer' = [fat EXCEPT ![call.entry] = [fe EXCEPT !.filesize = s]]
    BY <1>2, <2>1, <2>2, <2>3
  <2>5. /\ [fe EXCEPT !.filesize = s] \in Fe
        /\ [fe EXCEPT !.filesize = s].filesize = s
        /\ [fe EXCEPT !.filesize = s].nextblock = fe.nextblock
        /\ [fe EXCEPT !.filesize = s].filename = fe.filename
    BY DEF Fe, Size
  <2>6. PICK g \in Fe : g = [fe EXCEPT !.filesize = s]
    BY <2>5
  <2>7. g.filesize = s /\ g.nextblock = fe.nextblock /\ g.filename = fe.filename
    BY <2>5, <2>6
  <2>8. fatbuffer' = [fat EXCEPT ![call.entry] = g]
    BY <2>4, <2>6
  <2>9. fd \in Handles /\ file \in [Handles -> FileRec]
    BY DEF TypeInv
  <2>10. /\ file' \in [Handles -> FileRec]
         /\ \A h \in Handles : file'[h].fe = file[h].fe
    BY <1>2, <2>1, <2>9 DEF FileRec
  <2>11. fatbuffer' \in [Entry -> Fe]
    BY <2>8
  <2>12. ASSUME NEW e \in Entry
         PROVE  /\ fatbuffer'[e].nextblock = fat[e].nextblock
                /\ fatbuffer'[e].filename = fat[e].filename
                /\ fatbuffer'[e].filesize =
                     IF e = call.entry THEN Greater(fat[e].filesize, pos + Chunk)
                     ELSE fat[e].filesize
    <3>1. CASE e = call.entry
      BY <3>1, <2>2, <2>3, <2>7, <2>8
    <3>2. CASE e # call.entry
      BY <3>2, <2>8
    <3> QED BY <3>1, <3>2
  <2> QED BY <2>1, <2>10, <2>11, <2>12
<1> QED BY <1>3, <1>4

(* A pass inside the chain leaves every link as it is.                     *)
LEMMA InPlace ==
  ASSUME Sound, WriteInPlace
  PROVE  /\ ~Idle /\ Wanted < BLOCKS /\ Path[Wanted] \in Block
         /\ flash' \in FlashRec /\ flash'.fat = flash.fat
         /\ \A x \in Block : flash'.next[x] =
              IF x = Path[Wanted] /\ flash.next[x] = -1 THEN 0 ELSE flash.next[x]
         /\ Ranked(flash')
<1>1. ~Idle /\ Wanted < BLOCKS /\ Path[Wanted] \in Block
  BY Missing DEF WriteInPlace
<1>2. PICK b \in Block : b = Path[Wanted]
  BY <1>1
<1>3. flash' = WriteTo(flash, b)
  BY <1>2 DEF WriteInPlace
<1>4. /\ flash' \in FlashRec /\ flash'.fat = flash.fat
      /\ flash'.next = [flash.next EXCEPT ![b] = IF flash.next[b] = -1 THEN 0
                                                 ELSE flash.next[b]]
  BY <1>1, <1>3, WriteToFlash DEF Sound, TypeInv
<1>5. flash.next \in [Block -> -1 .. BLOCKS]
  BY FlashField DEF Sound, TypeInv
<1>6. \A x \in Block : flash'.next[x] =
        IF x = b /\ flash.next[x] = -1 THEN 0 ELSE flash.next[x]
  BY <1>4, <1>5
<1>7. 0 \notin Block
  BY Sizes DEF Block
<1>8. Ranked(flash')
  BY <1>6, <1>7, RankedFewer DEF Sound
<1> QED BY <1>1, <1>2, <1>4, <1>6, <1>8

(* A pass beyond the chain takes an empty block and links it to the last.  *)
LEMMA NewBlock ==
  ASSUME Sound, WriteNewBlock, NEW b, b = emptyblock(flash)
  PROVE  /\ ~Idle /\ Wanted \in 0 .. BLOCKS - 1 /\ MissingAt = Wanted /\ Path[Wanted] = 0
         /\ b \in Block /\ flash.next[b] = -1
         /\ Wanted # 0 => /\ Path[Wanted - 1] \in Block /\ Path[Wanted - 1] # b
                          /\ flash.next[Path[Wanted - 1]] = 0
         /\ flash' \in FlashRec /\ flash'.fat = flash.fat
         /\ \A x \in Block : flash'.next[x] =
              IF x = b THEN 0
              ELSE IF Wanted # 0 /\ x = Path[Wanted - 1] THEN b ELSE flash.next[x]
         /\ Ranked(flash')
         /\ Chain(flash', IF Wanted = 0 THEN b
                          ELSE fatbuffer[call.entry].nextblock)[Wanted] = b
<1>1. /\ ~Idle /\ MissingAt = Wanted /\ Path[Wanted] = 0 /\ b # 0
      /\ flash' = WriteTo(IF Wanted = 0 THEN flash
                          ELSE [flash EXCEPT !.next[Path[Wanted - 1]] = b], b)
  BY DEF WriteNewBlock
<1>2. b \in Block /\ flash.next[b] = -1
  BY <1>1, Emptyblock
<1>3. Wanted \in 0 .. BLOCKS
  BY <1>1, Missing
<1>4. flash \in FlashRec /\ flash.next \in [Block -> -1 .. BLOCKS]
  BY FlashField DEF Sound, TypeInv
<1>5. 0 \notin Block
  BY Sizes DEF Block
<1>6. b \in -1 .. BLOCKS
  BY <1>2, Sizes DEF Block
<1> DEFINE start == fatbuffer[call.entry].nextblock
<1>7. CASE Wanted = 0
  <2>1. flash' = WriteTo(flash, b)
    BY <1>1, <1>7
  <2>2. /\ flash' \in FlashRec /\ flash'.fat = flash.fat
        /\ flash'.next = [flash.next EXCEPT ![b] = IF flash.next[b] = -1 THEN 0
                                                   ELSE flash.next[b]]
    BY <1>1, <1>2, <1>4, <2>1, WriteToFlash DEF Sound
  <2>3. \A x \in Block : flash'.next[x] = IF x = b THEN 0 ELSE flash.next[x]
    BY <1>2, <1>4, <2>2
  <2>4. Ranked(flash')
    BY <1>5, <2>3, RankedFewer DEF Sound
  <2>5. Chain(flash', b)[0] = b
    BY ChainStep
  <2> QED BY <1>1, <1>2, <1>3, <1>7, <2>2, <2>3, <2>4, <2>5, Sizes
<1>8. CASE Wanted # 0
  <2>1. Wanted \in 1 .. BLOCKS /\ Wanted - 1 \in 0 .. BLOCKS /\ Wanted - 1 < MissingAt
    BY <1>1, <1>3, <1>8, Sizes
  <2>2. PICK last \in Block : last = Path[Wanted - 1]
    BY <1>1, <2>1, Missing
  <2>3. flash.next[last] = 0
    BY <1>1, <2>1, <2>2, ChainLink DEF Path
  <2>4. last # b
    BY <1>2, <2>3
  <2>5. PICK fl \in FlashRec : fl = [flash EXCEPT !.next[last] = b]
    BY <1>4, <1>6, FlashLink
  <2>6. fl.fat = flash.fat /\ fl.next = [flash.next EXCEPT ![last] = b]
    BY <1>4, <1>6, <2>5, FlashLink
  <2>7. flash' = WriteTo(fl, b)
    BY <1>1, <1>8, <2>2, <2>5
  <2>8. /\ flash' \in FlashRec /\ flash'.fat = fl.fat
        /\ flash'.next = [fl.next EXCEPT ![b] = IF fl.next[b] = -1 THEN 0 ELSE fl.next[b]]
    <3>1. TypeInv /\ ~Idle
      BY <1>1 DEF Sound
    <3>2. /\ WriteTo(fl, b) \in FlashRec /\ WriteTo(fl, b).fat = fl.fat
          /\ WriteTo(fl, b).next =
               [fl.next EXCEPT ![b] = IF fl.next[b] = -1 THEN 0 ELSE fl.next[b]]
      BY <1>2, <3>1, WriteToFlash
    <3> QED BY <2>7, <3>2
  <2>9. fl.next[b] = -1 /\ fl.next \in [Block -> -1 .. BLOCKS]
    BY <1>2, <1>4, <1>6, <2>4, <2>6
  <2>10. \A x \in Block : flash'.next[x] =
           IF x = b THEN 0 ELSE IF x = last THEN b ELSE flash.next[x]
    BY <1>2, <1>4, <2>4, <2>6, <2>8, <2>9
  <2>11. flash.next[b] \notin Block
    BY <1>2 DEF Block
  <2>12. Ranked(flash')
    BY <1>2, <1>5, <2>4, <2>10, <2>11, RankedLinked DEF Sound
  <2>13. \A x \in Block : flash.next[x] \in Block => flash'.next[x] = flash.next[x]
    BY <1>5, <2>3, <2>10, <2>11
  <2>14. Chain(flash', start)[Wanted - 1] = last
    BY <2>1, <2>2, <2>13, ChainKept DEF Path
  <2>15. Chain(flash', start)[Wanted] = b
    <3>1. flash'.next[last] = b
      BY <2>4, <2>10
    <3> QED BY <2>1, <2>14, <3>1, ChainLink
  <2>16. Chain(flash', start)[BLOCKS] \notin Block
    BY <2>12, ChainEnds
  <2>17. Wanted # BLOCKS
    BY <1>2, <2>15, <2>16
  <2>18. Wanted \in 0 .. BLOCKS - 1
    BY <1>3, <2>17, Sizes
  <2> HIDE DEF start
  <2> QED BY <1>1, <1>2, <1>8, <2>2, <2>3, <2>4, <2>6, <2>8, <2>10, <2>12, <2>15, <2>18
             DEF start
<1> QED BY <1>7, <1>8

(* A link to a block that is then not written: it still reads as empty.    *)
LEMMA LastOfPath ==
  ASSUME Sound, ~Idle, MissingAt # 0, Path[MissingAt] = 0,
         NEW b \in Block, flash.next[b] = -1
  PROVE  /\ Path[MissingAt - 1] \in Block /\ Path[MissingAt - 1] # b
         /\ flash.next[Path[MissingAt - 1]] = 0
         /\ [flash EXCEPT !.next[Path[MissingAt - 1]] = b] \in FlashRec
         /\ [flash EXCEPT !.next[Path[MissingAt - 1]] = b].fat = flash.fat
         /\ Ranked([flash EXCEPT !.next[Path[MissingAt - 1]] = b])
<1>1. MissingAt \in 1 .. BLOCKS /\ MissingAt - 1 \in 0 .. BLOCKS /\ MissingAt - 1 < MissingAt
  <2>1. MissingAt \in 0 .. BLOCKS
    BY Missing
  <2> QED BY <2>1, Sizes
<1>2. PICK last \in Block : last = Path[MissingAt - 1]
  BY <1>1, Missing
<1>3. flash.next[last] = 0
  BY <1>1, <1>2, ChainLink DEF Path
<1>4. last # b
  BY <1>3
<1>5. flash \in FlashRec /\ flash.next \in [Block -> -1 .. BLOCKS]
  BY FlashField DEF Sound, TypeInv
<1>6. b \in -1 .. BLOCKS /\ -1 \notin Block
  BY Sizes DEF Block
<1>7. PICK fl \in FlashRec : fl = [flash EXCEPT !.next[last] = b]
  BY <1>5, <1>6, FlashLink
<1>8. fl.fat = flash.fat /\ fl.next = [flash.next EXCEPT ![last] = b]
  BY <1>5, <1>6, <1>7, FlashLink
<1>9. \A x \in Block : fl.next[x] = flash.next[x] \/ (x = last /\ fl.next[x] = b)
  BY <1>5, <1>8
<1>10. Ranked(fl)
  BY <1>4, <1>6, <1>9, RankedLinked DEF Sound
<1> QED BY <1>2, <1>3, <1>4, <1>7, <1>8, <1>10

LEMMA FailedGrowth ==
  ASSUME Sound, ~Idle, Path[MissingAt] = 0, emptyblock(flash) # 0, Grown(emptyblock(flash))
  PROVE  /\ fatbuffer' \in [Entry -> Fe] /\ flash' \in FlashRec /\ Ranked(flash')
<1>1. PICK b \in Block : b = emptyblock(flash) /\ flash.next[b] = -1
  BY Emptyblock
<1>2. CASE MissingAt = 0
  <2>1. /\ fatbuffer' = [fatbuffer EXCEPT ![call.entry].nextblock = b]
        /\ flash' = flash
    BY <1>1, <1>2 DEF Grown
  <2>2. fatbuffer' \in [Entry -> Fe]
    <3>1. b \in 0 .. BLOCKS
      BY Sizes DEF Block
    <3>2. call.entry \in Entry /\ fatbuffer \in [Entry -> Fe]
      BY Pass DEF Sound, TypeInv
    <3>3. [fatbuffer[call.entry] EXCEPT !.nextblock = b] \in Fe
      BY <3>1, <3>2, FeUpdate
    <3> QED BY <2>1, <3>2, <3>3
  <2> QED BY <2>1, <2>2 DEF Sound, TypeInv
<1>3. CASE MissingAt # 0
  <2>1. /\ fatbuffer' = fatbuffer
        /\ flash' = [flash EXCEPT !.next[Path[MissingAt - 1]] = b]
    BY <1>1, <1>3 DEF Grown
  <2>2. flash' \in FlashRec /\ Ranked(flash')
    BY <1>1, <1>3, <2>1, LastOfPath
  <2> QED BY <2>1, <2>2 DEF Sound, TypeInv
<1> QED BY <1>2, <1>3

(* An unlink frees the blocks of the entry's chain and no other.           *)
LEMMA Unlinked ==
  ASSUME Sound, NEW n, Unlink(n), NEW e, e = findfile(n)
  PROVE  /\ e \in Entry /\ fatbuffer[e].filename = n
         /\ fatbuffer' = [fatbuffer EXCEPT ![e] = EmptyFe] /\ fatbuffer' \in [Entry -> Fe]
         /\ flash' \in FlashRec
         /\ flash'.fat = IF Walked(e) THEN fatbuffer' ELSE flash.fat
         /\ \A x \in Block : flash'.next[x] =
              IF x \in BlocksOf(flash, fatbuffer[e].nextblock) THEN -1 ELSE flash.next[x]
         /\ Ranked(flash')
<1> DEFINE gone == BlocksOf(flash, fatbuffer[e].nextblock)
           fat == IF Walked(e) THEN fatbuffer' ELSE flash.fat
           next == [b \in Block |-> IF b \in gone THEN -1 ELSE flash.next[b]]
           data == [b \in Block |-> IF b \in gone THEN ErasedBlock ELSE flash.data[b]]
<1>1. e \in Entry /\ fatbuffer[e].filename = n
  BY Findfile DEF Unlink, Unlinkable
<1>2. /\ fatbuffer' = [fatbuffer EXCEPT ![e] = EmptyFe]
      /\ flash' = [fat |-> fat, next |-> next, data |-> data]
  BY DEF Unlink
<1>3. fatbuffer' \in [Entry -> Fe]
  BY <1>2, Empty DEF Sound, TypeInv
<1>4. /\ flash.next \in [Block -> -1 .. BLOCKS]
      /\ flash.data \in [Block -> [0 .. PAYLOAD - 1 -> Unit]]
      /\ fat \in {<< >>} \cup [Entry -> Fe]
  BY <1>3, FlashField DEF Sound, TypeInv
<1>5. next \in [Block -> -1 .. BLOCKS] /\ data \in [Block -> [0 .. PAYLOAD - 1 -> Unit]]
  <2>1. -1 \in -1 .. BLOCKS
    BY Sizes
  <2> QED BY <1>4, <2>1, Empty
<1>6. \A x \in Block : next[x] = IF x \in gone THEN -1 ELSE flash.next[x]
  OBVIOUS
<1> HIDE DEF next, data, fat
<1>7. flash' \in FlashRec /\ flash'.fat = fat /\ flash'.next = next
  BY <1>2, <1>4, <1>5, FlashRecord
<1>8. -1 \notin Block
  BY DEF Block
<1>9. Ranked(flash')
  BY <1>6, <1>7, <1>8, RankedFewer DEF Sound
<1>10. flash'.fat = IF Walked(e) THEN fatbuffer' ELSE flash.fat
  BY <1>7 DEF fat
<1> QED BY <1>1, <1>2, <1>3, <1>6, <1>7, <1>9, <1>10

-----------------------------------------------------------------------------

(* An unlink cut short: a chain erased as far as its n-th block.           *)
Fewer(new, fl) ==
  /\ new \in FlashRec /\ new.fat = fl.fat
  /\ \A x \in Block : new.next[x] \in {-1, fl.next[x]}

CutUnrolled(fl, at, n, g) ==
  g = [k \in 0 .. n |->
         IF k = 0 THEN fl
         ELSE IF at[k - 1] \in Block THEN Erase(g[k - 1], at[k - 1]) ELSE g[k - 1]]

LEMMA CutIf ==
  ASSUME NEW fl, NEW at, NEW n \in Nat, NEW g,
         g = [k \in 0 .. n |-> g[k]],
         g[0] = fl,
         \A k \in 1 .. n :
           g[k] = IF at[k - 1] \in Block THEN Erase(g[k - 1], at[k - 1]) ELSE g[k - 1]
  PROVE  CutUnrolled(fl, at, n, g)
<1>1. \A k \in 0 .. n : g[k] = IF k = 0 THEN fl
       ELSE IF at[k - 1] \in Block THEN Erase(g[k - 1], at[k - 1]) ELSE g[k - 1]
  <2> TAKE k \in 0 .. n
  <2>1. CASE k = 0
    BY <2>1
  <2>2. CASE k # 0
    <3>1. k \in 1 .. n
      BY <2>2
    <3> QED BY <2>2, <3>1
  <2> QED BY <2>1, <2>2
<1> QED BY <1>1 DEF CutUnrolled

LEMMA CutExists ==
  ASSUME NEW fl, NEW at, NEW n \in Nat
  PROVE  \E g : CutUnrolled(fl, at, n, g)
<1> DEFINE Cut(x, k) == IF at[k - 1] \in Block THEN Erase(x, at[k - 1]) ELSE x
           P == {m \in 0 .. n : \E g : /\ g = [k \in 0 .. m |-> g[k]] /\ g[0] = fl
                                       /\ \A k \in 1 .. m : g[k] = Cut(g[k - 1], k)}
<1>1. 0 \in P
  <2> DEFINE g == [k \in 0 .. 0 |-> fl]
  <2>1. /\ g = [k \in 0 .. 0 |-> g[k]] /\ g[0] = fl
        /\ \A k \in 1 .. 0 : g[k] = Cut(g[k - 1], k)
    OBVIOUS
  <2> HIDE DEF g, Cut
  <2> QED BY <2>1
<1>2. ASSUME NEW m \in 1 .. n, m - 1 \in P
      PROVE  m \in P
  <2> HIDE DEF Cut
  <2>1. PICK g : /\ g = [k \in 0 .. m - 1 |-> g[k]] /\ g[0] = fl
                 /\ \A k \in 1 .. m - 1 : g[k] = Cut(g[k - 1], k)
    BY <1>2
  <2> DEFINE h == [k \in 0 .. m |-> IF k = m THEN Cut(g[m - 1], m) ELSE g[k]]
  <2>2. /\ h = [k \in 0 .. m |-> h[k]]
        /\ h[0] = g[0]
        /\ \A k \in 0 .. m - 1 : h[k] = g[k]
        /\ h[m] = Cut(g[m - 1], m)
    OBVIOUS
  <2> HIDE DEF h
  <2>3. \A k \in 1 .. m : h[k] = Cut(h[k - 1], k)
    <3> TAKE k \in 1 .. m
    <3>1. k - 1 \in 0 .. m - 1
      OBVIOUS
    <3>2. h[k - 1] = g[k - 1]
      BY <2>2, <3>1
    <3>3. CASE k = m
      BY <2>2, <3>2, <3>3
    <3>4. CASE k # m
      <4>1. k \in 1 .. m - 1 /\ k \in 0 .. m - 1
        BY <3>4
      <4> QED BY <2>1, <2>2, <3>2, <4>1
    <3> QED BY <3>3, <3>4
  <2>4. m \in 0 .. n
    OBVIOUS
  <2>5. \E f : /\ f = [k \in 0 .. m |-> f[k]] /\ f[0] = fl
               /\ \A k \in 1 .. m : f[k] = Cut(f[k - 1], k)
    BY <2>1, <2>2, <2>3
  <2> QED BY <2>4, <2>5
<1>3. \A m \in 0 .. n : m \in P
  <2> HIDE DEF P
  <2> QED BY <1>1, <1>2, Induction
<1>4. n \in P
  <2> HIDE DEF P
  <2> QED BY <1>3
<1>5. PICK g : /\ g = [k \in 0 .. n |-> g[k]] /\ g[0] = fl
               /\ \A k \in 1 .. n : g[k] = Cut(g[k - 1], k)
  BY <1>4
<1> QED BY <1>5, CutIf

LEMMA CutFewer ==
  ASSUME NEW fl \in FlashRec, NEW at, NEW cut, CutUnrolled(fl, at, BLOCKS, cut)
  PROVE  \A k \in 0 .. BLOCKS : Fewer(cut[k], fl)
<1> DEFINE P == {k \in 0 .. BLOCKS : Fewer(cut[k], fl)}
<1>1. cut[0] = fl
  BY Sizes DEF CutUnrolled
<1>2. 0 \in P
  BY <1>1, Sizes DEF Fewer
<1>3. ASSUME NEW k \in 1 .. BLOCKS, k - 1 \in P
      PROVE  k \in P
  <2>1. k \in 0 .. BLOCKS /\ k # 0
    BY Sizes
  <2>2. cut[k] = IF at[k - 1] \in Block THEN Erase(cut[k - 1], at[k - 1]) ELSE cut[k - 1]
    BY <2>1 DEF CutUnrolled
  <2>3. Fewer(cut[k - 1], fl)
    BY <1>3
  <2>4. CASE at[k - 1] \in Block
    <3>1. PICK x \in FlashRec, b \in Block : x = cut[k - 1] /\ b = at[k - 1]
      BY <2>3, <2>4 DEF Fewer
    <3>2. Updated(Erase(x, b), x, b, -1, ErasedBlock)
      BY FlashErase
    <3>3. PICK y : y = Erase(x, b)
      OBVIOUS
    <3>4. y \in FlashRec /\ y.fat = x.fat /\ y.next = [x.next EXCEPT ![b] = -1]
      BY <3>2, <3>3 DEF Updated
    <3>5. x.next \in [Block -> -1 .. BLOCKS]
      BY FlashField
    <3>6. \A z \in Block : y.next[z] \in {-1, x.next[z]}
      BY <3>4, <3>5
    <3>7. cut[k] = y
      BY <2>2, <2>4, <3>1, <3>3
    <3> QED BY <2>1, <2>3, <3>1, <3>4, <3>6, <3>7 DEF Fewer
  <2>5. CASE at[k - 1] \notin Block
    BY <2>1, <2>2, <2>3, <2>5
  <2> QED BY <2>4, <2>5
<1>4. \A k \in 0 .. BLOCKS : k \in P
  <2> HIDE DEF P
  <2> QED BY <1>2, <1>3, Sizes, Induction
<1> QED BY <1>4

LEMMA TornUnlinkFewer ==
  ASSUME Sound, NEW n, NEW new, new \in TornUnlink(n)
  PROVE  \E fl : Fewer(fl, flash) /\ (new = fl \/ new = FatErased(fl))
<1>1. PICK at : at = Chain(flash, fatbuffer[findfile(n)].nextblock)
  OBVIOUS
<1>2. PICK cut : cut = CHOOSE g : CutUnrolled(flash, at, BLOCKS, g)
  OBVIOUS
<1>3. CutUnrolled(flash, at, BLOCKS, cut)
  BY <1>2, CutExists, Sizes
<1>4. new \in {cut[k] : k \in 0 .. BLOCKS} \cup {FatErased(cut[BLOCKS])}
  BY <1>1, <1>2 DEF TornUnlink, CutUnrolled
<1>5. \A k \in 0 .. BLOCKS : Fewer(cut[k], flash)
  BY <1>3, CutFewer DEF Sound, TypeInv
<1>6. BLOCKS \in 0 .. BLOCKS
  BY Sizes
<1> QED BY <1>4, <1>5, <1>6

-----------------------------------------------------------------------------

LEMMA Formatted ==
  /\ mkfs \in FlashRec /\ mkfs.fat = NoFat
  /\ \A x \in Block : mkfs.next[x] = -1
<1> DEFINE next == [b \in Block |-> -1]
           data == [b \in Block |-> ErasedBlock]
<1>1. next \in [Block -> -1 .. BLOCKS] /\ data \in [Block -> [0 .. PAYLOAD - 1 -> Unit]]
  BY Sizes, Empty
<1>2. \A x \in Block : next[x] = -1
  OBVIOUS
<1>3. mkfs = [fat |-> NoFat, next |-> next, data |-> data]
  BY DEF mkfs
<1> HIDE DEF next, data
<1>4. NoFat \in {<< >>} \cup [Entry -> Fe]
  BY Empty
<1>5. mkfs \in FlashRec /\ mkfs.fat = NoFat /\ mkfs.next = next
  BY <1>1, <1>3, <1>4, FlashRecord
<1> QED BY <1>2, <1>5

LEMMA RankedNone ==
  ASSUME NEW fl, \A x \in Block : fl.next[x] \notin Block
  PROVE  Ranked(fl)
<1>1. [x \in Block |-> 0] \in [Block -> Nat]
  OBVIOUS
<1> QED BY <1>1 DEF Ranked, RankedBy

LEMMA ClosedFile == Closed \in FileRec
<1>1. 0 \in 0 .. FILES /\ 0 \in 0 .. Size
  BY Sizes, SizeNat
<1> QED BY <1>1 DEF Closed, FileRec

LEMMA SoundInit == Init => Sound
<1> SUFFICES ASSUME Init PROVE Sound
  OBVIOUS
<1>1. flash \in FlashRec /\ \A x \in Block : flash.next[x] = -1
  <2> DEFINE next == [b \in Block |-> -1]
             data == [b \in Block |-> ErasedBlock]
  <2>1. next \in [Block -> -1 .. BLOCKS] /\ data \in [Block -> [0 .. PAYLOAD - 1 -> Unit]]
    BY Sizes, Empty
  <2>2. \A x \in Block : next[x] = -1
    OBVIOUS
  <2>3. flash = [fat |-> << >>, next |-> next, data |-> data]
    BY DEF Init
  <2> HIDE DEF next, data
  <2>4. flash \in FlashRec /\ flash.next = next
    BY <2>1, <2>3, FlashRecord
  <2> QED BY <2>2, <2>4
<1>2. Ranked(flash)
  BY <1>1, RankedNone DEF Block
<1>3. TypeInv
  BY <1>1, Empty, ClosedFile DEF Init, TypeInv, Idle
<1> QED BY <1>2, <1>3 DEF Sound

(* What the calls that leave the links alone do to the rest.               *)
LEMMA SoundMount == Sound /\ Mount /\ UNCHANGED powered => Sound'
<1> SUFFICES ASSUME Sound, Mount, UNCHANGED powered PROVE Sound'
  OBVIOUS
<1>1. CASE flash.fat = << >>
  <2>1. flash' = mkfs /\ fatbuffer' = NoFat
    BY <1>1, Formatted DEF Mount
  <2>2. Ranked(flash')
    BY <2>1, Formatted, RankedNone DEF Block
  <2> QED BY <2>1, <2>2, Formatted, Empty DEF Sound, TypeInv, Mount, Idle
<1>2. CASE flash.fat # << >>
  <2>1. flash' = flash /\ fatbuffer' = flash.fat
    BY <1>2 DEF Mount
  <2>2. flash.fat \in [Entry -> Fe]
    BY <1>2, FlashField DEF Sound, TypeInv
  <2> QED BY <2>1, <2>2 DEF Sound, TypeInv, Mount, Idle
<1> QED BY <1>1, <1>2

LEMMA SoundUmount == Sound /\ Umount /\ UNCHANGED powered => Sound'
<1> SUFFICES ASSUME Sound, Umount, UNCHANGED powered PROVE Sound'
  OBVIOUS
<1>1. flash' \in FlashRec /\ flash'.next = flash.next
  BY FlashFat DEF Umount, writefat, Sound, TypeInv
<1>2. Ranked(flash')
  BY <1>1, RankedFewer DEF Sound
<1> QED BY <1>1, <1>2 DEF Sound, TypeInv, Umount, Idle

(* What open does with the entry fe it has found or taken.                 *)
Opened(h, n, append, fe) ==
  /\ file' = [file EXCEPT ![h] =
                [fe |-> fe,
                 offset |-> IF append THEN fatbuffer'[fe].filesize ELSE 0,
                 append |-> append]]
  /\ \/ fatbuffer' = fatbuffer /\ fatbuffer[fe].filename = n
     \/ /\ fatbuffer[fe].filename = ""
        /\ \A e \in Entry : fatbuffer[e].filename # n
        /\ fatbuffer' = [fatbuffer EXCEPT ![fe] = [EmptyFe EXCEPT !.filename = n]]

LEMMA NewFile ==
  ASSUME TypeInv, NEW h \in Handles, NEW n \in Names, NEW creat, NEW append \in BOOLEAN,
         Open(h, n, creat, append)
  PROVE  \E fe \in Entry : Opened(h, n, append, fe)
<1> DEFINE old == findfile(n)
           new == IF old = 0 /\ creat THEN emptyfe ELSE 0
           fe == old + new
<1>1. /\ fe # 0
      /\ fatbuffer' = IF new = 0 THEN fatbuffer
                      ELSE [fatbuffer EXCEPT ![new] = [EmptyFe EXCEPT !.filename = n]]
      /\ file' = [file EXCEPT ![h] =
                    [fe |-> fe,
                     offset |-> IF append THEN fatbuffer'[fe].filesize ELSE 0,
                     append |-> append]]
  BY DEF Open
<1>2. CASE old # 0
  <2>1. new = 0 /\ fe = old /\ old \in Entry /\ fatbuffer[old].filename = n
    BY <1>2, Findfile DEF Entry
  <2>2. Opened(h, n, append, old)
    <3> HIDE DEF old, new
    <3> QED BY <1>1, <2>1 DEF Opened
  <2> QED BY <2>1, <2>2
<1>3. CASE old = 0
  <2>1. new # 0 /\ new = emptyfe
    BY <1>1, <1>3
  <2>2. PICK e \in Entry : e = new /\ fatbuffer[e].filename = ""
    BY <2>1, Findfile DEF emptyfe
  <2>3. fe = e /\ new # 0
    <3>1. e \in Nat /\ e # 0
      BY EntryNat
    <3> HIDE DEF old, new
    <3>2. fe = 0 + e
      BY <1>3, <2>2, Zenon
    <3> QED BY <2>1, <3>1, <3>2
  <2>4. \A d \in Entry : fatbuffer[d].filename # n
    BY <1>3, FindfileNone
  <2>5. Opened(h, n, append, e)
    <3>1. fatbuffer' = [fatbuffer EXCEPT ![e] = [EmptyFe EXCEPT !.filename = n]]
      BY <1>1, <2>2, <2>3
    <3> QED BY <1>1, <2>2, <2>3, <2>4, <3>1 DEF Opened
  <2> QED BY <2>5
<1> QED BY <1>2, <1>3

LEMMA SoundOpen ==
  ASSUME Sound, NEW h \in Handles, NEW n \in Names, NEW creat, NEW append \in BOOLEAN,
         Open(h, n, creat, append), UNCHANGED powered
  PROVE  Sound'
<1>1. PICK fe \in Entry : Opened(h, n, append, fe)
  BY NewFile DEF Sound
<1>2. [EmptyFe EXCEPT !.filename = n] \in Fe
  BY Empty, FeUpdate
<1>3. fatbuffer' \in [Entry -> Fe]
  BY <1>1, <1>2 DEF Opened, Sound, TypeInv
<1>4. fatbuffer'[fe].filesize \in 0 .. Size /\ 0 \in 0 .. Size
  <2>1. PICK x \in Fe : x = fatbuffer'[fe]
    BY <1>3
  <2>2. x.filesize \in 0 .. Size
    BY FeField
  <2> QED BY <2>1, <2>2, SizeNat
<1>5. PICK o \in 0 .. Size : o = IF append THEN fatbuffer'[fe].filesize ELSE 0
  BY <1>4
<1>6. [fe |-> fe, offset |-> o, append |-> append] \in FileRec
  BY DEF FileRec, Entry
<1>7. file' \in [Handles -> FileRec]
  <2>1. file' = [file EXCEPT ![h] = [fe |-> fe, offset |-> o, append |-> append]]
    BY <1>1, <1>5 DEF Opened
  <2> QED BY <1>6, <2>1 DEF Sound, TypeInv
<1> QED BY <1>3, <1>7 DEF Sound, TypeInv, Open, Idle

LEMMA SoundFile ==
  ASSUME Sound, NEW h \in Handles, UNCHANGED powered,
         \/ Close(h)
         \/ \E p \in 0 .. BLOCKS * PAYLOAD : Lseek(h, p)
         \/ \E w \in Writes : Write(h, w)
  PROVE  Sound'
<1>1. CASE Close(h)
  BY <1>1, ClosedFile DEF Sound, TypeInv, Close, Idle
<1>2. ASSUME NEW p \in 0 .. Size, Lseek(h, p)
      PROVE  Sound'
  <2>1. file' = [file EXCEPT ![h].offset = p]
    BY <1>2 DEF Lseek
  <2>2. file' \in [Handles -> FileRec]
    BY <2>1 DEF Sound, TypeInv, FileRec
  <2> QED BY <1>2, <2>2 DEF Sound, TypeInv, Lseek, Idle
<1>3. ASSUME NEW w \in Writes, Write(h, w)
      PROVE  Sound'
  <2>1. PICK at : at = IF file[h].append THEN fatbuffer[file[h].fe].filesize ELSE file[h].offset
    OBVIOUS
  <2>2. /\ file[h].fe # 0
        /\ call' = [entry |-> file[h].fe, start |-> at, data |-> w, done |-> 0]
        /\ fd' = h /\ file' = [file EXCEPT ![h].offset = at]
    BY <1>3, <2>1 DEF Write
  <2>3. file[h] \in FileRec
    BY DEF Sound, TypeInv
  <2>4. file[h].fe \in Entry /\ file[h].offset \in 0 .. Size
    BY <2>2, <2>3, Sizes DEF FileRec, Entry
  <2>5. fatbuffer[file[h].fe].filesize \in 0 .. Size
    BY <2>4, FeField DEF Sound, TypeInv
  <2>6. at \in 0 .. Size
    BY <2>1, <2>4, <2>5
  <2>7. call' \in CallRec /\ call'.done = 0 /\ call'.data = w
    BY <2>2, <2>4, <2>6 DEF CallRec
  <2>8. 0 < Len(w)
    BY WritesSeq
  <2>9. file' \in [Handles -> FileRec]
    BY <2>2, <2>6 DEF Sound, TypeInv, FileRec
  <2> QED BY <1>3, <2>2, <2>7, <2>8, <2>9 DEF Sound, TypeInv, Write
<1> QED BY <1>1, <1>2, <1>3 DEF Size

LEMMA SoundList ==
  ASSUME Sound, NEW n \in Names, UNCHANGED powered,
         Unlink(n) \/ \E m \in Names : Rename(n, m)
  PROVE  Sound'
<1>1. CASE Unlink(n)
  <2>1. fatbuffer' \in [Entry -> Fe] /\ flash' \in FlashRec /\ Ranked(flash')
    BY <1>1, Unlinked
  <2> QED BY <1>1, <2>1 DEF Sound, TypeInv, Unlink, Idle
<1>2. ASSUME NEW m \in Names, Rename(n, m)
      PROVE  Sound'
  <2>1. PICK e \in Entry : e = findfile(n)
    BY <1>2, Findfile DEF Rename
  <2>2. fatbuffer' = [fatbuffer EXCEPT ![e].filename = m]
    BY <1>2, <2>1 DEF Rename
  <2>3. [fatbuffer[e] EXCEPT !.filename = m] \in Fe
    BY FeUpdate DEF Sound, TypeInv
  <2>4. fatbuffer' \in [Entry -> Fe]
    BY <2>2, <2>3 DEF Sound, TypeInv
  <2> QED BY <1>2, <2>4 DEF Sound, TypeInv, Rename, Idle
<1> QED BY <1>1, <1>2

LEMMA SoundPass ==
  ASSUME Sound, UNCHANGED powered, WriteInPlace \/ WriteNewBlock \/ WriteFails
  PROVE  Sound'
<1>0. TypeInv /\ fatbuffer \in [Entry -> Fe]
  BY DEF Sound, TypeInv
<1>1. CASE WriteInPlace
  <2>1. ~Idle /\ Wanted < BLOCKS /\ flash' \in FlashRec /\ Ranked(flash')
    BY <1>1, InPlace
  <2>2. Advance(fatbuffer)
    BY <1>1 DEF WriteInPlace
  <2>3. /\ fatbuffer' \in [Entry -> Fe] /\ file' \in [Handles -> FileRec]
        /\ (call' \in CallRec /\ call'.done < Len(call'.data)) \/ call' = << >>
    BY <1>0, <2>1, <2>2, AdvanceTo
  <2> QED BY <1>1, <2>1, <2>3 DEF Sound, TypeInv, WriteInPlace, Idle
<1>2. CASE WriteNewBlock
  <2>1. PICK b : b = emptyblock(flash)
    OBVIOUS
  <2>2. /\ ~Idle /\ Wanted \in 0 .. BLOCKS - 1 /\ b \in Block
        /\ flash' \in FlashRec /\ Ranked(flash')
    BY <1>2, <2>1, NewBlock
  <2>3. PICK fat : fat = IF Wanted = 0 THEN [fatbuffer EXCEPT ![call.entry].nextblock = b]
                         ELSE fatbuffer
    OBVIOUS
  <2>4. fat \in [Entry -> Fe]
    <3>1. b \in 0 .. BLOCKS
      BY <2>2, Sizes DEF Block
    <3>2. call.entry \in Entry
      BY <1>0, <2>2, Pass
    <3>3. [fatbuffer[call.entry] EXCEPT !.nextblock = b] \in Fe
      BY <1>0, <3>1, <3>2, FeUpdate
    <3> QED BY <1>0, <2>3, <3>2, <3>3
  <2>5. Advance(fat)
    BY <1>2, <2>1, <2>3 DEF WriteNewBlock
  <2>6. Wanted < BLOCKS
    BY <2>2, Sizes
  <2>7. /\ fatbuffer' \in [Entry -> Fe] /\ file' \in [Handles -> FileRec]
        /\ (call' \in CallRec /\ call'.done < Len(call'.data)) \/ call' = << >>
    BY <1>0, <2>2, <2>4, <2>5, <2>6, AdvanceTo
  <2> QED BY <1>2, <2>2, <2>7 DEF Sound, TypeInv, WriteNewBlock, Idle
<1>3. CASE WriteFails
  <2>1. fatbuffer' \in [Entry -> Fe] /\ flash' \in FlashRec /\ Ranked(flash')
    <3>1. CASE UNCHANGED <<fatbuffer, flash>>
      BY <3>1 DEF Sound, TypeInv
    <3>2. CASE /\ Path[MissingAt] = 0 /\ emptyblock(flash) # 0
               /\ Grown(emptyblock(flash))
      BY <1>3, <3>2, FailedGrowth DEF WriteFails
    <3> QED BY <1>3, <3>1, <3>2 DEF WriteFails
  <2> QED BY <1>3, <2>1 DEF Sound, TypeInv, WriteFails, Idle
<1> QED BY <1>1, <1>2, <1>3

LEMMA FatErasedKeeps ==
  ASSUME NEW fl \in FlashRec, Ranked(fl)
  PROVE  /\ FatErased(fl) \in FlashRec /\ Ranked(FatErased(fl))
         /\ FatErased(fl).fat = << >> /\ FatErased(fl).next = fl.next
<1>1. PICK new : new = FatErased(fl)
  OBVIOUS
<1>2. new \in FlashRec /\ new.next = fl.next /\ new.fat = << >>
  BY <1>1, FlashFat DEF FatErased
<1>3. Ranked(new)
  BY <1>2, RankedFewer
<1> QED BY <1>1, <1>2, <1>3

LEMMA FewerRanked ==
  ASSUME NEW fl, NEW new, Fewer(new, fl), Ranked(fl)
  PROVE  Ranked(new)
<1>1. -1 \notin Block
  BY DEF Block
<1> QED BY <1>1, RankedFewer DEF Fewer

LEMMA TornFlash ==
  ASSUME Sound,
         \/ flash' = FatErased(flash)
         \/ \E n \in Names : flash' \in TornUnlink(n)
         \/ ~Idle /\ flash' \in TornWrite
  PROVE  /\ flash' \in FlashRec /\ Ranked(flash')
         /\ flash'.fat = flash.fat \/ flash'.fat = << >>
<1>0. flash \in FlashRec /\ Ranked(flash)
  BY DEF Sound, TypeInv
<1>1. CASE flash' = FatErased(flash)
  BY <1>0, <1>1, FatErasedKeeps
<1>2. ASSUME NEW n \in Names, flash' \in TornUnlink(n)
      PROVE  /\ flash' \in FlashRec /\ Ranked(flash')
             /\ flash'.fat = flash.fat \/ flash'.fat = << >>
  <2>1. PICK fl : Fewer(fl, flash) /\ (flash' = fl \/ flash' = FatErased(fl))
    BY <1>2, TornUnlinkFewer
  <2>2. fl \in FlashRec /\ Ranked(fl) /\ fl.fat = flash.fat
    BY <1>0, <2>1, FewerRanked DEF Fewer
  <2> QED BY <2>1, <2>2, FatErasedKeeps
<1>3. CASE ~Idle /\ flash' \in TornWrite
  <2>1. CASE Found
    <3>1. PICK b \in Block : b = Path[Wanted]
      BY <1>3, <2>1, Missing
    <3>2. flash' = Erase(flash, b)
      BY <1>3, <2>1, <3>1 DEF TornWrite
    <3>3. /\ flash' \in FlashRec /\ flash'.next = [flash.next EXCEPT ![b] = -1]
          /\ flash'.fat = flash.fat
      BY <1>0, <3>2, FlashErase DEF Updated
    <3>4. flash.next \in [Block -> -1 .. BLOCKS] /\ -1 \notin Block
      BY <1>0, FlashField DEF Block
    <3>5. Ranked(flash')
      BY <1>0, <3>3, <3>4, RankedFewer
    <3> QED BY <3>3, <3>5
  <2>2. CASE ~Found
    <3>1. MissingAt # 0 /\ Path[MissingAt] = 0 /\ emptyblock(flash) # 0
      BY <1>3, <2>2 DEF TornWrite
    <3>2. PICK b \in Block : b = emptyblock(flash) /\ flash.next[b] = -1
      BY <3>1, Emptyblock
    <3>3. PICK last : last = Path[MissingAt - 1]
      OBVIOUS
    <3>4. flash' = Erase(flash, last) \/ flash' = [flash EXCEPT !.next[last] = b]
      BY <1>3, <2>2, <3>1, <3>2, <3>3 DEF TornWrite
    <3>5. /\ last \in Block
          /\ [flash EXCEPT !.next[last] = b] \in FlashRec
          /\ Ranked([flash EXCEPT !.next[last] = b])
          /\ [flash EXCEPT !.next[last] = b].fat = flash.fat
      BY <1>3, <3>1, <3>2, <3>3, LastOfPath
    <3>6. CASE flash' = Erase(flash, last)
      <4>1. /\ flash' \in FlashRec /\ flash'.next = [flash.next EXCEPT ![last] = -1]
            /\ flash'.fat = flash.fat
        BY <1>0, <3>5, <3>6, FlashErase DEF Updated
      <4>2. flash.next \in [Block -> -1 .. BLOCKS] /\ -1 \notin Block
        BY <1>0, FlashField DEF Block
      <4>3. Ranked(flash')
        BY <1>0, <4>1, <4>2, RankedFewer
      <4> QED BY <4>1, <4>3
    <3> QED BY <3>4, <3>5, <3>6
  <2> QED BY <2>1, <2>2
<1> QED BY <1>1, <1>2, <1>3

LEMMA SoundPower ==
  ASSUME Sound, PowerLoss \/ PowerLossWithin \/ PowerOn
  PROVE  Sound'
<1>0. [h \in Handles |-> Closed] \in [Handles -> FileRec]
  BY ClosedFile
<1>1. CASE PowerLoss
  BY <1>0, <1>1, Empty DEF Sound, TypeInv, PowerLoss, Idle
<1>2. CASE PowerLossWithin
  <2>1. flash' \in FlashRec /\ Ranked(flash')
    BY <1>2, TornFlash DEF PowerLossWithin
  <2> QED BY <1>0, <1>2, <2>1, Empty DEF Sound, TypeInv, PowerLossWithin, Idle
<1>3. CASE PowerOn
  BY <1>3 DEF Sound, TypeInv, PowerOn, Idle
<1> QED BY <1>1, <1>2, <1>3

LEMMA SoundNext == Sound /\ [Next]_vars => Sound'
<1> SUFFICES ASSUME Sound, [Next]_vars PROVE Sound'
  OBVIOUS
<1>1. CASE UNCHANGED vars
  BY <1>1 DEF Sound, TypeInv, vars, Idle
<1>2. CASE FsCall /\ UNCHANGED powered
  BY <1>2, SoundMount, SoundUmount, SoundList, SoundOpen, SoundFile DEF FsCall
<1>3. CASE (WriteInPlace \/ WriteNewBlock \/ WriteFails) /\ UNCHANGED powered
  BY <1>3, SoundPass
<1>4. CASE PowerLoss \/ PowerLossWithin \/ PowerOn
  BY <1>4, SoundPower
<1> QED BY <1>1, <1>2, <1>3, <1>4 DEF Next

LEMMA SoundType == Sound => TypeOK
<1> SUFFICES ASSUME Sound PROVE TypeOK
  OBVIOUS
<1>1. /\ flash.fat \in {<< >>} \cup [Entry -> Fe]
      /\ flash.next \in [Block -> -1 .. BLOCKS]
      /\ flash.data \in [Block -> [0 .. PAYLOAD - 1 -> Unit]]
  BY FlashField DEF Sound, TypeInv
<1>2. \A h \in Handles : file[h].fe \in 0 .. FILES /\ file[h].offset \in 0 .. BLOCKS * PAYLOAD
  BY DEF Sound, TypeInv, FileRec, Size
<1> QED BY <1>1, <1>2 DEF Sound, TypeInv, TypeOK

(* Whatever is interrupted or overwritten, every link leads to a block of  *)
(* lower rank.                                                             *)
THEOREM AlwaysSound == Spec => []Sound
<1>1. Init => Sound
  BY SoundInit
<1>2. Sound /\ [Next]_vars => Sound'
  BY SoundNext
<1> QED BY <1>1, <1>2, PTL DEF Spec

(* Sizes and offsets stay within the flash, and a write call ends with its *)
(* data: mtffs_fo_write, mtffs_fo_lseek and all that changes the FAT.      *)
THEOREM TypeCorrect == Spec => []TypeOK
  BY AlwaysSound, SoundType, PTL

(* No chain leads back into itself, so that a walk of mtffs_unlink,        *)
(* mtffs_allocnewblock or mtffs_fo_read is over after every block once: at *)
(* 0, or at an erased block, where the read of block -1 is refused and the *)
(* call returns an error.  This holds after torn erases and writes, writes *)
(* beyond the end, unlinks of open files and of broken chains, and renames *)
(* to a name in use alike.                                                 *)
THEOREM NoCircle == Spec => []ChainsEnd
<1>1. Sound => ChainsEnd
  BY ChainEnds DEF Sound, ChainsEnd
<1> QED BY <1>1, AlwaysSound, PTL

-----------------------------------------------------------------------------

(* A block is owned by an entry from the write that takes it to the unlink *)
(* that frees it, and both FATs agree on whose it is: links stay within an *)
(* owner, and what is owned is not free.                                   *)
OwnedBy(owner) ==
  /\ \A f \in Fats, e \in Entry :
       f[e].nextblock \in Block => owner[f[e].nextblock] = e
  /\ \A b \in Block : owner[b] # 0 =>
       /\ flash.next[b] # -1
       /\ flash.next[b] \in Block => owner[flash.next[b]] = owner[b]
Owned == \E owner \in [Block -> 0 .. FILES] : OwnedBy(owner)

(* A chain covers n units: it has a block for each.                        *)
Covers(fl, b, n) == \A k \in 0 .. BLOCKS : Start(k) < n => Chain(fl, b)[k] \in Block
Covered ==
  /\ \A f \in Fats, e \in Entry : Covers(flash, f[e].nextblock, f[e].filesize)
  /\ Idle \/ Covers(flash, fatbuffer[call.entry].nextblock, pos)

(* A write runs on an open file.                                           *)
CallOpen == Idle \/ (mounted /\ file[fd].fe = call.entry)

(* What keeps the files apart as long as no write leaves a hole and no     *)
(* power is lost between the flash operations of one pass.                 *)
Kept == Sound /\ CallOpen /\ Owned /\ Covered
Whole == "hole" \notin Careless /\ "tear" \notin Careless

LEMMA FatsType ==
  ASSUME Sound
  PROVE  \A f \in Fats : f \in [Entry -> Fe] /\ (f = fatbuffer \/ f = flash.fat)
<1>1. flash.fat \in {<< >>} \cup [Entry -> Fe] /\ fatbuffer \in [Entry -> Fe]
  BY FlashField DEF Sound, TypeInv
<1> QED BY <1>1 DEF Fats

LEMMA FatNotEmpty ==
  ASSUME NEW f \in [Entry -> Fe]
  PROVE  f # << >>
<1>1. DOMAIN f = Entry
  OBVIOUS
<1>2. 1 \in Entry
  BY Sizes DEF Entry
<1>3. DOMAIN << >> = {}
  OBVIOUS
<1> QED BY <1>1, <1>2, <1>3

LEMMA RamFat ==
  ASSUME Sound
  PROVE  fatbuffer \in Fats
  BY FatNotEmpty DEF Sound, TypeInv, Fats

LEMMA OwnedChain ==
  ASSUME NEW owner, OwnedBy(owner), NEW f \in Fats, NEW e \in Entry
  PROVE  \A k \in 0 .. BLOCKS :
           LET x == Chain(flash, f[e].nextblock)[k]
           IN x \in Block => owner[x] = e
<1>1. PICK at : at = Chain(flash, f[e].nextblock)
  OBVIOUS
<1>2. at[0] = f[e].nextblock
  BY <1>1, ChainStep
<1> DEFINE P == {k \in 0 .. BLOCKS : at[k] \in Block => owner[at[k]] = e}
<1>3. 0 \in P
  BY <1>2, Sizes DEF OwnedBy
<1>4. ASSUME NEW k \in 1 .. BLOCKS, k - 1 \in P
      PROVE  k \in P
  <2>1. SUFFICES ASSUME at[k] \in Block PROVE owner[at[k]] = e
    OBVIOUS
  <2>2. k \in 0 .. BLOCKS /\ k - 1 \in 0 .. BLOCKS /\ k - 1 <= k
    BY Sizes
  <2>3. at[k - 1] \in Block
    BY <1>1, <2>1, <2>2, ChainBefore
  <2>4. owner[at[k - 1]] = e /\ e # 0
    BY <1>4, <2>3, EntryNat
  <2>5. at[k] = flash.next[at[k - 1]]
    BY <1>1, <2>3, ChainLink
  <2> QED BY <2>1, <2>3, <2>4, <2>5 DEF OwnedBy
<1>5. \A k \in 0 .. BLOCKS : k \in P
  <2> HIDE DEF P
  <2> QED BY <1>3, <1>4, Sizes, Induction
<1> QED BY <1>1, <1>5

LEMMA OwnedApart ==
  ASSUME Owned
  PROVE  NoCrossLink
<1>1. PICK owner \in [Block -> 0 .. FILES] : OwnedBy(owner)
  BY DEF Owned
<1>2. ASSUME NEW f \in Fats, NEW e \in Entry, NEW b \in Reached(f, e)
      PROVE  b \in Block /\ owner[b] = e
  <2>1. PICK k \in 0 .. BLOCKS : b = Chain(flash, f[e].nextblock)[k] /\ b \in Block
    BY <1>2 DEF Reached, BlocksOf
  <2> QED BY <1>1, <2>1, OwnedChain
<1>3. \A f \in Fats, e \in Entry : \A b \in Reached(f, e) : flash.next[b] # -1
  BY <1>1, <1>2, EntryNat DEF OwnedBy
<1>4. \A f, g \in Fats, d, e \in Entry : d # e => Reached(f, d) \cap Reached(g, e) = {}
  BY <1>2
<1> QED BY <1>3, <1>4 DEF NoCrossLink

(* An owned chain has no erased block: a walk along it ends at 0.          *)
LEMMA OwnedWalked ==
  ASSUME Sound, Owned, NEW e \in Entry
  PROVE  Walked(e)
<1>1. PICK owner \in [Block -> 0 .. FILES] : OwnedBy(owner)
  BY DEF Owned
<1>2. PICK b \in 0 .. BLOCKS : b = fatbuffer[e].nextblock
  BY FeField DEF Sound, TypeInv
<1>3. PICK at : at = Chain(flash, b)
  OBVIOUS
<1>4. \A k \in 0 .. BLOCKS : at[k] \in Block => owner[at[k]] = e /\ e # 0
  BY <1>1, <1>2, <1>3, OwnedChain, RamFat, EntryNat
<1>5. LinksOK(flash)
  BY FlashField DEF Sound, TypeInv
<1> DEFINE P == {k \in 0 .. BLOCKS : at[k] \in 0 .. BLOCKS}
<1>6. 0 \in P
  BY <1>2, <1>3, ChainStep, Sizes
<1>7. ASSUME NEW k \in 1 .. BLOCKS, k - 1 \in P
      PROVE  k \in P
  <2>1. k \in 0 .. BLOCKS /\ k - 1 \in 0 .. BLOCKS
    BY Sizes
  <2>2. at[k] = Follow(flash, at[k - 1])
    BY <1>3, ChainStep
  <2>3. CASE at[k - 1] \in Block
    <3>1. at[k] = flash.next[at[k - 1]] /\ flash.next[at[k - 1]] # -1
      BY <1>1, <1>4, <2>1, <2>2, <2>3 DEF Follow, OwnedBy
    <3>2. flash.next[at[k - 1]] \in -1 .. BLOCKS
      BY <1>5, <2>3 DEF LinksOK
    <3> QED BY <2>1, <3>1, <3>2, Sizes
  <2>4. CASE at[k - 1] \notin Block
    BY <1>7, <2>1, <2>2, <2>4 DEF Follow
  <2> QED BY <2>3, <2>4
<1>8. \A k \in 0 .. BLOCKS : k \in P
  <2> HIDE DEF P
  <2> QED BY <1>6, <1>7, Sizes, Induction
<1>9. at[BLOCKS] \in 0 .. BLOCKS
  BY <1>8, Sizes
<1>10. at[BLOCKS] \notin Block
  BY <1>3, ChainEnds DEF Sound
<1> QED BY <1>2, <1>3, <1>9, <1>10, Sizes DEF Walked, Block

LEMMA OwnedFree ==
  ASSUME NEW owner, OwnedBy(owner), NEW b \in Block, flash.next[b] = -1
  PROVE  owner[b] = 0
  BY DEF OwnedBy

-----------------------------------------------------------------------------

LEMMA SameChain ==
  ASSUME NEW fl, NEW new, NEW b, fl.next = new.next
  PROVE  Chain(new, b) = Chain(fl, b)
  BY DEF Chain

LEMMA StartNat == \A k \in 0 .. BLOCKS : Start(k) \in Nat
  BY Sizes, ProductNat DEF Start

LEMMA CoversNothing ==
  ASSUME NEW fl, NEW b
  PROVE  Covers(fl, b, 0)
  BY StartNat DEF Covers

(* A step that changes no link and takes every entry, empty or as it was,  *)
(* from one of the two FATs.                                               *)
SameFiles ==
  /\ flash'.next = flash.next
  /\ \A f \in Fats', e \in Entry :
       \/ f[e].nextblock = 0 /\ f[e].filesize = 0
       \/ \E g \in Fats : /\ g[e].nextblock = f[e].nextblock
                          /\ g[e].filesize = f[e].filesize

LEMMA OwnedSame ==
  ASSUME Owned, SameFiles
  PROVE  Owned'
<1>1. PICK owner \in [Block -> 0 .. FILES] : OwnedBy(owner)
  BY DEF Owned
<1>2. 0 \notin Block
  BY DEF Block
<1>3. \A f \in Fats', e \in Entry : f[e].nextblock \in Block => owner[f[e].nextblock] = e
  BY <1>1, <1>2 DEF OwnedBy, SameFiles
<1>4. \A b \in Block : owner[b] # 0 =>
        /\ flash'.next[b] # -1
        /\ flash'.next[b] \in Block => owner[flash'.next[b]] = owner[b]
  BY <1>1 DEF OwnedBy, SameFiles
<1>5. OwnedBy(owner)'
  BY <1>3, <1>4 DEF OwnedBy
<1> QED BY <1>5 DEF Owned

LEMMA CoveredSame ==
  ASSUME Covered, SameFiles,
         \/ call' = << >>
         \/ /\ call' = call
            /\ fatbuffer'[call.entry].nextblock = fatbuffer[call.entry].nextblock
  PROVE  Covered'
<1>1. \A b : Chain(flash', b) = Chain(flash, b)
  BY SameChain DEF SameFiles
<1>2. \A b, n : Covers(flash, b, n) => Covers(flash', b, n)
  BY <1>1 DEF Covers
<1>3. ASSUME NEW f \in Fats', NEW e \in Entry
      PROVE  Covers(flash', f[e].nextblock, f[e].filesize)
  <2>1. CASE f[e].filesize = 0
    BY <2>1, CoversNothing
  <2>2. ASSUME NEW g \in Fats, g[e].nextblock = f[e].nextblock, g[e].filesize = f[e].filesize
        PROVE  Covers(flash', f[e].nextblock, f[e].filesize)
    <3>1. Covers(flash, g[e].nextblock, g[e].filesize)
      BY DEF Covered
    <3> QED BY <1>2, <2>2, <3>1
  <2> QED BY <2>1, <2>2 DEF SameFiles
<1>4. Idle' \/ Covers(flash', fatbuffer'[call'.entry].nextblock, pos')
  <2>1. CASE call' = << >>
    BY <2>1 DEF Idle
  <2>2. CASE /\ call' = call
             /\ fatbuffer'[call.entry].nextblock = fatbuffer[call.entry].nextblock
    <3>1. pos' = pos /\ (Idle' <=> Idle)
      BY <2>2 DEF pos, Idle
    <3>2. Idle \/ Covers(flash, fatbuffer[call.entry].nextblock, pos)
      BY DEF Covered
    <3> QED BY <1>2, <2>2, <3>1, <3>2
  <2> QED BY <2>1, <2>2
<1>5. \A f \in Fats', e \in Entry : Covers(flash', f[e].nextblock, f[e].filesize)
  BY <1>3
<1> QED BY <1>4, <1>5 DEF Covered

LEMMA FatsAre ==
  \A f \in Fats' : f = fatbuffer' \/ (f = flash'.fat /\ f # << >>)
  BY DEF Fats

LEMMA EmptyEntry ==
  /\ EmptyFe.nextblock = 0 /\ EmptyFe.filesize = 0
  /\ \A n : [EmptyFe EXCEPT !.filename = n].nextblock = 0
            /\ [EmptyFe EXCEPT !.filename = n].filesize = 0
            /\ [EmptyFe EXCEPT !.filename = n].filename = n
  BY DEF EmptyFe

LEMMA KeptMount == Kept /\ Mount => CallOpen' /\ Owned' /\ Covered'
<1> SUFFICES ASSUME Kept, Mount PROVE CallOpen' /\ Owned' /\ Covered'
  OBVIOUS
<1>1. Idle /\ call' = << >>
  BY DEF Kept, CallOpen, Mount, Idle
<1>2. CASE flash.fat = << >>
  <2>1. flash' = mkfs /\ fatbuffer' = NoFat
    BY <1>2, Formatted DEF Mount
  <2>2. \A f \in Fats' : f = NoFat
    BY <2>1, Formatted DEF Fats
  <2>3. \A f \in Fats', e \in Entry : f[e].nextblock = 0 /\ f[e].filesize = 0
    BY <2>2, EmptyEntry DEF NoFat
  <2>4. \A x \in Block : flash'.next[x] = -1
    BY <2>1, Formatted
  <2>5. OwnedBy([x \in Block |-> 0])'
    BY <2>3 DEF OwnedBy, Block
  <2>6. [x \in Block |-> 0] \in [Block -> 0 .. FILES]
    BY Sizes
  <2>7. Owned'
    BY <2>5, <2>6 DEF Owned
  <2>8. Covered'
    BY <1>1, <2>3, CoversNothing DEF Covered, Idle
  <2> QED BY <1>1, <2>7, <2>8 DEF CallOpen, Idle
<1>3. CASE flash.fat # << >>
  <2>1. flash' = flash /\ fatbuffer' = flash.fat
    BY <1>3 DEF Mount
  <2>2. \A f \in Fats' : f = flash.fat
    BY <2>1 DEF Fats
  <2>3. flash.fat \in Fats
    BY <1>3 DEF Fats
  <2>4. SameFiles
    BY <2>1, <2>2, <2>3 DEF SameFiles
  <2>5. Owned' /\ Covered'
    BY <1>1, <2>4, OwnedSame, CoveredSame DEF Kept
  <2> QED BY <1>1, <2>5 DEF CallOpen, Idle
<1> QED BY <1>2, <1>3

LEMMA KeptUmount == Kept /\ Umount => CallOpen' /\ Owned' /\ Covered'
<1> SUFFICES ASSUME Kept, Umount PROVE CallOpen' /\ Owned' /\ Covered'
  OBVIOUS
<1>0. Sound
  BY DEF Kept
<1>1. Idle /\ call' = << >>
  <2>1. SUFFICES ASSUME ~Idle PROVE FALSE
    BY DEF Umount, Idle
  <2>2. fd \in Handles /\ call.entry \in Entry /\ file[fd].fe = call.entry
    BY <1>0, <2>1, Pass DEF Sound, TypeInv, Kept, CallOpen
  <2>3. file[fd].fe = 0
    BY <2>2 DEF Umount, AllClosed
  <2> QED BY <2>2, <2>3, EntryNat
<1>2. /\ fatbuffer' = fatbuffer /\ flash'.next = flash.next /\ flash'.fat = fatbuffer
  BY <1>0, FlashFat DEF Umount, writefat, Sound, TypeInv
<1>3. \A f \in Fats' : f = fatbuffer
  BY <1>2, FatsAre
<1>4. SameFiles
  BY <1>0, <1>2, <1>3, RamFat DEF SameFiles
<1>5. Owned' /\ Covered'
  BY <1>1, <1>4, OwnedSame, CoveredSame DEF Kept
<1> QED BY <1>1, <1>5 DEF CallOpen, Idle

(* The calls that do not touch the flash.                                  *)
LEMMA SameFlash ==
  ASSUME Sound, flash' = flash,
         \A e \in Entry :
           \/ fatbuffer'[e].nextblock = 0 /\ fatbuffer'[e].filesize = 0
           \/ /\ fatbuffer'[e].nextblock = fatbuffer[e].nextblock
              /\ fatbuffer'[e].filesize = fatbuffer[e].filesize
  PROVE  SameFiles
<1>1. \A f \in Fats' : f = fatbuffer' \/ f \in Fats
  BY DEF Fats
<1> QED BY <1>1, RamFat DEF SameFiles

LEMMA KeptOpen ==
  ASSUME Kept, NEW h \in Handles, NEW n \in Names, NEW creat, NEW append \in BOOLEAN,
         Open(h, n, creat, append)
  PROVE  CallOpen' /\ Owned' /\ Covered'
<1>1. /\ Idle /\ call' = << >> /\ flash' = flash /\ Sound
  BY DEF Open, Idle, Kept
<1>2. PICK fe \in Entry : Opened(h, n, append, fe)
  BY <1>1, NewFile DEF Sound
<1>3. SameFiles
  <2>1. CASE fatbuffer' = fatbuffer
    BY <1>1, <2>1, SameFlash
  <2>2. CASE fatbuffer' = [fatbuffer EXCEPT ![fe] = [EmptyFe EXCEPT !.filename = n]]
    <3>1. \A e \in Entry : fatbuffer'[e] = fatbuffer[e]
                           \/ fatbuffer'[e] = [EmptyFe EXCEPT !.filename = n]
      BY <1>1, <2>2 DEF Sound, TypeInv
    <3> QED BY <1>1, <3>1, EmptyEntry, SameFlash
  <2> QED BY <1>2, <2>1, <2>2 DEF Opened
<1>4. Owned' /\ Covered'
  BY <1>1, <1>3, OwnedSame, CoveredSame DEF Kept
<1> QED BY <1>1, <1>4 DEF CallOpen, Idle

LEMMA KeptFile ==
  ASSUME Kept, Whole, NEW h \in Handles,
         \/ Close(h)
         \/ \E p \in 0 .. BLOCKS * PAYLOAD : Lseek(h, p)
         \/ \E w \in Writes : Write(h, w)
  PROVE  CallOpen' /\ Owned' /\ Covered'
<1>1. /\ Idle /\ flash' = flash /\ fatbuffer' = fatbuffer /\ Sound
      /\ mounted /\ mounted' = mounted
  BY DEF Close, Lseek, Write, Kept
<1>2. SameFiles
  BY <1>1, SameFlash
<1>3. Owned'
  BY <1>2, OwnedSame DEF Kept
<1>4. CASE call' = << >>
  <2>1. Covered'
    BY <1>2, <1>4, CoveredSame DEF Kept
  <2> QED BY <1>3, <1>4, <2>1 DEF CallOpen, Idle
<1>5. ASSUME NEW w \in Writes, Write(h, w)
      PROVE  CallOpen' /\ Covered'
  <2>1. PICK at : at = IF file[h].append THEN fatbuffer[file[h].fe].filesize ELSE file[h].offset
    OBVIOUS
  <2>2. PICK e : e = file[h].fe
    OBVIOUS
  <2>3. /\ e # 0
        /\ call' = [entry |-> e, start |-> at, data |-> w, done |-> 0]
        /\ fd' = h /\ file' = [file EXCEPT ![h].offset = at]
        /\ at <= fatbuffer[e].filesize
    BY <1>5, <2>1, <2>2 DEF Write, Whole
  <2>4. file[h] \in FileRec /\ file \in [Handles -> FileRec]
    BY <1>1 DEF Sound, TypeInv
  <2>5. e \in Entry /\ file[h].offset \in Nat
    BY <2>2, <2>3, <2>4, Sizes, SizeNat DEF FileRec, Entry
  <2>6. PICK fe \in Fe : fe = fatbuffer[e]
    BY <1>1, <2>5 DEF Sound, TypeInv
  <2>7. fe.filesize \in Nat
    <3>1. fe.filesize \in 0 .. Size
      BY FeField
    <3> QED BY <3>1, SizeNat
  <2>8. at \in Nat /\ at <= fe.filesize
    BY <2>1, <2>2, <2>3, <2>5, <2>6, <2>7
  <2>9. call'.entry = e /\ call'.start = at /\ call'.done = 0
    BY <2>3
  <2>10. file'[fd'].fe = e
    BY <2>2, <2>3, <2>4 DEF FileRec
  <2>11. CallOpen'
    BY <1>1, <2>9, <2>10 DEF CallOpen
  <2>12. pos' = at
    BY <2>8, <2>9 DEF pos
  <2>13. Covers(flash, fe.nextblock, fe.filesize)
    BY <1>1, <2>5, <2>6, RamFat DEF Kept, Covered
  <2>14. Covers(flash', fatbuffer'[call'.entry].nextblock, pos')
    <3>1. \A k \in 0 .. BLOCKS : Start(k) < at => Start(k) < fe.filesize
      BY <2>7, <2>8, StartNat
    <3>2. Covers(flash, fe.nextblock, at)
      BY <2>13, <3>1 DEF Covers
    <3> QED BY <1>1, <2>6, <2>9, <2>12, <3>2
  <2>15. \A f \in Fats', d \in Entry : Covers(flash', f[d].nextblock, f[d].filesize)
    <3>1. Fats' = Fats
      BY <1>1 DEF Fats
    <3> QED BY <1>1, <3>1 DEF Kept, Covered
  <2> QED BY <2>11, <2>14, <2>15 DEF Covered
<1> QED BY <1>1, <1>3, <1>4, <1>5 DEF Close, Lseek, Idle

LEMMA KeptRename ==
  ASSUME Kept, NEW n \in Names, NEW m \in Names, Rename(n, m)
  PROVE  CallOpen' /\ Owned' /\ Covered'
<1>1. /\ Idle /\ call' = << >> /\ flash' = flash /\ Sound
  BY DEF Rename, Idle, Kept
<1>2. PICK e \in Entry : e = findfile(n)
  BY Findfile DEF Rename
<1>3. fatbuffer' = [fatbuffer EXCEPT ![e].filename = m]
  BY <1>2 DEF Rename
<1>4. \A d \in Entry : /\ fatbuffer'[d].nextblock = fatbuffer[d].nextblock
                       /\ fatbuffer'[d].filesize = fatbuffer[d].filesize
  <2>1. fatbuffer \in [Entry -> Fe] /\ fatbuffer[e] \in Fe
    BY <1>1 DEF Sound, TypeInv
  <2>2. PICK g : g = [fatbuffer[e] EXCEPT !.filename = m]
    OBVIOUS
  <2>3. g.nextblock = fatbuffer[e].nextblock /\ g.filesize = fatbuffer[e].filesize
    BY <2>1, <2>2 DEF Fe
  <2>4. fatbuffer' = [fatbuffer EXCEPT ![e] = g]
    BY <1>3, <2>2
  <2> QED BY <2>1, <2>3, <2>4
<1>5. SameFiles
  BY <1>1, <1>4, SameFlash
<1>6. Owned' /\ Covered'
  BY <1>1, <1>5, OwnedSame, CoveredSame DEF Kept
<1> QED BY <1>1, <1>6 DEF CallOpen, Idle

(* The chain of an entry stays, when another one is unlinked.              *)
LEMMA OthersKept ==
  ASSUME Sound, NEW owner, OwnedBy(owner), NEW n, Unlink(n), NEW e, e = findfile(n),
         NEW d \in Entry, d # e
  PROVE  \A k \in 0 .. BLOCKS :
           Chain(flash, fatbuffer[d].nextblock)[k] \in Block =>
             Chain(flash', fatbuffer[d].nextblock)[k] = Chain(flash, fatbuffer[d].nextblock)[k]
<1>1. e \in Entry
  BY Unlinked
<1>2. \A x \in Block : x \in BlocksOf(flash, fatbuffer[e].nextblock) => owner[x] = e
  BY <1>1, OwnedChain, RamFat DEF BlocksOf
<1>3. \A k \in 0 .. BLOCKS :
        LET x == Chain(flash, fatbuffer[d].nextblock)[k]
        IN x \in Block => flash'.next[x] = flash.next[x]
  <2> TAKE k \in 0 .. BLOCKS
  <2>1. PICK x : x = Chain(flash, fatbuffer[d].nextblock)[k]
    OBVIOUS
  <2>2. x \in Block => owner[x] = d
    BY <2>1, OwnedChain, RamFat
  <2>3. x \in Block => flash'.next[x] = flash.next[x]
    BY <1>2, <2>2, Unlinked
  <2> QED BY <2>1, <2>3
<1> QED BY <1>3, ChainKeptAlong

LEMMA KeptUnlink ==
  ASSUME Kept, NEW n \in Names, Unlink(n)
  PROVE  CallOpen' /\ Owned' /\ Covered'
<1>1. /\ Idle /\ call' = << >> /\ Sound
  BY DEF Unlink, Idle, Kept
<1>2. PICK e : e = findfile(n)
  OBVIOUS
<1>3. /\ e \in Entry
      /\ fatbuffer' = [fatbuffer EXCEPT ![e] = EmptyFe]
      /\ flash'.fat = fatbuffer'
      /\ \A x \in Block : flash'.next[x] =
           IF x \in BlocksOf(flash, fatbuffer[e].nextblock) THEN -1 ELSE flash.next[x]
  BY <1>1, <1>2, Unlinked, OwnedWalked DEF Kept
<1>4. PICK owner \in [Block -> 0 .. FILES] : OwnedBy(owner)
  BY DEF Kept, Owned
<1>5. \A x \in Block : x \in BlocksOf(flash, fatbuffer[e].nextblock) => owner[x] = e
  BY <1>1, <1>3, <1>4, OwnedChain, RamFat DEF BlocksOf
<1>6. /\ fatbuffer' \in [Entry -> Fe] /\ fatbuffer'[e] = EmptyFe
      /\ \A d \in Entry : d # e => fatbuffer'[d] = fatbuffer[d]
  BY <1>1, <1>3, Empty DEF Sound, TypeInv
<1>7. \A f \in Fats' : f = fatbuffer'
  BY <1>3, FatsAre
<1>8. Owned'
  <2> DEFINE new == [x \in Block |-> IF owner[x] = e THEN 0 ELSE owner[x]]
  <2>1. new \in [Block -> 0 .. FILES] /\ 0 \notin Block
    BY Sizes DEF Block
  <2>2. \A f \in Fats', d \in Entry : f[d].nextblock \in Block => new[f[d].nextblock] = d
    <3> SUFFICES ASSUME NEW d \in Entry, fatbuffer'[d].nextblock \in Block
                 PROVE  new[fatbuffer'[d].nextblock] = d
      BY <1>7
    <3>1. d # e
      BY <1>6, <2>1, EmptyEntry
    <3>2. owner[fatbuffer[d].nextblock] = d /\ fatbuffer'[d].nextblock = fatbuffer[d].nextblock
      BY <1>1, <1>4, <1>6, <3>1, RamFat DEF OwnedBy
    <3> QED BY <3>1, <3>2
  <2>3. \A b \in Block : new[b] # 0 =>
          /\ flash'.next[b] # -1
          /\ flash'.next[b] \in Block => new[flash'.next[b]] = new[b]
    <3> SUFFICES ASSUME NEW b \in Block, new[b] # 0
                 PROVE  /\ flash'.next[b] # -1
                        /\ flash'.next[b] \in Block => new[flash'.next[b]] = new[b]
      OBVIOUS
    <3>1. owner[b] # e /\ owner[b] # 0 /\ new[b] = owner[b]
      OBVIOUS
    <3>2. flash'.next[b] = flash.next[b]
      BY <1>3, <1>5, <3>1
    <3> QED BY <1>4, <3>1, <3>2 DEF OwnedBy
  <2> HIDE DEF new
  <2>4. OwnedBy(new)'
    BY <2>2, <2>3 DEF OwnedBy
  <2> QED BY <2>1, <2>4 DEF Owned
<1>9. Covered'
  <2>1. ASSUME NEW d \in Entry
        PROVE  Covers(flash', fatbuffer'[d].nextblock, fatbuffer'[d].filesize)
    <3>1. CASE d = e
      BY <1>6, <3>1, EmptyEntry, CoversNothing
    <3>2. CASE d # e
      <4>1. Covers(flash, fatbuffer[d].nextblock, fatbuffer[d].filesize)
        BY <1>1, RamFat DEF Kept, Covered
      <4>2. \A k \in 0 .. BLOCKS :
              Chain(flash, fatbuffer[d].nextblock)[k] \in Block =>
                Chain(flash', fatbuffer[d].nextblock)[k]
                  = Chain(flash, fatbuffer[d].nextblock)[k]
        BY <1>1, <1>2, <1>4, <3>2, OthersKept
      <4> QED BY <1>6, <3>2, <4>1, <4>2 DEF Covers
    <3> QED BY <3>1, <3>2
  <2> QED BY <1>1, <1>7, <2>1 DEF Covered, Idle
<1> QED BY <1>1, <1>8, <1>9 DEF CallOpen, Idle

(* After a pass the chain covers what the call has written.                *)
LEMMA PassCovers ==
  ASSUME TypeInv, ~Idle, Wanted < BLOCKS, NEW fl, NEW b, Chain(fl, b)[Wanted] \in Block
  PROVE  Covers(fl, b, pos + Chunk)
<1> SUFFICES ASSUME NEW k \in 0 .. BLOCKS, Start(k) < pos + Chunk
             PROVE  Chain(fl, b)[k] \in Block
  BY DEF Covers
<1>1. PICK r \in 0 .. PAYLOAD - 1 : r = pos % PAYLOAD
  BY Pass, Zenon
<1>2. /\ pos = Start(Wanted) + (pos % PAYLOAD)
      /\ Chunk <= PAYLOAD - (pos % PAYLOAD)
      /\ Wanted \in Nat /\ Chunk \in Nat /\ pos \in Nat
  BY Pass, Zenon
<1>3. pos = Start(Wanted) + r /\ Chunk <= PAYLOAD - r
  BY <1>1, <1>2, Zenon
<1>4. Wanted \in 0 .. BLOCKS
  BY <1>2, Sizes
<1>5. Start(Wanted) \in Nat /\ Start(k) \in Nat
  BY <1>4, StartNat
<1>6. pos + Chunk <= Start(Wanted) + PAYLOAD
  BY <1>1, <1>2, <1>3, <1>5, Sizes
<1>7. k <= Wanted
  <2>1. SUFFICES ASSUME Wanted < k PROVE FALSE
    BY <1>4
  <2>2. Start(Wanted) + PAYLOAD <= Start(k)
    BY <1>2, <2>1, StartNext, Sizes
  <2>3. pos + Chunk \in Nat
    BY <1>2
  <2> QED BY <1>5, <1>6, <2>2, <2>3, Sizes
<1> QED BY <1>4, <1>7, ChainBefore

LEMMA CoversGreater ==
  ASSUME NEW fl, NEW b, NEW m, NEW n, Covers(fl, b, m), Covers(fl, b, n)
  PROVE  Covers(fl, b, Greater(m, n))
  BY DEF Covers, Greater

LEMMA AdvanceCovered ==
  ASSUME Sound, Covered, ~Idle, Wanted < BLOCKS, flash'.fat = flash.fat,
         NEW fat \in [Entry -> Fe], Advance(fat),
         \A x \in Block : flash.next[x] \in Block => flash'.next[x] = flash.next[x],
         \A e \in Entry :
           /\ fat[e].filesize = fatbuffer[e].filesize
           /\ \/ fat[e].nextblock = fatbuffer[e].nextblock
              \/ fatbuffer[e].nextblock \notin Block,
         Chain(flash', fat[call.entry].nextblock)[Wanted] \in Block
  PROVE  Covered'
<1>0. TypeInv /\ call.entry \in Entry
  BY Pass DEF Sound
<1>1. \A b, n : Covers(flash, b, n) => Covers(flash', b, n)
  <2> SUFFICES ASSUME NEW b, NEW n, Covers(flash, b, n), NEW k \in 0 .. BLOCKS, Start(k) < n
               PROVE  Chain(flash', b)[k] \in Block
    BY DEF Covers
  <2>1. Chain(flash, b)[k] \in Block
    BY DEF Covers
  <2> QED BY <2>1, ChainKept
<1>2. Covers(flash', fat[call.entry].nextblock, pos + Chunk)
  BY <1>0, PassCovers
<1>3. ASSUME NEW e \in Entry
      PROVE  Covers(flash', fat[e].nextblock, fat[e].filesize)
  <2>1. Covers(flash, fatbuffer[e].nextblock, fatbuffer[e].filesize)
    BY RamFat DEF Covered
  <2>2. CASE fat[e].nextblock = fatbuffer[e].nextblock
    BY <1>1, <2>1, <2>2
  <2>3. CASE fatbuffer[e].nextblock \notin Block
    <3>1. Chain(flash, fatbuffer[e].nextblock)[0] \notin Block /\ 0 \in 0 .. BLOCKS
      BY <2>3, ChainStep, Sizes
    <3>2. \A k \in 0 .. BLOCKS : Chain(flash, fatbuffer[e].nextblock)[k] \notin Block
      <4> TAKE k \in 0 .. BLOCKS
      <4>1. k >= 0
        OBVIOUS
      <4> QED BY <3>1, <4>1, ChainStays
    <3>3. \A k \in 0 .. BLOCKS : ~(Start(k) < fat[e].filesize)
      BY <2>1, <3>2 DEF Covers
    <3> QED BY <3>3 DEF Covers
  <2> QED BY <2>2, <2>3
<1>4. /\ \A e \in Entry : /\ fatbuffer'[e].nextblock = fat[e].nextblock
                          /\ fatbuffer'[e].filesize =
                               IF e = call.entry /\ call' = << >>
                                 THEN Greater(fat[e].filesize, pos + Chunk)
                                 ELSE fat[e].filesize
      /\ \/ /\ call'.entry = call.entry /\ call'.start = call.start
            /\ call'.done = call.done + Chunk
         \/ call' = << >>
  BY <1>0, AdvanceTo
<1>5. ASSUME NEW e \in Entry
      PROVE  Covers(flash', fatbuffer'[e].nextblock, fatbuffer'[e].filesize)
  <2>1. CASE e = call.entry /\ call' = << >>
    BY <1>2, <1>3, <1>4, <2>1, CoversGreater
  <2>2. CASE ~(e = call.entry /\ call' = << >>)
    BY <1>3, <1>4, <2>2
  <2> QED BY <2>1, <2>2
<1>6. \A f \in Fats', e \in Entry : Covers(flash', f[e].nextblock, f[e].filesize)
  <2> TAKE f \in Fats', e \in Entry
  <2>1. CASE f = fatbuffer'
    BY <1>5, <2>1
  <2>2. CASE f = flash.fat /\ f # << >>
    <3>1. f \in Fats
      BY <2>2 DEF Fats
    <3>2. Covers(flash, f[e].nextblock, f[e].filesize)
      BY <3>1 DEF Covered
    <3> QED BY <1>1, <3>2
  <2> QED BY <2>1, <2>2, FatsAre
<1>7. Idle' \/ Covers(flash', fatbuffer'[call'.entry].nextblock, pos')
  <2>1. CASE call' = << >>
    BY <2>1 DEF Idle
  <2>2. CASE call'.entry = call.entry /\ call'.start = call.start
             /\ call'.done = call.done + Chunk
    <3>1. call.start \in Nat /\ call.done \in Nat /\ Chunk \in Nat
      BY <1>0, Pass
    <3>2. pos' = pos + Chunk
      BY <2>2, <3>1 DEF pos
    <3> QED BY <1>0, <1>2, <1>4, <2>2, <3>2
  <2> QED BY <1>4, <2>1, <2>2
<1> QED BY <1>6, <1>7 DEF Covered

(* After a pass the handle of the call still has the entry it writes to.   *)
LEMMA AdvanceOpen ==
  ASSUME Sound, CallOpen, ~Idle, Wanted < BLOCKS, NEW fat \in [Entry -> Fe], Advance(fat),
         UNCHANGED <<mounted, fd>>
  PROVE  CallOpen'
<1>1. TypeInv /\ fd \in Handles
  BY DEF Sound, TypeInv
<1>2. /\ \A h \in Handles : file'[h].fe = file[h].fe
      /\ call'.entry = call.entry \/ call' = << >>
  BY <1>1, AdvanceTo
<1>3. mounted' /\ fd' = fd /\ file'[fd].fe = call.entry
  BY <1>1, <1>2 DEF CallOpen
<1>4. CASE call' = << >>
  BY <1>4 DEF CallOpen, Idle
<1>5. CASE call'.entry = call.entry
  BY <1>3, <1>5 DEF CallOpen
<1> QED BY <1>2, <1>4, <1>5

LEMMA KeptInPlace ==
  ASSUME Kept, WriteInPlace
  PROVE  CallOpen' /\ Owned' /\ Covered'
<1>1. Sound /\ CallOpen /\ Covered /\ fatbuffer \in [Entry -> Fe]
  BY DEF Kept, Sound, TypeInv
<1>2. Advance(fatbuffer) /\ UNCHANGED <<mounted, fd>>
  BY DEF WriteInPlace
<1>3. PICK b \in Block : b = Path[Wanted]
  BY <1>1, InPlace
<1>4. /\ ~Idle /\ Wanted < BLOCKS /\ flash'.fat = flash.fat
      /\ \A x \in Block : flash'.next[x] =
           IF x = b /\ flash.next[x] = -1 THEN 0 ELSE flash.next[x]
  BY <1>1, <1>3, InPlace
<1>5. -1 \notin Block /\ 0 \notin Block
  BY Sizes DEF Block
<1>6. \A x \in Block : flash.next[x] \in Block => flash'.next[x] = flash.next[x]
  BY <1>4, <1>5
<1>7. TypeInv /\ Wanted \in 0 .. BLOCKS
  BY <1>1, <1>4, Pass, Sizes DEF Sound
<1>8. Chain(flash', fatbuffer[call.entry].nextblock)[Wanted] \in Block
  BY <1>3, <1>6, <1>7, ChainKept DEF Path
<1>9. Covered'
  BY <1>1, <1>2, <1>4, <1>6, <1>8, AdvanceCovered
<1>10. CallOpen'
  BY <1>1, <1>2, <1>4, AdvanceOpen
<1>11. \A e \in Entry : fatbuffer'[e].nextblock = fatbuffer[e].nextblock
  BY <1>1, <1>2, <1>4, <1>7, AdvanceTo
<1>12. Owned'
  <2>1. PICK owner \in [Block -> 0 .. FILES] : OwnedBy(owner)
    BY DEF Kept, Owned
  <2>2. \A f \in Fats', e \in Entry : f[e].nextblock \in Block => owner[f[e].nextblock] = e
    <3> TAKE f \in Fats', e \in Entry
    <3>1. CASE f = fatbuffer'
      <4>1. f[e].nextblock = fatbuffer[e].nextblock
        BY <1>11, <3>1
      <4> QED BY <1>1, <2>1, <4>1, RamFat DEF OwnedBy
    <3>2. CASE f = flash'.fat /\ f # << >>
      <4>1. f \in Fats
        BY <1>4, <3>2 DEF Fats
      <4> QED BY <2>1, <4>1 DEF OwnedBy
    <3> QED BY <3>1, <3>2, FatsAre
  <2>3. \A x \in Block : owner[x] # 0 =>
          /\ flash'.next[x] # -1
          /\ flash'.next[x] \in Block => owner[flash'.next[x]] = owner[x]
    BY <1>4, <2>1 DEF OwnedBy
  <2>4. OwnedBy(owner)'
    BY <2>2, <2>3 DEF OwnedBy
  <2> QED BY <2>1, <2>4 DEF Owned
<1> QED BY <1>9, <1>10, <1>12

(* The FAT a pass beyond the chain hands to its end.                       *)
GrownFat(b) ==
  IF Wanted = 0 THEN [fatbuffer EXCEPT ![call.entry].nextblock = b] ELSE fatbuffer

LEMMA GrownFatType ==
  ASSUME TypeInv, ~Idle, NEW b \in Block
  PROVE  /\ GrownFat(b) \in [Entry -> Fe]
         /\ \A e \in Entry :
              /\ GrownFat(b)[e].filesize = fatbuffer[e].filesize
              /\ GrownFat(b)[e].filename = fatbuffer[e].filename
              /\ GrownFat(b)[e].nextblock =
                   IF Wanted = 0 /\ e = call.entry THEN b ELSE fatbuffer[e].nextblock
<1>1. b \in 0 .. BLOCKS
  BY Sizes DEF Block
<1>2. call.entry \in Entry /\ fatbuffer \in [Entry -> Fe]
  BY Pass DEF TypeInv
<1>3. PICK fe \in Fe : fe = fatbuffer[call.entry]
  BY <1>2
<1>4. PICK g : g = [fe EXCEPT !.nextblock = b]
  OBVIOUS
<1>5. /\ g \in Fe /\ g.filesize = fe.filesize /\ g.filename = fe.filename
      /\ g.nextblock = b
  BY <1>1, <1>4, FeUpdate DEF Fe
<1>6. CASE Wanted = 0
  <2>1. GrownFat(b) = [fatbuffer EXCEPT ![call.entry] = g]
    BY <1>3, <1>4, <1>6 DEF GrownFat
  <2> QED BY <1>2, <1>3, <1>5, <1>6, <2>1
<1>7. CASE Wanted # 0
  BY <1>2, <1>7 DEF GrownFat
<1> QED BY <1>6, <1>7

LEMMA KeptNewBlock ==
  ASSUME Kept, WriteNewBlock
  PROVE  CallOpen' /\ Owned' /\ Covered'
<1>1. Sound /\ CallOpen /\ Covered /\ fatbuffer \in [Entry -> Fe] /\ TypeInv
  BY DEF Kept, Sound, TypeInv
<1>2. PICK b : b = emptyblock(flash)
  OBVIOUS
<1>3. /\ ~Idle /\ Wanted \in 0 .. BLOCKS - 1 /\ MissingAt = Wanted /\ Path[Wanted] = 0
      /\ b \in Block /\ flash.next[b] = -1
      /\ Wanted # 0 => /\ Path[Wanted - 1] \in Block /\ Path[Wanted - 1] # b
                       /\ flash.next[Path[Wanted - 1]] = 0
      /\ flash'.fat = flash.fat
      /\ \A x \in Block : flash'.next[x] =
           IF x = b THEN 0
           ELSE IF Wanted # 0 /\ x = Path[Wanted - 1] THEN b ELSE flash.next[x]
      /\ Chain(flash', IF Wanted = 0 THEN b
                       ELSE fatbuffer[call.entry].nextblock)[Wanted] = b
  BY <1>1, <1>2, NewBlock
<1>4. PICK fat : fat = GrownFat(b)
  OBVIOUS
<1>5. /\ fat \in [Entry -> Fe]
      /\ \A e \in Entry :
           /\ fat[e].filesize = fatbuffer[e].filesize
           /\ fat[e].nextblock =
                IF Wanted = 0 /\ e = call.entry THEN b ELSE fatbuffer[e].nextblock
  BY <1>1, <1>3, <1>4, GrownFatType
<1>6. Advance(fat) /\ UNCHANGED <<mounted, fd>>
  BY <1>2, <1>4 DEF WriteNewBlock, GrownFat
<1>7. call.entry \in Entry /\ Wanted < BLOCKS
  BY <1>1, <1>3, Pass, Sizes
<1>8. -1 \notin Block /\ 0 \notin Block
  BY Sizes DEF Block
<1>9. \A x \in Block : flash.next[x] \in Block => flash'.next[x] = flash.next[x]
  BY <1>3, <1>8
<1>10. Wanted = 0 => fatbuffer[call.entry].nextblock = 0
  <2>1. Path[0] = fatbuffer[call.entry].nextblock
    BY ChainStep DEF Path
  <2> QED BY <1>3, <2>1
<1>11. \A e \in Entry : \/ fat[e].nextblock = fatbuffer[e].nextblock
                        \/ fatbuffer[e].nextblock \notin Block
  BY <1>5, <1>8, <1>10
<1>12. Chain(flash', fat[call.entry].nextblock)[Wanted] \in Block
  BY <1>3, <1>5, <1>7
<1>13. Covered'
  BY <1>1, <1>3, <1>5, <1>6, <1>7, <1>9, <1>11, <1>12, AdvanceCovered
<1>14. CallOpen'
  BY <1>1, <1>3, <1>5, <1>6, <1>7, AdvanceOpen
<1>15. \A e \in Entry : fatbuffer'[e].nextblock = fat[e].nextblock
  BY <1>1, <1>3, <1>5, <1>6, <1>7, AdvanceTo
<1>16. Owned'
  <2>1. PICK owner \in [Block -> 0 .. FILES] : OwnedBy(owner)
    BY DEF Kept, Owned
  <2>2. owner[b] = 0
    BY <1>3, <2>1, OwnedFree
  <2>3. Wanted # 0 => owner[Path[Wanted - 1]] = call.entry
    <3>1. SUFFICES ASSUME Wanted # 0 PROVE owner[Path[Wanted - 1]] = call.entry
      OBVIOUS
    <3>2. Wanted - 1 \in 0 .. BLOCKS
      BY <1>3, <3>1, Sizes
    <3> QED BY <1>1, <1>3, <1>7, <2>1, <3>1, <3>2, OwnedChain, RamFat DEF Path
  <2>4. PICK new \in [Block -> 0 .. FILES] :
          \A x \in Block : new[x] = IF x = b THEN call.entry ELSE owner[x]
    <3>1. call.entry \in 0 .. FILES
      BY <1>7, Sizes DEF Entry
    <3>2. [x \in Block |-> IF x = b THEN call.entry ELSE owner[x]] \in [Block -> 0 .. FILES]
      BY <3>1
    <3> QED BY <3>2
  <2>5. \A f \in Fats, e \in Entry : f[e].nextblock \in Block =>
          new[f[e].nextblock] = e
    <3> TAKE f \in Fats, e \in Entry
    <3>1. f[e].nextblock \in Block => owner[f[e].nextblock] = e
      BY <2>1 DEF OwnedBy
    <3> QED BY <2>2, <2>4, <3>1, EntryNat
  <2>6. \A f \in Fats', e \in Entry : f[e].nextblock \in Block => new[f[e].nextblock] = e
    <3> TAKE f \in Fats', e \in Entry
    <3>1. CASE f = fatbuffer'
      <4>1. CASE Wanted = 0 /\ e = call.entry
        BY <1>3, <1>5, <1>15, <2>4, <3>1, <4>1
      <4>2. CASE ~(Wanted = 0 /\ e = call.entry)
        <5>1. f[e].nextblock = fatbuffer[e].nextblock
          BY <1>5, <1>15, <3>1, <4>2
        <5> QED BY <1>1, <2>5, <5>1, RamFat
      <4> QED BY <4>1, <4>2
    <3>2. CASE f = flash'.fat /\ f # << >>
      <4>1. f \in Fats
        BY <1>3, <3>2 DEF Fats
      <4> QED BY <2>5, <4>1
    <3> QED BY <3>1, <3>2, FatsAre
  <2>7. ASSUME NEW x \in Block, new[x] # 0
        PROVE  /\ flash'.next[x] # -1
               /\ flash'.next[x] \in Block => new[flash'.next[x]] = new[x]
    <3>1. CASE x = b
      <4>1. flash'.next[x] = 0
        BY <1>3, <3>1
      <4> QED BY <1>8, <4>1
    <3>2. CASE x # b /\ Wanted # 0 /\ x = Path[Wanted - 1]
      <4>1. flash'.next[x] = b
        BY <1>3, <3>2
      <4> QED BY <1>3, <1>8, <2>3, <2>4, <3>2, <4>1
    <3>3. CASE x # b /\ ~(Wanted # 0 /\ x = Path[Wanted - 1])
      <4>1. flash'.next[x] = flash.next[x] /\ new[x] = owner[x]
        BY <1>3, <2>4, <3>3
      <4>2. /\ flash.next[x] # -1
            /\ flash.next[x] \in Block => owner[flash.next[x]] = owner[x]
        BY <2>1, <2>7, <4>1 DEF OwnedBy
      <4> QED BY <2>2, <2>4, <2>7, <4>1, <4>2
    <3> QED BY <3>1, <3>2, <3>3
  <2>8. OwnedBy(new)'
    BY <2>6, <2>7 DEF OwnedBy
  <2> QED BY <2>4, <2>8 DEF Owned
<1> QED BY <1>13, <1>14, <1>16

(* A write on a whole file never comes upon a block it has not reached:    *)
(* what it lacks is the block it wants.                                    *)
LEMMA NothingMissing ==
  ASSUME Sound, Covered, ~Idle
  PROVE  ~(MissingAt < Wanted)
<1>1. SUFFICES ASSUME MissingAt < Wanted PROVE FALSE
  OBVIOUS
<1>2. MissingAt \in 0 .. BLOCKS /\ Path[MissingAt] \notin Block
  BY Missing
<1>3. TypeInv
  BY DEF Sound
<1>4. /\ pos = Start(Wanted) + (pos % PAYLOAD)
      /\ pos % PAYLOAD \in 0 .. PAYLOAD - 1 /\ Wanted \in Nat /\ pos \in Nat
  BY <1>3, Pass, Zenon
<1>5. PICK r \in 0 .. PAYLOAD - 1 : r = pos % PAYLOAD
  BY <1>4
<1>6. pos = Start(Wanted) + r
  BY <1>4, <1>5, Zenon
<1>7. MissingAt \in Nat
  BY <1>2, Sizes
<1>8. Start(MissingAt) \in Nat /\ Start(MissingAt) + PAYLOAD <= Start(Wanted)
  BY <1>1, <1>4, <1>7, StartNext
<1>9. Start(Wanted) \in Nat
  BY <1>4, Sizes, ProductNat DEF Start
<1>10. Start(MissingAt) < pos
  BY <1>4, <1>5, <1>6, <1>8, <1>9, Sizes
<1> QED BY <1>2, <1>10 DEF Covered, Covers, Path

LEMMA KeptFails ==
  ASSUME Kept, WriteFails
  PROVE  CallOpen' /\ Owned' /\ Covered'
<1>1. Sound /\ Covered
  BY DEF Kept
<1>2. call' = << >> /\ UNCHANGED <<fatbuffer, flash>>
  BY <1>1, NothingMissing DEF WriteFails
<1>3. SameFiles
  BY <1>1, <1>2, SameFlash
<1>4. Owned' /\ Covered'
  BY <1>2, <1>3, OwnedSame, CoveredSame DEF Kept
<1> QED BY <1>2, <1>4 DEF CallOpen, Idle

LEMMA KeptPower ==
  ASSUME Kept, Whole, PowerLoss \/ PowerLossWithin \/ PowerOn
  PROVE  CallOpen' /\ Owned' /\ Covered'
<1>1. CASE PowerLoss
  <2>1. Sound /\ flash' = flash /\ fatbuffer' = NoFat /\ call' = << >>
    BY <1>1 DEF PowerLoss, Kept
  <2>2. \A e \in Entry : fatbuffer'[e] = EmptyFe
    BY <2>1 DEF NoFat
  <2>3. SameFiles
    BY <2>1, <2>2, EmptyEntry, SameFlash
  <2>4. Owned' /\ Covered'
    BY <2>1, <2>3, OwnedSame, CoveredSame DEF Kept
  <2> QED BY <2>1, <2>4 DEF CallOpen, Idle
<1>2. CASE PowerOn
  <2>1. Sound /\ flash' = flash /\ fatbuffer' = fatbuffer /\ call' = call
    BY <1>2 DEF PowerOn, Kept
  <2>2. SameFiles
    BY <2>1, SameFlash
  <2>3. Owned' /\ Covered'
    BY <2>1, <2>2, OwnedSame, CoveredSame DEF Kept
  <2> QED BY <1>2, <2>3 DEF Kept, CallOpen, PowerOn, Idle
<1> QED BY <1>1, <1>2 DEF PowerLossWithin, Whole

LEMMA KeptInit == Init => Kept
<1> SUFFICES ASSUME Init PROVE Kept
  OBVIOUS
<1>1. Sound
  BY SoundInit
<1>2. Idle /\ fatbuffer = NoFat /\ flash.fat = << >> /\ \A x \in Block : flash.next[x] = -1
  BY DEF Init, Idle
<1>3. \A f \in Fats, e \in Entry : f[e] = EmptyFe
  BY <1>2 DEF Fats, NoFat
<1>4. OwnedBy([x \in Block |-> 0])
  BY <1>3, EmptyEntry DEF OwnedBy, Block
<1>5. [x \in Block |-> 0] \in [Block -> 0 .. FILES]
  BY Sizes
<1>6. Covered
  BY <1>2, <1>3, EmptyEntry, CoversNothing DEF Covered
<1> QED BY <1>1, <1>2, <1>4, <1>5, <1>6 DEF Kept, CallOpen, Owned

LEMMA KeptNext ==
  ASSUME Whole, Kept, [Next]_vars
  PROVE  Kept'
<1>1. Sound'
  BY SoundNext DEF Kept
<1>2. CASE UNCHANGED vars
  <2>1. /\ Sound /\ flash' = flash /\ fatbuffer' = fatbuffer /\ call' = call
        /\ mounted' = mounted /\ file' = file /\ fd' = fd
    BY <1>2 DEF vars, Kept
  <2>2. SameFiles
    BY <2>1, SameFlash
  <2>3. Owned' /\ Covered'
    BY <2>1, <2>2, OwnedSame, CoveredSame DEF Kept
  <2> QED BY <1>1, <2>1, <2>3 DEF Kept, CallOpen, Idle
<1>3. CASE FsCall
  <2>1. CASE Mount \/ Umount
    BY <1>1, <2>1, KeptMount, KeptUmount DEF Kept
  <2>2. CASE \E n \in Names : Unlink(n) \/ \E m \in Names : Rename(n, m)
    BY <1>1, <2>2, KeptUnlink, KeptRename DEF Kept
  <2>3. CASE \E h \in Handles, n \in Names, creat, append \in BOOLEAN : Open(h, n, creat, append)
    BY <1>1, <2>3, KeptOpen DEF Kept
  <2>4. CASE \E h \in Handles : \/ Close(h)
                                \/ \E p \in 0 .. BLOCKS * PAYLOAD : Lseek(h, p)
                                \/ \E w \in Writes : Write(h, w)
    <3>1. PICK h \in Handles : \/ Close(h)
                               \/ \E p \in 0 .. BLOCKS * PAYLOAD : Lseek(h, p)
                               \/ \E w \in Writes : Write(h, w)
      BY <2>4
    <3>2. CallOpen' /\ Owned' /\ Covered'
      BY <3>1, KeptFile
    <3> QED BY <1>1, <3>2 DEF Kept
  <2> QED BY <1>3, <2>1, <2>2, <2>3, <2>4 DEF FsCall
<1>4. CASE WriteInPlace \/ WriteNewBlock \/ WriteFails
  BY <1>1, <1>4, KeptInPlace, KeptNewBlock, KeptFails DEF Kept
<1>5. CASE PowerLoss \/ PowerLossWithin \/ PowerOn
  BY <1>1, <1>5, KeptPower DEF Kept
<1> QED BY <1>2, <1>3, <1>4, <1>5 DEF Next

(* Every block has one owner in both FATs, and every file as many blocks   *)
(* as its size asks for.                                                   *)
THEOREM AlwaysKept ==
  ASSUME Whole
  PROVE  Spec => []Kept
<1>1. Init => Kept
  BY KeptInit
<1>2. Kept /\ [Next]_vars => Kept'
  BY KeptNext
<1> QED BY <1>1, <1>2, PTL DEF Spec

(* The links mtffs_fo_write keeps "intact" and the "empty" blocks it finds *)
(* never put a block into two files, nor in the list of files that a loss  *)
(* of power brings back, nor give one away that is in a file.              *)
THEOREM FilesApart ==
  ASSUME Whole
  PROVE  Spec => []NoCrossLink
<1>1. Kept => NoCrossLink
  BY OwnedApart DEF Kept
<1> QED BY <1>1, AlwaysKept, PTL

-----------------------------------------------------------------------------

(* An entry without a name has no blocks, in RAM and on flash, and no      *)
(* handle is on one: what keeps blocks from being lost, unless a file is   *)
(* unlinked while it is open.                                              *)
Named ==
  /\ \A f \in Fats, e \in Entry : f[e].filename = "" => f[e].nextblock = 0
  /\ \A h \in Handles :
       file[h].fe # 0 => mounted /\ fatbuffer[file[h].fe].filename # ""

Tidy == Sound /\ CallOpen /\ Named
Attached == "stale" \notin Careless

(* Every entry that has blocks is one of before, under a name if it had one. *)
SameNames ==
  \A f \in Fats', e \in Entry :
    \/ f[e].nextblock = 0
    \/ f[e].filename # ""
    \/ \E g \in Fats : g[e].filename = "" /\ g[e].nextblock = f[e].nextblock

LEMMA UmountIdle ==
  ASSUME Sound, CallOpen, Umount
  PROVE  Idle
<1>1. SUFFICES ASSUME ~Idle PROVE FALSE
  OBVIOUS
<1>2. fd \in Handles /\ call.entry \in Entry /\ file[fd].fe = call.entry
  BY <1>1, Pass DEF Sound, TypeInv, CallOpen
<1>3. file[fd].fe = 0
  BY <1>2 DEF Umount, AllClosed
<1> QED BY <1>2, <1>3, EntryNat

LEMMA NamedSame ==
  ASSUME Named, SameNames
  PROVE  \A f \in Fats', e \in Entry : f[e].filename = "" => f[e].nextblock = 0
  BY DEF Named, SameNames

LEMMA RealName == \A n \in Names : n # ""
  BY SizeAssumption

LEMMA HandleEntry ==
  ASSUME TypeInv, NEW h \in Handles, file[h].fe # 0
  PROVE  file[h].fe \in Entry
<1>1. file[h] \in FileRec
  BY DEF TypeInv
<1> QED BY <1>1, Sizes DEF FileRec, Entry

LEMMA TidyMount ==
  ASSUME Tidy, Mount
  PROVE  CallOpen' /\ Named'
<1>1. /\ Idle /\ call' = call /\ file' = file /\ Sound
      /\ \A h \in Handles : file[h].fe = 0
  BY DEF Tidy, CallOpen, Mount, Named
<1>2. SameNames
  <2>1. CASE flash.fat = << >>
    <3>1. flash' = mkfs /\ fatbuffer' = NoFat
      BY <2>1, Formatted DEF Mount
    <3>2. \A f \in Fats' : f = NoFat
      BY <3>1, Formatted DEF Fats
    <3> QED BY <3>2, EmptyEntry DEF SameNames, NoFat
  <2>2. CASE flash.fat # << >>
    <3>1. flash' = flash /\ fatbuffer' = flash.fat
      BY <2>2 DEF Mount
    <3>2. \A f \in Fats' : f \in Fats
      BY <2>2, <3>1 DEF Fats
    <3> QED BY <3>2 DEF SameNames
  <2> QED BY <2>1, <2>2
<1> QED BY <1>1, <1>2, NamedSame DEF Tidy, Named, CallOpen, Idle

LEMMA TidyUmount ==
  ASSUME Tidy, Umount
  PROVE  CallOpen' /\ Named'
<1>1. /\ Idle /\ call' = call /\ file' = file /\ Sound
      /\ \A h \in Handles : file[h].fe = 0
  BY UmountIdle DEF Tidy, Umount, AllClosed
<1>2. fatbuffer' = fatbuffer /\ flash'.fat = fatbuffer
  BY <1>1, FlashFat DEF Umount, writefat, Sound, TypeInv
<1>3. \A f \in Fats' : f \in Fats
  BY <1>1, <1>2, FatsAre, RamFat
<1>4. SameNames
  BY <1>3 DEF SameNames
<1> QED BY <1>1, <1>4, NamedSame DEF Tidy, Named, CallOpen, Idle

LEMMA TidyOpen ==
  ASSUME Tidy, NEW h \in Handles, NEW n \in Names, NEW creat, NEW append \in BOOLEAN,
         Open(h, n, creat, append)
  PROVE  CallOpen' /\ Named'
<1>1. /\ Idle /\ call' = call /\ flash' = flash /\ Sound /\ mounted /\ mounted' = mounted
  BY DEF Open, Tidy
<1>2. PICK fe \in Entry : Opened(h, n, append, fe)
  BY <1>1, NewFile DEF Sound
<1>3. n # ""
  BY RealName
<1>4. fatbuffer \in [Entry -> Fe] /\ file \in [Handles -> FileRec]
  BY <1>1 DEF Sound, TypeInv
<1>5. /\ fatbuffer'[fe].filename = n
      /\ \A e \in Entry : e # fe => fatbuffer'[e] = fatbuffer[e]
      /\ fatbuffer'[fe].nextblock = 0 \/ fatbuffer'[fe] = fatbuffer[fe]
  <2>1. PICK g : /\ g = [EmptyFe EXCEPT !.filename = n]
                 /\ g.filename = n /\ g.nextblock = 0
    BY EmptyEntry
  <2>2. CASE fatbuffer' = fatbuffer /\ fatbuffer[fe].filename = n
    BY <2>2
  <2>3. CASE fatbuffer' = [fatbuffer EXCEPT ![fe] = g]
    BY <1>4, <2>1, <2>3
  <2> QED BY <1>2, <2>1, <2>2, <2>3 DEF Opened
<1>6. /\ file'[h].fe = fe
      /\ \A i \in Handles : i # h => file'[i] = file[i]
  BY <1>2, <1>4 DEF Opened
<1>7. SameNames
  <2>1. \A f \in Fats' : f = fatbuffer' \/ f \in Fats
    BY <1>1 DEF Fats
  <2> QED BY <1>1, <1>3, <1>5, <2>1, RamFat DEF SameNames
<1>8. ASSUME NEW i \in Handles, file'[i].fe # 0
      PROVE  fatbuffer'[file'[i].fe].filename # ""
  <2>1. CASE i = h
    BY <1>3, <1>5, <1>6, <2>1
  <2>2. CASE i # h
    <3>1. file'[i].fe = file[i].fe /\ fatbuffer[file[i].fe].filename # ""
      BY <1>6, <1>8, <2>2 DEF Tidy, Named
    <3>2. file[i].fe \in Entry
      BY <1>1, <1>8, <3>1, HandleEntry DEF Sound
    <3> QED BY <1>3, <1>5, <3>1, <3>2
  <2> QED BY <2>1, <2>2
<1> QED BY <1>1, <1>7, <1>8, NamedSame DEF Tidy, Named, CallOpen, Idle

LEMMA TidyFile ==
  ASSUME Tidy, NEW h \in Handles,
         \/ Close(h)
         \/ \E p \in 0 .. BLOCKS * PAYLOAD : Lseek(h, p)
         \/ \E w \in Writes : Write(h, w)
  PROVE  CallOpen' /\ Named'
<1>1. /\ Idle /\ flash' = flash /\ fatbuffer' = fatbuffer /\ Sound
      /\ mounted /\ mounted' = mounted /\ file \in [Handles -> FileRec]
  BY DEF Close, Lseek, Write, Tidy, Sound, TypeInv
<1>2. \A i \in Handles : file'[i].fe = 0 \/ file'[i].fe = file[i].fe
  <2>1. CASE Close(h)
    BY <1>1, <2>1 DEF Close, Closed
  <2>2. ASSUME NEW p, file' = [file EXCEPT ![h].offset = p]
        PROVE  \A i \in Handles : file'[i].fe = file[i].fe
    BY <1>1, <2>2 DEF FileRec
  <2> QED BY <2>1, <2>2 DEF Lseek, Write
<1>3. Named'
  <2>1. Fats' = Fats
    BY <1>1 DEF Fats
  <2> QED BY <1>1, <1>2, <2>1 DEF Tidy, Named
<1>4. CallOpen'
  <2>1. CASE call' = call
    BY <1>1, <2>1 DEF CallOpen, Idle
  <2>2. ASSUME NEW w \in Writes, Write(h, w)
        PROVE  CallOpen'
    <3>1. PICK at : file' = [file EXCEPT ![h].offset = at]
      BY <2>2 DEF Write
    <3>2. file'[h].fe = file[h].fe /\ fd' = h /\ call'.entry = file[h].fe
      BY <1>1, <2>2, <3>1 DEF Write, FileRec
    <3> QED BY <1>1, <3>2 DEF CallOpen
  <2> QED BY <2>1, <2>2 DEF Close, Lseek
<1> QED BY <1>3, <1>4

LEMMA TidyRename ==
  ASSUME Tidy, NEW n \in Names, NEW m \in Names, Rename(n, m)
  PROVE  CallOpen' /\ Named'
<1>1. /\ Idle /\ call' = call /\ flash' = flash /\ file' = file /\ Sound
      /\ mounted /\ mounted' = mounted
  BY DEF Rename, Tidy
<1>2. PICK e \in Entry : e = findfile(n)
  BY Findfile DEF Rename
<1>3. fatbuffer' = [fatbuffer EXCEPT ![e].filename = m]
  BY <1>2 DEF Rename
<1>4. /\ fatbuffer'[e].filename = m
      /\ \A d \in Entry : d # e => fatbuffer'[d] = fatbuffer[d]
  BY <1>1, <1>3 DEF Sound, TypeInv, Fe
<1>5. m # ""
  BY RealName
<1>6. SameNames
  <2>1. \A f \in Fats' : f = fatbuffer' \/ f \in Fats
    BY <1>1 DEF Fats
  <2> QED BY <1>1, <1>4, <1>5, <2>1, RamFat DEF SameNames
<1>7. ASSUME NEW i \in Handles, file'[i].fe # 0
      PROVE  fatbuffer'[file'[i].fe].filename # ""
  <2>1. file'[i].fe = file[i].fe /\ fatbuffer[file[i].fe].filename # ""
    BY <1>1, <1>7 DEF Tidy, Named
  <2>2. file[i].fe \in Entry
    BY <1>1, <1>7, <2>1, HandleEntry DEF Sound
  <2> QED BY <1>4, <1>5, <2>1, <2>2
<1> QED BY <1>1, <1>6, <1>7, NamedSame DEF Tidy, Named, CallOpen, Idle

LEMMA TidyUnlink ==
  ASSUME Tidy, Attached, NEW n \in Names, Unlink(n)
  PROVE  CallOpen' /\ Named'
<1>1. /\ Idle /\ call' = call /\ file' = file /\ Sound /\ mounted /\ mounted' = mounted
  BY DEF Unlink, Tidy
<1>2. PICK e : e = findfile(n)
  OBVIOUS
<1>3. /\ e \in Entry
      /\ fatbuffer' = [fatbuffer EXCEPT ![e] = EmptyFe]
      /\ flash'.fat = fatbuffer' \/ flash'.fat = flash.fat
  BY <1>1, <1>2, Unlinked
<1>4. \A h \in Handles : file[h].fe # e
  BY <1>2 DEF Unlink, Unlinkable, Attached
<1>5. /\ fatbuffer'[e] = EmptyFe
      /\ \A d \in Entry : d # e => fatbuffer'[d] = fatbuffer[d]
  BY <1>1, <1>3 DEF Sound, TypeInv
<1>6. SameNames
  <2>1. \A f \in Fats' : f = fatbuffer' \/ f \in Fats
    BY <1>3, FatsAre DEF Fats
  <2> QED BY <1>1, <1>5, <2>1, EmptyEntry, RamFat DEF SameNames
<1>7. ASSUME NEW i \in Handles, file'[i].fe # 0
      PROVE  fatbuffer'[file'[i].fe].filename # ""
  <2>1. file'[i].fe = file[i].fe /\ fatbuffer[file[i].fe].filename # ""
    BY <1>1, <1>7 DEF Tidy, Named
  <2>2. file[i].fe \in Entry
    BY <1>1, <1>7, <2>1, HandleEntry DEF Sound
  <2> QED BY <1>4, <1>5, <2>1, <2>2
<1> QED BY <1>1, <1>6, <1>7, NamedSame DEF Tidy, Named, CallOpen, Idle

(* The entry a call writes to has a name.                                  *)
LEMMA CallNamed ==
  ASSUME Tidy, ~Idle
  PROVE  call.entry \in Entry /\ mounted /\ fatbuffer[call.entry].filename # ""
<1>1. call.entry \in Entry /\ fd \in Handles /\ file[fd].fe = call.entry
  BY Pass DEF Tidy, Sound, TypeInv, CallOpen
<1> QED BY <1>1, EntryNat DEF Tidy, Named

(* A step that keeps the name of every entry and the entry of every handle, *)
(* and gives a block to none but the entry of the call.                    *)
LEMMA NamedPass ==
  ASSUME Tidy, ~Idle, mounted' = mounted, flash'.fat = flash.fat,
         \A e \in Entry : /\ fatbuffer'[e].filename = fatbuffer[e].filename
                          /\ \/ fatbuffer'[e].nextblock = fatbuffer[e].nextblock
                             \/ e = call.entry,
         \A h \in Handles : file'[h].fe = file[h].fe
  PROVE  Named'
<1>1. fatbuffer[call.entry].filename # "" /\ Sound
  BY CallNamed DEF Tidy
<1>2. SameNames
  <2>1. \A f \in Fats' : f = fatbuffer' \/ f \in Fats
    BY DEF Fats
  <2> QED BY <1>1, <2>1, RamFat DEF SameNames
<1>3. ASSUME NEW i \in Handles, file'[i].fe # 0
      PROVE  fatbuffer'[file'[i].fe].filename # ""
  <2>1. file'[i].fe = file[i].fe /\ fatbuffer[file[i].fe].filename # ""
    BY <1>3 DEF Tidy, Named
  <2>2. file[i].fe \in Entry
    BY <1>1, <1>3, <2>1, HandleEntry DEF Sound
  <2> QED BY <2>1, <2>2
<1>4. \A i \in Handles : file'[i].fe # 0 => mounted'
  BY DEF Tidy, Named
<1> QED BY <1>2, <1>3, <1>4, NamedSame DEF Tidy, Named

LEMMA TidyAdvance ==
  ASSUME Tidy, ~Idle, Wanted < BLOCKS, flash'.fat = flash.fat,
         UNCHANGED <<mounted, fd>>, NEW fat \in [Entry -> Fe], Advance(fat),
         \A e \in Entry : /\ fat[e].filename = fatbuffer[e].filename
                          /\ \/ fat[e].nextblock = fatbuffer[e].nextblock
                             \/ e = call.entry
  PROVE  CallOpen' /\ Named'
<1>1. CallOpen'
  BY AdvanceOpen DEF Tidy
<1>2. TypeInv
  BY DEF Tidy, Sound
<1>3. /\ \A e \in Entry : /\ fatbuffer'[e].nextblock = fat[e].nextblock
                          /\ fatbuffer'[e].filename = fat[e].filename
      /\ \A h \in Handles : file'[h].fe = file[h].fe
  BY <1>2, AdvanceTo
<1>4. Named'
  BY <1>3, NamedPass
<1> QED BY <1>1, <1>4

LEMMA TidyPass ==
  ASSUME Tidy, WriteInPlace \/ WriteNewBlock \/ WriteFails
  PROVE  CallOpen' /\ Named'
<1>0. Sound /\ TypeInv /\ fatbuffer \in [Entry -> Fe]
  BY DEF Tidy, Sound, TypeInv
<1>1. CASE WriteInPlace
  <2>1. ~Idle /\ Wanted < BLOCKS /\ flash'.fat = flash.fat
    BY <1>0, <1>1, InPlace
  <2> QED BY <1>0, <1>1, <2>1, TidyAdvance DEF WriteInPlace
<1>2. CASE WriteNewBlock
  <2>1. PICK b : b = emptyblock(flash)
    OBVIOUS
  <2>2. ~Idle /\ Wanted \in 0 .. BLOCKS - 1 /\ b \in Block /\ flash'.fat = flash.fat
    BY <1>0, <1>2, <2>1, NewBlock
  <2>3. PICK fat : fat = GrownFat(b)
    OBVIOUS
  <2>4. /\ fat \in [Entry -> Fe]
        /\ \A e \in Entry : /\ fat[e].filename = fatbuffer[e].filename
                            /\ \/ fat[e].nextblock = fatbuffer[e].nextblock
                               \/ e = call.entry
    BY <1>0, <2>2, <2>3, GrownFatType
  <2>5. Advance(fat) /\ UNCHANGED <<mounted, fd>>
    BY <1>2, <2>1, <2>3 DEF WriteNewBlock, GrownFat
  <2>6. Wanted < BLOCKS
    BY <2>2, Sizes
  <2> QED BY <2>2, <2>4, <2>5, <2>6, TidyAdvance
<1>3. CASE WriteFails
  <2>1. ~Idle /\ call' = << >> /\ mounted' = mounted /\ file' = file
    BY <1>3 DEF WriteFails
  <2>2. CASE UNCHANGED <<fatbuffer, flash>>
    BY <2>1, <2>2, NamedPass DEF CallOpen, Idle
  <2>3. CASE /\ Path[MissingAt] = 0 /\ emptyblock(flash) # 0
             /\ Grown(emptyblock(flash))
    <3>1. PICK b \in Block : b = emptyblock(flash) /\ flash.next[b] = -1
      BY <2>3, Emptyblock
    <3>2. CASE MissingAt = 0
      <4>1. flash' = flash /\ fatbuffer' = [fatbuffer EXCEPT ![call.entry].nextblock = b]
        BY <2>3, <3>1, <3>2 DEF Grown
      <4>2. \A e \in Entry : /\ fatbuffer'[e].filename = fatbuffer[e].filename
                             /\ \/ fatbuffer'[e].nextblock = fatbuffer[e].nextblock
                                \/ e = call.entry
        BY <1>0, <4>1 DEF Fe
      <4> QED BY <2>1, <4>1, <4>2, NamedPass DEF CallOpen, Idle
    <3>3. CASE MissingAt # 0
      <4>1. /\ fatbuffer' = fatbuffer
            /\ flash' = [flash EXCEPT !.next[Path[MissingAt - 1]] = b]
        BY <2>3, <3>1, <3>3 DEF Grown
      <4>2. flash'.fat = flash.fat
        BY <1>0, <2>1, <2>3, <3>1, <3>3, <4>1, LastOfPath
      <4> QED BY <2>1, <4>1, <4>2, NamedPass DEF CallOpen, Idle
    <3> QED BY <3>2, <3>3
  <2> QED BY <1>3, <2>2, <2>3 DEF WriteFails
<1> QED BY <1>1, <1>2, <1>3

LEMMA TidyPower ==
  ASSUME Tidy, PowerLoss \/ PowerLossWithin \/ PowerOn
  PROVE  CallOpen' /\ Named'
<1>1. CASE PowerLoss \/ PowerLossWithin
  <2>1. /\ call' = << >> /\ fatbuffer' = NoFat
        /\ \A h \in Handles : file'[h].fe = 0
    BY <1>1 DEF PowerLoss, PowerLossWithin, Closed
  <2>2. flash'.fat = flash.fat \/ flash'.fat = << >>
    BY <1>1, TornFlash DEF PowerLoss, PowerLossWithin, Tidy
  <2>3. \A f \in Fats' : f = NoFat \/ f \in Fats
    BY <2>1, <2>2 DEF Fats
  <2>4. SameNames
    BY <2>3, EmptyEntry DEF SameNames, NoFat
  <2> QED BY <2>1, <2>4, NamedSame DEF Tidy, Named, CallOpen, Idle
<1>2. CASE PowerOn
  <2>1. Fats' = Fats
    BY <1>2 DEF Fats, PowerOn
  <2> QED BY <1>2, <2>1 DEF Tidy, Named, CallOpen, PowerOn, Idle
<1> QED BY <1>1, <1>2

LEMMA TidyInit == Init => Tidy
<1> SUFFICES ASSUME Init PROVE Tidy
  OBVIOUS
<1>1. Sound
  BY SoundInit
<1>2. Idle /\ fatbuffer = NoFat /\ flash.fat = << >> /\ \A h \in Handles : file[h].fe = 0
  BY DEF Init, Idle, Closed
<1>3. \A f \in Fats, e \in Entry : f[e] = EmptyFe
  BY <1>2 DEF Fats, NoFat
<1> QED BY <1>1, <1>2, <1>3, EmptyEntry DEF Tidy, CallOpen, Named

LEMMA TidyNext ==
  ASSUME Attached, Tidy, [Next]_vars
  PROVE  Tidy'
<1>1. Sound'
  BY SoundNext DEF Tidy
<1>2. CASE UNCHANGED vars
  <2>1. Fats' = Fats
    BY <1>2 DEF Fats, vars
  <2> QED BY <1>1, <1>2, <2>1 DEF Tidy, Named, CallOpen, vars, Idle
<1>3. CASE FsCall
  <2>1. CASE Mount \/ Umount
    BY <1>1, <2>1, TidyMount, TidyUmount DEF Tidy
  <2>2. CASE \E n \in Names : Unlink(n) \/ \E m \in Names : Rename(n, m)
    BY <1>1, <2>2, TidyUnlink, TidyRename DEF Tidy
  <2>3. CASE \E h \in Handles, n \in Names, creat, append \in BOOLEAN : Open(h, n, creat, append)
    BY <1>1, <2>3, TidyOpen DEF Tidy
  <2>4. CASE \E h \in Handles : \/ Close(h)
                                \/ \E p \in 0 .. BLOCKS * PAYLOAD : Lseek(h, p)
                                \/ \E w \in Writes : Write(h, w)
    <3>1. PICK h \in Handles : \/ Close(h)
                               \/ \E p \in 0 .. BLOCKS * PAYLOAD : Lseek(h, p)
                               \/ \E w \in Writes : Write(h, w)
      BY <2>4
    <3>2. CallOpen' /\ Named'
      BY <3>1, TidyFile
    <3> QED BY <1>1, <3>2 DEF Tidy
  <2> QED BY <1>3, <2>1, <2>2, <2>3, <2>4 DEF FsCall
<1>4. CASE WriteInPlace \/ WriteNewBlock \/ WriteFails
  BY <1>1, <1>4, TidyPass DEF Tidy
<1>5. CASE PowerLoss \/ PowerLossWithin \/ PowerOn
  BY <1>1, <1>5, TidyPower DEF Tidy
<1> QED BY <1>2, <1>3, <1>4, <1>5 DEF Next

(* An entry of the FAT without a name has no blocks, and none that a       *)
(* handle of mtffs_open is on is without a name.                           *)
THEOREM AlwaysTidy ==
  ASSUME Attached
  PROVE  Spec => []Tidy
<1>1. Init => Tidy
  BY TidyInit
<1>2. Tidy /\ [Next]_vars => Tidy'
  BY TidyNext
<1> QED BY <1>1, <1>2, PTL DEF Spec

-----------------------------------------------------------------------------

(* A step that loses no block: what had a block in use or in a chain still *)
(* has, and no block is taken that is not in one.                          *)
LEMMA StillReached ==
  ASSUME Sound,
         \A x \in Block : flash.next[x] \in Block => flash'.next[x] = flash.next[x],
         \A x \in Block : flash.next[x] = -1 /\ flash'.next[x] # -1 =>
                            \E e \in Entry : x \in Reached(fatbuffer, e)',
         \A e \in Entry : \/ fatbuffer'[e].nextblock = fatbuffer[e].nextblock
                          \/ fatbuffer[e].nextblock \notin Block
  PROVE  Leaked' \subseteq Leaked
<1> SUFFICES ASSUME NEW x \in Block, x \in Leaked' PROVE x \in Leaked
  BY DEF Leaked
<1>1. flash'.next[x] # -1 /\ \A e \in Entry : x \notin Reached(fatbuffer, e)'
  BY DEF Leaked
<1>2. flash.next[x] # -1
  BY <1>1
<1>3. ASSUME NEW e \in Entry, x \in Reached(fatbuffer, e)
      PROVE  x \in Reached(fatbuffer, e)'
  <2>1. PICK k \in 0 .. BLOCKS : x = Chain(flash, fatbuffer[e].nextblock)[k]
    BY <1>3 DEF Reached, BlocksOf
  <2>2. fatbuffer[e].nextblock \in Block
    <3>1. Chain(flash, fatbuffer[e].nextblock)[0] = fatbuffer[e].nextblock
      BY ChainStep
    <3>2. 0 \in 0 .. BLOCKS /\ 0 <= k
      BY Sizes
    <3> QED BY <2>1, <3>1, <3>2, ChainBefore
  <2>3. x = Chain(flash', fatbuffer'[e].nextblock)[k]
    BY <2>1, <2>2, ChainKept
  <2> QED BY <2>3 DEF Reached, BlocksOf
<1> QED BY <1>1, <1>2, <1>3 DEF Leaked

(* No chain runs into the blocks of one that it does not end in.           *)
LEMMA GoneClosed ==
  ASSUME Sound, NEW b, NEW x \in BlocksOf(flash, b), flash.next[x] \in Block
  PROVE  flash.next[x] \in BlocksOf(flash, b)
<1>1. PICK k \in 0 .. BLOCKS : x = Chain(flash, b)[k] /\ x \in Block
  BY DEF BlocksOf
<1>2. k # BLOCKS
  BY <1>1, ChainEnds DEF Sound
<1>3. k + 1 \in 1 .. BLOCKS /\ k + 1 \in 0 .. BLOCKS /\ (k + 1) - 1 = k
  BY <1>2, Sizes
<1>4. Chain(flash, b)[k + 1] = flash.next[x]
  BY <1>1, <1>3, ChainLink
<1> QED BY <1>3, <1>4 DEF BlocksOf

LEMMA UnlinkLosesNone ==
  ASSUME Sound, NEW n, Unlink(n)
  PROVE  Leaked' \subseteq Leaked
<1>1. PICK e : e = findfile(n)
  OBVIOUS
<1>2. PICK gone : gone = BlocksOf(flash, fatbuffer[e].nextblock)
  OBVIOUS
<1>3. /\ e \in Entry
      /\ fatbuffer' = [fatbuffer EXCEPT ![e] = EmptyFe]
      /\ \A x \in Block : flash'.next[x] = IF x \in gone THEN -1 ELSE flash.next[x]
  BY <1>1, <1>2, Unlinked
<1>4. \A d \in Entry : d # e => fatbuffer'[d] = fatbuffer[d]
  BY <1>3 DEF Sound, TypeInv
<1>5. SUFFICES ASSUME NEW x \in Block, x \in Leaked' PROVE x \in Leaked
  BY DEF Leaked
<1>6. flash'.next[x] # -1 /\ \A d \in Entry : x \notin Reached(fatbuffer, d)'
  BY <1>5 DEF Leaked
<1>7. x \notin gone /\ flash.next[x] # -1
  BY <1>3, <1>6
<1>8. ASSUME NEW d \in Entry, x \in Reached(fatbuffer, d)
      PROVE  FALSE
  <2>1. PICK b : b = fatbuffer[d].nextblock
    OBVIOUS
  <2>2. PICK j \in 0 .. BLOCKS : x = Chain(flash, b)[j]
    BY <1>8, <2>1 DEF Reached, BlocksOf
  <2>3. d # e
    BY <1>2, <1>7, <1>8 DEF Reached
  <2>4. fatbuffer'[d].nextblock = b
    BY <1>4, <2>1, <2>3
  <2> DEFINE P == {k \in 0 .. BLOCKS :
                     k <= j => Chain(flash', b)[k] = Chain(flash, b)[k]}
  <2>5. 0 \in P
    BY ChainStep, Sizes
  <2>6. ASSUME NEW k \in 1 .. BLOCKS, k - 1 \in P
        PROVE  k \in P
    <3>1. SUFFICES ASSUME k <= j PROVE Chain(flash', b)[k] = Chain(flash, b)[k]
      OBVIOUS
    <3>2. k - 1 \in 0 .. BLOCKS /\ k - 1 <= j /\ k \in 0 .. BLOCKS
      BY <3>1, Sizes
    <3>3. PICK y \in Block : y = Chain(flash, b)[k - 1]
      BY <2>2, <3>2, ChainBefore
    <3>4. Chain(flash', b)[k - 1] = y
      BY <2>6, <3>2, <3>3
    <3>5. y \notin gone
      <4> DEFINE Q == {i \in 0 .. BLOCKS :
                         k - 1 <= i /\ i <= j => Chain(flash, b)[i] \in gone}
      <4>1. SUFFICES ASSUME y \in gone PROVE FALSE
        OBVIOUS
      <4>2. 0 \in Q
        BY <3>2, <3>3, <4>1, Sizes
      <4>3. ASSUME NEW i \in 1 .. BLOCKS, i - 1 \in Q
            PROVE  i \in Q
        <5>1. SUFFICES ASSUME k - 1 <= i, i <= j PROVE Chain(flash, b)[i] \in gone
          OBVIOUS
        <5>2. CASE k - 1 = i
          BY <3>3, <4>1, <5>2
        <5>3. CASE k - 1 # i
          <6>1. k - 1 <= i - 1 /\ i - 1 <= j /\ i - 1 \in 0 .. BLOCKS /\ i \in 0 .. BLOCKS
            BY <3>2, <5>1, <5>3, Sizes
          <6>2. Chain(flash, b)[i - 1] \in gone
            BY <4>3, <6>1
          <6>3. PICK z \in Block : z = Chain(flash, b)[i - 1]
            BY <1>2, <6>2 DEF BlocksOf
          <6>4. Chain(flash, b)[i] = flash.next[z]
            BY <6>3, ChainLink
          <6>5. Chain(flash, b)[i] \in Block
            BY <2>2, <5>1, <6>1, ChainBefore
          <6> QED BY <1>2, <6>2, <6>3, <6>4, <6>5, GoneClosed
        <5> QED BY <5>2, <5>3
      <4>4. \A i \in 0 .. BLOCKS : i \in Q
        <5> HIDE DEF Q
        <5> QED BY <4>2, <4>3, Sizes, Induction
      <4>5. Chain(flash, b)[j] \in gone
        BY <3>2, <4>4
      <4> QED BY <1>7, <2>2, <4>5
    <3>6. Chain(flash, b)[k] = flash.next[y] /\ Chain(flash', b)[k] = flash'.next[y]
      BY <3>3, <3>4, ChainLink
    <3> QED BY <1>3, <3>5, <3>6
  <2>7. \A k \in 0 .. BLOCKS : k \in P
    <3> HIDE DEF P
    <3> QED BY <2>5, <2>6, Sizes, Induction
  <2>8. x = Chain(flash', b)[j]
    BY <2>2, <2>7
  <2>9. x \in Reached(fatbuffer, d)'
    BY <2>4, <2>8 DEF Reached, BlocksOf
  <2> QED BY <1>6, <2>9
<1> QED BY <1>7, <1>8 DEF Leaked

LEMMA OpenLosesNone ==
  ASSUME Tidy, NEW h \in Handles, NEW n \in Names, NEW creat, NEW append \in BOOLEAN,
         Open(h, n, creat, append)
  PROVE  Leaked' \subseteq Leaked
<1>1. flash' = flash /\ Sound /\ fatbuffer \in [Entry -> Fe] /\ fatbuffer \in Fats
  BY RamFat DEF Open, Tidy, Sound, TypeInv
<1>2. PICK fe \in Entry : Opened(h, n, append, fe)
  BY <1>1, NewFile DEF Sound
<1>3. \A e \in Entry : fatbuffer'[e].nextblock = fatbuffer[e].nextblock
  <2>1. PICK g : /\ g = [EmptyFe EXCEPT !.filename = n]
                 /\ g.filename = n /\ g.nextblock = 0
    BY EmptyEntry
  <2>2. CASE fatbuffer' = fatbuffer
    BY <2>2
  <2>3. CASE fatbuffer' = [fatbuffer EXCEPT ![fe] = g] /\ fatbuffer[fe].filename = ""
    BY <1>1, <2>1, <2>3 DEF Tidy, Named
  <2> QED BY <1>2, <2>1, <2>2, <2>3 DEF Opened
<1> QED BY <1>1, <1>3, StillReached

LEMMA PassLosesNone ==
  ASSUME Sound, WriteInPlace \/ WriteNewBlock \/ WriteFails
  PROVE  Leaked' \subseteq Leaked
<1>0. TypeInv /\ fatbuffer \in [Entry -> Fe] /\ -1 \notin Block /\ 0 \notin Block
  BY DEF Sound, TypeInv, Block
<1>1. CASE WriteInPlace
  <2>1. PICK b \in Block : b = Path[Wanted]
    BY <1>1, InPlace
  <2>2. /\ ~Idle /\ Wanted < BLOCKS
        /\ \A x \in Block : flash'.next[x] =
             IF x = b /\ flash.next[x] = -1 THEN 0 ELSE flash.next[x]
    BY <1>1, <2>1, InPlace
  <2>3. \A e \in Entry : fatbuffer'[e].nextblock = fatbuffer[e].nextblock
    BY <1>0, <1>1, <2>2, AdvanceTo DEF WriteInPlace
  <2>4. \A x \in Block : flash.next[x] \in Block => flash'.next[x] = flash.next[x]
    BY <1>0, <2>2
  <2>5. call.entry \in Entry /\ Wanted \in 0 .. BLOCKS
    BY <1>0, <2>2, Pass, Sizes
  <2>6. b = Chain(flash', fatbuffer'[call.entry].nextblock)[Wanted]
    BY <2>1, <2>3, <2>4, <2>5, ChainKept DEF Path
  <2>7. \E e \in Entry : b \in Reached(fatbuffer, e)'
    <3>1. PICK e \in Entry : e = call.entry
      BY <2>5
    <3>2. b \in Reached(fatbuffer, e)'
      BY <2>5, <2>6, <3>1 DEF Reached, BlocksOf
    <3> QED BY <3>2
  <2>8. \A x \in Block : flash.next[x] = -1 /\ flash'.next[x] # -1 => x = b
    BY <2>2
  <2> QED BY <2>3, <2>4, <2>5, <2>7, <2>8, StillReached
<1>2. CASE WriteNewBlock
  <2>1. PICK b : b = emptyblock(flash)
    OBVIOUS
  <2>2. /\ ~Idle /\ Wanted \in 0 .. BLOCKS - 1 /\ Path[Wanted] = 0
        /\ b \in Block /\ flash.next[b] = -1
        /\ Wanted # 0 => /\ Path[Wanted - 1] \in Block /\ Path[Wanted - 1] # b
                         /\ flash.next[Path[Wanted - 1]] = 0
        /\ \A x \in Block : flash'.next[x] =
             IF x = b THEN 0
             ELSE IF Wanted # 0 /\ x = Path[Wanted - 1] THEN b ELSE flash.next[x]
        /\ Chain(flash', IF Wanted = 0 THEN b
                         ELSE fatbuffer[call.entry].nextblock)[Wanted] = b
    BY <1>2, <2>1, NewBlock
  <2>3. PICK fat : fat = GrownFat(b)
    OBVIOUS
  <2>4. /\ fat \in [Entry -> Fe]
        /\ \A e \in Entry : fat[e].nextblock =
             IF Wanted = 0 /\ e = call.entry THEN b ELSE fatbuffer[e].nextblock
    BY <1>0, <2>2, <2>3, GrownFatType
  <2>5. Advance(fat)
    BY <1>2, <2>1, <2>3 DEF WriteNewBlock, GrownFat
  <2>6. call.entry \in Entry /\ Wanted < BLOCKS /\ Wanted \in 0 .. BLOCKS
    BY <1>0, <2>2, Pass, Sizes
  <2>7. \A e \in Entry : fatbuffer'[e].nextblock = fat[e].nextblock
    BY <1>0, <2>2, <2>4, <2>5, <2>6, AdvanceTo
  <2>8. \A x \in Block : flash.next[x] \in Block => flash'.next[x] = flash.next[x]
    BY <1>0, <2>2
  <2>9. Wanted = 0 => fatbuffer[call.entry].nextblock = 0
    <3>1. Path[0] = fatbuffer[call.entry].nextblock
      BY ChainStep DEF Path
    <3> QED BY <2>2, <3>1
  <2>10. \A e \in Entry : \/ fatbuffer'[e].nextblock = fatbuffer[e].nextblock
                          \/ fatbuffer[e].nextblock \notin Block
    BY <1>0, <2>4, <2>7, <2>9
  <2>11. b = Chain(flash', fatbuffer'[call.entry].nextblock)[Wanted]
    BY <2>2, <2>4, <2>6, <2>7
  <2>12. \E e \in Entry : b \in Reached(fatbuffer, e)'
    <3>1. PICK e \in Entry : e = call.entry
      BY <2>6
    <3>2. b \in Reached(fatbuffer, e)'
      BY <2>2, <2>6, <2>11, <3>1 DEF Reached, BlocksOf
    <3> QED BY <3>2
  <2>13. \A x \in Block : flash.next[x] = -1 /\ flash'.next[x] # -1 => x = b
    BY <2>2
  <2> QED BY <2>6, <2>8, <2>10, <2>12, <2>13, StillReached
<1>3. CASE WriteFails
  <2>1. CASE UNCHANGED <<fatbuffer, flash>>
    BY <2>1, StillReached
  <2>2. CASE /\ Path[MissingAt] = 0 /\ emptyblock(flash) # 0
             /\ Grown(emptyblock(flash))
    <3>0. ~Idle /\ call.entry \in Entry
      BY <1>0, <1>3, Pass DEF WriteFails
    <3>1. PICK b \in Block : b = emptyblock(flash) /\ flash.next[b] = -1
      BY <2>2, Emptyblock
    <3>2. CASE MissingAt = 0
      <4>1. flash' = flash /\ fatbuffer' = [fatbuffer EXCEPT ![call.entry].nextblock = b]
        BY <2>2, <3>1, <3>2 DEF Grown
      <4>2. Path[0] = fatbuffer[call.entry].nextblock
        BY ChainStep DEF Path
      <4>3. fatbuffer[call.entry].nextblock = 0
        BY <2>2, <3>2, <4>2
      <4>4. \A e \in Entry : e # call.entry =>
              fatbuffer'[e].nextblock = fatbuffer[e].nextblock
        BY <1>0, <4>1
      <4> QED BY <1>0, <4>1, <4>3, <4>4, StillReached
    <3>3. CASE MissingAt # 0
      <4>1. PICK last : last = Path[MissingAt - 1]
        OBVIOUS
      <4>2. fatbuffer' = fatbuffer /\ flash' = [flash EXCEPT !.next[last] = b]
        BY <2>2, <3>1, <3>3, <4>1 DEF Grown
      <4>3. last \in Block /\ last # b /\ flash.next[last] = 0
        BY <2>2, <3>0, <3>1, <3>3, <4>1, LastOfPath
      <4>4. b \in -1 .. BLOCKS /\ flash \in FlashRec /\ flash.next \in [Block -> -1 .. BLOCKS]
        BY <1>0, FlashField, Sizes DEF TypeInv, Block
      <4>5. flash'.next = [flash.next EXCEPT ![last] = b]
        BY <4>2, <4>3, <4>4, FlashLink
      <4>6. \A x \in Block : flash'.next[x] = IF x = last THEN b ELSE flash.next[x]
        BY <4>3, <4>4, <4>5
      <4> QED BY <1>0, <4>2, <4>3, <4>6, StillReached
    <3> QED BY <3>2, <3>3
  <2> QED BY <1>3, <2>1, <2>2 DEF WriteFails
<1> QED BY <1>1, <1>2, <1>3

LEMMA NoneLost ==
  ASSUME Tidy, [Next]_vars, mounted, mounted'
  PROVE  Leaked' \subseteq Leaked
<1>0. Sound
  BY DEF Tidy
<1>1. CASE UNCHANGED <<flash, fatbuffer>>
  BY <1>0, <1>1, StillReached
<1>2. CASE FsCall
  <2>1. ASSUME NEW n \in Names, Unlink(n) PROVE Leaked' \subseteq Leaked
    BY <1>0, <2>1, UnlinkLosesNone
  <2>2. ASSUME NEW n \in Names, NEW m \in Names, Rename(n, m)
        PROVE  Leaked' \subseteq Leaked
    <3>1. PICK e \in Entry : e = findfile(n)
      BY <2>2, Findfile DEF Rename
    <3>2. fatbuffer' = [fatbuffer EXCEPT ![e].filename = m] /\ flash' = flash
      BY <2>2, <3>1 DEF Rename
    <3>3. \A d \in Entry : fatbuffer'[d].nextblock = fatbuffer[d].nextblock
      BY <1>0, <3>2 DEF Sound, TypeInv, Fe
    <3> QED BY <1>0, <3>2, <3>3, StillReached
  <2>3. CASE \E h \in Handles, n \in Names, creat, append \in BOOLEAN : Open(h, n, creat, append)
    BY <2>3, OpenLosesNone
  <2>4. CASE \E h \in Handles : \/ Close(h)
                                \/ \E p \in 0 .. BLOCKS * PAYLOAD : Lseek(h, p)
                                \/ \E w \in Writes : Write(h, w)
    BY <1>1, <2>4 DEF Close, Lseek, Write
  <2> QED BY <1>2, <2>1, <2>2, <2>3, <2>4 DEF FsCall, Mount, Umount
<1>3. CASE WriteInPlace \/ WriteNewBlock \/ WriteFails
  BY <1>0, <1>3, PassLosesNone
<1> QED BY <1>1, <1>2, <1>3 DEF Next, vars, PowerLoss, PowerLossWithin, PowerOn

(* Between mount and umount no call, whether it ends or fails, leaves a    *)
(* block in use that is in no file: mtffs_unlink erases every block of the *)
(* chain before it comes to the erased one on which it may fail, and the   *)
(* entry mtffs_open takes for a new file has no block.                     *)
THEOREM NoBlockLost ==
  ASSUME Attached
  PROVE  Spec => NoLeak
<1>1. Tidy /\ [Next]_vars => [mounted /\ mounted' => Leaked' \subseteq Leaked]_vars
  BY NoneLost
<1> QED BY <1>1, AlwaysTidy, PTL DEF Spec, NoLeak

-----------------------------------------------------------------------------
(* The refinement of FileStore.                                            *)

(* A block occurs once in a chain.                                         *)
LEMMA ChainDistinct ==
  ASSUME NEW fl, NEW b, Ranked(fl), NEW i \in 0 .. BLOCKS, NEW j \in 0 .. BLOCKS,
         Chain(fl, b)[i] \in Block, Chain(fl, b)[i] = Chain(fl, b)[j]
  PROVE  i = j
<1>1. PICK rank \in [Block -> Nat] : RankedBy(fl, rank)
  BY DEF Ranked
<1>2. PICK at : at = Chain(fl, b)
  OBVIOUS
<1>3. ASSUME NEW k \in 0 .. BLOCKS, at[k] \in Block, NEW m \in 0 .. BLOCKS, k < m,
             at[m] \in Block
      PROVE  rank[at[m]] < rank[at[k]]
  <2> DEFINE P == {n \in 0 .. BLOCKS : k < n /\ at[n] \in Block => rank[at[n]] < rank[at[k]]}
  <2>1. 0 \in P
    BY Sizes
  <2>2. ASSUME NEW n \in 1 .. BLOCKS, n - 1 \in P
        PROVE  n \in P
    <3>1. SUFFICES ASSUME k < n, at[n] \in Block PROVE rank[at[n]] < rank[at[k]]
      BY Sizes
    <3>2. n \in 0 .. BLOCKS /\ n - 1 \in 0 .. BLOCKS /\ n - 1 <= n
      BY Sizes
    <3>3. at[n - 1] \in Block
      BY <1>2, <3>1, <3>2, ChainBefore
    <3>4. at[n] = fl.next[at[n - 1]]
      BY <1>2, <3>3, ChainLink
    <3>5. rank[at[n]] < rank[at[n - 1]]
      BY <1>1, <3>1, <3>3, <3>4 DEF RankedBy
    <3>6. rank[at[n]] \in Nat /\ rank[at[n - 1]] \in Nat /\ rank[at[k]] \in Nat
      BY <1>3, <3>1, <3>3
    <3>7. CASE n - 1 = k
      BY <3>5, <3>7
    <3>8. CASE n - 1 # k
      <4>1. k < n - 1
        BY <3>1, <3>2, <3>8
      <4>2. rank[at[n - 1]] < rank[at[k]]
        BY <2>2, <3>3, <4>1
      <4> QED BY <3>5, <3>6, <4>2
    <3> QED BY <3>7, <3>8
  <2>3. \A n \in 0 .. BLOCKS : n \in P
    <3> HIDE DEF P
    <3> QED BY <2>1, <2>2, Sizes, Induction
  <2> QED BY <1>3, <2>3
<1>4. at[i] \in Block /\ at[j] = at[i] /\ rank[at[i]] \in Nat
  BY <1>2
<1>5. ~(i < j) /\ ~(j < i)
  BY <1>3, <1>4
<1> QED BY <1>5

(* What is at position p of the chain that starts at block b.              *)
At(fl, b, p) ==
  LET x == Chain(fl, b)[p \div PAYLOAD]
  IN IF x \in Block THEN fl.data[x][p % PAYLOAD] ELSE ESPIPE

LEMMA ContentAt ==
  ASSUME NEW fl, NEW fe
  PROVE  Content(fl, fe) = [i \in 1 .. fe.filesize |-> At(fl, fe.nextblock, i - 1)]
  BY DEF Content, At

LEMMA SameContent ==
  ASSUME NEW fl, NEW new, NEW fe \in Fe, NEW ge \in Fe, ge.filesize = fe.filesize,
         \A p \in 0 .. Size : p < fe.filesize =>
           At(new, ge.nextblock, p) = At(fl, fe.nextblock, p)
  PROVE  Content(new, ge) = Content(fl, fe)
<1>1. fe.filesize \in 0 .. Size /\ Size \in Nat
  BY FeField, SizeNat
<1>2. \A i \in 1 .. fe.filesize :
        At(new, ge.nextblock, i - 1) = At(fl, fe.nextblock, i - 1)
  <2> TAKE i \in 1 .. fe.filesize
  <2>1. PICK p \in 0 .. Size : p = i - 1 /\ p < fe.filesize
    BY <1>1
  <2> QED BY <2>1
<1> QED BY <1>2, ContentAt

LEMMA QuotientOf ==
  ASSUME NEW q \in Nat, NEW r \in 0 .. PAYLOAD - 1
  PROVE  (q * PAYLOAD + r) \div PAYLOAD = q /\ (q * PAYLOAD + r) % PAYLOAD = r
<1>1. PICK p \in Nat : p = q * PAYLOAD + r
  <2>1. q * PAYLOAD \in Nat
    BY Sizes, ProductNat
  <2> QED BY <2>1, Sizes
<1>2. PICK x, s : x = p \div PAYLOAD /\ s = p % PAYLOAD
  OBVIOUS
<1>3. x \in Nat /\ s \in 0 .. PAYLOAD - 1 /\ p = x * PAYLOAD + s
  BY <1>2, Division, Sizes
<1>4. ~(x < q)
  <2>1. SUFFICES ASSUME x < q PROVE FALSE
    OBVIOUS
  <2>2. Start(x) \in Nat /\ Start(x) + PAYLOAD <= Start(q)
    BY <1>3, <2>1, StartNext
  <2>3. Start(q) \in Nat
    BY Sizes, ProductNat DEF Start
  <2>4. p = Start(q) + r /\ p = Start(x) + s
    BY <1>1, <1>3 DEF Start
  <2> QED BY <1>3, <2>2, <2>3, <2>4, Sizes
<1>5. ~(q < x)
  <2>1. SUFFICES ASSUME q < x PROVE FALSE
    OBVIOUS
  <2>2. Start(q) \in Nat /\ Start(q) + PAYLOAD <= Start(x)
    BY <1>3, <2>1, StartNext
  <2>3. Start(x) \in Nat
    BY <1>3, Sizes, ProductNat DEF Start
  <2>4. p = Start(q) + r /\ p = Start(x) + s
    BY <1>1, <1>3 DEF Start
  <2> QED BY <1>3, <2>2, <2>3, <2>4, Sizes
<1>6. x = q
  BY <1>3, <1>4, <1>5
<1>7. PICK y \in Nat : y = q * PAYLOAD
  BY Sizes, ProductNat
<1>8. s = r
  BY <1>1, <1>3, <1>6, <1>7, Sizes
<1> QED BY <1>1, <1>2, <1>6, <1>8

(* A position within a file is in a block of its chain.                    *)
LEMMA IndexOf ==
  ASSUME NEW p \in Nat, NEW n \in 0 .. Size, p < n
  PROVE  /\ p \div PAYLOAD \in 0 .. BLOCKS - 1 /\ p % PAYLOAD \in 0 .. PAYLOAD - 1
         /\ \A fl, b : Covers(fl, b, n) => Chain(fl, b)[p \div PAYLOAD] \in Block
<1>1. PICK q, r : q = p \div PAYLOAD /\ r = p % PAYLOAD
  OBVIOUS
<1>2. q \in Nat /\ r \in 0 .. PAYLOAD - 1 /\ p = Start(q) + r
  BY <1>1, Division, Sizes DEF Start
<1>3. Start(q) \in Nat
  BY <1>2, Sizes, ProductNat DEF Start
<1>4. Start(q) <= p
  BY <1>2, <1>3, Sizes
<1>5. q < BLOCKS
  <2>1. SUFFICES ASSUME BLOCKS <= q PROVE FALSE
    BY <1>2, Sizes
  <2>2. Size = Start(BLOCKS) /\ Start(BLOCKS) \in Nat
    BY SizeNat DEF Size, Start
  <2>3. Start(BLOCKS) <= Start(q)
    <3>1. CASE BLOCKS = q
      BY <1>3, <3>1
    <3>2. CASE BLOCKS < q
      <4>1. Start(BLOCKS) + PAYLOAD <= Start(q)
        BY <1>2, <3>2, Sizes, StartNext
      <4> QED BY <1>3, <2>2, <4>1, Sizes
    <3> QED BY <1>2, <2>1, <3>1, <3>2, Sizes
  <2> QED BY <1>3, <1>4, <2>2, <2>3
<1>6. q \in 0 .. BLOCKS - 1 /\ q \in 0 .. BLOCKS /\ Start(q) < n
  BY <1>2, <1>3, <1>4, <1>5, Sizes, SizeNat
<1> QED BY <1>1, <1>2, <1>6 DEF Covers

LEMMA WriteToData ==
  ASSUME TypeInv, ~Idle, NEW fl \in FlashRec, NEW b \in Block
  PROVE  \A x \in Block, u \in 0 .. PAYLOAD - 1 :
           WriteTo(fl, b).data[x][u] =
             IF x = b /\ u >= pos % PAYLOAD /\ u < (pos % PAYLOAD) + Chunk
               THEN call.data[call.done + 1 + u - (pos % PAYLOAD)]
               ELSE fl.data[x][u]
<1> DEFINE new == [u \in 0 .. PAYLOAD - 1 |->
       IF u >= pos % PAYLOAD /\ u < (pos % PAYLOAD) + Chunk
         THEN call.data[call.done + 1 + u - (pos % PAYLOAD)] ELSE fl.data[b][u]]
           n == IF fl.next[b] = -1 THEN 0 ELSE fl.next[b]
<1>1. WriteTo(fl, b).data = [fl.data EXCEPT ![b] = new]
  <2>1. WriteTo(fl, b) = [fl EXCEPT !.next[b] = n, !.data[b] = new]
    BY DEF WriteTo, updateblock
  <2> HIDE DEF new, n
  <2> QED BY <2>1 DEF FlashRec
<1>2. fl.data \in [Block -> [0 .. PAYLOAD - 1 -> Unit]]
  BY FlashField
<1>3. ASSUME NEW x \in Block
      PROVE  WriteTo(fl, b).data[x] = IF x = b THEN new ELSE fl.data[x]
  <2> HIDE DEF new
  <2> QED BY <1>1, <1>2
<1> TAKE x \in Block, u \in 0 .. PAYLOAD - 1
<1>4. CASE x = b
  <2>1. WriteTo(fl, b).data[x][u] = new[u]
    BY <1>3, <1>4
  <2> QED BY <1>4, <2>1
<1>5. CASE x # b
  <2>1. WriteTo(fl, b).data[x] = fl.data[x]
    <3> HIDE DEF new
    <3> QED BY <1>3, <1>5
  <2> QED BY <1>5, <2>1
<1> QED BY <1>4, <1>5

(* What a pass does to the flash: it writes its chunk into one block, the  *)
(* one at its place in the chain or a free one that is added there; and to *)
(* the FAT and the call.                                                   *)
ChunkIn(t) ==
  \A x \in Block, u \in 0 .. PAYLOAD - 1 :
    flash'.data[x][u] =
      IF x = t /\ u >= pos % PAYLOAD /\ u < (pos % PAYLOAD) + Chunk
        THEN call.data[call.done + 1 + u - (pos % PAYLOAD)]
        ELSE flash.data[x][u]

PassTo(t) ==
  /\ ~Idle /\ Wanted \in 0 .. BLOCKS - 1 /\ t \in Block /\ ChunkIn(t)
  /\ t = Path[Wanted] \/ (Path[Wanted] = 0 /\ flash.next[t] = -1)
  /\ Chain(flash', fatbuffer'[call.entry].nextblock)[Wanted] = t
  /\ \A x \in Block : flash.next[x] \in Block => flash'.next[x] = flash.next[x]
  /\ flash'.fat = flash.fat /\ mounted' = mounted
  /\ fatbuffer' \in [Entry -> Fe]
  /\ \A e \in Entry :
       /\ fatbuffer'[e].filename = fatbuffer[e].filename
       /\ \/ fatbuffer'[e].nextblock = fatbuffer[e].nextblock
          \/ e = call.entry /\ fatbuffer[e].nextblock \notin Block
       /\ fatbuffer'[e].filesize =
            IF e = call.entry /\ call' = << >>
              THEN Greater(fatbuffer[e].filesize, pos + Chunk)
              ELSE fatbuffer[e].filesize
  /\ call' = IF call.done + Chunk < Len(call.data)
               THEN [call EXCEPT !.done = call.done + Chunk] ELSE << >>

LEMMA AdvanceCall ==
  ASSUME NEW fat, Advance(fat)
  PROVE  call' = IF call.done + Chunk < Len(call.data)
                   THEN [call EXCEPT !.done = call.done + Chunk] ELSE << >>
  BY DEF Advance

LEMMA PassInPlace ==
  ASSUME Sound, WriteInPlace
  PROVE  \E t \in Block : PassTo(t)
<1>0. TypeInv /\ fatbuffer \in [Entry -> Fe] /\ flash \in FlashRec
  BY DEF Sound, TypeInv
<1>1. PICK t \in Block : t = Path[Wanted]
  BY InPlace
<1>2. /\ ~Idle /\ Wanted < BLOCKS /\ flash'.fat = flash.fat
      /\ \A x \in Block : flash'.next[x] =
           IF x = t /\ flash.next[x] = -1 THEN 0 ELSE flash.next[x]
  BY <1>1, InPlace
<1>3. Wanted \in 0 .. BLOCKS - 1 /\ Wanted \in 0 .. BLOCKS /\ call.entry \in Entry
  BY <1>0, <1>2, Pass, Sizes
<1>4. Advance(fatbuffer) /\ flash' = WriteTo(flash, t) /\ mounted' = mounted
  BY <1>1 DEF WriteInPlace
<1>5. ChunkIn(t)
  BY <1>0, <1>2, <1>4, WriteToData DEF ChunkIn
<1>6. /\ fatbuffer' \in [Entry -> Fe]
      /\ \A e \in Entry : /\ fatbuffer'[e].nextblock = fatbuffer[e].nextblock
                          /\ fatbuffer'[e].filename = fatbuffer[e].filename
                          /\ fatbuffer'[e].filesize =
                               IF e = call.entry /\ call' = << >>
                                 THEN Greater(fatbuffer[e].filesize, pos + Chunk)
                                 ELSE fatbuffer[e].filesize
  BY <1>0, <1>2, <1>4, AdvanceTo
<1>7. \A x \in Block : flash.next[x] \in Block => flash'.next[x] = flash.next[x]
  BY <1>2 DEF Block
<1>8. Chain(flash', fatbuffer'[call.entry].nextblock)[Wanted] = t
  BY <1>1, <1>3, <1>6, <1>7, ChainKept DEF Path
<1> QED BY <1>1, <1>2, <1>3, <1>4, <1>5, <1>6, <1>7, <1>8, AdvanceCall DEF PassTo

LEMMA PassNewBlock ==
  ASSUME Sound, WriteNewBlock
  PROVE  \E t \in Block : PassTo(t)
<1>0. TypeInv /\ fatbuffer \in [Entry -> Fe] /\ flash \in FlashRec
  BY DEF Sound, TypeInv
<1>1. PICK b : b = emptyblock(flash)
  OBVIOUS
<1>2. /\ ~Idle /\ Wanted \in 0 .. BLOCKS - 1 /\ Path[Wanted] = 0
      /\ b \in Block /\ flash.next[b] = -1
      /\ Wanted # 0 => /\ Path[Wanted - 1] \in Block /\ Path[Wanted - 1] # b
                       /\ flash.next[Path[Wanted - 1]] = 0
      /\ flash'.fat = flash.fat
      /\ \A x \in Block : flash'.next[x] =
           IF x = b THEN 0
           ELSE IF Wanted # 0 /\ x = Path[Wanted - 1] THEN b ELSE flash.next[x]
      /\ Chain(flash', IF Wanted = 0 THEN b
                       ELSE fatbuffer[call.entry].nextblock)[Wanted] = b
  BY <1>1, NewBlock
<1>3. Wanted < BLOCKS /\ call.entry \in Entry
  BY <1>0, <1>2, Pass, Sizes
<1>4. PICK fat : fat = GrownFat(b)
  OBVIOUS
<1>5. /\ fat \in [Entry -> Fe]
      /\ \A e \in Entry : /\ fat[e].filesize = fatbuffer[e].filesize
                          /\ fat[e].filename = fatbuffer[e].filename
                          /\ fat[e].nextblock =
                               IF Wanted = 0 /\ e = call.entry THEN b
                               ELSE fatbuffer[e].nextblock
  BY <1>0, <1>2, <1>4, GrownFatType
<1>6. Advance(fat) /\ mounted' = mounted
  BY <1>1, <1>4 DEF WriteNewBlock, GrownFat
<1>7. /\ fatbuffer' \in [Entry -> Fe]
      /\ \A e \in Entry : /\ fatbuffer'[e].nextblock = fat[e].nextblock
                          /\ fatbuffer'[e].filename = fat[e].filename
                          /\ fatbuffer'[e].filesize =
                               IF e = call.entry /\ call' = << >>
                                 THEN Greater(fat[e].filesize, pos + Chunk)
                                 ELSE fat[e].filesize
  BY <1>0, <1>2, <1>3, <1>5, <1>6, AdvanceTo
<1>8. ChunkIn(b)
  <2>1. PICK fl : fl = IF Wanted = 0 THEN flash
                       ELSE [flash EXCEPT !.next[Path[Wanted - 1]] = b]
    OBVIOUS
  <2>2. fl \in FlashRec /\ fl.data = flash.data
    <3>1. CASE Wanted = 0
      BY <1>0, <2>1, <3>1
    <3>2. CASE Wanted # 0
      <4>1. PICK last \in Block : last = Path[Wanted - 1]
        BY <1>2, <3>2
      <4>2. b \in -1 .. BLOCKS
        BY <1>2, Sizes DEF Block
      <4>3. fl = [flash EXCEPT !.next[last] = b]
        BY <2>1, <3>2, <4>1
      <4> QED BY <1>0, <4>2, <4>3, FlashLink
    <3> QED BY <3>1, <3>2
  <2>3. flash' = WriteTo(fl, b)
    BY <1>1, <2>1 DEF WriteNewBlock
  <2> QED BY <1>0, <1>2, <2>2, <2>3, WriteToData DEF ChunkIn
<1>9. \A x \in Block : flash.next[x] \in Block => flash'.next[x] = flash.next[x]
  BY <1>2 DEF Block
<1>10. Wanted = 0 => fatbuffer[call.entry].nextblock \notin Block
  <2>1. Path[0] = fatbuffer[call.entry].nextblock
    BY ChainStep DEF Path
  <2> QED BY <1>2, <2>1 DEF Block
<1>11. Chain(flash', fatbuffer'[call.entry].nextblock)[Wanted] = b
  BY <1>2, <1>3, <1>5, <1>7
<1>12. \A e \in Entry :
       /\ fatbuffer'[e].filename = fatbuffer[e].filename
       /\ \/ fatbuffer'[e].nextblock = fatbuffer[e].nextblock
          \/ e = call.entry /\ fatbuffer[e].nextblock \notin Block
       /\ fatbuffer'[e].filesize =
            IF e = call.entry /\ call' = << >>
              THEN Greater(fatbuffer[e].filesize, pos + Chunk)
              ELSE fatbuffer[e].filesize
  BY <1>5, <1>7, <1>10
<1> QED BY <1>2, <1>3, <1>6, <1>7, <1>8, <1>9, <1>11, <1>12, AdvanceCall DEF PassTo

(* The FAT on flash leads to the same blocks as the one in RAM, as far as  *)
(* it leads anywhere: a file may have got its first block since.           *)
SavedChains ==
  mounted /\ flash.fat # << >> =>
    \A e \in Entry :
      flash.fat[e].nextblock \in Block => fatbuffer[e].nextblock = flash.fat[e].nextblock

(* The positions a pass writes are in the block it writes to.              *)
LEMMA ChunkPlace ==
  ASSUME TypeInv, ~Idle, NEW p \in Nat
  PROVE  /\ pos <= p /\ p < pos + Chunk =>
              /\ p \div PAYLOAD = Wanted /\ p % PAYLOAD \in 0 .. PAYLOAD - 1
              /\ p % PAYLOAD >= pos % PAYLOAD
              /\ p % PAYLOAD < (pos % PAYLOAD) + Chunk
         /\ p \div PAYLOAD = Wanted =>
              /\ p % PAYLOAD >= pos % PAYLOAD <=> pos <= p
              /\ p % PAYLOAD < (pos % PAYLOAD) + Chunk <=> p < pos + Chunk
              /\ call.done + 1 + (p % PAYLOAD) - (pos % PAYLOAD) = p - call.start + 1
<1>1. PICK r \in 0 .. PAYLOAD - 1 : r = pos % PAYLOAD
  BY Pass, Zenon
<1>2. /\ pos = Start(Wanted) + (pos % PAYLOAD)
      /\ Chunk <= PAYLOAD - (pos % PAYLOAD)
      /\ Wanted \in Nat /\ Chunk \in Nat /\ pos \in Nat
      /\ call.start \in Nat /\ call.done \in Nat
  BY Pass, Zenon
<1>3. pos = Start(Wanted) + r /\ Chunk <= PAYLOAD - r
  BY <1>1, <1>2, Zenon
<1>4. Start(Wanted) \in Nat
  BY <1>2, Sizes, ProductNat DEF Start
<1>5. pos = call.start + call.done
  BY DEF pos
<1>6. ASSUME pos <= p, p < pos + Chunk
      PROVE  /\ p \div PAYLOAD = Wanted
             /\ p % PAYLOAD >= r /\ p % PAYLOAD < r + Chunk /\ p % PAYLOAD \in 0 .. PAYLOAD - 1
  <2>1. PICK s \in 0 .. PAYLOAD - 1 : p = Start(Wanted) + s
    <3>1. p - Start(Wanted) \in 0 .. PAYLOAD - 1
      BY <1>1, <1>2, <1>3, <1>4, <1>6, Sizes
    <3>2. p = Start(Wanted) + (p - Start(Wanted))
      BY <1>4
    <3> QED BY <3>1, <3>2
  <2>2. p \div PAYLOAD = Wanted /\ p % PAYLOAD = s
    BY <1>2, <2>1, QuotientOf DEF Start
  <2> QED BY <1>1, <1>2, <1>3, <1>4, <1>6, <2>1, <2>2, Sizes
<1>7. ASSUME p \div PAYLOAD = Wanted
      PROVE  /\ p % PAYLOAD >= r <=> pos <= p
             /\ p % PAYLOAD < r + Chunk <=> p < pos + Chunk
             /\ call.done + 1 + (p % PAYLOAD) - r = p - call.start + 1
  <2>1. PICK s \in 0 .. PAYLOAD - 1 : s = p % PAYLOAD /\ p = Start(Wanted) + s
    BY <1>7, Division, Sizes DEF Start
  <2>2. PICK w \in Nat : w = Start(Wanted)
    BY <1>4
  <2>3. pos = w + r /\ p = w + s
    BY <1>3, <2>1, <2>2
  <2>4. s >= r <=> pos <= p
    BY <1>1, <2>1, <2>2, <2>3, Sizes
  <2>5. s < r + Chunk <=> p < pos + Chunk
    BY <1>1, <1>2, <2>1, <2>2, <2>3, Sizes
  <2>6. call.done + 1 + s - r = p - call.start + 1
    BY <1>1, <1>2, <1>5, <2>1, <2>2, <2>3, Sizes
  <2> QED BY <2>1, <2>4, <2>5, <2>6
<1> QED BY <1>1, <1>6, <1>7

(* What a pass leaves of a file: its own chunk, in its own file, and       *)
(* everything else as it was.                                              *)
LEMMA PassAt ==
  ASSUME Kept, SavedChains, NEW t \in Block, PassTo(t),
         NEW f \in Fats, NEW e \in Entry, NEW p \in Nat, NEW n \in 0 .. Size,
         p < n, Covers(flash, f[e].nextblock, n)
  PROVE  /\ f[e].nextblock \in Block
         /\ At(flash', f[e].nextblock, p) =
              IF e = call.entry /\ pos <= p /\ p < pos + Chunk
                THEN call.data[p - call.start + 1]
                ELSE At(flash, f[e].nextblock, p)
<1>0. Sound /\ TypeInv /\ ~Idle /\ mounted /\ Ranked(flash)
  BY DEF Kept, Sound, PassTo, CallOpen
<1>1. PICK c : c = f[e].nextblock
  OBVIOUS
<1>2. PICK q, r : q = p \div PAYLOAD /\ r = p % PAYLOAD
  OBVIOUS
<1>3. q \in 0 .. BLOCKS - 1 /\ r \in 0 .. PAYLOAD - 1 /\ Chain(flash, c)[q] \in Block
  BY <1>1, <1>2, IndexOf
<1>4. q \in 0 .. BLOCKS /\ 0 \in 0 .. BLOCKS /\ 0 <= q
  BY <1>3, Sizes
<1>5. c \in Block
  BY <1>3, <1>4, ChainBefore, ChainStep
<1>6. PICK x \in Block : x = Chain(flash, c)[q]
  BY <1>3
<1>7. Chain(flash', c)[q] = x
  BY <1>3, <1>4, <1>6, ChainKept DEF PassTo
<1>8. At(flash', c, p) = flash'.data[x][r] /\ At(flash, c, p) = flash.data[x][r]
  BY <1>2, <1>6, <1>7 DEF At
<1>9. e = call.entry => fatbuffer[e].nextblock = c
  BY <1>0, <1>1, <1>5, FatsType DEF SavedChains, Fats
<1>10. call.entry \in Entry /\ fatbuffer \in Fats /\ Wanted \in 0 .. BLOCKS
  BY <1>0, Pass, RamFat, Sizes DEF PassTo
<1>11. CASE x = t
  <2>1. PICK owner : OwnedBy(owner)
    BY DEF Kept, Owned
  <2>2. owner[x] = e
    BY <1>1, <1>4, <1>6, <2>1, OwnedChain
  <2>3. e # 0
    BY EntryNat
  <2>4. t = Path[Wanted]
    <3>1. flash.next[t] = -1 => owner[t] = 0
      BY <2>1, OwnedFree
    <3> QED BY <1>11, <2>2, <2>3, <3>1 DEF PassTo
  <2>5. owner[t] = call.entry
    BY <1>10, <2>1, <2>4, OwnedChain DEF Path
  <2>6. e = call.entry /\ Path = Chain(flash, c)
    BY <1>9, <1>11, <2>2, <2>5 DEF Path
  <2>7. q = Wanted
    BY <1>0, <1>4, <1>6, <1>10, <1>11, <2>4, <2>6, ChainDistinct
  <2>8. flash'.data[x][r] = IF r >= pos % PAYLOAD /\ r < (pos % PAYLOAD) + Chunk
                              THEN call.data[call.done + 1 + r - (pos % PAYLOAD)]
                              ELSE flash.data[x][r]
    BY <1>3, <1>11 DEF PassTo, ChunkIn
  <2>9. /\ r >= pos % PAYLOAD <=> pos <= p
        /\ r < (pos % PAYLOAD) + Chunk <=> p < pos + Chunk
        /\ call.done + 1 + r - (pos % PAYLOAD) = p - call.start + 1
    BY <1>0, <1>2, <2>7, ChunkPlace
  <2> QED BY <1>1, <1>5, <1>8, <2>6, <2>8, <2>9, Zenon
<1>12. CASE x # t
  <2>1. flash'.data[x][r] = flash.data[x][r]
    BY <1>3, <1>12 DEF PassTo, ChunkIn
  <2>2. ASSUME e = call.entry, pos <= p, p < pos + Chunk PROVE FALSE
    <3>1. q = Wanted
      BY <1>0, <1>2, <2>2, ChunkPlace
    <3>2. Path[Wanted] = x
      BY <1>6, <1>9, <2>2, <3>1 DEF Path
    <3> QED BY <1>12, <3>2 DEF PassTo, Block
  <2> QED BY <1>1, <1>5, <1>8, <2>1, <2>2
<1> QED BY <1>11, <1>12

LEMMA PassNew ==
  ASSUME Sound, NEW t \in Block, PassTo(t), NEW p \in Nat, pos <= p, p < pos + Chunk
  PROVE  At(flash', fatbuffer'[call.entry].nextblock, p) = call.data[p - call.start + 1]
<1>1. TypeInv /\ ~Idle
  BY DEF Sound, PassTo
<1>2. PICK r : r = p % PAYLOAD
  OBVIOUS
<1>3. /\ p \div PAYLOAD = Wanted /\ r \in 0 .. PAYLOAD - 1
      /\ r >= pos % PAYLOAD /\ r < (pos % PAYLOAD) + Chunk
      /\ call.done + 1 + r - (pos % PAYLOAD) = p - call.start + 1
  BY <1>1, <1>2, ChunkPlace
<1>4. Chain(flash', fatbuffer'[call.entry].nextblock)[p \div PAYLOAD] = t
  BY <1>3 DEF PassTo
<1>5. At(flash', fatbuffer'[call.entry].nextblock, p) = flash'.data[t][r]
  BY <1>2, <1>4 DEF At
<1> QED BY <1>3, <1>5 DEF PassTo, ChunkIn

(* What a call has written so far is there, and it began inside the file.  *)
Written ==
  Idle \/ \A j \in 0 .. call.done - 1 :
            At(flash, fatbuffer[call.entry].nextblock, call.start + j) = call.data[j + 1]
Begun == Idle \/ call.start <= fatbuffer[call.entry].filesize

Faithful == Kept /\ Named /\ SavedChains /\ Written /\ Begun

LEMMA Careful ==
  ASSUME Careless = {}
  PROVE  Whole /\ Attached
  BY DEF Whole, Attached

LEMMA FaithfulTidy == Faithful => Tidy /\ Kept /\ Sound /\ TypeInv
  BY DEF Faithful, Kept, Tidy, Sound

LEMMA PassWritten ==
  ASSUME Faithful, NEW t \in Block, PassTo(t), NEW j \in 0 .. call.done + Chunk - 1
  PROVE  At(flash', fatbuffer'[call.entry].nextblock, call.start + j) = call.data[j + 1]
<1>0. /\ Kept /\ Sound /\ TypeInv /\ ~Idle /\ fatbuffer \in Fats /\ Wanted < BLOCKS
      /\ call.entry \in Entry
  BY FaithfulTidy, RamFat, Pass, Sizes DEF PassTo
<1>1. call.start \in Nat /\ call.done \in Nat /\ Chunk \in Nat /\ pos = call.start + call.done
  BY <1>0, Pass DEF pos
<1>2. PICK p \in Nat : p = call.start + j
  BY <1>1
<1>3. p - call.start + 1 = j + 1
  BY <1>1, <1>2
<1>4. CASE j < call.done
  <2>1. p < pos /\ pos \in 0 .. Size
    <3>1. pos + Chunk \in 0 .. Size
      BY <1>0, PassEnds
    <3> QED BY <1>1, <1>2, <1>4, <3>1, SizeNat
  <2>2. Covers(flash, fatbuffer[call.entry].nextblock, pos)
    BY <1>0 DEF Kept, Covered
  <2>3. /\ fatbuffer[call.entry].nextblock \in Block
        /\ At(flash', fatbuffer[call.entry].nextblock, p) =
             IF call.entry = call.entry /\ pos <= p /\ p < pos + Chunk
               THEN call.data[p - call.start + 1]
               ELSE At(flash, fatbuffer[call.entry].nextblock, p)
    BY <1>0, <2>1, <2>2, PassAt DEF Faithful
  <2>4. ~(pos <= p)
    BY <1>1, <1>2, <1>4
  <2>5. fatbuffer'[call.entry].nextblock = fatbuffer[call.entry].nextblock
    BY <1>0, <2>3 DEF PassTo
  <2>6. At(flash, fatbuffer[call.entry].nextblock, p) = call.data[j + 1]
    BY <1>0, <1>1, <1>2, <1>4 DEF Faithful, Written
  <2> QED BY <1>2, <2>3, <2>4, <2>5, <2>6
<1>5. CASE ~(j < call.done)
  <2>1. pos <= p /\ p < pos + Chunk
    BY <1>1, <1>2, <1>5
  <2> QED BY <1>0, <1>2, <1>3, <2>1, PassNew
<1> QED BY <1>4, <1>5

LEMMA FaithfulPass ==
  ASSUME Faithful, WriteInPlace \/ WriteNewBlock
  PROVE  SavedChains' /\ Written' /\ Begun'
<1>0. Sound /\ TypeInv
  BY FaithfulTidy
<1>1. PICK t \in Block : PassTo(t)
  BY <1>0, PassInPlace, PassNewBlock
<1>2. ~Idle /\ call.entry \in Entry /\ call \in CallRec /\ call.done \in Nat /\ Chunk \in Nat
  BY <1>0, <1>1, Pass DEF PassTo
<1>3. SavedChains'
  <2>1. mounted' = mounted /\ flash'.fat = flash.fat
        /\ \A e \in Entry : \/ fatbuffer'[e].nextblock = fatbuffer[e].nextblock
                            \/ fatbuffer[e].nextblock \notin Block
    BY <1>1 DEF PassTo
  <2> QED BY <2>1 DEF Faithful, SavedChains
<1>4. CASE call' = << >>
  BY <1>3, <1>4 DEF Written, Begun, Idle
<1>5. CASE call' # << >>
  <2>1. call' = [call EXCEPT !.done = call.done + Chunk]
    BY <1>1, <1>5 DEF PassTo
  <2>2. /\ call'.entry = call.entry /\ call'.start = call.start /\ call'.data = call.data
        /\ call'.done = call.done + Chunk
    BY <1>2, <2>1 DEF CallRec
  <2>3. Written'
    <3>1. \A j \in 0 .. call.done + Chunk - 1 :
            At(flash', fatbuffer'[call.entry].nextblock, call.start + j) = call.data[j + 1]
      BY <1>1, PassWritten
    <3>2. \A j \in 0 .. call'.done - 1 :
            At(flash', fatbuffer'[call'.entry].nextblock, call'.start + j) = call'.data[j + 1]
      <4> TAKE j \in 0 .. call'.done - 1
      <4>1. j \in 0 .. call.done + Chunk - 1
        BY <1>2, <2>2
      <4>2. At(flash', fatbuffer'[call.entry].nextblock, call.start + j) = call.data[j + 1]
        BY <3>1, <4>1
      <4> QED BY <2>2, <4>2, Zenon
    <3> QED BY <3>2 DEF Written
  <2>4. fatbuffer'[call.entry].filesize = fatbuffer[call.entry].filesize
    BY <1>1, <1>2, <1>5 DEF PassTo
  <2>5. Begun'
    BY <1>2, <2>2, <2>4 DEF Faithful, Begun
  <2> QED BY <1>3, <2>3, <2>5
<1> QED BY <1>4, <1>5

LEMMA IdleWritten == call' = << >> => Written' /\ Begun'
  BY DEF Written, Begun, Idle

LEMMA FaithfulCall ==
  ASSUME Careless = {}, Faithful, FsCall
  PROVE  SavedChains' /\ Written' /\ Begun'
<1>0. Sound /\ TypeInv /\ Kept /\ Tidy /\ fatbuffer \in [Entry -> Fe] /\ flash \in FlashRec
  BY FaithfulTidy DEF TypeInv
<1>1. CASE Mount
  <2>1. call' = << >> /\ fatbuffer' = flash'.fat
    BY <1>0, <1>1 DEF Mount, Kept, CallOpen, Idle
  <2> QED BY <2>1, IdleWritten DEF SavedChains
<1>2. CASE Umount
  <2>1. call' = << >> /\ ~mounted'
    BY <1>0, <1>2, UmountIdle DEF Umount, Kept, Idle
  <2> QED BY <2>1, IdleWritten DEF SavedChains
<1>3. ASSUME NEW n \in Names, Unlink(n) PROVE SavedChains' /\ Written' /\ Begun'
  <2>1. PICK e : e = findfile(n)
    OBVIOUS
  <2>2. flash'.fat = fatbuffer'
    BY <1>0, <1>3, <2>1, Unlinked, OwnedWalked DEF Kept
  <2>3. call' = << >>
    BY <1>3 DEF Unlink, Idle
  <2> QED BY <2>2, <2>3, IdleWritten DEF SavedChains
<1>4. ASSUME NEW n \in Names, NEW m \in Names, Rename(n, m)
      PROVE  SavedChains' /\ Written' /\ Begun'
  <2>1. PICK e \in Entry : e = findfile(n)
    BY <1>4, Findfile DEF Rename
  <2>2. fatbuffer' = [fatbuffer EXCEPT ![e].filename = m] /\ flash' = flash
        /\ mounted' = mounted /\ call' = << >>
    BY <1>4, <2>1 DEF Rename, Idle
  <2>3. \A d \in Entry : fatbuffer'[d].nextblock = fatbuffer[d].nextblock
    BY <1>0, <2>2 DEF Fe
  <2> QED BY <2>2, <2>3, IdleWritten DEF Faithful, SavedChains
<1>5. CASE \E h \in Handles, n \in Names, creat, append \in BOOLEAN : Open(h, n, creat, append)
  <2>1. PICK h \in Handles, n \in Names, creat \in BOOLEAN, append \in BOOLEAN :
          Open(h, n, creat, append)
    BY <1>5
  <2>2. PICK fe \in Entry : Opened(h, n, append, fe)
    BY <1>0, <2>1, NewFile
  <2>3. flash' = flash /\ mounted' = mounted /\ call' = << >>
    BY <2>1 DEF Open, Idle
  <2>4. CASE fatbuffer' = fatbuffer
    BY <2>3, <2>4, IdleWritten DEF Faithful, SavedChains
  <2>5. CASE /\ fatbuffer[fe].filename = ""
             /\ fatbuffer' = [fatbuffer EXCEPT ![fe] = [EmptyFe EXCEPT !.filename = n]]
    <3>1. fatbuffer[fe].nextblock = 0
      BY <1>0, <2>5, RamFat DEF Tidy, Named
    <3>2. \A d \in Entry : fatbuffer'[d].nextblock = fatbuffer[d].nextblock
      BY <1>0, <2>5, <3>1, EmptyEntry
    <3> QED BY <2>3, <3>2, IdleWritten DEF Faithful, SavedChains
  <2> QED BY <2>2, <2>4, <2>5 DEF Opened
<1>6. ASSUME NEW h \in Handles, Close(h) \/ \E p \in 0 .. BLOCKS * PAYLOAD : Lseek(h, p)
      PROVE  SavedChains' /\ Written' /\ Begun'
  <2>1. flash' = flash /\ fatbuffer' = fatbuffer /\ mounted' = mounted /\ call' = << >>
    BY <1>6 DEF Close, Lseek, Idle
  <2> QED BY <2>1, IdleWritten DEF Faithful, SavedChains
<1>7. ASSUME NEW h \in Handles, NEW w \in Writes, Write(h, w)
      PROVE  SavedChains' /\ Written' /\ Begun'
  <2>1. flash' = flash /\ fatbuffer' = fatbuffer /\ mounted' = mounted
    BY <1>7 DEF Write
  <2>2. PICK at : at = IF file[h].append THEN fatbuffer[file[h].fe].filesize ELSE file[h].offset
    OBVIOUS
  <2>3. /\ call' = [entry |-> file[h].fe, start |-> at, data |-> w, done |-> 0]
        /\ at <= fatbuffer[file[h].fe].filesize
    BY <1>7, <2>2 DEF Write
  <2>4. call'.entry = file[h].fe /\ call'.start = at /\ call'.done = 0
    BY <2>3
  <2>5. Written' /\ Begun'
    BY <2>1, <2>3, <2>4 DEF Written, Begun
  <2> QED BY <2>1, <2>5 DEF Faithful, SavedChains
<1> QED BY <1>1, <1>2, <1>3, <1>4, <1>5, <1>6, <1>7 DEF FsCall

LEMMA FaithfulNext ==
  ASSUME Careless = {}, Faithful, [Next]_vars
  PROVE  Faithful'
<1>0. Kept' /\ Named' /\ Sound /\ TypeInv
  BY Careful, FaithfulTidy, KeptNext, TidyNext DEF Tidy
<1>1. CASE UNCHANGED vars
  <2>1. SavedChains' /\ Written' /\ Begun'
    BY <1>1 DEF vars, Faithful, SavedChains, Written, Begun, Idle
  <2> QED BY <1>0, <2>1 DEF Faithful
<1>2. CASE FsCall
  BY <1>0, <1>2, FaithfulCall DEF Faithful
<1>3. CASE WriteInPlace \/ WriteNewBlock
  BY <1>0, <1>3, FaithfulPass DEF Faithful
<1>4. CASE WriteFails
  <2>1. call' = << >> /\ UNCHANGED <<mounted, fatbuffer, flash>>
    BY <1>0, <1>4, NothingMissing DEF WriteFails, Faithful, Kept
  <2> QED BY <1>0, <2>1, IdleWritten DEF Faithful, SavedChains
<1>5. CASE PowerLoss
  <2>1. call' = << >> /\ ~mounted'
    BY <1>5 DEF PowerLoss
  <2> QED BY <1>0, <2>1, IdleWritten DEF Faithful, SavedChains
<1>6. CASE PowerOn
  <2>1. SavedChains' /\ Written' /\ Begun'
    BY <1>6 DEF PowerOn, Faithful, SavedChains, Written, Begun, Idle
  <2> QED BY <1>0, <2>1 DEF Faithful
<1> QED BY <1>1, <1>2, <1>3, <1>4, <1>5, <1>6 DEF Next, PowerLossWithin

LEMMA AlwaysFaithful ==
  ASSUME Careless = {}
  PROVE  Spec => []Faithful
<1>1. Init => Faithful
  BY KeptInit, TidyInit DEF Faithful, Tidy, SavedChains, Written, Begun, Init, Idle
<1>2. Faithful /\ [Next]_vars => Faithful'
  BY FaithfulNext
<1> QED BY <1>1, <1>2, PTL DEF Spec

(* A file as the store sees it, and its lists of files.                    *)
FileOf(fl, fe) ==
  IF fe.filename = "" THEN << >> ELSE <<fe.filename, Content(fl, fe)>>
Files == [e \in Entry |-> IF mounted THEN AsFile(fatbuffer[e]) ELSE << >>]
Saved == [e \in Entry |-> IF flash.fat = << >> THEN << >> ELSE AsFile(flash.fat[e])]

LEMMA FilesAre ==
  /\ Files = [e \in Entry |-> IF mounted THEN FileOf(flash, fatbuffer[e]) ELSE << >>]
  /\ Files' = [e \in Entry |-> IF mounted' THEN FileOf(flash', fatbuffer'[e]) ELSE << >>]
  BY DEF Files, AsFile, FileOf

LEMMA SavedAre ==
  /\ Saved = [e \in Entry |-> IF flash.fat = << >> THEN << >> ELSE FileOf(flash, flash.fat[e])]
  /\ Saved' = [e \in Entry |-> IF flash'.fat = << >> THEN << >>
                               ELSE FileOf(flash', flash'.fat[e])]
  BY DEF Saved, AsFile, FileOf

LEMMA ContentSeq ==
  ASSUME NEW fl, NEW fe, fe.filesize \in Nat
  PROVE  /\ Len(Content(fl, fe)) = fe.filesize
         /\ \E S : Content(fl, fe) \in Seq(S)
         /\ fe.filesize = 0 => Content(fl, fe) = << >>
<1>1. PICK c : c = Content(fl, fe)
  OBVIOUS
<1>2. PICK n \in Nat : n = fe.filesize
  OBVIOUS
<1> DEFINE S == {At(fl, fe.nextblock, i - 1) : i \in Nat}
<1>3. c = [i \in 1 .. n |-> At(fl, fe.nextblock, i - 1)]
  BY <1>1, <1>2, ContentAt
<1>4. \A i \in 1 .. n : At(fl, fe.nextblock, i - 1) \in S
  OBVIOUS
<1> HIDE DEF S
<1>5. c \in [1 .. n -> S]
  BY <1>3, <1>4
<1>6. c \in Seq(S)
  BY <1>5, SeqDef
<1>7. Len(c) = n
  BY <1>5, <1>6, LenProperties
<1>8. n = 0 => c = << >>
  BY <1>6, <1>7, EmptySeq
<1> QED BY <1>1, <1>2, <1>6, <1>7, <1>8

LEMMA NoFileOf == \A fl : FileOf(fl, EmptyFe) = << >>
  BY DEF FileOf, EmptyFe

LEMMA NewFileOf ==
  ASSUME NEW fl, NEW n, n # ""
  PROVE  FileOf(fl, [EmptyFe EXCEPT !.filename = n]) = <<n, << >> >>
<1>1. PICK fe : fe = [EmptyFe EXCEPT !.filename = n]
  OBVIOUS
<1>2. fe.filename = n /\ fe.filesize = 0
  BY <1>1, EmptyEntry
<1>3. Content(fl, fe) = << >>
  <2>1. fe.filesize \in Nat
    <3>1. 0 \in Nat
      OBVIOUS
    <3> QED BY <1>2, <3>1, Zenon
  <2> QED BY <1>2, <2>1, ContentSeq, Zenon
<1> QED BY <1>1, <1>2, <1>3 DEF FileOf

LEMMA FileOfSame ==
  ASSUME NEW fl, NEW new, new.next = fl.next, new.data = fl.data
  PROVE  \A fe : FileOf(new, fe) = FileOf(fl, fe)
  BY SameChain DEF FileOf, Content

LEMMA FileOfName ==
  ASSUME NEW fl, NEW fe, fe.filename # ""
  PROVE  FileOf(fl, fe) # << >> /\ FileOf(fl, fe)[1] = fe.filename
  BY DEF FileOf

(* Files are those of before when nothing they are made of has changed.    *)
LEMMA StoreSame ==
  ASSUME flash' = flash, mounted' = mounted, fatbuffer' = fatbuffer
  PROVE  Files' = Files /\ Saved' = Saved
  BY FilesAre, SavedAre

LEMMA StoreMount ==
  ASSUME Faithful, Mount
  PROVE  Store!StoreCall
<1>0. /\ Sound /\ TypeInv /\ ~mounted /\ mounted' /\ Idle /\ call' = call
      /\ fatbuffer' = flash'.fat /\ flash' = IF flash.fat = << >> THEN mkfs ELSE flash
  BY FaithfulTidy DEF Mount, Faithful, Kept, CallOpen
<1>1. flash' \in FlashRec /\ flash'.fat # << >>
  <2>1. mkfs.fat # << >> /\ mkfs \in FlashRec
    BY Formatted, FatNotEmpty, Empty
  <2> QED BY <1>0, <2>1 DEF TypeInv
<1>2. Files' = Saved'
  BY <1>0, <1>1, FilesAre, SavedAre
<1>3. Saved' = Saved
  <2>1. CASE flash.fat = << >>
    <3>1. flash'.fat = NoFat
      BY <1>0, <2>1, Formatted
    <3>2. \A e \in Entry : flash'.fat[e] = EmptyFe
      BY <3>1 DEF NoFat
    <3>3. Saved' = [e \in Entry |-> << >>]
      BY <1>1, <3>2, SavedAre, NoFileOf
    <3> QED BY <2>1, <3>3, SavedAre
  <2>2. CASE flash.fat # << >>
    BY <1>0, <2>2, SavedAre
  <2> QED BY <2>1, <2>2
<1>4. Store!Mount
  BY <1>0, <1>2, <1>3 DEF Store!Mount, Files, Saved
<1> QED BY <1>0, <1>4 DEF Store!StoreCall, Store!ListCall, Store!Idle, Idle

LEMMA StoreUmount ==
  ASSUME Faithful, Umount
  PROVE  Store!StoreCall
<1>0. /\ Sound /\ flash \in FlashRec /\ fatbuffer \in [Entry -> Fe]
      /\ mounted /\ ~mounted' /\ call' = call /\ Idle
      /\ flash' = [flash EXCEPT !.fat = fatbuffer]
  BY FaithfulTidy, UmountIdle DEF Umount, writefat, Faithful, Kept, TypeInv
<1>1. flash'.fat = fatbuffer /\ flash'.next = flash.next /\ flash'.data = flash.data
  BY <1>0, FlashFat
<1>2. fatbuffer # << >>
  BY <1>0, FatNotEmpty
<1>3. Saved' = Files
  <2>1. \A e \in Entry : FileOf(flash', fatbuffer[e]) = FileOf(flash, fatbuffer[e])
    BY <1>1, FileOfSame
  <2>2. Saved' = [e \in Entry |-> FileOf(flash', fatbuffer[e])]
    BY <1>1, <1>2, SavedAre
  <2>3. Files = [e \in Entry |-> FileOf(flash, fatbuffer[e])]
    BY <1>0, FilesAre
  <2> QED BY <2>1, <2>2, <2>3
<1>4. Files' = [e \in Entry |-> << >>]
  BY <1>0, FilesAre
<1>5. Store!Umount
  BY <1>0, <1>3, <1>4 DEF Store!Umount, Store!NoFile, Files, Saved
<1> QED BY <1>0, <1>5 DEF Store!StoreCall, Store!ListCall, Store!Idle, Idle

LEMMA StoreOpen ==
  ASSUME Faithful, NEW h \in Handles, NEW n \in Names, NEW creat \in BOOLEAN,
         NEW append \in BOOLEAN, Open(h, n, creat, append)
  PROVE  Store!StoreCall \/ (Files' = Files /\ Saved' = Saved /\ UNCHANGED <<mounted, call>>)
<1>0. /\ Sound /\ TypeInv /\ fatbuffer \in [Entry -> Fe] /\ n # ""
      /\ mounted /\ mounted' = mounted /\ flash' = flash /\ call' = call /\ Idle
  BY FaithfulTidy, RealName DEF Open, TypeInv
<1>1. PICK fe \in Entry : Opened(h, n, append, fe)
  BY <1>0, NewFile
<1>2. CASE fatbuffer' = fatbuffer
  BY <1>0, <1>2, StoreSame
<1>3. CASE /\ fatbuffer[fe].filename = ""
           /\ \A e \in Entry : fatbuffer[e].filename # n
           /\ fatbuffer' = [fatbuffer EXCEPT ![fe] = [EmptyFe EXCEPT !.filename = n]]
  <2>1. Files[fe] = << >>
    BY <1>0, <1>3, FilesAre DEF FileOf
  <2>2. ASSUME NEW e \in Entry, Files[e] # << >> PROVE Files[e][1] # n
    <3>1. Files[e] = FileOf(flash, fatbuffer[e])
      BY <1>0, FilesAre
    <3>2. fatbuffer[e].filename # ""
      BY <2>2, <3>1 DEF FileOf
    <3> QED BY <1>3, <3>1, <3>2, FileOfName
  <2>3. Files' = [Files EXCEPT ![fe] = <<n, << >> >>]
    <3>1. fatbuffer'[fe] = [EmptyFe EXCEPT !.filename = n]
          /\ \A e \in Entry : e # fe => fatbuffer'[e] = fatbuffer[e]
      BY <1>0, <1>3
    <3>2. Files'[fe] = <<n, << >> >>
      BY <1>0, <3>1, FilesAre, NewFileOf
    <3>3. \A e \in Entry : e # fe => Files'[e] = Files[e]
      BY <1>0, <3>1, FilesAre
    <3> QED BY <3>2, <3>3, FilesAre
  <2>4. Saved' = Saved
    BY <1>0, SavedAre
  <2>5. Store!Create(fe, n)
    BY <1>0, <2>1, <2>2, <2>3, <2>4
    DEF Store!Create, Store!Taken, Store!NoFile, Files, Saved
  <2> QED BY <1>0, <2>5 DEF Store!StoreCall, Store!ListCall, Store!Idle, Idle
<1> QED BY <1>1, <1>2, <1>3 DEF Opened

LEMMA StoreRename ==
  ASSUME Careless = {}, Faithful, NEW n \in Names, NEW m \in Names, Rename(n, m)
  PROVE  Store!StoreCall
<1>0. /\ Sound /\ TypeInv /\ fatbuffer \in [Entry -> Fe] /\ n # "" /\ m # ""
      /\ mounted /\ mounted' = mounted /\ flash' = flash /\ call' = call /\ Idle
      /\ findfile(m) = 0
  BY FaithfulTidy, RealName DEF Rename, TypeInv
<1>1. PICK e \in Entry : e = findfile(n) /\ fatbuffer[e].filename = n
  BY Findfile DEF Rename
<1>2. fatbuffer' = [fatbuffer EXCEPT ![e].filename = m]
  BY <1>1 DEF Rename
<1>3. /\ \A d \in Entry : d # e => fatbuffer'[d] = fatbuffer[d]
      /\ fatbuffer'[e].filename = m /\ fatbuffer'[e].filesize = fatbuffer[e].filesize
      /\ fatbuffer'[e].nextblock = fatbuffer[e].nextblock
  BY <1>0, <1>2 DEF Fe
<1>4. Files[e] = <<n, Content(flash, fatbuffer[e])>>
  BY <1>0, <1>1, FilesAre DEF FileOf
<1>5. Files'[e] = <<m, Content(flash, fatbuffer[e])>>
  <2>1. Content(flash, fatbuffer'[e]) = Content(flash, fatbuffer[e])
    BY <1>3 DEF Content
  <2> QED BY <1>0, <1>3, <2>1, FilesAre DEF FileOf
<1>6. Files' = [Files EXCEPT ![e][1] = m]
  <2>1. \A d \in Entry : d # e => Files'[d] = Files[d]
    BY <1>0, <1>3, FilesAre
  <2>2. [Files[e] EXCEPT ![1] = m] = <<m, Content(flash, fatbuffer[e])>>
    BY <1>4
  <2> QED BY <1>5, <2>1, <2>2, FilesAre
<1>7. ASSUME NEW d \in Entry, Files[d] # << >> PROVE Files[d][1] # m
  <2>1. Files[d] = FileOf(flash, fatbuffer[d])
    BY <1>0, FilesAre
  <2>2. fatbuffer[d].filename # ""
    BY <1>7, <2>1 DEF FileOf
  <2>3. fatbuffer[d].filename # m
    BY <1>0, FindfileNone
  <2> QED BY <2>1, <2>2, <2>3, FileOfName
<1>8. Saved' = Saved
  BY <1>0, SavedAre
<1>9. Store!Rename(e, m)
  <2>1. Files[e] # << >>
    BY <1>4
  <2> QED BY <1>0, <2>1, <1>6, <1>7, <1>8, Zenon
          DEF Store!Rename, Store!Taken, Store!NoFile, Files, Saved
<1> QED BY <1>0, <1>9 DEF Store!StoreCall, Store!ListCall, Store!Idle, Idle

LEMMA StoreWrite ==
  ASSUME Careless = {}, Faithful, NEW h \in Handles, NEW w \in Writes, Write(h, w)
  PROVE  Store!StoreCall
<1>0. /\ Tidy /\ Sound /\ TypeInv /\ fatbuffer \in [Entry -> Fe] /\ mounted /\ Idle
      /\ flash' = flash /\ fatbuffer' = fatbuffer /\ mounted' = mounted
      /\ file \in [Handles -> FileRec]
  BY FaithfulTidy DEF Write, TypeInv
<1>1. PICK e \in Entry : e = file[h].fe
  <2>1. file[h].fe \in 0 .. FILES /\ file[h].fe # 0
    BY <1>0 DEF FileRec, Write
  <2> QED BY <2>1, Sizes DEF Entry
<1>2. PICK at : at = IF file[h].append THEN fatbuffer[e].filesize ELSE file[h].offset
  OBVIOUS
<1>3. /\ call' = [entry |-> e, start |-> at, data |-> w, done |-> 0]
      /\ at <= fatbuffer[e].filesize
  BY <1>1, <1>2 DEF Write
<1>4. fatbuffer[e] \in Fe /\ fatbuffer[e].filesize \in 0 .. Size
  BY <1>0, FeField
<1>5. at \in 0 .. fatbuffer[e].filesize
  <2>1. file[h].offset \in 0 .. Size
    BY <1>0 DEF FileRec
  <2> QED BY <1>2, <1>3, <1>4, <2>1, SizeNat
<1>6. fatbuffer[e].filename # ""
  BY <1>0, <1>1, EntryNat DEF Tidy, Named
<1>7. Files[e] # << >> /\ Len(Files[e][2]) = fatbuffer[e].filesize
  <2>1. Files[e] = <<fatbuffer[e].filename, Content(flash, fatbuffer[e])>>
    BY <1>0, <1>6, FilesAre DEF FileOf
  <2>2. fatbuffer[e].filesize \in Nat
    BY <1>4, SizeNat
  <2> QED BY <2>1, <2>2, ContentSeq
<1>8. Files' = Files /\ Saved' = Saved
  BY <1>0, StoreSame
<1>9. /\ call' # << >>
      /\ call'.entry = e /\ call'.start = at /\ call'.data = w
  <2>1. call'.entry = e /\ call'.start = at /\ call'.data = w
    BY <1>3
  <2>2. call' # << >>
    BY <1>3
  <2> QED BY <2>1, <2>2
<1>10. call'.start \in 0 .. Len(Files[call'.entry][2]) /\ Files[call'.entry] # << >>
  BY <1>5, <1>7, <1>9
<1>11. Store!BeginWrite
  BY <1>0, <1>3, <1>8, <1>9, <1>10
  DEF Store!BeginWrite, Store!Idle, Store!NoFile, Files, Saved, Idle
<1> QED BY <1>11 DEF Store!StoreCall, Store!WriteCall

LEMMA StoreUnlink ==
  ASSUME Faithful, NEW n \in Names, Unlink(n)
  PROVE  Store!StoreCall
<1>0. /\ Sound /\ TypeInv /\ Kept /\ fatbuffer \in [Entry -> Fe] /\ n # "" /\ Idle
      /\ mounted /\ mounted' = mounted /\ call' = call
  BY FaithfulTidy, RealName DEF Unlink, TypeInv
<1>1. PICK e : e = findfile(n)
  OBVIOUS
<1>2. /\ e \in Entry /\ fatbuffer[e].filename = n
      /\ fatbuffer' = [fatbuffer EXCEPT ![e] = EmptyFe]
      /\ fatbuffer' \in [Entry -> Fe] /\ flash'.fat = fatbuffer'
  BY <1>0, <1>1, Unlinked, OwnedWalked DEF Kept
<1>3. PICK owner : OwnedBy(owner)
  BY <1>0 DEF Kept, Owned
<1>4. PICK gone : gone = BlocksOf(flash, fatbuffer[e].nextblock)
  OBVIOUS
<1>5. \A x \in Block : x \notin gone => flash'.data[x] = flash.data[x]
  <2>1. flash'.data = [x \in Block |-> IF x \in gone THEN ErasedBlock ELSE flash.data[x]]
    BY <1>1, <1>4 DEF Unlink
  <2> QED BY <2>1
<1>6. \A d \in Entry, k \in 0 .. BLOCKS :
        Chain(flash, fatbuffer[d].nextblock)[k] \in Block =>
          owner[Chain(flash, fatbuffer[d].nextblock)[k]] = d
  <2> TAKE d \in Entry
  <2> QED BY <1>0, <1>3, RamFat, OwnedChain
<1>7. ASSUME NEW d \in Entry, d # e
      PROVE  FileOf(flash', fatbuffer[d]) = FileOf(flash, fatbuffer[d])
  <2>1. PICK b : b = fatbuffer[d].nextblock
    OBVIOUS
  <2>2. \A k \in 0 .. BLOCKS :
          Chain(flash, b)[k] \in Block => Chain(flash', b)[k] = Chain(flash, b)[k]
    <3>1. \A k \in 0 .. BLOCKS :
            Chain(flash, fatbuffer[d].nextblock)[k] \in Block =>
              Chain(flash', fatbuffer[d].nextblock)[k] = Chain(flash, fatbuffer[d].nextblock)[k]
      <4>1. Sound /\ OwnedBy(owner) /\ Unlink(n) /\ d # e
        BY <1>0, <1>3, <1>7
      <4> QED BY <1>1, <4>1, OthersKept
    <3> QED BY <2>1, <3>1
  <2>3. fatbuffer[d] \in Fe /\ fatbuffer[d].filesize \in 0 .. Size
    BY <1>0, FeField
  <2>4. ASSUME NEW p \in 0 .. Size, p < fatbuffer[d].filesize
        PROVE  At(flash', b, p) = At(flash, b, p)
    <3>1. p \in Nat
      BY SizeNat
    <3>2. Covers(flash, b, fatbuffer[d].filesize)
      BY <1>0, <2>1, RamFat DEF Kept, Covered
    <3>3. p \div PAYLOAD \in 0 .. BLOCKS - 1 /\ Chain(flash, b)[p \div PAYLOAD] \in Block
      BY <2>3, <2>4, <3>1, <3>2, IndexOf
    <3>4. PICK k \in 0 .. BLOCKS : k = p \div PAYLOAD
      BY <3>3, Sizes
    <3>5. PICK x \in Block : x = Chain(flash, b)[k] /\ x = Chain(flash', b)[k]
      BY <2>2, <3>3, <3>4
    <3>6. owner[x] = d
      BY <1>0, <1>6, <2>1, <3>5
    <3>7. x \notin gone
      <4>1. SUFFICES ASSUME x \in gone PROVE FALSE
        OBVIOUS
      <4>2. PICK j \in 0 .. BLOCKS : x = Chain(flash, fatbuffer[e].nextblock)[j]
        BY <1>4, <4>1 DEF BlocksOf
      <4>3. owner[x] = e
        BY <1>2, <1>6, <4>1, <4>2
      <4> QED BY <1>7, <3>6, <4>3
    <3> QED BY <1>5, <3>4, <3>5, <3>7 DEF At
  <2>5. Content(flash', fatbuffer[d]) = Content(flash, fatbuffer[d])
    BY <2>1, <2>3, <2>4, SameContent
  <2> QED BY <2>5 DEF FileOf
<1>8. Files' = [Files EXCEPT ![e] = << >>]
  <2>1. Files'[e] = << >>
    BY <1>0, <1>2, FilesAre, NoFileOf
  <2>2. \A d \in Entry : d # e => Files'[d] = Files[d]
    BY <1>0, <1>2, <1>7, FilesAre
  <2> QED BY <2>1, <2>2, FilesAre
<1>9. Files[e] # << >>
  BY <1>0, <1>2, FilesAre, FileOfName
<1>10. Saved' = Files'
  <2>1. flash'.fat # << >>
    BY <1>2, FatNotEmpty
  <2> QED BY <1>0, <1>2, <2>1, FilesAre, SavedAre
<1>11. Store!Unlink(e)
  BY <1>0, <1>8, <1>9, <1>10 DEF Store!Unlink, Store!NoFile, Files, Saved
<1> QED BY <1>0, <1>2, <1>11 DEF Store!StoreCall, Store!ListCall, Store!Idle, Idle

(* A file of the store with data laid over it, and lengthened by it.       *)
LEMMA OverFile ==
  ASSUME NEW a, NEW c, NEW s, NEW d
  PROVE  Store!Over(<<a, c>>, s, d) =
           <<a, [i \in 1 .. Len(c) |-> IF i > s /\ i <= s + Len(d) THEN d[i - s] ELSE c[i]]>>
<1>1. <<a, c>> # << >> /\ <<a, c>>[1] = a /\ <<a, c>>[2] = c
  OBVIOUS
<1> QED BY <1>1, Zenon DEF Store!Over, Store!NoFile

LEMMA LongerFile ==
  ASSUME NEW a, NEW S, NEW c \in Seq(S), NEW T, NEW d \in Seq(T), NEW s \in 0 .. Len(c),
         Len(d) > 0
  PROVE  Store!Longer(<<a, c>>, s, d) =
           <<a, [i \in 1 .. Greater(Len(c), s + Len(d)) |->
                   IF i > s /\ i <= s + Len(d) THEN d[i - s] ELSE c[i]]>>
<1>1. PICK k, m \in Nat : k = Len(c) /\ m = Len(d)
  BY LenProperties
<1>2. PICK tail : tail = SubSeq(d, k - s + 1, m)
  OBVIOUS
<1>3. tail \in Seq(S \cup T) /\ Len(tail) = IF k - s + 1 <= m THEN m - (k - s) ELSE 0
  <2>1. \A i \in k - s + 1 .. m : d[i] \in S \cup T
    BY <1>1, ElementOfSeq
  <2>2. k - s + 1 \in Int /\ m \in Int
    BY <1>1
  <2> QED BY <1>1, <1>2, <2>1, <2>2, SubSeqProperties
<1>4. c \in Seq(S \cup T)
  BY SeqMonotonic
<1>5. /\ Len(c \o tail) = k + Len(tail)
      /\ \A i \in 1 .. k + Len(tail) : i <= k => (c \o tail)[i] = c[i]
  BY <1>1, <1>3, <1>4, ConcatProperties
<1>6. k + Len(tail) = Greater(k, s + m)
  BY <1>1, <1>3 DEF Greater
<1>7. Store!Longer(<<a, c>>, s, d) = Store!Over(<<a, c \o tail>>, s, d)
  <2>1. <<a, c>>[1] = a /\ <<a, c>>[2] = c
    OBVIOUS
  <2> QED BY <1>1, <1>2, <2>1 DEF Store!Longer
<1>8. PICK n \in Nat : n = Greater(k, s + m)
  BY <1>1 DEF Greater
<1>9. ASSUME NEW i \in 1 .. n, ~(i > s /\ i <= s + m)
      PROVE  (c \o tail)[i] = c[i]
  <2>1. i <= k
    BY <1>1, <1>8, <1>9 DEF Greater
  <2> QED BY <1>5, <1>6, <1>8, <2>1
<1>10. Store!Over(<<a, c \o tail>>, s, d) =
         <<a, [i \in 1 .. n |-> IF i > s /\ i <= s + m THEN d[i - s] ELSE (c \o tail)[i]]>>
  <2>1. PICK v : v = c \o tail
    OBVIOUS
  <2>2. Len(v) = n /\ Len(d) = m
    BY <1>1, <1>5, <1>6, <1>8, <2>1
  <2>3. Store!Over(<<a, v>>, s, d) =
          <<a, [i \in 1 .. Len(v) |-> IF i > s /\ i <= s + Len(d) THEN d[i - s] ELSE v[i]]>>
    <3>1. <<a, v>> # << >> /\ <<a, v>>[1] = a /\ <<a, v>>[2] = v
      OBVIOUS
    <3> QED BY <3>1, Zenon DEF Store!Over, Store!NoFile
  <2> QED BY <2>1, <2>2, <2>3, Zenon
<1>11. [i \in 1 .. n |-> IF i > s /\ i <= s + m THEN d[i - s] ELSE (c \o tail)[i]]
         = [i \in 1 .. n |-> IF i > s /\ i <= s + m THEN d[i - s] ELSE c[i]]
  BY <1>9
<1> QED BY <1>1, <1>7, <1>8, <1>10, <1>11

(* What a pass makes of a unit of a file: the data of the call as far as   *)
(* it has come, and what was there elsewhere.                              *)
Overlaid(fl, fe, e, p) ==
  IF e = call.entry /\ call.start <= p /\ p < pos + Chunk
    THEN call.data[p - call.start + 1] ELSE At(fl, fe.nextblock, p)

LEMMA PassUnit ==
  ASSUME Faithful, NEW t \in Block, PassTo(t), NEW f \in Fats, NEW e \in Entry, NEW ge,
         ge.nextblock = f[e].nextblock \/ f[e].nextblock \notin Block,
         NEW p \in Nat, p < f[e].filesize
  PROVE  At(flash', ge.nextblock, p) = Overlaid(flash, f[e], e, p)
<1>0. /\ Sound /\ TypeInv /\ Kept /\ SavedChains /\ ~Idle /\ mounted /\ call.entry \in Entry
      /\ f \in [Entry -> Fe] /\ (f = fatbuffer \/ (f = flash.fat /\ f # << >>))
  BY FaithfulTidy, FatsType, Pass DEF Faithful, PassTo, Kept, CallOpen, Fats
<1>1. PICK n \in 0 .. Size : n = f[e].filesize
  BY <1>0, FeField
<1>2. Covers(flash, f[e].nextblock, n)
  BY <1>0, <1>1 DEF Kept, Covered
<1>3. /\ f[e].nextblock \in Block
      /\ At(flash', f[e].nextblock, p) =
           IF e = call.entry /\ pos <= p /\ p < pos + Chunk
             THEN call.data[p - call.start + 1]
             ELSE At(flash, f[e].nextblock, p)
  BY <1>0, <1>1, <1>2, PassAt
<1>4. ge.nextblock = f[e].nextblock
  BY <1>3
<1>5. /\ call.start \in Nat /\ call.done \in Nat /\ Chunk \in Nat
      /\ pos = call.start + call.done
  BY <1>0, Pass DEF pos
<1>6. CASE e = call.entry /\ call.start <= p /\ p < pos + Chunk
  <2>1. PICK j \in 0 .. call.done + Chunk - 1 : p = call.start + j
    <3>1. p - call.start \in 0 .. call.done + Chunk - 1 /\ p = call.start + (p - call.start)
      BY <1>5, <1>6
    <3> QED BY <3>1
  <2>2. At(flash', fatbuffer'[call.entry].nextblock, call.start + j) = call.data[j + 1]
    BY PassWritten
  <2>3. fatbuffer[e].nextblock = f[e].nextblock
    BY <1>0, <1>3 DEF SavedChains
  <2>4. fatbuffer'[e].nextblock = f[e].nextblock
    BY <1>3, <2>3 DEF PassTo
  <2>5. p - call.start + 1 = j + 1
    BY <1>5, <2>1
  <2> QED BY <1>4, <1>6, <2>1, <2>2, <2>4, <2>5 DEF Overlaid
<1>7. CASE ~(e = call.entry /\ call.start <= p /\ p < pos + Chunk)
  <2>1. ~(e = call.entry /\ pos <= p /\ p < pos + Chunk)
    BY <1>5, <1>7
  <2> QED BY <1>3, <1>4, <1>7, <2>1 DEF Overlaid
<1> QED BY <1>6, <1>7

(* The data a call has written after this pass.                            *)
Part == SubSeq(call.data, 1, call.done + Chunk)

LEMMA PartIs ==
  ASSUME TypeInv, ~Idle
  PROVE  /\ Len(Part) = call.done + Chunk
         /\ \A j \in 1 .. call.done + Chunk : Part[j] = call.data[j]
         /\ call.done + Chunk = Len(call.data) => Part = call.data
<1>1. PICK d \in Seq(Units) : d = call.data
  BY Pass
<1>2. PICK n \in Nat : n = call.done + Chunk
  BY Pass
<1>3. Len(d) \in Nat /\ n <= Len(d)
  BY <1>1, <1>2, Pass
<1>4. n \in 0 .. Len(d)
  BY <1>3
<1>5. 1 .. n \subseteq 1 .. Len(d)
  BY <1>3
<1>6. SubSeq(d, 1, n) \in Seq(Units) /\ Len(SubSeq(d, 1, n)) = n
      /\ \A j \in 1 .. n : SubSeq(d, 1, n)[j] = d[j]
  <2>1. \A j \in 1 .. n : d[j] \in Units
    BY <1>5, ElementOfSeq
  <2>2. 1 \in Int /\ n \in Int
    OBVIOUS
  <2> QED BY <2>1, <2>2, SubSeqProperties
<1>7. n = Len(d) => SubSeq(d, 1, n) = d
  BY <1>6, SeqEqual
<1> QED BY <1>1, <1>2, <1>6, <1>7 DEF Part

(* A file after a pass: the data of the call so far is laid over it.       *)
LEMMA PassUnits ==
  ASSUME Faithful, NEW t \in Block, PassTo(t), NEW f \in Fats, NEW ge,
         ge.nextblock = f[call.entry].nextblock \/ f[call.entry].nextblock \notin Block,
         NEW i \in Nat, i > 0, i <= f[call.entry].filesize
  PROVE  At(flash', ge.nextblock, i - 1) =
           IF i > call.start /\ i <= call.start + Len(Part) THEN Part[i - call.start]
           ELSE At(flash, f[call.entry].nextblock, i - 1)
<1>0. TypeInv /\ ~Idle /\ call.entry \in Entry /\ f \in [Entry -> Fe]
  BY FaithfulTidy, Pass, FatsType DEF PassTo
<1>1. PICK p \in Nat : p = i - 1
  OBVIOUS
<1>2. /\ call.start \in Nat /\ call.done \in Nat /\ Chunk \in Nat
      /\ pos = call.start + call.done
  BY <1>0, Pass DEF pos
<1>3. PICK n \in 0 .. Size : n = f[call.entry].filesize
  BY <1>0, FeField
<1>4. p < f[call.entry].filesize
  BY <1>1, <1>3, SizeNat
<1>5. At(flash', ge.nextblock, p) =
        IF call.start <= p /\ p < pos + Chunk THEN call.data[p - call.start + 1]
        ELSE At(flash, f[call.entry].nextblock, p)
  BY <1>0, <1>4, PassUnit DEF Overlaid
<1>6. /\ i > call.start <=> call.start <= p
      /\ i <= call.start + Len(Part) <=> p < pos + Chunk
      /\ p - call.start + 1 = i - call.start
  <2>1. PICK s, m \in Nat : s = call.start /\ m = call.done + Chunk
    BY <1>2
  <2>2. Len(Part) = m /\ pos + Chunk = s + m
    BY <1>0, <1>2, <2>1, PartIs
  <2>3. i = p + 1
    BY <1>1
  <2>4. /\ i > s <=> s <= p
        /\ i <= s + m <=> p < s + m
        /\ p - s + 1 = i - s
    BY <2>3
  <2> QED BY <2>1, <2>2, <2>4
<1>7. ASSUME i > call.start, i <= call.start + Len(Part)
      PROVE  Part[i - call.start] = call.data[i - call.start]
  <2>1. Len(Part) = call.done + Chunk
    BY <1>0, PartIs
  <2>2. i - call.start \in 1 .. call.done + Chunk
    BY <1>2, <1>7, <2>1
  <2> QED BY <1>0, <2>2, PartIs
<1> QED BY <1>1, <1>5, <1>6, <1>7

LEMMA PassFile ==
  ASSUME Faithful, NEW t \in Block, PassTo(t), NEW f \in Fats, NEW e \in Entry, NEW ge,
         ge.filename = f[e].filename, ge.filesize = f[e].filesize,
         ge.nextblock = f[e].nextblock \/ f[e].nextblock \notin Block
  PROVE  FileOf(flash', ge) =
           IF e = call.entry THEN Store!Over(FileOf(flash, f[e]), call.start, Part)
           ELSE FileOf(flash, f[e])
<1>0. TypeInv /\ f \in [Entry -> Fe]
  BY FaithfulTidy, FatsType
<1>1. CASE f[e].filename = ""
  BY <1>1 DEF FileOf, Store!Over, Store!NoFile
<1>2. CASE f[e].filename # ""
  <2>1. PICK n \in Nat : n = f[e].filesize
    <3>1. f[e] \in Fe
      BY <1>0
    <3>2. f[e].filesize \in 0 .. Size
      BY <3>1, FeField
    <3> QED BY <3>2, SizeNat
  <2>2. PICK c : c = Content(flash, f[e])
    OBVIOUS
  <2>3. Len(c) = n /\ c = [i \in 1 .. n |-> At(flash, f[e].nextblock, i - 1)]
    BY <2>1, <2>2, ContentSeq, ContentAt
  <2>4. Content(flash', ge) = [i \in 1 .. n |-> At(flash', ge.nextblock, i - 1)]
    BY <2>1, ContentAt
  <2>5. CASE e # call.entry
    <3>1. ASSUME NEW i \in 1 .. n
          PROVE  At(flash', ge.nextblock, i - 1) = At(flash, f[e].nextblock, i - 1)
      <4>1. PICK p \in Nat : p = i - 1 /\ p < n
        OBVIOUS
      <4>2. At(flash', ge.nextblock, p) = At(flash, f[e].nextblock, p)
        BY <2>1, <2>5, <4>1, PassUnit DEF Overlaid
      <4> QED BY <4>1, <4>2
    <3>2. Content(flash', ge) = Content(flash, f[e])
      BY <2>2, <2>3, <2>4, <3>1
    <3> QED BY <2>5, <3>2 DEF FileOf
  <2>6. CASE e = call.entry
    <3>1. PICK s, d : s = call.start /\ d = Part
      OBVIOUS
    <3>2. ASSUME NEW i \in 1 .. n
          PROVE  At(flash', ge.nextblock, i - 1) =
                   IF i > s /\ i <= s + Len(d) THEN d[i - s] ELSE c[i]
      <4>1. i \in Nat /\ i > 0 /\ i <= f[call.entry].filesize
        BY <2>1, <2>6
      <4>2. c[i] = At(flash, f[e].nextblock, i - 1)
        BY <2>3
      <4> QED BY <2>6, <3>1, <4>1, <4>2, PassUnits
    <3>3. Content(flash', ge) =
            [i \in 1 .. n |-> IF i > s /\ i <= s + Len(d) THEN d[i - s] ELSE c[i]]
      BY <2>4, <3>2
    <3>4. Store!Over(<<f[e].filename, c>>, s, d) = <<f[e].filename, Content(flash', ge)>>
      <4>1. PICK x : x = <<f[e].filename, c>>
        OBVIOUS
      <4>2. x # << >> /\ x[1] = f[e].filename /\ x[2] = c
        BY <4>1
      <4>3. Store!Over(x, s, d) = <<x[1], [i \in 1 .. Len(x[2]) |->
              IF i > s /\ i <= s + Len(d) THEN d[i - s] ELSE x[2][i]]>>
        BY <4>2, Zenon DEF Store!Over, Store!NoFile
      <4> QED BY <2>3, <3>3, <4>1, <4>2, <4>3, Zenon
    <3>5. FileOf(flash, f[e]) = <<f[e].filename, c>>
      BY <1>2, <2>2 DEF FileOf
    <3>6. FileOf(flash', ge) = <<f[e].filename, Content(flash', ge)>>
      BY <1>2 DEF FileOf
    <3> QED BY <2>6, <3>1, <3>4, <3>5, <3>6, Zenon
  <2> QED BY <2>5, <2>6
<1> QED BY <1>1, <1>2

LEMMA PassSaved ==
  ASSUME Faithful, NEW t \in Block, PassTo(t)
  PROVE  Saved' = [Saved EXCEPT ![call.entry] = Store!Over(@, call.start, Part)]
<1>0. call.entry \in Entry /\ flash'.fat = flash.fat
  BY FaithfulTidy, Pass DEF PassTo
<1>1. PICK s, d : s = call.start /\ d = Part
  OBVIOUS
<1>2. PICK g : g = Saved'
  OBVIOUS
<1>3. ASSUME NEW e \in Entry
      PROVE  g[e] = IF e = call.entry THEN Store!Over(Saved[e], s, d) ELSE Saved[e]
  <2>1. CASE flash.fat = << >>
    <3>1. g[e] = << >> /\ Saved[e] = << >>
      BY <1>0, <1>2, <2>1, SavedAre
    <3>2. Store!Over(<< >>, s, d) = << >>
      BY DEF Store!Over, Store!NoFile
    <3> QED BY <3>1, <3>2
  <2>2. CASE flash.fat # << >>
    <3>1. PICK f \in Fats : f = flash.fat
      BY <2>2 DEF Fats
    <3>2. g[e] = FileOf(flash', f[e]) /\ Saved[e] = FileOf(flash, f[e])
      BY <1>0, <1>2, <2>2, <3>1, SavedAre
    <3>3. FileOf(flash', f[e]) =
            IF e = call.entry THEN Store!Over(FileOf(flash, f[e]), call.start, Part)
            ELSE FileOf(flash, f[e])
      BY PassFile
    <3> QED BY <1>1, <3>2, <3>3, Zenon
  <2> QED BY <2>1, <2>2
<1>4. g = [e \in Entry |-> g[e]] /\ Saved = [e \in Entry |-> Saved[e]]
  BY <1>2, SavedAre
<1>5. g = [Saved EXCEPT ![call.entry] = Store!Over(Saved[call.entry], s, d)]
  <2>1. PICK o : o = Store!Over(Saved[call.entry], s, d)
    OBVIOUS
  <2>2. \A e \in Entry : g[e] = IF e = call.entry THEN o ELSE Saved[e]
    BY <1>3, <2>1
  <2>3. g = [Saved EXCEPT ![call.entry] = o]
    BY <1>0, <1>4, <2>2
  <2> QED BY <2>1, <2>3
<1> QED BY <1>1, <1>2, <1>5

LEMMA PassOther ==
  ASSUME Faithful, NEW t \in Block, PassTo(t), NEW e \in Entry,
         e # call.entry \/ call' # << >>
  PROVE  Files'[e] = IF e = call.entry THEN Store!Over(Files[e], call.start, Part)
                     ELSE Files[e]
<1>0. /\ mounted /\ mounted' /\ fatbuffer \in Fats
      /\ Files'[e] = FileOf(flash', fatbuffer'[e]) /\ Files[e] = FileOf(flash, fatbuffer[e])
  <2>1. mounted /\ mounted' /\ fatbuffer \in Fats
    BY FaithfulTidy, RamFat DEF Kept, CallOpen, PassTo
  <2> QED BY <2>1, FilesAre
<1>1. /\ fatbuffer'[e].filename = fatbuffer[e].filename
      /\ fatbuffer'[e].filesize = fatbuffer[e].filesize
      /\ \/ fatbuffer'[e].nextblock = fatbuffer[e].nextblock
         \/ fatbuffer[e].nextblock \notin Block
  BY DEF PassTo
<1>2. PICK ge : ge = fatbuffer'[e]
  OBVIOUS
<1>3. PICK f \in Fats : f = fatbuffer
  BY <1>0
<1>4. /\ ge.filename = f[e].filename /\ ge.filesize = f[e].filesize
      /\ ge.nextblock = f[e].nextblock \/ f[e].nextblock \notin Block
  BY <1>1, <1>2, <1>3
<1>5. FileOf(flash', ge) =
        IF e = call.entry THEN Store!Over(FileOf(flash, f[e]), call.start, Part)
        ELSE FileOf(flash, f[e])
  BY <1>4, PassFile
<1> QED BY <1>0, <1>2, <1>3, <1>5, Zenon

LEMMA StoreProgress ==
  ASSUME Faithful, NEW t \in Block, PassTo(t), call' # << >>
  PROVE  Store!StoreCall
<1>0. /\ TypeInv /\ ~Idle /\ call.entry \in Entry /\ mounted' = mounted
      /\ call \in CallRec /\ call.done \in Nat /\ Chunk \in Nat /\ Chunk > 0
      /\ Len(call.data) \in Nat
  BY FaithfulTidy, Pass DEF PassTo
<1>1. PICK n \in Nat : n = call.done + Chunk
  BY <1>0
<1>2. n < Len(call.data) /\ call' = [call EXCEPT !.done = n] /\ n > call.done
  BY <1>0, <1>1 DEF PassTo
<1>3. n \in 1 .. Len(call.data)
  BY <1>0, <1>2
<1>4. Part = SubSeq(call.data, 1, n)
  BY <1>1 DEF Part
<1>5. Files' = [Files EXCEPT ![call.entry] = Store!Over(@, call.start, Part)]
  <2>1. PICK g : g = Files'
    OBVIOUS
  <2>2. PICK o : o = Store!Over(Files[call.entry], call.start, Part)
    OBVIOUS
  <2>3. ASSUME NEW e \in Entry PROVE g[e] = IF e = call.entry THEN o ELSE Files[e]
    BY <2>1, <2>2, PassOther
  <2>4. g = [e \in Entry |-> g[e]] /\ Files = [e \in Entry |-> Files[e]]
    BY <2>1, FilesAre
  <2>5. g = [Files EXCEPT ![call.entry] = o]
    BY <1>0, <2>3, <2>4
  <2> QED BY <2>1, <2>2, <2>5
<1>6. Saved' = [Saved EXCEPT ![call.entry] = Store!Over(@, call.start, Part)]
  BY PassSaved
<1>7. Store!Progress(n)
  BY <1>0, <1>2, <1>4, <1>5, <1>6, Zenon DEF Store!Progress, Files, Saved
<1> QED BY <1>0, <1>3, <1>7, Zenon DEF Store!StoreCall, Store!WriteCall, Store!Idle, Idle

(* The file a call has written to in full: it has the length the call      *)
(* gives it.                                                               *)
LEMMA PassLast ==
  ASSUME Faithful, NEW t \in Block, PassTo(t), call' = << >>
  PROVE  Files'[call.entry] = Store!Longer(Files[call.entry], call.start, call.data)
<1>0. /\ Sound /\ TypeInv /\ Tidy /\ ~Idle /\ call.entry \in Entry /\ fatbuffer \in [Entry -> Fe]
      /\ mounted /\ mounted' /\ fatbuffer \in Fats
      /\ fatbuffer[call.entry].filename # ""
  BY FaithfulTidy, RamFat, Pass, CallNamed DEF Kept, CallOpen, PassTo, TypeInv
<1>1. /\ call.start \in Nat /\ call.done \in Nat /\ Chunk \in Nat
      /\ pos = call.start + call.done /\ call.data \in Seq(Units) /\ Len(call.data) \in Nat
      /\ Chunk <= Len(call.data) - call.done /\ call.data \in Writes
  BY <1>0, Pass DEF pos
<1>2. PICK s, m \in Nat : s = call.start /\ m = Len(call.data)
  BY <1>1
<1>3. call.done + Chunk = m /\ pos + Chunk = s + m
  <2>1. ~(call.done + Chunk < m)
    <3>1. SUFFICES ASSUME call.done + Chunk < m PROVE FALSE
      OBVIOUS
    <3>2. call' = [call EXCEPT !.done = call.done + Chunk] /\ call \in CallRec
      BY <1>0, <1>2, <3>1, Pass DEF PassTo
    <3>3. DOMAIN call' = DOMAIN call /\ "done" \in DOMAIN call
      BY <3>2 DEF CallRec
    <3> QED BY <3>3
  <2>2. PICK x, y \in Nat : x = call.done /\ y = Chunk
    BY <1>1
  <2>3. y <= m - x /\ ~(x + y < m)
    BY <1>1, <1>2, <2>1, <2>2
  <2>4. x + y = m
    BY <2>3
  <2>5. pos + Chunk = s + x + y
    BY <1>1, <1>2, <2>2
  <2> QED BY <2>2, <2>4, <2>5
<1>4. Len(call.data) > 0
  BY <1>1, WritesSeq
<1>5. Part = call.data
  BY <1>0, <1>2, <1>3, PartIs
<1>6. PICK f \in Fats : f = fatbuffer
  BY <1>0
<1>7. PICK ge : ge = fatbuffer'[call.entry]
  OBVIOUS
<1>8. PICK n \in Nat : n = f[call.entry].filesize
  <2>1. f[call.entry] \in Fe
    BY <1>0, <1>6
  <2>2. f[call.entry].filesize \in 0 .. Size
    BY <2>1, FeField
  <2> QED BY <2>2, SizeNat
<1>9. /\ ge.filename = f[call.entry].filename
      /\ ge.filesize = Greater(n, s + m)
      /\ ge.nextblock = f[call.entry].nextblock \/ f[call.entry].nextblock \notin Block
  BY <1>0, <1>3, <1>6, <1>7, <1>8 DEF PassTo
<1>10. PICK c, a : c = Content(flash, f[call.entry]) /\ a = f[call.entry].filename
  OBVIOUS
<1>11. PICK S : c \in Seq(S)
  BY <1>8, <1>10, ContentSeq
<1>12. Len(c) = n /\ c = [i \in 1 .. n |-> At(flash, f[call.entry].nextblock, i - 1)]
  BY <1>8, <1>10, ContentSeq, ContentAt
<1>13. PICK k \in Nat : k = Greater(n, s + m)
  BY DEF Greater
<1>14. ASSUME NEW i \in 1 .. k
       PROVE  At(flash', ge.nextblock, i - 1) =
                IF i > s /\ i <= s + m THEN call.data[i - s] ELSE c[i]
  <2>1. CASE i <= n
    <3>1. i \in Nat /\ i > 0 /\ i <= f[call.entry].filesize
      BY <1>8, <2>1
    <3>2. At(flash', ge.nextblock, i - 1) =
            IF i > call.start /\ i <= call.start + Len(Part) THEN Part[i - call.start]
            ELSE At(flash, f[call.entry].nextblock, i - 1)
      BY <1>9, <3>1, PassUnits
    <3>3. c[i] = At(flash, f[call.entry].nextblock, i - 1)
      BY <1>12, <2>1
    <3> QED BY <1>2, <1>5, <3>2, <3>3, Zenon
  <2>2. CASE ~(i <= n)
    <3>1. s <= n
      BY <1>0, <1>2, <1>6, <1>8 DEF Faithful, Begun
    <3>2. i > s /\ i <= s + m
      BY <1>13, <2>2, <3>1 DEF Greater
    <3>3. PICK j \in 0 .. m - 1 : i - 1 = s + j /\ i - s = j + 1
      <4>1. i - 1 - s \in 0 .. m - 1 /\ i - 1 = s + (i - 1 - s) /\ i - s = (i - 1 - s) + 1
        BY <3>2
      <4> QED BY <4>1
    <3>4. j \in 0 .. call.done + Chunk - 1
      <4>1. PICK x, y \in Nat : x = call.done /\ y = Chunk /\ x + y = m
        BY <1>1, <1>3
      <4>2. j \in 0 .. x + y - 1
        BY <3>3, <4>1
      <4> QED BY <4>1, <4>2, Zenon
    <3>5. At(flash', fatbuffer'[call.entry].nextblock, call.start + j) = call.data[j + 1]
      BY <3>4, PassWritten
    <3> QED BY <1>2, <1>7, <3>2, <3>3, <3>5
  <2> QED BY <2>1, <2>2
<1>15. Content(flash', ge) =
         [i \in 1 .. k |-> IF i > s /\ i <= s + m THEN call.data[i - s] ELSE c[i]]
  BY <1>9, <1>13, <1>14, ContentAt
<1>16. Store!Longer(<<a, c>>, s, call.data) =
         <<a, [i \in 1 .. Greater(Len(c), s + Len(call.data)) |->
                 IF i > s /\ i <= s + Len(call.data) THEN call.data[i - s] ELSE c[i]]>>
  <2>1. PICK d \in Seq(Units) : d = call.data
    BY <1>1
  <2>2. s \in 0 .. Len(c)
    <3>1. s <= n
      BY <1>0, <1>2, <1>6, <1>8 DEF Faithful, Begun
    <3>2. s \in 0 .. n
      BY <3>1
    <3> QED BY <1>12, <3>2
  <2>3. Len(d) > 0
    BY <1>4, <2>1
  <2>4. Store!Longer(<<a, c>>, s, d) =
          <<a, [i \in 1 .. Greater(Len(c), s + Len(d)) |->
                  IF i > s /\ i <= s + Len(d) THEN d[i - s] ELSE c[i]]>>
    BY <1>11, <2>2, <2>3, LongerFile
  <2> QED BY <2>1, <2>4
<1>17. Files[call.entry] = <<a, c>>
  BY <1>0, <1>6, <1>10, FilesAre DEF FileOf
<1>18. Files'[call.entry] = <<a, Content(flash', ge)>>
  <2>1. Files'[call.entry] = FileOf(flash', ge)
    BY <1>0, <1>7, FilesAre
  <2> QED BY <1>0, <1>6, <1>9, <1>10, <2>1 DEF FileOf
<1> QED BY <1>2, <1>12, <1>13, <1>15, <1>16, <1>17, <1>18

LEMMA StoreEndWrite ==
  ASSUME Faithful, NEW t \in Block, PassTo(t), call' = << >>
  PROVE  Store!StoreCall
<1>0. /\ TypeInv /\ ~Idle /\ call.entry \in Entry /\ mounted' = mounted
      /\ Len(call.data) \in Nat
  BY FaithfulTidy, Pass DEF PassTo
<1>1. Files' = [Files EXCEPT ![call.entry] = Store!Longer(@, call.start, call.data)]
  <2>1. PICK g : g = Files'
    OBVIOUS
  <2>2. PICK o : o = Store!Longer(Files[call.entry], call.start, call.data)
    OBVIOUS
  <2>3. g[call.entry] = o
    BY <2>1, <2>2, PassLast
  <2>4. ASSUME NEW e \in Entry, e # call.entry PROVE g[e] = Files[e]
    BY <2>1, <2>4, PassOther
  <2>5. g = [e \in Entry |-> g[e]] /\ Files = [e \in Entry |-> Files[e]]
    BY <2>1, FilesAre
  <2>6. g = [Files EXCEPT ![call.entry] = o]
    BY <1>0, <2>3, <2>4, <2>5
  <2> QED BY <2>1, <2>2, <2>6
<1>2. Part = call.data
  <2>1. call.done + Chunk = Len(call.data)
    <3>1. PICK n, x, y \in Nat : n = Len(call.data) /\ x = call.done /\ y = Chunk /\ y <= n - x
      BY <1>0, Pass
    <3>2. ~(x + y < n)
      <4>1. SUFFICES ASSUME x + y < n PROVE FALSE
        OBVIOUS
      <4>2. call' = [call EXCEPT !.done = call.done + Chunk] /\ call \in CallRec
        BY <1>0, <3>1, <4>1, Pass DEF PassTo
      <4>3. DOMAIN call' = DOMAIN call /\ "done" \in DOMAIN call
        BY <4>2 DEF CallRec
      <4> QED BY <4>3
    <3> QED BY <3>1, <3>2
  <2> QED BY <1>0, <2>1, PartIs
<1>3. Saved' = [Saved EXCEPT ![call.entry] = Store!Over(@, call.start, call.data)]
  BY <1>2, PassSaved, Zenon
<1>4. Store!EndWrite
  BY <1>0, <1>1, <1>3, Zenon DEF Store!EndWrite, Store!Idle, Idle, Files, Saved
<1> QED BY <1>4 DEF Store!StoreCall, Store!WriteCall

LEMMA StorePass ==
  ASSUME Faithful, WriteInPlace \/ WriteNewBlock
  PROVE  Store!StoreCall
<1>1. Sound
  BY FaithfulTidy
<1>2. PICK t \in Block : PassTo(t)
  BY <1>1, PassInPlace, PassNewBlock
<1>3. CASE call' = << >>
  BY <1>2, <1>3, StoreEndWrite
<1>4. CASE call' # << >>
  BY <1>2, <1>4, StoreProgress
<1> QED BY <1>3, <1>4

LEMMA StoreFails ==
  ASSUME Faithful, WriteFails
  PROVE  Store!StoreCall
<1>1. /\ call' = << >> /\ ~Idle /\ mounted' = mounted
      /\ fatbuffer' = fatbuffer /\ flash' = flash
  BY NothingMissing DEF WriteFails, Faithful, Kept
<1>2. Files' = Files /\ Saved' = Saved
  BY <1>1, StoreSame
<1>3. Store!GiveUp
  BY <1>1, <1>2 DEF Store!GiveUp, Store!Idle, Idle, Files, Saved
<1> QED BY <1>3 DEF Store!StoreCall, Store!WriteCall

LEMMA StorePowerLoss ==
  ASSUME PowerLoss
  PROVE  Store!PowerLoss
<1>1. powered /\ ~powered' /\ powered' = FALSE /\ mounted' = FALSE /\ call' = << >> /\ flash' = flash
  BY DEF PowerLoss
<1>2. Files' = [e \in Entry |-> << >>] /\ Saved' = Saved
  BY <1>1, FilesAre, SavedAre
<1> QED BY <1>1, <1>2 DEF Store!PowerLoss, Store!NoFile, Files, Saved

(* What the store does not see: an open file, and the place in it.         *)
Unseen == Files' = Files /\ Saved' = Saved /\ UNCHANGED <<mounted, call>>

LEMMA StoreFsCall ==
  ASSUME Careless = {}, Faithful, FsCall
  PROVE  Store!StoreCall \/ Unseen
<1>1. CASE Mount
  BY <1>1, StoreMount
<1>2. CASE Umount
  BY <1>2, StoreUmount
<1>3. ASSUME NEW n \in Names, Unlink(n) PROVE Store!StoreCall
  BY <1>3, StoreUnlink
<1>4. ASSUME NEW n \in Names, NEW m \in Names, Rename(n, m) PROVE Store!StoreCall
  BY <1>4, StoreRename
<1>5. ASSUME NEW h \in Handles, NEW n \in Names, NEW creat \in BOOLEAN, NEW append \in BOOLEAN,
             Open(h, n, creat, append)
      PROVE  Store!StoreCall \/ Unseen
  BY <1>5, StoreOpen DEF Unseen
<1>6. ASSUME NEW h \in Handles, Close(h) \/ \E p \in 0 .. BLOCKS * PAYLOAD : Lseek(h, p)
      PROVE  Unseen
  <2>1. flash' = flash /\ fatbuffer' = fatbuffer /\ mounted' = mounted /\ call' = call
    BY <1>6 DEF Close, Lseek
  <2> QED BY <2>1, StoreSame DEF Unseen
<1>7. ASSUME NEW h \in Handles, NEW w \in Writes, Write(h, w) PROVE Store!StoreCall
  BY <1>7, StoreWrite
<1> QED BY <1>1, <1>2, <1>3, <1>4, <1>5, <1>6, <1>7 DEF FsCall

LEMMA StoreNext ==
  ASSUME Careless = {}, Faithful, [Next]_vars
  PROVE  [Store!Next]_(Store!storeVars)
<1>1. ASSUME Unseen, powered' = powered PROVE UNCHANGED Store!storeVars
  BY <1>1 DEF Unseen, Store!storeVars, Files, Saved
<1>2. CASE UNCHANGED vars
  <2>1. /\ powered' = powered /\ flash' = flash /\ fatbuffer' = fatbuffer
        /\ mounted' = mounted /\ call' = call
    BY <1>2 DEF vars
  <2> QED BY <1>1, <2>1, StoreSame DEF Unseen
<1>3. CASE powered /\ FsCall /\ UNCHANGED powered
  BY <1>1, <1>3, StoreFsCall DEF Store!Next
<1>4. CASE powered /\ (WriteInPlace \/ WriteNewBlock) /\ UNCHANGED powered
  BY <1>4, StorePass DEF Store!Next
<1>5. CASE powered /\ WriteFails /\ UNCHANGED powered
  BY <1>5, StoreFails DEF Store!Next
<1>6. CASE PowerLoss
  BY <1>6, StorePowerLoss DEF Store!Next
<1>7. CASE PowerOn
  <2>1. /\ ~powered /\ powered' = TRUE /\ flash' = flash /\ fatbuffer' = fatbuffer
        /\ mounted' = mounted /\ call' = call
    BY <1>7 DEF PowerOn
  <2>2. Files' = Files /\ Saved' = Saved
    BY <2>1, StoreSame
  <2>3. Store!PowerOn
    BY <2>1, <2>2 DEF Store!PowerOn, Files, Saved
  <2> QED BY <2>3 DEF Store!Next
<1> QED BY <1>2, <1>3, <1>4, <1>5, <1>6, <1>7 DEF Next, PowerLossWithin

(* Through every interleaving of the calls, of the passes of a write and   *)
(* of power losses between them, mtffs.c keeps the promise of FileStore:   *)
(* files hold what was written to them and to nothing else, and the files  *)
(* of the last umount or unlink come back after a loss of power, with what *)
(* was written inside them since.  The caller is a careful one: he writes  *)
(* no holes, does not unlink open files nor rename to a name in use; and   *)
(* power is not lost between the flash operations of one step.             *)
THEOREM StoreImplements ==
  ASSUME Careless = {}
  PROVE  Spec => Implements
<1>1. Init => Store!Init
  <2> SUFFICES ASSUME Init PROVE Store!Init
    OBVIOUS
  <2>1. Files = [e \in Entry |-> << >>] /\ Saved = [e \in Entry |-> << >>]
    BY FilesAre, SavedAre DEF Init
  <2> QED BY <2>1 DEF Init, Store!Init, Store!NoFile, Files, Saved
<1>2. Faithful /\ [Next]_vars => [Store!Next]_(Store!storeVars)
  BY StoreNext
<1> QED BY <1>1, <1>2, AlwaysFaithful, PTL DEF Spec, Implements, Store!Spec

=============================================================================
