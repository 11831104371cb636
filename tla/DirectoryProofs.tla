-------------------------- MODULE DirectoryProofs ---------------------------
(***************************************************************************)
(* Theorems about DirectoryBlock and DirectoryListing for every length of   *)
(* blocks and names and any number of blocks.  A block is readable if its   *)
(* records tile it; the walk of Visited is shown to visit exactly the       *)
(* records of a tiling (VisitedIs), by least counterexamples instead of     *)
(* induction, and each operation to make one tiling of another.             *)
(***************************************************************************)
EXTENDS DirectoryListing, WellFoundedInduction, FiniteSetTheorems, TLAPS

Tags == Names \cup {".", "..", "free", "zeros"}
BlockContent == [Offset -> [name : Tags, len : Nat]]

(* A set of naturals that is not empty has a least element.                 *)
LEMMA Least ==
  ASSUME NEW T \in SUBSET Nat, T # {}
  PROVE  \E x \in T : \A y \in T : x <= y
<1>. DEFINE R == OpToRel(<, Nat)
<1>1. IsWellFoundedOn(R, Nat)
  BY NatLessThanWellFounded
<1>2. \A x, y \in Nat : <<y, x>> \in R <=> y < x
  BY DEF OpToRel
<1>. HIDE DEF R
<1>3. PICK x \in T : \A y \in T : ~ (<<y, x>> \in R)
  BY <1>1, WFMin
<1>4. \A y \in T : x <= y
  <2>. SUFFICES ASSUME NEW y \in T PROVE x <= y
    OBVIOUS
  <2>1. ~ (y < x) /\ x \in Nat /\ y \in Nat
    BY <1>2, <1>3
  <2>. QED BY <2>1
<1>. QED BY <1>4

(* One step of the walk: f has the offsets visited from later places on.    *)
Step(blk, f, o) ==
  IF o = BlockLen THEN {}
  ELSE {o} \cup IF Bad(blk, o) THEN {} ELSE f[o + blk[o].len]

Walks(blk, f, n) == /\ f \in [n .. BlockLen -> SUBSET Offset]
                    /\ \A o \in n .. BlockLen : f[o] = Step(blk, f, o)

(* The walk is defined: it goes forward, and ends.                          *)
LEMMA WalkExists ==
  ASSUME NEW blk \in BlockContent
  PROVE  \E f : Walks(blk, f, 0)
<1>. DEFINE S == {n \in 0 .. BlockLen : \E f : Walks(blk, f, n)}
<1>0. BlockLen \in Nat
  BY DirectoryAssumption
<1>1. BlockLen \in S
  <2>. DEFINE f == [o \in BlockLen .. BlockLen |-> {}]
  <2>1. Walks(blk, f, BlockLen)
    BY <1>0 DEF Walks, Step
  <2>. QED BY <1>0, <2>1
<1>2. ASSUME NEW n \in S, n # 0 PROVE n - 1 \in S
  <2>1. PICK f : Walks(blk, f, n)
    OBVIOUS
  <2>2. n \in 1 .. BlockLen /\ n - 1 \in Offset
    BY <1>0, <1>2 DEF Offset
  <2>. DEFINE g == [o \in n - 1 .. BlockLen |-> IF o = n - 1 THEN Step(blk, f, n - 1) ELSE f[o]]
  <2>3. ASSUME NEW o \in Offset, n - 1 <= o, ~Bad(blk, o)
        PROVE  o + blk[o].len \in n .. BlockLen /\ o < o + blk[o].len
    BY <1>0, <2>2, <2>3 DEF Bad, BlockContent, Offset
  <2>4. Step(blk, f, n - 1) \in SUBSET Offset
    BY <2>1, <2>2, <2>3 DEF Step, Walks
  <2>5. \A o \in n .. BlockLen : g[o] = f[o]
    BY <1>0, <2>2
  <2>6. \A o \in n - 1 .. BlockLen : Step(blk, g, o) = Step(blk, f, o)
    <3>. SUFFICES ASSUME NEW o \in n - 1 .. BlockLen, o # BlockLen, ~Bad(blk, o)
                  PROVE  g[o + blk[o].len] = f[o + blk[o].len]
      BY DEF Step
    <3>1. o \in Offset /\ n - 1 <= o
      BY <1>0, <2>2 DEF Offset
    <3>. QED BY <2>3, <2>5, <3>1
  <2>7. Walks(blk, g, n - 1)
    <3>1. g \in [n - 1 .. BlockLen -> SUBSET Offset]
      <4>1. \A o \in n - 1 .. BlockLen : g[o] \in SUBSET Offset
        BY <1>0, <2>1, <2>2, <2>4 DEF Walks
      <4>. QED BY <4>1
    <3>2. \A o \in n - 1 .. BlockLen : g[o] = Step(blk, f, o)
      BY <1>0, <2>1, <2>2 DEF Walks
    <3>. HIDE DEF g
    <3>. QED BY <2>6, <3>1, <3>2 DEF Walks
  <2>. HIDE DEF g
  <2>. QED BY <1>0, <2>2, <2>7
<1>3. 0 \in S
  <2>. HIDE DEF S
  <2>1. S \in SUBSET Nat
    BY <1>0 DEF S
  <2>2. PICK x \in S : \A y \in S : x <= y
    BY <1>1, <2>1, Least
  <2>. QED BY <1>2, <2>1, <2>2
<1>. QED BY <1>3

(* Visited is what the walk visits from the start of the block.             *)
LEMMA VisitedWalks ==
  ASSUME NEW blk \in BlockContent
  PROVE  \E f : Walks(blk, f, 0) /\ Visited(blk) = f[0]
<1>. DEFINE F == CHOOSE f : f = [o \in 0 .. BlockLen |-> Step(blk, f, o)]
<1>1. Visited(blk) = F[0]
  BY DEF Visited, Step
<1>2. PICK f : Walks(blk, f, 0)
  BY WalkExists
<1>3. f = [o \in 0 .. BlockLen |-> Step(blk, f, o)]
  BY <1>2 DEF Walks
<1>4. F = [o \in 0 .. BlockLen |-> Step(blk, F, o)]
  BY <1>3
<1>. HIDE DEF F
<1>5. ASSUME NEW o \in Offset, ~Bad(blk, o)
      PROVE  o + blk[o].len \in 0 .. BlockLen /\ o < o + blk[o].len
  BY DirectoryAssumption, <1>5 DEF Bad, BlockContent, Offset
<1>6. \A o \in 0 .. BlockLen : F[o] = f[o]
  <2>. DEFINE T == {n \in Nat : n <= BlockLen /\ F[BlockLen - n] # f[BlockLen - n]}
  <2>1. ASSUME T # {} PROVE FALSE
    <3>1. PICK n \in T : \A y \in T : n <= y
      BY <2>1, Least
    <3>. DEFINE o == BlockLen - n
    <3>2. o \in 0 .. BlockLen /\ F[o] # f[o]
      BY DirectoryAssumption
    <3>3. \A x \in o + 1 .. BlockLen : F[x] = f[x]
      <4>. SUFFICES ASSUME NEW x \in o + 1 .. BlockLen, F[x] # f[x] PROVE FALSE
        OBVIOUS
      <4>1. BlockLen - x \in T /\ BlockLen - x < n
        BY DirectoryAssumption
      <4>. QED BY <3>1, <4>1
    <3>. HIDE DEF o, T
    <3>4. F[o] = Step(blk, F, o) /\ f[o] = Step(blk, f, o)
      BY <1>3, <1>4, <3>2
    <3>5. Step(blk, F, o) = Step(blk, f, o)
      <4>. SUFFICES ASSUME o # BlockLen, ~Bad(blk, o)
                    PROVE  F[o + blk[o].len] = f[o + blk[o].len]
        BY DEF Step
      <4>1. o \in Offset
        BY <3>2, DirectoryAssumption DEF Offset
      <4>2. o + blk[o].len \in o + 1 .. BlockLen
        BY <1>5, <3>2, <4>1, DirectoryAssumption DEF BlockContent
      <4>. QED BY <3>3, <4>2
    <3>. QED BY <3>2, <3>4, <3>5
  <2>2. ASSUME NEW o \in 0 .. BlockLen, F[o] # f[o] PROVE FALSE
    <3>1. BlockLen - o \in T
      BY <2>2, DirectoryAssumption
    <3>. QED BY <2>1, <3>1
  <2>. QED BY <2>2
<1>7. 0 \in 0 .. BlockLen
  BY DirectoryAssumption
<1>. QED BY <1>1, <1>2, <1>6, <1>7

-----------------------------------------------------------------------------
(* W is where the records of a block start: one at its start, each followed *)
(* by the next one or by the end of the block, none inside another, and all *)
(* of them long enough to be read.                                          *)
Tiling(blk, W) ==
  /\ W \subseteq Offset /\ 0 \in W
  /\ \A o \in W : /\ blk[o].len >= 3
                  /\ o + blk[o].len \in W \cup {BlockLen}
                  /\ \A x \in W : x <= o \/ x >= o + blk[o].len

(* Free regions are merged.                                                 *)
Merged(blk, W) ==
  \A o, next \in W : next = o + blk[o].len => blk[o].name # "free" \/ blk[next].name # "free"

(* The records of a tiling can be read.                                     *)
LEMMA TilingGood ==
  ASSUME NEW blk \in BlockContent, NEW W, Tiling(blk, W), NEW o \in W
  PROVE  /\ ~Bad(blk, o) /\ o \in Offset
         /\ o < o + blk[o].len /\ o + blk[o].len <= BlockLen
<1>1. BlockLen \in Nat /\ o \in Offset /\ blk[o].len \in Nat /\ blk[o].len >= 3
  BY DirectoryAssumption DEF Tiling, BlockContent
<1>2. o + blk[o].len <= BlockLen
  BY <1>1 DEF Tiling, Offset
<1>. QED BY <1>1, <1>2 DEF Bad, Offset

(* The walk visits the records of a tiling, all of them and nothing else.   *)
LEMMA VisitedIs ==
  ASSUME NEW blk \in BlockContent, NEW W, Tiling(blk, W)
  PROVE  Visited(blk) = W
<1>1. PICK f : Walks(blk, f, 0) /\ Visited(blk) = f[0]
  BY VisitedWalks
<1>2. BlockLen \in Nat /\ W \subseteq Offset /\ 0 \in W
  BY DirectoryAssumption DEF Tiling
<1>. DEFINE From(o) == {x \in W : x >= o}
<1>. HIDE DEF From
<1>. DEFINE T == {n \in Nat : /\ n <= BlockLen /\ BlockLen - n \in W \cup {BlockLen}
                              /\ f[BlockLen - n] # From(BlockLen - n)}
<1>3. ASSUME T # {} PROVE FALSE
  <2>1. PICK n \in T : \A y \in T : n <= y
    BY <1>3, Least
  <2>. DEFINE o == BlockLen - n
  <2>2. o \in 0 .. BlockLen /\ o \in W \cup {BlockLen} /\ f[o] # From(o)
    BY <1>2
  <2>3. ASSUME NEW x \in W \cup {BlockLen}, o < x PROVE f[x] = From(x)
    <3>1. x \in 0 .. BlockLen
      BY <1>2 DEF Offset
    <3>. DEFINE y == BlockLen - x
    <3>2. y \in Nat /\ y < n /\ y <= BlockLen /\ BlockLen - y = x
      BY <1>2, <2>3, <3>1
    <3>. HIDE DEF y
    <3>3. y \notin T
      BY <2>1, <3>2
    <3>. QED BY <3>2, <3>3
  <2>4. f[o] = Step(blk, f, o)
    BY <1>1, <2>2 DEF Walks
  <2>. HIDE DEF o, T
  <2>5. CASE o = BlockLen
    <3>1. \A x \in W : ~ (x >= o)
      BY <1>2, <2>5 DEF Offset
    <3>2. From(o) = {}
      BY <3>1 DEF From
    <3>. QED BY <2>2, <2>4, <2>5, <3>2 DEF Step
  <2>6. CASE o # BlockLen
    <3>. DEFINE next == o + blk[o].len
    <3>1. o \in W
      BY <2>2, <2>6
    <3>2. /\ ~Bad(blk, o) /\ o < next /\ next \in W \cup {BlockLen}
          /\ \A x \in W : x <= o \/ x >= next
      BY <3>1, TilingGood DEF Tiling
    <3>3. f[o] = {o} \cup f[next] /\ f[next] = From(next)
      BY <2>3, <2>4, <2>6, <3>2 DEF Step
    <3>. HIDE DEF next
    <3>4. o \in Int /\ next \in Int /\ \A x \in W : x \in Int
      BY <1>2, <2>2, <3>2 DEF Offset
    <3>5. \A x \in W : x >= o <=> x = o \/ x >= next
      BY <3>2, <3>4
    <3>6. {o} \cup From(next) = From(o)
      BY <3>1, <3>5 DEF From
    <3>. QED BY <2>2, <3>3, <3>6
  <2>. QED BY <2>5, <2>6
<1>4. f[0] = From(0)
  <2>1. BlockLen \notin T
    BY <1>3
  <2>. QED BY <1>2, <2>1
<1>5. From(0) = W
  <2>1. \A x \in W : x >= 0
    BY <1>2 DEF Offset
  <2>. QED BY <2>1 DEF From
<1>. QED BY <1>1, <1>4, <1>5

-----------------------------------------------------------------------------
(* What serialize() leaves at each offset.                                  *)
LEMMA SerializedAt ==
  ASSUME NEW blk \in BlockContent, NEW rec \in [name : Tags, len : Nat], NEW at \in Offset
  PROVE  /\ Serialized(blk, rec, at) \in BlockContent
         /\ Serialized(blk, rec, at)[at] = rec
         /\ \A o \in Offset : o < at \/ o >= at + rec.len => o = at \/ Serialized(blk, rec, at)[o] = blk[o]
<1>1. Zeros \in [name : Tags, len : Nat]
  BY DEF Zeros, Tags
<1>2. BlockLen \in Nat
  BY DirectoryAssumption
<1>. QED BY <1>1, <1>2 DEF Serialized, BlockContent, Offset

(* The lengths of records.                                                  *)
LEMMA Lengths ==
  /\ Entry(".", 1) = [name |-> ".", len |-> 3] /\ Entry("..", 2) = [name |-> "..", len |-> 3]
  /\ \A name \in Names : /\ Entry(name, NameLen(name)).name = name
                         /\ Entry(name, NameLen(name)).len \in 3 .. 19
                         /\ Entry(name, NameLen(name)) \in [name : Tags, len : Nat]
  /\ \A size \in Nat : size >= 3 => FreeRegion(size) = [name |-> "free", len |-> size]
  /\ \A size \in Nat : size >= 3 => FreeRegion(size) \in [name : Tags, len : Nat]
<1>1. min_free_size = 2
  BY DEF min_free_size
<1>2. \A b \in 1 .. 64 : min_record_len(b) \in 3 .. 19
  BY DEF min_record_len
<1>3. min_record_len(1) = 3 /\ min_record_len(2) = 3
  BY DEF min_record_len
<1>4. \A name \in Names : NameLen(name) \in 1 .. 64
  BY DirectoryAssumption DEF NameLen
<1>5. \A size \in Nat : size >= 3 => FreeRegion(size) = [name |-> "free", len |-> size]
  BY <1>1 DEF FreeRegion
<1>6. \A name \in Names : /\ Entry(name, NameLen(name)).name = name
                          /\ Entry(name, NameLen(name)).len \in 3 .. 19
                          /\ Entry(name, NameLen(name)) \in [name : Tags, len : Nat]
  <2>. SUFFICES ASSUME NEW name \in Names
                PROVE  /\ Entry(name, NameLen(name)).name = name
                       /\ Entry(name, NameLen(name)).len \in 3 .. 19
                       /\ Entry(name, NameLen(name)) \in [name : Tags, len : Nat]
    OBVIOUS
  <2>1. min_record_len(NameLen(name)) \in 3 .. 19 /\ name \in Tags
    BY <1>2, <1>4 DEF Tags
  <2>. QED BY <2>1 DEF Entry
<1>7. \A size \in Nat : size >= 3 => FreeRegion(size) \in [name : Tags, len : Nat]
  BY <1>5 DEF Tags
<1>8. Entry(".", 1) = [name |-> ".", len |-> 3] /\ Entry("..", 2) = [name |-> "..", len |-> 3]
  BY <1>3 DEF Entry
<1>. QED BY <1>5, <1>6, <1>7, <1>8

-----------------------------------------------------------------------------
(* What an operation on one name does to a block                            *)

RecordLen(name) == Entry(name, NameLen(name)).len

(* The records of other names (dot and dotdot too), and those of the name.  *)
Others(blk, W, name) == {x \in W : blk[x].name # name /\ blk[x].name # "free"}
Bearing(blk, W, name) == {x \in W : blk[x].name = name}

(* The block can still be read, its free regions are merged, the records of *)
(* other names are where and as they were; now are those of the name.       *)
Edited(blk, W, blk2, W2, name, now) ==
  /\ blk2 \in BlockContent /\ Tiling(blk2, W2) /\ Merged(blk2, W2)
  /\ Others(blk2, W2, name) = Others(blk, W, name) /\ Bearing(blk2, W2, name) = now
  /\ \A x \in Others(blk, W, name) : blk2[x] = blk[x]

(* An entry takes the place of a free region of its length.                 *)
LEMMA EntryFills ==
  ASSUME NEW blk \in BlockContent, NEW W, Tiling(blk, W), Merged(blk, W),
         NEW o \in W, blk[o].name = "free",
         NEW name \in Names, NEW e, e = Entry(name, NameLen(name)), blk[o].len = e.len
  PROVE  Edited(blk, W, Serialized(blk, e, o), W, name, Bearing(blk, W, name) \cup {o})
<1>. DEFINE blk2 == Serialized(blk, e, o)
<1>1. /\ e \in [name : Tags, len : Nat] /\ e.name = name /\ "free" \notin Names
      /\ o \in Offset /\ W \subseteq Offset
  BY Lengths, DirectoryAssumption DEF Tiling, Names
<1>2. blk2 \in BlockContent /\ blk2[o] = e
  BY <1>1, SerializedAt
<1>3. \A x \in W : x # o => blk2[x] = blk[x]
  <2>. SUFFICES ASSUME NEW x \in W, x # o PROVE blk2[x] = blk[x]
    OBVIOUS
  <2>1. x \in Offset /\ (x < o \/ x >= o + e.len)
    <3>1. x \in Int /\ o \in Int /\ x \in Offset
      BY <1>1, DirectoryAssumption DEF Offset
    <3>2. x <= o \/ x >= o + e.len
      BY DEF Tiling
    <3>. QED BY <3>1, <3>2
  <2>. QED BY <1>1, <2>1, SerializedAt
<1>. HIDE DEF blk2
<1>4. \A x \in W : blk2[x].len = blk[x].len
  BY <1>2, <1>3
<1>5. Tiling(blk2, W)
  BY <1>4 DEF Tiling
<1>6. Merged(blk2, W)
  BY <1>1, <1>2, <1>3, <1>4 DEF Merged
<1>7. Others(blk2, W, name) = Others(blk, W, name) /\ \A x \in Others(blk, W, name) : blk2[x] = blk[x]
  <2>1. o \notin Others(blk, W, name) /\ o \notin Others(blk2, W, name)
    BY <1>1, <1>2 DEF Others
  <2>. QED BY <1>3, <2>1 DEF Others
<1>8. Bearing(blk2, W, name) = Bearing(blk, W, name) \cup {o}
  BY <1>1, <1>2, <1>3 DEF Bearing
<1>. QED BY <1>2, <1>5, <1>6, <1>7, <1>8 DEF Edited, blk2

(* An entry takes the front of a longer free region, of which enough is     *)
(* left for a header.                                                       *)
LEMMA EntrySplits ==
  ASSUME NEW blk \in BlockContent, NEW W, Tiling(blk, W), Merged(blk, W),
         NEW o \in W, blk[o].name = "free",
         NEW name \in Names, NEW e, e = Entry(name, NameLen(name)),
         NEW rest \in Nat, rest >= 3, blk[o].len = e.len + rest
  PROVE  Edited(blk, W, Serialized(Serialized(blk, FreeRegion(rest), o + e.len), e, o),
                W \cup {o + e.len}, name, Bearing(blk, W, name) \cup {o})
<1>. DEFINE mid == o + e.len
            r == FreeRegion(rest)
            moved == Serialized(blk, r, mid)
            blk2 == Serialized(moved, e, o)
            W2 == W \cup {mid}
<1>1. /\ e \in [name : Tags, len : Nat] /\ e.name = name /\ e.len >= 3 /\ "free" \notin Names
      /\ r \in [name : Tags, len : Nat] /\ r.name = "free" /\ r.len = rest
      /\ o \in Offset /\ W \subseteq Offset /\ BlockLen \in Nat
  BY Lengths, DirectoryAssumption DEF Tiling, Names
<1>2. /\ o + blk[o].len <= BlockLen /\ o + blk[o].len = mid + rest
      /\ mid \in Offset /\ o < mid /\ o \in Nat /\ mid \in Nat
  BY <1>1, TilingGood DEF Offset
<1>3. moved \in BlockContent /\ moved[mid] = r
  BY <1>1, <1>2, SerializedAt
<1>. HIDE DEF r
<1>4. /\ blk2 \in BlockContent /\ blk2[o] = e /\ blk2[mid] = r
  <2>1. blk2 \in BlockContent /\ blk2[o] = e
    BY <1>1, <1>3, SerializedAt
  <2>2. mid >= o + e.len /\ mid # o
    BY <1>2
  <2>3. blk2[mid] = moved[mid]
    BY <1>1, <1>2, <1>3, <2>2, SerializedAt
  <2>. QED BY <1>3, <2>1, <2>3
<1>5. \A x \in W : x # o => x # mid /\ blk2[x] = blk[x] /\ (x < o \/ x >= mid + rest)
  <2>. SUFFICES ASSUME NEW x \in W, x # o
                PROVE  x # mid /\ blk2[x] = blk[x] /\ (x < o \/ x >= mid + rest)
    OBVIOUS
  <2>1. x \in Offset /\ x \in Int /\ (x < o \/ x >= mid + rest)
    <3>0. x \in Offset /\ BlockLen \in Nat
      BY <1>1
    <3>1. x \in Int /\ x \in Offset
      BY <3>0 DEF Offset
    <3>2. x <= o \/ x >= o + blk[o].len
      BY DEF Tiling
    <3>. QED BY <1>2, <3>1, <3>2
  <2>2. x # mid /\ (x < mid \/ x >= mid + r.len) /\ (x < o \/ x >= o + e.len)
    BY <1>1, <1>2, <2>1
  <2>3. moved[x] = blk[x]
    <3>. HIDE DEF mid
    <3>1. r \in [name : Tags, len : Nat] /\ mid \in Offset
      BY <1>1, <1>2
    <3>. QED BY <2>1, <2>2, <3>1, SerializedAt
  <2>4. blk2[x] = moved[x]
    BY <1>1, <1>3, <2>1, <2>2, SerializedAt
  <2>. QED BY <2>1, <2>2, <2>3, <2>4
<1>. HIDE DEF mid, moved, blk2
<1>6. mid = o + e.len
  BY DEF mid
<1>7. Tiling(blk2, W2)
  <2>1. W2 \subseteq Offset /\ 0 \in W2
    BY <1>1, <1>2 DEF Tiling
  <2>2. ASSUME NEW x \in W, x # o
        PROVE  /\ blk2[x].len >= 3 /\ x + blk2[x].len \in W2 \cup {BlockLen}
               /\ \A y \in W2 : y <= x \/ y >= x + blk2[x].len
    <3>1. /\ blk2[x] = blk[x] /\ blk[x].len >= 3 /\ x + blk[x].len \in W \cup {BlockLen}
          /\ \A y \in W : y <= x \/ y >= x + blk[x].len
      BY <1>5, <2>2 DEF Tiling
    <3>2. x \in Int /\ blk[x].len \in Nat
      BY <1>1, <2>2 DEF Offset, BlockContent
    <3>3. o <= x \/ o >= x + blk[x].len
      BY <3>1
    <3>4. mid <= x \/ mid >= x + blk[x].len
      BY <1>2, <1>5, <2>2, <3>2, <3>3
    <3>. QED BY <3>1, <3>4
  <2>3. /\ blk2[o].len >= 3 /\ o + blk2[o].len \in W2 \cup {BlockLen}
        /\ \A y \in W2 : y <= o \/ y >= o + blk2[o].len
    <3>1. \A y \in W2 : y \in Int
      BY <2>1 DEF Offset
    <3>. QED BY <1>1, <1>2, <1>4, <1>5, <1>6, <3>1
  <2>4. /\ blk2[mid].len >= 3 /\ mid + blk2[mid].len \in W2 \cup {BlockLen}
        /\ \A y \in W2 : y <= mid \/ y >= mid + blk2[mid].len
    <3>1. o + blk[o].len \in W \cup {BlockLen} /\ mid + blk2[mid].len = o + blk[o].len
      BY <1>1, <1>2, <1>4 DEF Tiling
    <3>2. \A y \in W2 : y \in Int
      BY <2>1 DEF Offset
    <3>. QED BY <1>1, <1>2, <1>4, <1>5, <3>1, <3>2
  <2>. QED BY <2>1, <2>2, <2>3, <2>4 DEF Tiling
<1>8. Merged(blk2, W2)
  <2>. SUFFICES ASSUME NEW x \in W2, NEW next \in W2, next = x + blk2[x].len,
                       blk2[x].name = "free", blk2[next].name = "free"
                PROVE  FALSE
    BY DEF Merged
  <2>1. x # o /\ next # o
    BY <1>1, <1>4
  <2>2. CASE x = mid
    <3>1. next = o + blk[o].len /\ next # mid
      BY <1>1, <1>2, <1>4, <2>2
    <3>2. next \in W /\ blk2[next] = blk[next]
      BY <1>5, <2>1, <3>1
    <3>. QED BY <3>1, <3>2 DEF Merged
  <2>3. CASE x # mid
    <3>1. x \in W /\ blk2[x] = blk[x] /\ next \in W \cup {BlockLen}
      BY <1>5, <2>1, <2>3 DEF Tiling
    <3>2. next \in W /\ blk2[next] = blk[next]
      BY <1>1, <1>2, <1>5, <2>1, <3>1 DEF Offset
    <3>. QED BY <3>1, <3>2 DEF Merged
  <2>. QED BY <2>2, <2>3
<1>9. Others(blk2, W2, name) = Others(blk, W, name) /\ \A x \in Others(blk, W, name) : blk2[x] = blk[x]
  <2>1. o \notin Others(blk, W, name) /\ o \notin Others(blk2, W2, name) /\ mid \notin Others(blk2, W2, name)
    BY <1>1, <1>4 DEF Others
  <2>. QED BY <1>5, <2>1 DEF Others
<1>10. Bearing(blk2, W2, name) = Bearing(blk, W, name) \cup {o}
  <2>1. blk2[mid].name # name /\ blk2[o].name = name
    BY <1>1, <1>4
  <2>. QED BY <1>5, <2>1 DEF Bearing
<1>. QED BY <1>4, <1>7, <1>8, <1>9, <1>10 DEF Edited, blk2, moved, mid, r

(* What free_region() takes for the start and the end of the region around  *)
(* the record at o.                                                         *)
RegionStart(blk, W, o, start) ==
  \/ start = o /\ \A x \in W : x + blk[x].len = o => blk[x].name # "free"
  \/ start \in W /\ start + blk[start].len = o /\ blk[start].name = "free"
RegionEnd(blk, W, next, end) ==
  \/ end = next /\ (next \in W => blk[next].name # "free")
  \/ next \in W /\ blk[next].name = "free" /\ end = next + blk[next].len

(* An entry is freed and merged with the free regions next to it.           *)
LEMMA RegionFreed ==
  ASSUME NEW blk \in BlockContent, NEW W, Tiling(blk, W), Merged(blk, W),
         NEW name \in Names, NEW o \in W, blk[o].name = name,
         NEW start, RegionStart(blk, W, o, start),
         NEW end, RegionEnd(blk, W, o + blk[o].len, end)
  PROVE  Edited(blk, W, Serialized(blk, FreeRegion(end - start), start),
                {x \in W : x <= start \/ x >= end}, name, Bearing(blk, W, name) \ {o})
<1>. DEFINE next == o + blk[o].len
            r == FreeRegion(end - start)
            blk2 == Serialized(blk, r, start)
            W2 == {x \in W : x <= start \/ x >= end}
<1>1. /\ "free" \notin Names /\ BlockLen \in Nat /\ W \subseteq Offset /\ 0 \in W
      /\ \A x \in W : x \in Nat /\ blk[x].len \in Nat /\ x + blk[x].len <= BlockLen
  <2>1. \A x \in W : x \in Nat /\ blk[x].len \in Nat /\ x + blk[x].len <= BlockLen
    BY TilingGood, DirectoryAssumption DEF Tiling, BlockContent, Offset
  <2>. QED BY <2>1, DirectoryAssumption DEF Tiling, Names
<1>2. \A x \in W : blk[x].len >= 3 /\ x + blk[x].len \in W \cup {BlockLen}
  BY DEF Tiling
<1>3. \A x, y \in W : y <= x \/ y >= x + blk[x].len
  BY DEF Tiling
<1>4. /\ start \in W /\ start \in Nat /\ start <= o
      /\ start # o => start + blk[start].len = o /\ blk[start].name = "free"
  BY <1>1, <1>2 DEF RegionStart
<1>5. /\ next \in W \cup {BlockLen} /\ next \in Nat /\ next <= BlockLen /\ o + 3 <= next
      /\ end \in W \cup {BlockLen} /\ end \in Nat /\ end <= BlockLen /\ next <= end
      /\ end # next => next \in W /\ blk[next].name = "free" /\ end = next + blk[next].len
  <2>1. next \in W \cup {BlockLen} /\ next \in Nat /\ next <= BlockLen /\ o + 3 <= next
    BY <1>1, <1>2
  <2>2. CASE end = next
    BY <2>1, <2>2
  <2>3. CASE next \in W /\ blk[next].name = "free" /\ end = next + blk[next].len
    <3>. HIDE DEF next
    <3>. QED BY <1>1, <1>2, <2>1, <2>3
  <2>. QED BY <2>2, <2>3 DEF RegionEnd
<1>. HIDE DEF next
<1>6. \A x \in W : x <= start \/ x >= end \/ x = o \/ (x = next /\ blk[next].name = "free")
  <2>. SUFFICES ASSUME NEW x \in W, x > start, x < end, x # o
                PROVE  x = next /\ blk[next].name = "free"
    BY <1>1, <1>4, <1>5
  <2>1. x >= o
    BY <1>1, <1>3, <1>4
  <2>2. x >= next
    BY <1>1, <1>3, <2>1 DEF next
  <2>3. end # next
    BY <1>1, <1>5, <2>2
  <2>4. x <= next \/ x >= end
    BY <1>3, <1>5, <2>3
  <2>. QED BY <1>1, <1>5, <2>2, <2>3, <2>4
<1>7. r = [name |-> "free", len |-> end - start] /\ r \in [name : Tags, len : Nat] /\ end - start >= 3
  <2>1. end - start \in Nat /\ end - start >= 3
    BY <1>1, <1>4, <1>5
  <2>. QED BY <2>1, Lengths
<1>8. blk2 \in BlockContent /\ blk2[start] = r
  BY <1>1, <1>4, <1>7, SerializedAt
<1>9. \A x \in W2 : x # start => x \in W /\ (x < start \/ x >= end) /\ blk2[x] = blk[x]
  <2>. SUFFICES ASSUME NEW x \in W, x <= start \/ x >= end, x # start
                PROVE  (x < start \/ x >= end) /\ blk2[x] = blk[x]
    OBVIOUS
  <2>1. x \in Offset /\ (x < start \/ x >= end)
    BY <1>1, <1>4
  <2>2. x < start \/ x >= start + r.len
    BY <1>4, <1>5, <1>7, <2>1
  <2>3. r \in [name : Tags, len : Nat] /\ start \in Offset
    BY <1>1, <1>4, <1>7
  <2>. HIDE DEF r
  <2>. QED BY <2>1, <2>2, <2>3, SerializedAt
<1>. HIDE DEF r, blk2
<1>10. /\ start \in W2 /\ W2 \subseteq W /\ end \in W2 \cup {BlockLen} /\ 0 \in W2
  BY <1>1, <1>4, <1>5
<1>11. blk2[start].name = "free" /\ start + blk2[start].len = end /\ blk2[start].len >= 3
  BY <1>4, <1>5, <1>7, <1>8
<1>12. ASSUME NEW x \in W2, x # start
       PROVE  /\ blk2[x] = blk[x] /\ x \in W /\ x + blk[x].len \in W2 \cup {BlockLen}
              /\ x < start => x + blk[x].len <= start
  <2>1. x \in W /\ (x < start \/ x >= end) /\ blk2[x] = blk[x]
    BY <1>9, <1>12
  <2>2. x + blk[x].len \in W \cup {BlockLen} /\ x \in Nat /\ blk[x].len \in Nat
    BY <1>1, <1>2, <2>1
  <2>3. x < start => x + blk[x].len <= start
    BY <1>3, <1>4, <2>1, <2>2
  <2>4. x >= end => x + blk[x].len >= end
    BY <1>5, <2>2
  <2>. QED BY <2>1, <2>2, <2>3, <2>4
<1>13. Tiling(blk2, W2)
  <2>1. ASSUME NEW x \in W2, x # start
        PROVE  /\ blk2[x].len >= 3 /\ x + blk2[x].len \in W2 \cup {BlockLen}
               /\ \A y \in W2 : y <= x \/ y >= x + blk2[x].len
    BY <1>2, <1>3, <1>12, <2>1
  <2>2. \A y \in W2 : y <= start \/ y >= start + blk2[start].len
    BY <1>11
  <2>. HIDE DEF W2
  <2>. QED BY <1>1, <1>10, <1>11, <2>1, <2>2 DEF Tiling
<1>14. Merged(blk2, W2)
  <2>. SUFFICES ASSUME NEW x \in W2, NEW y \in W2, y = x + blk2[x].len,
                       blk2[x].name = "free", blk2[y].name = "free"
                PROVE  FALSE
    BY DEF Merged
  <2>1. CASE x = start
    <3>1. y = end /\ y # start
      BY <1>4, <1>5, <1>11, <2>1
    <3>2. blk[end].name = "free" /\ end \in W
      BY <1>12, <3>1
    <3>3. next \in W /\ blk[next].name = "free" /\ end = next + blk[next].len
      BY <3>2 DEF RegionEnd, next
    <3>. QED BY <3>2, <3>3 DEF Merged
  <2>2. CASE x # start /\ y = start
    <3>1. x \in W /\ blk[x].name = "free" /\ x + blk[x].len = start
      BY <1>12, <2>2
    <3>2. start # o
      BY <1>1, <1>2, <3>1 DEF RegionStart
    <3>3. blk[start].name = "free"
      BY <1>4, <3>2
    <3>. QED BY <1>4, <3>1, <3>3 DEF Merged
  <2>3. CASE x # start /\ y # start
    <3>1. x \in W /\ y \in W /\ blk2[x] = blk[x] /\ blk2[y] = blk[y]
      BY <1>12, <2>3
    <3>. QED BY <3>1 DEF Merged
  <2>. QED BY <2>1, <2>2, <2>3
<1>15. Others(blk2, W2, name) = Others(blk, W, name) /\ \A x \in Others(blk, W, name) : blk2[x] = blk[x]
  <2>1. start \notin Others(blk2, W2, name)
    BY <1>1, <1>11 DEF Others
  <2>2. ASSUME NEW x \in Others(blk, W, name) PROVE x \in W2 /\ x # start
    <3>1. x \in W /\ blk[x].name # name /\ blk[x].name # "free"
      BY <1>1 DEF Others
    <3>2. x # o /\ x # start
      BY <1>4, <3>1
    <3>. QED BY <1>6, <3>1, <3>2
  <2>. HIDE DEF W2
  <2>. QED BY <1>12, <2>1, <2>2 DEF Others
<1>16. Bearing(blk2, W2, name) = Bearing(blk, W, name) \ {o}
  <2>1. ASSUME NEW x \in Bearing(blk, W, name), x # o PROVE x \in W2 /\ x # start
    <3>1. x \in W /\ blk[x].name # "free"
      BY <1>1 DEF Bearing
    <3>2. x # start
      BY <1>4, <2>1, <3>1
    <3>. QED BY <1>6, <2>1, <3>1, <3>2
  <2>2. o \in W2 => o = start
    BY <1>4, <1>5
  <2>3. start \notin Bearing(blk2, W2, name)
    BY <1>1, <1>11 DEF Bearing
  <2>. HIDE DEF W2
  <2>. QED BY <1>12, <2>1, <2>2, <2>3 DEF Bearing
<1>. HIDE DEF W2
<1>18. Edited(blk, W, blk2, W2, name, Bearing(blk, W, name) \ {o})
  BY <1>8, <1>13, <1>14, <1>15, <1>16 DEF Edited
<1>. QED BY <1>18 DEF blk2, r, W2

-----------------------------------------------------------------------------
(* New blocks                                                               *)

(* A block in which n records of 3 units or more stand in front of a free   *)
(* region has room for that region.  The records are dot and dotdot of a    *)
(* new directory, or the entry that did not fit in the other blocks.        *)
Roomy == /\ BlockLen >= 9
         /\ \A bytes \in {ShortBytes, LongBytes} : BlockLen >= min_record_len(bytes) + 3

(* The zeroed block.                                                        *)
LEMMA Zeroed == EmptyBlock \in BlockContent
<1>1. Zeros \in [name : Tags, len : Nat]
  BY DEF Zeros, Tags
<1>. QED BY <1>1 DEF EmptyBlock, BlockContent

(* A block opened for an entry.                                             *)
LEMMA BlockOpened ==
  ASSUME Roomy, NEW name \in Names, NEW e, e = Entry(name, NameLen(name))
  PROVE  LET blk == Serialized(Serialized(EmptyBlock, e, 0), FreeRegion(BlockLen - e.len), e.len)
         IN  /\ blk \in BlockContent /\ Tiling(blk, {0, e.len}) /\ Merged(blk, {0, e.len})
             /\ Others(blk, {0, e.len}, name) = {} /\ Bearing(blk, {0, e.len}, name) = {0}
<1>. DEFINE l == e.len
            r == FreeRegion(BlockLen - l)
            first == Serialized(EmptyBlock, e, 0)
            blk == Serialized(first, r, l)
<1>1. /\ e \in [name : Tags, len : Nat] /\ e.name = name /\ l \in 3 .. 19 /\ "free" \notin Names
      /\ BlockLen \in Nat
  BY Lengths, DirectoryAssumption DEF Names
<1>2. BlockLen >= l + 3
  BY DEF Roomy, Entry, NameLen
<1>3. r = [name |-> "free", len |-> BlockLen - l] /\ r \in [name : Tags, len : Nat]
  <2>1. BlockLen - l \in Nat /\ BlockLen - l >= 3
    BY <1>1, <1>2
  <2>. QED BY <2>1, Lengths
<1>. HIDE DEF l
<1>4. 0 \in Offset /\ l \in Offset
  BY <1>1, <1>2 DEF Offset
<1>5. first \in BlockContent /\ first[0] = e
  BY <1>1, <1>4, Zeroed, SerializedAt
<1>. HIDE DEF first, r
<1>6. blk \in BlockContent /\ blk[l] = r /\ blk[0] = e
  <2>1. 0 < l
    BY <1>1
  <2>. QED BY <1>3, <1>4, <1>5, <2>1, SerializedAt
<1>. HIDE DEF blk
<1>7. Tiling(blk, {0, l})
  <2>1. blk[0].len = l /\ l >= 3 /\ blk[l].len = BlockLen - l /\ BlockLen - l >= 3
    BY <1>1, <1>2, <1>3, <1>6 DEF l
  <2>2. 0 + l = l /\ l + (BlockLen - l) = BlockLen
    BY <1>1
  <2>. QED BY <1>1, <1>4, <2>1, <2>2 DEF Tiling
<1>8. Merged(blk, {0, l})
  <2>1. blk[0].name # "free" /\ blk[l].len # 0 /\ blk[l].len + l > l
    BY <1>1, <1>2, <1>3, <1>6
  <2>2. \A next \in {0, l} : next # l + blk[l].len
    BY <1>1, <2>1, <1>3, <1>6
  <2>. QED BY <2>1, <2>2 DEF Merged
<1>9. Others(blk, {0, l}, name) = {}
  BY <1>1, <1>3, <1>6 DEF Others
<1>10. Bearing(blk, {0, l}, name) = {0}
  BY <1>1, <1>3, <1>6 DEF Bearing
<1>. QED BY <1>6, <1>7, <1>8, <1>9, <1>10 DEF blk, first, r, l

(* The block of a new directory.                                            *)
LEMMA DirectoryOpened ==
  ASSUME Roomy
  PROVE  /\ NewDirectory \in BlockContent
         /\ Tiling(NewDirectory, {0, 3, 6}) /\ Merged(NewDirectory, {0, 3, 6})
         /\ NewDirectory[0].name = "." /\ NewDirectory[3].name = ".."
         /\ NewDirectory[6].name = "free"
<1>. DEFINE dot == Entry(".", 1)
            dotdot == Entry("..", 2)
            r == FreeRegion(BlockLen - 6)
            one == Serialized(EmptyBlock, dot, 0)
            two == Serialized(one, dotdot, 3)
            blk == Serialized(two, r, 6)
<1>1. /\ dot = [name |-> ".", len |-> 3] /\ dotdot = [name |-> "..", len |-> 3]
      /\ BlockLen \in Nat /\ BlockLen >= 9
  BY Lengths, DirectoryAssumption DEF Roomy
<1>2. r = [name |-> "free", len |-> BlockLen - 6] /\ r \in [name : Tags, len : Nat]
  <2>1. BlockLen - 6 \in Nat /\ BlockLen - 6 >= 3
    BY <1>1
  <2>. QED BY <2>1, Lengths
<1>3. dot \in [name : Tags, len : Nat] /\ dotdot \in [name : Tags, len : Nat]
  BY <1>1 DEF Tags
<1>4. 0 \in Offset /\ 3 \in Offset /\ 6 \in Offset
  BY <1>1 DEF Offset
<1>5. NewDirectory = blk
  <2>1. dot.len = 3 /\ dotdot.len = 3 /\ dot.len + dotdot.len = 6
        /\ BlockLen - dot.len - dotdot.len = BlockLen - 6
    BY <1>1
  <2>. QED BY <2>1 DEF NewDirectory
<1>. HIDE DEF dot, dotdot, r
<1>6. one \in BlockContent /\ one[0] = dot
  BY <1>3, <1>4, Zeroed, SerializedAt
<1>. HIDE DEF one
<1>7. two \in BlockContent /\ two[3] = dotdot /\ two[0] = dot
  <2>1. two \in BlockContent /\ two[3] = dotdot
    BY <1>3, <1>4, <1>6, SerializedAt
  <2>2. two[0] = one[0]
    <3>1. \A o \in Offset : o < 3 => o = 3 \/ two[o] = one[o]
      BY <1>3, <1>4, <1>6, SerializedAt
    <3>. QED BY <1>4, <3>1, 0 < 3, 0 # 3
  <2>. QED BY <1>6, <2>1, <2>2
<1>. HIDE DEF two
<1>8. blk \in BlockContent /\ blk[6] = r /\ blk[3] = dotdot /\ blk[0] = dot
  <2>1. blk \in BlockContent /\ blk[6] = r
    BY <1>2, <1>4, <1>7, SerializedAt
  <2>2. blk[3] = two[3]
    BY <1>2, <1>4, <1>7, SerializedAt, 3 < 6, 3 # 6
  <2>3. blk[0] = two[0]
    BY <1>2, <1>4, <1>7, SerializedAt, 0 < 6, 0 # 6
  <2>. QED BY <1>7, <2>1, <2>2, <2>3
<1>. HIDE DEF blk
<1>9. Tiling(blk, {0, 3, 6})
  <2>1. blk[0].len = 3 /\ blk[3].len = 3 /\ blk[6].len = BlockLen - 6 /\ BlockLen - 6 >= 3
    BY <1>1, <1>2, <1>8
  <2>2. 6 + (BlockLen - 6) = BlockLen
    BY <1>1
  <2>. QED BY <1>1, <1>4, <2>1, <2>2 DEF Tiling
<1>10. Merged(blk, {0, 3, 6})
  <2>1. blk[0].name # "free" /\ blk[3].name # "free"
    BY <1>1, <1>8
  <2>2. \A next \in {0, 3, 6} : next # 6 + blk[6].len
    BY <1>1, <1>2, <1>8
  <2>. QED BY <2>1, <2>2 DEF Merged
<1>11. blk[0].name = "." /\ blk[3].name = ".." /\ blk[6].name = "free"
  BY <1>1, <1>2, <1>8
<1>. QED BY <1>5, <1>8, <1>9, <1>10, <1>11

-----------------------------------------------------------------------------
(* The directory                                                            *)

(* The inductive invariant: every block is tiled by the records the walk    *)
(* visits, and its free regions are merged.                                 *)
TiledIn(bs) == /\ bs \in Seq(BlockContent)
               /\ \A k \in DOMAIN bs : /\ Tiling(bs[k], Visited(bs[k]))
                                       /\ Merged(bs[k], Visited(bs[k]))
IInv == TiledIn(blocks)

(* What an operation on one name does to the directory: it edits block k,   *)
(* where the records at now are then those of the name, or adds a block.    *)
OneBlock(bs, bs2, name, k, now) ==
  \E blk2, W2 : /\ bs2 = [bs EXCEPT ![k] = blk2]
                /\ Edited(bs[k], Visited(bs[k]), blk2, W2, name, now)
BlockMore(bs, bs2, name) ==
  \E blk2, W2 : /\ bs2 = Append(bs, blk2)
                /\ blk2 \in BlockContent /\ Tiling(blk2, W2) /\ Merged(blk2, W2)
                /\ Others(blk2, W2, name) = {} /\ Bearing(blk2, W2, name) = {0}

(* The records of the name in a block.                                      *)
BearingIn(bs, k, name) == Bearing(bs[k], Visited(bs[k]), name)

(* An insertion: one record more of the name.                               *)
Added(bs, bs2, name) ==
  \/ \E k \in DOMAIN bs : \E o : OneBlock(bs, bs2, name, k, BearingIn(bs, k, name) \cup {o})
  \/ BlockMore(bs, bs2, name)

(* A removal: one record less.                                              *)
Removed(bs, bs2, name) ==
  \E k \in DOMAIN bs : \E o \in BearingIn(bs, k, name) :
    OneBlock(bs, bs2, name, k, BearingIn(bs, k, name) \ {o})

(* Readable, Held and Allocated of directory bs.                            *)
ReadableIn(bs) ==
  UNION {{<<k, o>> : o \in {o \in Visited(bs[k]) : ~Bad(bs[k], o)}} :
           k \in {k \in DOMAIN bs : \A j \in 1 .. k - 1 : ~BadBlock(bs[j])}}
At(bs, pos) == bs[pos[1]][pos[2]]
HeldIn(bs) == {<<pos, At(bs, pos)>> : pos \in {pos \in ReadableIn(bs) : At(bs, pos).name \in Names}}
AllocatedIn(bs) == {pos \in ReadableIn(bs) : At(bs, pos).name # "free"}

(* Everything can be read.                                                  *)
LEMMA AllRead ==
  ASSUME NEW bs, TiledIn(bs)
  PROVE  /\ \A k \in DOMAIN bs : ~BadBlock(bs[k])
         /\ \A pos : pos \in ReadableIn(bs) <=>
              \E k \in DOMAIN bs : \E o \in Visited(bs[k]) : pos = <<k, o>>
<1>1. ASSUME NEW k \in DOMAIN bs, NEW o \in Visited(bs[k]) PROVE ~Bad(bs[k], o)
  <2>1. bs[k] \in BlockContent /\ Tiling(bs[k], Visited(bs[k]))
    BY DEF TiledIn
  <2>. QED BY <2>1, TilingGood
<1>2. \A k \in DOMAIN bs : ~BadBlock(bs[k])
  BY <1>1 DEF BadBlock
<1>3. \A k \in DOMAIN bs : \A j \in 1 .. k - 1 : j \in DOMAIN bs
  BY DEF TiledIn
<1>. QED BY <1>1, <1>2, <1>3 DEF ReadableIn

(* A position is a block and an offset.                                     *)
LEMMA AllocatedPlaces ==
  ASSUME NEW bs, TiledIn(bs)
  PROVE  /\ \A k, o : <<k, o>> \in AllocatedIn(bs) <=>
              k \in DOMAIN bs /\ o \in Visited(bs[k]) /\ bs[k][o].name # "free"
         /\ \A pos \in AllocatedIn(bs) : pos = <<pos[1], pos[2]>>
<1>1. \A pos : pos \in ReadableIn(bs) <=>
        \E k \in DOMAIN bs : \E o \in Visited(bs[k]) : pos = <<k, o>>
  BY AllRead
<1>2. \A k, o : <<k, o>> \in ReadableIn(bs) <=> k \in DOMAIN bs /\ o \in Visited(bs[k])
  BY <1>1
<1>3. \A k, o : At(bs, <<k, o>>) = bs[k][o]
  BY DEF At
<1>4. \A pos \in ReadableIn(bs) : pos = <<pos[1], pos[2]>>
  BY <1>1
<1>. QED BY <1>2, <1>3, <1>4 DEF AllocatedIn

(* The places of the records of other names, and of the name.               *)
Rest(bs, name) == {pos \in AllocatedIn(bs) : At(bs, pos).name # name}
Bearers(bs, name) == {pos \in AllocatedIn(bs) : At(bs, pos).name = name}

(* Both, in terms of the blocks.                                            *)
LEMMA RestPlaces ==
  ASSUME NEW bs, TiledIn(bs), NEW name \in Names
  PROVE  /\ \A k, o : <<k, o>> \in Rest(bs, name) <=>
              k \in DOMAIN bs /\ o \in Others(bs[k], Visited(bs[k]), name)
         /\ \A k, o : <<k, o>> \in Bearers(bs, name) <=>
              k \in DOMAIN bs /\ o \in BearingIn(bs, k, name)
         /\ \A pos \in Rest(bs, name) \cup Bearers(bs, name) : pos = <<pos[1], pos[2]>>
<1>1. \A k, o : At(bs, <<k, o>>) = bs[k][o]
  BY DEF At
<1>2. name # "free"
  BY DirectoryAssumption DEF Names
<1>. QED BY <1>1, <1>2, AllocatedPlaces DEF Rest, Bearers, Others, Bearing, BearingIn

(* An operation keeps the invariant and the records of the other names.     *)
Keeps(bs, bs2, name) ==
  /\ TiledIn(bs2)
  /\ Rest(bs2, name) = Rest(bs, name)
  /\ \A pos \in Rest(bs, name) : At(bs2, pos) = At(bs, pos)

(* An operation that edits one block.                                       *)
LEMMA BlockEdited ==
  ASSUME NEW bs, NEW bs2, TiledIn(bs), NEW name \in Names, NEW k \in DOMAIN bs, NEW now,
         OneBlock(bs, bs2, name, k, now)
  PROVE  /\ Keeps(bs, bs2, name)
         /\ Bearers(bs2, name) = {p \in Bearers(bs, name) : p[1] # k} \cup {<<k, o>> : o \in now}
<1>0. bs \in Seq(BlockContent)
  BY DEF TiledIn
<1>1. PICK blk2, W2 : /\ bs2 = [bs EXCEPT ![k] = blk2]
                      /\ Edited(bs[k], Visited(bs[k]), blk2, W2, name, now)
  BY DEF OneBlock
<1>2. blk2 \in BlockContent /\ Visited(blk2) = W2
  BY <1>1, VisitedIs DEF Edited
<1>3. /\ bs2 \in Seq(BlockContent) /\ DOMAIN bs2 = DOMAIN bs /\ bs2[k] = blk2
      /\ \A j \in DOMAIN bs : j # k => bs2[j] = bs[j]
  BY <1>0, <1>1, <1>2
<1>4. TiledIn(bs2)
  BY <1>1, <1>2, <1>3 DEF TiledIn, Edited
<1>5. ASSUME NEW j \in DOMAIN bs
      PROVE  /\ Others(bs2[j], Visited(bs2[j]), name) = Others(bs[j], Visited(bs[j]), name)
             /\ \A o \in Others(bs[j], Visited(bs[j]), name) : bs2[j][o] = bs[j][o]
  BY <1>1, <1>2, <1>3 DEF Edited
<1>6. Rest(bs2, name) = Rest(bs, name) /\ \A pos \in Rest(bs, name) : At(bs2, pos) = At(bs, pos)
  <2>1. ASSUME NEW pos \in Rest(bs2, name) PROVE pos \in Rest(bs, name)
    BY <1>3, <1>4, <1>5, RestPlaces
  <2>2. ASSUME NEW pos \in Rest(bs, name) PROVE pos \in Rest(bs2, name) /\ At(bs2, pos) = At(bs, pos)
    <3>1. pos = <<pos[1], pos[2]>> /\ pos[1] \in DOMAIN bs
          /\ pos[2] \in Others(bs[pos[1]], Visited(bs[pos[1]]), name)
      BY RestPlaces
    <3>2. At(bs2, pos) = At(bs, pos)
      BY <1>5, <3>1 DEF At
    <3>. QED BY <1>3, <1>4, <1>5, <3>1, <3>2, RestPlaces
  <2>. QED BY <2>1, <2>2
<1>7. BearingIn(bs2, k, name) = now /\ \A j \in DOMAIN bs : j # k => BearingIn(bs2, j, name) = BearingIn(bs, j, name)
  BY <1>1, <1>2, <1>3 DEF Edited, BearingIn
<1>8. Bearers(bs2, name) = {p \in Bearers(bs, name) : p[1] # k} \cup {<<k, o>> : o \in now}
  <2>1. ASSUME NEW p \in Bearers(bs2, name)
        PROVE  p \in {q \in Bearers(bs, name) : q[1] # k} \cup {<<k, o>> : o \in now}
    <3>1. p = <<p[1], p[2]>> /\ p[1] \in DOMAIN bs2 /\ p[2] \in BearingIn(bs2, p[1], name)
      BY <1>4, RestPlaces
    <3>. QED BY <1>3, <1>7, <3>1, RestPlaces
  <2>2. ASSUME NEW p \in Bearers(bs, name), p[1] # k PROVE p \in Bearers(bs2, name)
    <3>1. p = <<p[1], p[2]>> /\ p[1] \in DOMAIN bs /\ p[2] \in BearingIn(bs, p[1], name)
      BY RestPlaces
    <3>. QED BY <1>3, <1>4, <1>7, <2>2, <3>1, RestPlaces
  <2>3. ASSUME NEW o \in now PROVE <<k, o>> \in Bearers(bs2, name)
    BY <1>3, <1>4, <1>7, RestPlaces
  <2>. QED BY <2>1, <2>2, <2>3
<1>. QED BY <1>4, <1>6, <1>8 DEF Keeps

(* An operation that adds a block.                                          *)
LEMMA BlockAdded ==
  ASSUME NEW bs, NEW bs2, TiledIn(bs), NEW name \in Names, BlockMore(bs, bs2, name)
  PROVE  /\ Keeps(bs, bs2, name)
         /\ Bearers(bs2, name) = Bearers(bs, name) \cup {<<Len(bs) + 1, 0>>}
<1>0. bs \in Seq(BlockContent)
  BY DEF TiledIn
<1>1. PICK blk2, W2 : /\ bs2 = Append(bs, blk2)
                      /\ blk2 \in BlockContent /\ Tiling(blk2, W2) /\ Merged(blk2, W2)
                      /\ Others(blk2, W2, name) = {} /\ Bearing(blk2, W2, name) = {0}
  BY DEF BlockMore
<1>2. Visited(blk2) = W2
  BY <1>1, VisitedIs
<1>. DEFINE n == Len(bs) + 1
<1>3. /\ bs2 \in Seq(BlockContent) /\ DOMAIN bs2 = DOMAIN bs \cup {n} /\ bs2[n] = blk2
      /\ n \notin DOMAIN bs /\ \A j \in DOMAIN bs : bs2[j] = bs[j]
  BY <1>0, <1>1
<1>. HIDE DEF n
<1>4. TiledIn(bs2)
  BY <1>1, <1>2, <1>3 DEF TiledIn
<1>5. /\ Others(bs2[n], Visited(bs2[n]), name) = {} /\ BearingIn(bs2, n, name) = {0}
      /\ \A j \in DOMAIN bs : BearingIn(bs2, j, name) = BearingIn(bs, j, name)
  BY <1>1, <1>2, <1>3 DEF BearingIn
<1>6. Rest(bs2, name) = Rest(bs, name) /\ \A pos \in Rest(bs, name) : At(bs2, pos) = At(bs, pos)
  <2>1. ASSUME NEW pos \in Rest(bs2, name) PROVE pos \in Rest(bs, name)
    <3>1. pos = <<pos[1], pos[2]>> /\ pos[1] \in DOMAIN bs2
          /\ pos[2] \in Others(bs2[pos[1]], Visited(bs2[pos[1]]), name)
      BY <1>4, RestPlaces
    <3>2. pos[1] \in DOMAIN bs
      BY <1>3, <1>5, <3>1
    <3>. QED BY <1>3, <3>1, <3>2, RestPlaces
  <2>2. ASSUME NEW pos \in Rest(bs, name) PROVE pos \in Rest(bs2, name) /\ At(bs2, pos) = At(bs, pos)
    <3>1. pos = <<pos[1], pos[2]>> /\ pos[1] \in DOMAIN bs
          /\ pos[2] \in Others(bs[pos[1]], Visited(bs[pos[1]]), name)
      BY RestPlaces
    <3>2. At(bs2, pos) = At(bs, pos)
      BY <1>3, <3>1 DEF At
    <3>. QED BY <1>3, <1>4, <3>1, <3>2, RestPlaces
  <2>. QED BY <2>1, <2>2
<1>7. Bearers(bs2, name) = Bearers(bs, name) \cup {<<n, 0>>}
  <2>1. ASSUME NEW p \in Bearers(bs2, name) PROVE p \in Bearers(bs, name) \cup {<<n, 0>>}
    <3>1. p = <<p[1], p[2]>> /\ p[1] \in DOMAIN bs2 /\ p[2] \in BearingIn(bs2, p[1], name)
      BY <1>4, RestPlaces
    <3>. QED BY <1>3, <1>5, <3>1, RestPlaces
  <2>2. ASSUME NEW p \in Bearers(bs, name) PROVE p \in Bearers(bs2, name)
    <3>1. p = <<p[1], p[2]>> /\ p[1] \in DOMAIN bs /\ p[2] \in BearingIn(bs, p[1], name)
      BY RestPlaces
    <3>. QED BY <1>3, <1>4, <1>5, <3>1, RestPlaces
  <2>3. <<n, 0>> \in Bearers(bs2, name)
    BY <1>3, <1>4, <1>5, RestPlaces
  <2>. QED BY <2>1, <2>2, <2>3
<1>. QED BY <1>4, <1>6, <1>7 DEF Keeps, n

(* An insertion gives the name one place more.                              *)
OneMore(places, places2) == \E p : places2 = places \cup {p}

(* The other names, and this one.                                           *)
LEMMA AddedKeeps ==
  ASSUME NEW bs, NEW bs2, TiledIn(bs), NEW name \in Names, Added(bs, bs2, name)
  PROVE  /\ Keeps(bs, bs2, name)
         /\ OneMore(Bearers(bs, name), Bearers(bs2, name))
<1>1. CASE BlockMore(bs, bs2, name)
  BY <1>1, BlockAdded DEF OneMore
<1>2. CASE \E k \in DOMAIN bs : \E o : OneBlock(bs, bs2, name, k, BearingIn(bs, k, name) \cup {o})
  <2>1. PICK k \in DOMAIN bs : \E o : OneBlock(bs, bs2, name, k, BearingIn(bs, k, name) \cup {o})
    BY <1>2
  <2>2. PICK o : OneBlock(bs, bs2, name, k, BearingIn(bs, k, name) \cup {o})
    BY <2>1
  <2>. DEFINE now == BearingIn(bs, k, name) \cup {o}
  <2>3. /\ Keeps(bs, bs2, name)
        /\ Bearers(bs2, name) = {p \in Bearers(bs, name) : p[1] # k} \cup {<<k, x>> : x \in now}
    <3>. HIDE DEF now
    <3>. QED BY <2>2, BlockEdited DEF now
  <2>4. \A p \in Bearers(bs, name) : p[1] = k => \E x \in now : p = <<k, x>>
    BY RestPlaces
  <2>5. \A x \in BearingIn(bs, k, name) : <<k, x>> \in Bearers(bs, name)
    BY RestPlaces
  <2>6. Bearers(bs2, name) = Bearers(bs, name) \cup {<<k, o>>}
    BY <2>3, <2>4, <2>5
  <2>. QED BY <2>3, <2>6 DEF OneMore
<1>. QED BY <1>1, <1>2 DEF Added

(* A removal takes one.                                                     *)
LEMMA RemovedKeeps ==
  ASSUME NEW bs, NEW bs2, TiledIn(bs), NEW name \in Names, Removed(bs, bs2, name)
  PROVE  /\ Keeps(bs, bs2, name)
         /\ \E p \in Bearers(bs, name) : Bearers(bs2, name) = Bearers(bs, name) \ {p}
<1>1. PICK k \in DOMAIN bs : \E o \in BearingIn(bs, k, name) :
        OneBlock(bs, bs2, name, k, BearingIn(bs, k, name) \ {o})
  BY DEF Removed
<1>2. PICK o \in BearingIn(bs, k, name) : OneBlock(bs, bs2, name, k, BearingIn(bs, k, name) \ {o})
  BY <1>1
<1>. DEFINE now == BearingIn(bs, k, name) \ {o}
<1>3. /\ Keeps(bs, bs2, name)
      /\ Bearers(bs2, name) = {p \in Bearers(bs, name) : p[1] # k} \cup {<<k, x>> : x \in now}
  <2>. HIDE DEF now
  <2>. QED BY <1>2, BlockEdited DEF now
<1>4. \A p \in Bearers(bs, name) : p[1] = k => \E x \in BearingIn(bs, k, name) : p = <<k, x>>
  BY RestPlaces
<1>5. \A x \in BearingIn(bs, k, name) : <<k, x>> \in Bearers(bs, name)
  BY RestPlaces
<1>6. Bearers(bs2, name) = Bearers(bs, name) \ {<<k, o>>}
  BY <1>3, <1>4, <1>5
<1>. QED BY <1>3, <1>5, <1>6

(* The records that hold other names, with their places.                    *)
LEMMA HeldKept ==
  ASSUME NEW bs, NEW bs2, NEW name \in Names, Keeps(bs, bs2, name)
  PROVE  {x \in HeldIn(bs) : x[2].name # name} = {x \in HeldIn(bs2) : x[2].name # name}
<1>0. "free" \notin Names
  BY DirectoryAssumption DEF Names
<1>1. ASSUME NEW d, NEW x
      PROVE  x \in HeldIn(d) /\ x[2].name # name <=>
               \E pos \in Rest(d, name) : At(d, pos).name \in Names /\ x = <<pos, At(d, pos)>>
  BY <1>0 DEF HeldIn, Rest, AllocatedIn
<1>2. \A x : x \in HeldIn(bs) /\ x[2].name # name <=> x \in HeldIn(bs2) /\ x[2].name # name
  BY <1>1 DEF Keeps
<1>. QED BY <1>2

-----------------------------------------------------------------------------
(* The operations                                                           *)

(* First is the first in the order of iterate().                            *)
LEMMA FirstIn ==
  ASSUME NEW P \in SUBSET (Nat \X Nat), P # {}
  PROVE  First(P) \in P
<1>1. PICK b \in {p[1] : p \in P} : \A y \in {p[1] : p \in P} : b <= y
  <2>1. {p[1] : p \in P} \in SUBSET Nat /\ {p[1] : p \in P} # {}
    OBVIOUS
  <2>. HIDE DEF First
  <2>. QED BY <2>1, Least
<1>. DEFINE T == {p[2] : p \in {q \in P : q[1] = b}}
<1>2. PICK o \in T : \A y \in T : o <= y
  <2>1. T \in SUBSET Nat /\ T # {}
    BY <1>1
  <2>. HIDE DEF T
  <2>. QED BY <2>1, Least
<1>3. PICK x \in P : x[1] = b /\ x[2] = o
  BY <1>2
<1>4. ASSUME NEW y \in P PROVE x[1] < y[1] \/ (x[1] = y[1] /\ x[2] <= y[2])
  <2>1. x[1] \in Nat /\ y[1] \in Nat /\ x[1] <= y[1]
    BY <1>1, <1>3
  <2>2. x[1] = y[1] => x[2] <= y[2]
    BY <1>2, <1>3
  <2>. QED BY <2>1, <2>2
<1>. QED BY <1>3, <1>4 DEF First

(* A position with a record that can be read.                               *)
LEMMA Placed ==
  ASSUME IInv
  PROVE  /\ Readable \in SUBSET (Nat \X Nat)
         /\ \A pos \in Readable : /\ pos[1] \in DOMAIN blocks /\ pos[2] \in Visited(blocks[pos[1]])
                                  /\ blocks[pos[1]] \in BlockContent
                                  /\ Tiling(blocks[pos[1]], Visited(blocks[pos[1]]))
                                  /\ Merged(blocks[pos[1]], Visited(blocks[pos[1]]))
<1>1. Readable = ReadableIn(blocks)
  BY DEF Readable, ReadableIn
<1>2. ASSUME NEW pos \in Readable
      PROVE  /\ pos \in Nat \X Nat
             /\ pos[1] \in DOMAIN blocks /\ pos[2] \in Visited(blocks[pos[1]])
             /\ blocks[pos[1]] \in BlockContent
             /\ Tiling(blocks[pos[1]], Visited(blocks[pos[1]]))
             /\ Merged(blocks[pos[1]], Visited(blocks[pos[1]]))
  <2>1. PICK k \in DOMAIN blocks : \E o \in Visited(blocks[k]) : pos = <<k, o>>
    BY <1>1, AllRead DEF IInv
  <2>2. PICK o \in Visited(blocks[k]) : pos = <<k, o>>
    BY <2>1
  <2>3. /\ blocks[k] \in BlockContent /\ k \in Nat
        /\ Tiling(blocks[k], Visited(blocks[k])) /\ Merged(blocks[k], Visited(blocks[k]))
    BY DEF IInv, TiledIn
  <2>4. o \in Nat
    BY <2>3, DirectoryAssumption DEF Tiling, Offset
  <2>. QED BY <2>2, <2>3, <2>4
<1>. QED BY <1>2

(* The insertion leaves as much as the shortest free region, for which      *)
(* add_entry_here writes no header.                                         *)
LeavesHole(name) == /\ Fit(RecordLen(name)) # {}
                    /\ Rec(First(Fit(RecordLen(name)))).len = RecordLen(name) + min_free_size

(* An insertion fills or splits a free region, or opens a block.            *)
LEMMA AddStep ==
  ASSUME IInv, Roomy, NEW name \in Names, add(name), ~LeavesHole(name)
  PROVE  Added(blocks, blocks', name)
<1>. DEFINE e == Entry(name, NameLen(name))
<1>1. e.len = RecordLen(name) /\ e.len \in Nat /\ e.len >= 3 /\ min_free_size = 2
  BY Lengths DEF RecordLen, min_free_size
<1>2. CASE Fit(e.len) # {} /\ blocks' = add_entry_here(e, First(Fit(e.len)))
  <2>. DEFINE pos == First(Fit(e.len))
              k == pos[1]
              o == pos[2]
              blk == blocks[k]
              W == Visited(blk)
              rest == Rec(pos).len - e.len
              moved == IF rest > min_free_size
                         THEN Serialized(blk, FreeRegion(rest), o + e.len) ELSE blk
  <2>1. pos \in Fit(e.len)
    <3>. HIDE DEF e
    <3>1. Fit(e.len) \in SUBSET (Nat \X Nat)
      BY Placed DEF Fit
    <3>. QED BY <1>2, <3>1, FirstIn
  <2>2. blocks' = [blocks EXCEPT ![k] = Serialized(moved, e, o)]
    BY <1>2 DEF add_entry_here
  <2>3. Rec(pos).len # e.len + 2
    BY <1>1, <1>2 DEF LeavesHole
  <2>. HIDE DEF pos, e
  <2>4. /\ k \in DOMAIN blocks /\ o \in W /\ blk \in BlockContent
        /\ Tiling(blk, W) /\ Merged(blk, W)
    BY <2>1, Placed DEF Fit
  <2>5. Rec(pos) = blk[o] /\ blk[o].name = "free" /\ BigEnough(blk[o].len, e.len)
    BY <2>1 DEF Fit, Rec
  <2>6. blk[o].len \in Nat
    BY <2>4 DEF Tiling, BlockContent
  <2>7. CASE blk[o].len = e.len
    <3>1. moved = blk
      BY <1>1, <2>5, <2>7
    <3>2. Edited(blk, W, Serialized(blk, e, o), W, name, Bearing(blk, W, name) \cup {o})
      <4>. HIDE DEF k, o, blk, W
      <4>1. e = Entry(name, NameLen(name))
        BY DEF e
      <4>. QED BY <2>4, <2>5, <2>7, <4>1, EntryFills
    <3>. QED BY <2>2, <2>4, <3>1, <3>2 DEF OneBlock, Added, BearingIn
  <2>8. CASE blk[o].len # e.len
    <3>1. rest \in Nat /\ rest >= 3 /\ blk[o].len = e.len + rest
      BY <1>1, <2>3, <2>5, <2>6, <2>8 DEF BigEnough
    <3>2. moved = Serialized(blk, FreeRegion(rest), o + e.len)
      BY <1>1, <3>1
    <3>3. Edited(blk, W, Serialized(moved, e, o), W \cup {o + e.len}, name,
                 Bearing(blk, W, name) \cup {o})
      <4>. HIDE DEF k, o, blk, W, rest
      <4>1. e = Entry(name, NameLen(name))
        BY DEF e
      <4>2. Edited(blk, W, Serialized(Serialized(blk, FreeRegion(rest), o + e.len), e, o),
                   W \cup {o + e.len}, name, Bearing(blk, W, name) \cup {o})
        BY <2>4, <2>5, <3>1, <4>1, EntrySplits
      <4>. QED BY <3>2, <4>2
    <3>. HIDE DEF moved
    <3>. QED BY <2>2, <2>4, <3>3 DEF OneBlock, Added, BearingIn
  <2>. QED BY <2>7, <2>8
<1>3. CASE blocks' = add_entry_grow(e)
  <2>. DEFINE blk == Serialized(Serialized(EmptyBlock, e, 0), FreeRegion(BlockLen - e.len), e.len)
  <2>1. blocks' = Append(blocks, blk)
    BY <1>3 DEF add_entry_grow
  <2>. HIDE DEF e
  <2>2. e = Entry(name, NameLen(name))
    BY DEF e
  <2>3. /\ blk \in BlockContent /\ Tiling(blk, {0, e.len}) /\ Merged(blk, {0, e.len})
        /\ Others(blk, {0, e.len}, name) = {} /\ Bearing(blk, {0, e.len}, name) = {0}
    BY <2>2, BlockOpened
  <2>. HIDE DEF blk
  <2>. QED BY <2>1, <2>3 DEF BlockMore, Added
<1>. QED BY <1>2, <1>3 DEF add

(* A removal frees one record and merges it with its neighbours.            *)
LEMMA RemoveStep ==
  ASSUME IInv, NEW name \in Names, remove(name)
  PROVE  Removed(blocks, blocks', name)
<1>. DEFINE pos == First(Find(name))
            k == pos[1]
            o == pos[2]
            blk == blocks[k]
            W == Visited(blk)
            next == o + Rec(pos).len
            start == IF Preceding(blk, o) = {} THEN o ELSE CHOOSE x \in Preceding(blk, o) : TRUE
            end == IF Following(blk, next) = {} THEN next ELSE next + blk[next].len
<1>1. pos \in Find(name)
  <2>1. Find(name) \in SUBSET (Nat \X Nat)
    BY Placed DEF Find
  <2>2. Find(name) # {}
    BY DEF remove, Listed, Find
  <2>. QED BY <2>1, <2>2, FirstIn
<1>2. blocks' = [blocks EXCEPT ![k] = Serialized(blk, FreeRegion(end - start), start)]
  BY DEF remove, free_region
<1>. HIDE DEF pos
<1>3. /\ k \in DOMAIN blocks /\ o \in W /\ blk \in BlockContent
      /\ Tiling(blk, W) /\ Merged(blk, W)
  BY <1>1, Placed DEF Find
<1>4. Rec(pos) = blk[o] /\ blk[o].name = name
  BY <1>1 DEF Find, Rec
<1>. HIDE DEF k, o, blk, W
<1>5. RegionStart(blk, W, o, start)
  <2>1. \A x : x \in Preceding(blk, o) <=> x \in W /\ x + blk[x].len = o /\ blk[x].name = "free"
    BY DEF Preceding, W
  <2>2. CASE Preceding(blk, o) = {}
    BY <2>1, <2>2 DEF RegionStart
  <2>3. CASE Preceding(blk, o) # {}
    <3>1. start \in Preceding(blk, o)
      BY <2>3
    <3>. HIDE DEF start
    <3>. QED BY <2>1, <3>1 DEF RegionStart
  <2>. QED BY <2>2, <2>3
<1>6. RegionEnd(blk, W, o + blk[o].len, end)
  <2>1. next = o + blk[o].len
    BY <1>4
  <2>2. next \in W \cup {BlockLen} /\ W \subseteq Offset
    BY <1>3, <2>1 DEF Tiling
  <2>3. next \in Offset <=> next \in W
    <3>. HIDE DEF next
    <3>1. BlockLen \notin Offset
      BY DirectoryAssumption DEF Offset
    <3>. QED BY <2>2, <3>1
  <2>4. Following(blk, next) = {} <=> (next \in W => blk[next].name # "free")
    <3>. HIDE DEF next
    <3>. QED BY <2>3 DEF Following
  <2>. HIDE DEF next
  <2>. QED BY <2>1, <2>2, <2>3, <2>4 DEF RegionEnd
<1>. HIDE DEF start, end
<1>7. Edited(blk, W, Serialized(blk, FreeRegion(end - start), start),
             {x \in W : x <= start \/ x >= end}, name, Bearing(blk, W, name) \ {o})
  BY <1>3, <1>4, <1>5, <1>6, RegionFreed
<1>8. W = Visited(blocks[k]) /\ blk = blocks[k]
  BY DEF W, blk
<1>9. OneBlock(blocks, blocks', name, k, BearingIn(blocks, k, name) \ {o})
  BY <1>2, <1>7, <1>8 DEF OneBlock, BearingIn
<1>10. o \in BearingIn(blocks, k, name)
  BY <1>3, <1>4, <1>8 DEF BearingIn, Bearing
<1>. QED BY <1>3, <1>9, <1>10 DEF Removed

-----------------------------------------------------------------------------
(* The theorems                                                             *)

(* No insertion leaves a hole.                                              *)
NoHole == \A name \in Names : add(name) => ~LeavesHole(name)

(* The step of OthersKept.                                                  *)
StepKeeps ==
  LET before == Held
      after  == Held'
  IN  \E name \in Names : {r \in before : r[2].name # name} = {r \in after : r[2].name # name}

(* The new directory.                                                       *)
LEMMA IInvInit ==
  ASSUME Roomy, Init
  PROVE  IInv /\ DOMAIN blocks = {1} /\ Visited(blocks[1]) = {0, 3, 6}
<1>1. /\ NewDirectory \in BlockContent
      /\ Tiling(NewDirectory, {0, 3, 6}) /\ Merged(NewDirectory, {0, 3, 6})
  BY DirectoryOpened
<1>2. Visited(NewDirectory) = {0, 3, 6}
  BY <1>1, VisitedIs
<1>3. blocks \in Seq(BlockContent) /\ DOMAIN blocks = {1} /\ blocks[1] = NewDirectory
  BY <1>1 DEF Init
<1>. QED BY <1>1, <1>2, <1>3 DEF IInv, TiledIn

(* A step that leaves no hole.                                              *)
LEMMA IInvNext ==
  ASSUME IInv, Roomy, Next, NoHole
  PROVE  IInv' /\ StepKeeps
<1>1. PICK name \in Names : add(name) \/ remove(name)
  BY DEF Next
<1>2. Added(blocks, blocks', name) \/ Removed(blocks, blocks', name)
  BY <1>1, AddStep, RemoveStep DEF NoHole
<1>3. Keeps(blocks, blocks', name)
  BY <1>2, AddedKeeps, RemovedKeeps DEF IInv
<1>4. {x \in HeldIn(blocks) : x[2].name # name} = {x \in HeldIn(blocks') : x[2].name # name}
  BY <1>3, HeldKept
<1>5. Held = HeldIn(blocks) /\ Held' = HeldIn(blocks')
  BY DEF Held, Readable, Rec, HeldIn, ReadableIn, At
<1>. QED BY <1>3, <1>4, <1>5 DEF IInv, StepKeeps, Keeps

(* The invariant implies the properties of the runs.                        *)
LEMMA IInvTiles ==
  ASSUME IInv
  PROVE  Tiles /\ NoAdjacentFree
<1>1. Tiles
  BY AllRead DEF IInv, Tiles, AllReadable
<1>2. NoAdjacentFree
  BY DEF IInv, TiledIn, Merged, NoAdjacentFree
<1>. QED BY <1>1, <1>2

(* The invariant holds as long as no insertion leaves a hole.               *)
LEMMA IInvAlways ==
  ASSUME Roomy
  PROVE  Spec /\ [][NoHole]_blocks => []IInv
<1>1. Init => IInv
  BY IInvInit
<1>2. IInv /\ [Next]_blocks /\ [NoHole]_blocks => IInv'
  <2>. SUFFICES ASSUME IInv, [Next]_blocks, [NoHole]_blocks PROVE IInv'
    OBVIOUS
  <2>1. CASE Next /\ NoHole
    BY <2>1, IInvNext
  <2>2. CASE UNCHANGED blocks
    BY <2>2 DEF IInv
  <2>. QED BY <2>1, <2>2
<1>. QED BY <1>1, <1>2, PTL DEF Spec

(* After any history of create, link and delete in which no insertion       *)
(* leaves exactly min_free_size behind its entry, iterate() reads every     *)
(* block to its end.  The one case excluded is a real one: DirectoryHole    *)
(* shows it.                                                                *)
THEOREM RecordsTile ==
  ASSUME Roomy
  PROVE  Spec /\ [][NoHole]_blocks => []Tiles
<1>1. IInv => Tiles
  BY IInvTiles
<1>. QED BY <1>1, IInvAlways, PTL

(* Under the same condition free_region() leaves no two free regions side   *)
(* by side, which can_fit relies on.                                        *)
THEOREM FreeMerged ==
  ASSUME Roomy
  PROVE  Spec /\ [][NoHole]_blocks => []NoAdjacentFree
<1>1. IInv => NoAdjacentFree
  BY IInvTiles
<1>. QED BY <1>1, IInvAlways, PTL

(* Under the same condition an operation on one name leaves the records of  *)
(* all the others at their places, in every block.                          *)
THEOREM NamesKept ==
  ASSUME Roomy
  PROVE  Spec /\ [][NoHole]_blocks => OthersKept
<1>1. IInv /\ [Next]_blocks /\ [NoHole]_blocks => [StepKeeps]_blocks
  BY IInvNext
<1>2. Spec => [][Next]_blocks
  BY PTL DEF Spec
<1>3. Spec /\ [][NoHole]_blocks => [][StepKeeps]_blocks
  BY <1>1, <1>2, IInvAlways, PTL
<1>. QED BY <1>3, PTL DEF OthersKept, StepKeeps

-----------------------------------------------------------------------------
(* Listings of a directory that changes                                     *)

ListedIn(bs) == {At(bs, pos).name : pos \in ReadableIn(bs)} \cap Names

(* A name has one record.                                                   *)
NamedOnce(bs) ==
  \A p, q \in AllocatedIn(bs) :
    At(bs, p).name = At(bs, q).name /\ At(bs, p).name \in Names => p = q

(* What the listing has returned is before the offset.                      *)
SeenBefore(bs, names, at) ==
  \A p \in AllocatedIn(bs) : At(bs, p).name \in names => Index(p, AllocatedIn(bs)) < at

(* What is before the offset has been returned, if it was there.            *)
BeforeSeen(bs, there, names, at) ==
  \A p \in AllocatedIn(bs) :
    At(bs, p).name \in there /\ Index(p, AllocatedIn(bs)) < at => At(bs, p).name \in names

(* The directory of the listing is the directory.                           *)
LEMMA SameDirectory ==
  /\ Allocated = AllocatedIn(blocks) /\ Listed = ListedIn(blocks) /\ Listed' = ListedIn(blocks')
  /\ \A pos : Rec(pos) = At(blocks, pos)
BY DEF Allocated, AllocatedIn, Listed, ListedIn, Readable, ReadableIn, Rec, At

(* The names listed are those of the records that are not free.             *)
LEMMA ListedNames ==
  ASSUME NEW bs
  PROVE  \A name : name \in ListedIn(bs) <=> name \in Names /\ Bearers(bs, name) # {}
<1>1. "free" \notin Names
  BY DirectoryAssumption DEF Names
<1>. QED BY <1>1 DEF ListedIn, Bearers, AllocatedIn

(* There are finitely many records.                                         *)
LEMMA AllocatedFinite ==
  ASSUME NEW bs, TiledIn(bs)
  PROVE  /\ IsFiniteSet(AllocatedIn(bs))
         /\ \A p \in AllocatedIn(bs) : p[1] \in Int /\ p[2] \in Int
<1>1. bs \in Seq(BlockContent) /\ BlockLen \in Nat
  BY DirectoryAssumption DEF TiledIn
<1>2. DOMAIN bs = 1 .. Len(bs) /\ Len(bs) \in Nat
  BY <1>1
<1>3. IsFiniteSet(DOMAIN bs) /\ IsFiniteSet(Offset)
  BY <1>1, <1>2, FS_Interval DEF Offset
<1>. DEFINE D == DOMAIN bs
<1>4. IsFiniteSet(D)
  BY <1>3
<1>5. ASSUME NEW p \in AllocatedIn(bs)
      PROVE  p = <<p[1], p[2]>> /\ p[1] \in D /\ p[2] \in Offset /\ p[1] \in Int /\ p[2] \in Int
  <2>1. p = <<p[1], p[2]>> /\ p[1] \in DOMAIN bs /\ p[2] \in Visited(bs[p[1]])
    BY AllocatedPlaces
  <2>2. p[2] \in Offset
    BY <2>1 DEF TiledIn, Tiling
  <2>3. p[1] \in Int
    BY <1>2, <2>1
  <2>4. p[2] \in Int
    BY <1>1, <2>2 DEF Offset
  <2>. QED BY <2>1, <2>2, <2>3, <2>4
<1>. HIDE DEF D
<1>6. IsFiniteSet(D \X Offset)
  BY <1>3, <1>4, FS_Product, Zenon
<1>7. AllocatedIn(bs) \in SUBSET (D \X Offset)
  BY <1>5
<1>. QED BY <1>5, <1>6, <1>7, FS_Subset

(* The index of a record, in a set of records and in a larger one.          *)
LEMMA IndexGrows ==
  ASSUME NEW A, NEW B, IsFiniteSet(B), A \subseteq B, NEW p
  PROVE  Index(p, A) \in Nat /\ Index(p, B) \in Nat /\ Index(p, A) <= Index(p, B)
<1>. DEFINE X == {q \in A : Before(q, p)}
            Y == {q \in B : Before(q, p)}
<1>1. X \in SUBSET Y /\ Y \in SUBSET B
  OBVIOUS
<1>. HIDE DEF X, Y
<1>2. IsFiniteSet(Y)
  BY <1>1, FS_Subset
<1>3. IsFiniteSet(X) /\ Cardinality(X) <= Cardinality(Y)
  BY <1>1, <1>2, FS_Subset
<1>. QED BY <1>2, <1>3, FS_CardinalityType DEF Index, X, Y

(* An index is less than the number of records.                             *)
LEMMA IndexBelow ==
  ASSUME NEW bs, TiledIn(bs), NEW p \in AllocatedIn(bs)
  PROVE  /\ Index(p, AllocatedIn(bs)) < Cardinality(AllocatedIn(bs))
         /\ Cardinality(AllocatedIn(bs)) \in Nat
<1>. DEFINE A == AllocatedIn(bs)
            X == {q \in A : Before(q, p)}
<1>1. IsFiniteSet(A) /\ p[1] \in Int /\ p[2] \in Int
  BY AllocatedFinite
<1>2. ~Before(p, p)
  BY <1>1 DEF Before
<1>3. X \in SUBSET A /\ X # A
  BY <1>2
<1>. HIDE DEF A
<1>4. /\ Cardinality(X) <= Cardinality(A) /\ Cardinality(X) # Cardinality(A)
      /\ Cardinality(X) \in Nat /\ Cardinality(A) \in Nat
  <2>. HIDE DEF X
  <2>. QED BY <1>1, <1>3, FS_Subset, FS_CardinalityType
<1>. QED BY <1>4 DEF Index, A

-----------------------------------------------------------------------------
(* A record more.                                                           *)
LEMMA AddedListing ==
  ASSUME NEW bs, NEW bs2, TiledIn(bs), NamedOnce(bs), NEW name \in Names,
         Added(bs, bs2, name), name \notin ListedIn(bs)
  PROVE  /\ NamedOnce(bs2)
         /\ AllocatedIn(bs) \subseteq AllocatedIn(bs2)
         /\ \A p \in AllocatedIn(bs2) : \/ At(bs2, p).name = name
                                        \/ p \in AllocatedIn(bs) /\ At(bs2, p) = At(bs, p)
<1>1. PICK p : Bearers(bs2, name) = Bearers(bs, name) \cup {p}
  <2>1. OneMore(Bearers(bs, name), Bearers(bs2, name))
    BY AddedKeeps
  <2>. QED BY <2>1 DEF OneMore
<1>2. Rest(bs2, name) = Rest(bs, name) /\ \A q \in Rest(bs, name) : At(bs2, q) = At(bs, q)
  BY AddedKeeps DEF Keeps
<1>3. Bearers(bs, name) = {}
  BY ListedNames
<1>4. AllocatedIn(bs) = Rest(bs, name)
  BY <1>3 DEF Rest, Bearers
<1>5. AllocatedIn(bs2) = Rest(bs2, name) \cup {p} /\ At(bs2, p).name = name
  BY <1>1, <1>3 DEF Rest, Bearers
<1>6. NamedOnce(bs2)
  <2>. SUFFICES ASSUME NEW q \in AllocatedIn(bs2), NEW r \in AllocatedIn(bs2),
                       At(bs2, q).name = At(bs2, r).name, At(bs2, q).name \in Names
                PROVE  q = r
    BY DEF NamedOnce
  <2>1. CASE At(bs2, q).name = name
    <3>1. q \in Bearers(bs2, name) /\ r \in Bearers(bs2, name)
      BY <2>1 DEF Bearers
    <3>. QED BY <1>1, <1>3, <3>1
  <2>2. CASE At(bs2, q).name # name
    <3>1. q \in Rest(bs2, name) /\ r \in Rest(bs2, name)
      BY <2>2 DEF Rest
    <3>. QED BY <1>2, <1>4, <3>1 DEF NamedOnce
  <2>. QED BY <2>1, <2>2
<1>. QED BY <1>2, <1>4, <1>5, <1>6

(* A record less.                                                           *)
LEMMA RemovedListing ==
  ASSUME NEW bs, NEW bs2, TiledIn(bs), NamedOnce(bs), NEW name \in Names, Removed(bs, bs2, name)
  PROVE  /\ NamedOnce(bs2)
         /\ AllocatedIn(bs2) \subseteq AllocatedIn(bs)
         /\ \A p \in AllocatedIn(bs2) : At(bs2, p) = At(bs, p)
<1>1. PICK p \in Bearers(bs, name) : Bearers(bs2, name) = Bearers(bs, name) \ {p}
  BY RemovedKeeps
<1>2. Rest(bs2, name) = Rest(bs, name) /\ \A q \in Rest(bs, name) : At(bs2, q) = At(bs, q)
  BY RemovedKeeps DEF Keeps
<1>3. Bearers(bs2, name) = {}
  BY <1>1 DEF NamedOnce, Bearers
<1>4. AllocatedIn(bs2) = Rest(bs2, name) /\ Rest(bs, name) \subseteq AllocatedIn(bs)
  BY <1>3 DEF Rest, Bearers
<1>. QED BY <1>2, <1>4 DEF NamedOnce

-----------------------------------------------------------------------------
(* The inductive invariant of the listing.                                  *)
LInv ==
  /\ IInv /\ NamedOnce(blocks)
  /\ offset \in Nat \cup {Closed} /\ seen \subseteq Names /\ kept \subseteq ListedIn(blocks)
  /\ offset = Closed => seen = {} /\ twice = {} /\ kept = {} /\ churn = {}
  /\ "added" \notin churn => twice = {} /\ SeenBefore(blocks, seen, offset)
  /\ "removed" \notin churn => BeforeSeen(blocks, kept, seen, offset)

(* No listing is under way in the new directory.                            *)
LEMMA LInvInit ==
  ASSUME Roomy, LInit
  PROVE  LInv
<1>1. IInv /\ DOMAIN blocks = {1} /\ Visited(blocks[1]) = {0, 3, 6}
  BY IInvInit DEF LInit
<1>2. /\ blocks[1] = NewDirectory
      /\ NewDirectory[0].name = "." /\ NewDirectory[3].name = ".." /\ NewDirectory[6].name = "free"
  BY DirectoryOpened DEF LInit, Init
<1>3. ASSUME NEW p \in AllocatedIn(blocks) PROVE At(blocks, p).name \notin Names
  <2>1. p = <<p[1], p[2]>> /\ p[1] = 1 /\ p[2] \in {0, 3, 6}
    BY <1>1, AllocatedPlaces DEF IInv
  <2>2. At(blocks, p).name \in {".", "..", "free"}
    BY <1>2, <2>1 DEF At
  <2>. QED BY <2>2, DirectoryAssumption DEF Names
<1>4. NamedOnce(blocks)
  BY <1>3 DEF NamedOnce
<1>. QED BY <1>1, <1>4 DEF LInit, LInv, SeenBefore, BeforeSeen

(* An insertion moves no record towards the front.                          *)
LEMMA LInvAdd ==
  ASSUME LInv, Roomy, NEW name \in Names, add(name), NoHole, Changed("added")
  PROVE  LInv'
<1>1. Added(blocks, blocks', name) /\ name \notin ListedIn(blocks)
  BY AddStep, SameDirectory DEF LInv, NoHole, add
<1>2. TiledIn(blocks) /\ TiledIn(blocks')
  BY <1>1, AddedKeeps DEF LInv, IInv, Keeps
<1>. DEFINE A == AllocatedIn(blocks)
            B == AllocatedIn(blocks')
<1>3. /\ NamedOnce(blocks') /\ A \subseteq B
      /\ \A p \in B : \/ At(blocks', p).name = name
                      \/ p \in A /\ At(blocks', p) = At(blocks, p)
  BY <1>1, <1>2, AddedListing DEF LInv
<1>4. /\ kept' = kept \cap ListedIn(blocks') /\ offset' = offset /\ seen' = seen /\ twice' = twice
      /\ churn' = IF offset = Closed THEN {} ELSE churn \cup {"added"}
  BY SameDirectory DEF Changed
<1>5. name \notin kept
  BY <1>1 DEF LInv
<1>6. "removed" \notin churn' => BeforeSeen(blocks', kept', seen', offset')
  <2>. SUFFICES ASSUME "removed" \notin churn', NEW p \in B,
                       At(blocks', p).name \in kept, Index(p, B) < offset
                PROVE  At(blocks', p).name \in seen
    BY <1>4 DEF BeforeSeen
  <2>1. p \in A /\ At(blocks', p) = At(blocks, p)
    BY <1>3, <1>5
  <2>2. Index(p, A) \in Nat /\ Index(p, B) \in Nat /\ Index(p, A) <= Index(p, B)
    BY <1>2, <1>3, IndexGrows, AllocatedFinite
  <2>3. offset # Closed => "removed" \notin churn
    BY <1>4
  <2>4. offset # Closed
    BY <2>1 DEF LInv
  <2>5. offset \in Nat
    BY <2>4 DEF LInv
  <2>6. Index(p, A) < offset
    <3>. HIDE DEF A, B
    <3>. QED BY <2>2, <2>5
  <2>. QED BY <2>1, <2>3, <2>4, <2>6 DEF LInv, BeforeSeen
<1>7. "added" \notin churn' => twice' = {} /\ SeenBefore(blocks', seen', offset')
  BY <1>4 DEF LInv, SeenBefore
<1>8. IInv'
  BY <1>2 DEF IInv
<1>9. /\ offset' \in Nat \cup {Closed} /\ seen' \subseteq Names /\ kept' \subseteq ListedIn(blocks')
      /\ offset' = Closed => seen' = {} /\ twice' = {} /\ kept' = {} /\ churn' = {}
  BY <1>4 DEF LInv
<1>. QED BY <1>3, <1>6, <1>7, <1>8, <1>9 DEF LInv

(* A removal moves no record away from the front.                           *)
LEMMA LInvRemove ==
  ASSUME LInv, NEW name \in Names, remove(name), Changed("removed")
  PROVE  LInv'
<1>1. Removed(blocks, blocks', name)
  BY RemoveStep DEF LInv
<1>2. TiledIn(blocks) /\ TiledIn(blocks')
  BY <1>1, RemovedKeeps DEF LInv, IInv, Keeps
<1>. DEFINE A == AllocatedIn(blocks)
            B == AllocatedIn(blocks')
<1>3. NamedOnce(blocks') /\ B \subseteq A /\ \A p \in B : At(blocks', p) = At(blocks, p)
  BY <1>1, <1>2, RemovedListing DEF LInv
<1>4. /\ kept' = kept \cap ListedIn(blocks') /\ offset' = offset /\ seen' = seen /\ twice' = twice
      /\ churn' = IF offset = Closed THEN {} ELSE churn \cup {"removed"}
  BY SameDirectory DEF Changed
<1>5. "added" \notin churn' => twice' = {} /\ SeenBefore(blocks', seen', offset')
  <2>. SUFFICES ASSUME "added" \notin churn'
                PROVE  twice' = {} /\ SeenBefore(blocks', seen', offset')
    OBVIOUS
  <2>1. CASE offset = Closed
    BY <1>4, <2>1 DEF LInv, SeenBefore
  <2>2. CASE offset # Closed
    <3>1. twice = {} /\ SeenBefore(blocks, seen, offset) /\ offset \in Nat
      BY <1>4, <2>2 DEF LInv
    <3>2. ASSUME NEW p \in B, At(blocks', p).name \in seen PROVE Index(p, B) < offset
      <4>1. p \in A /\ Index(p, A) < offset
        BY <1>3, <3>1, <3>2 DEF SeenBefore
      <4>2. Index(p, A) \in Nat /\ Index(p, B) \in Nat /\ Index(p, B) <= Index(p, A)
        BY <1>2, <1>3, IndexGrows, AllocatedFinite
      <4>. HIDE DEF A, B
      <4>. QED BY <3>1, <4>1, <4>2
    <3>. QED BY <1>4, <3>1, <3>2 DEF SeenBefore
  <2>. QED BY <2>1, <2>2
<1>6. "removed" \notin churn' => BeforeSeen(blocks', kept', seen', offset')
  BY <1>4 DEF LInv, BeforeSeen
<1>7. IInv'
  BY <1>2 DEF IInv
<1>8. /\ offset' \in Nat \cup {Closed} /\ seen' \subseteq Names /\ kept' \subseteq ListedIn(blocks')
      /\ offset' = Closed => seen' = {} /\ twice' = {} /\ kept' = {} /\ churn' = {}
  BY <1>4 DEF LInv
<1>. QED BY <1>3, <1>5, <1>6, <1>7, <1>8 DEF LInv

(* A reply returns the records from the offset on.                          *)
LEMMA LInvRead ==
  ASSUME LInv, NEW n \in 1 .. MaxReply, readdir(n)
  PROVE  LInv'
<1>. DEFINE A == AllocatedIn(blocks)
            names == {At(blocks, p).name : p \in FromOffset(n, A)} \cap Names
<1>1. /\ offset \in Nat /\ n \in Nat /\ n >= 1 /\ offset' = offset + n
      /\ seen' = seen \cup names /\ twice' = twice \cup (seen \cap names)
      /\ blocks' = blocks /\ kept' = kept /\ churn' = churn
  <2>1. offset # Closed => offset \in Nat
    BY DEF LInv
  <2>2. n \in Nat /\ n >= 1
    BY ListingAssumption
  <2>3. Allocated = A /\ \A pos : Rec(pos) = At(blocks, pos)
    BY SameDirectory
  <2>. QED BY <2>1, <2>2, <2>3 DEF readdir
<1>2. \A p \in A : Index(p, A) \in Nat
  BY AllocatedFinite, IndexGrows DEF LInv, IInv
<1>3. \A p \in FromOffset(n, A) : p \in A /\ offset <= Index(p, A) /\ Index(p, A) < offset + n
  <2>. HIDE DEF A
  <2>. QED BY <1>1, <1>2 DEF FromOffset
<1>4. \A p \in A : offset <= Index(p, A) /\ Index(p, A) < offset + n => p \in FromOffset(n, A)
  <2>. HIDE DEF A
  <2>. QED BY <1>1, <1>2 DEF FromOffset
<1>5. "added" \notin churn => twice' = {} /\ SeenBefore(blocks, seen', offset')
  <2>. SUFFICES ASSUME "added" \notin churn
                PROVE  twice' = {} /\ SeenBefore(blocks, seen', offset')
    OBVIOUS
  <2>1. twice = {} /\ \A p \in A : At(blocks, p).name \in seen => Index(p, A) < offset
    BY DEF LInv, SeenBefore
  <2>2. seen \cap names = {}
    <3>. SUFFICES ASSUME NEW p \in FromOffset(n, A), At(blocks, p).name \in seen PROVE FALSE
      OBVIOUS
    <3>1. Index(p, A) < offset /\ offset <= Index(p, A) /\ Index(p, A) \in Nat
      BY <1>2, <1>3, <2>1
    <3>. HIDE DEF A
    <3>. QED BY <1>1, <3>1
  <2>3. ASSUME NEW p \in A, At(blocks, p).name \in seen \cup names PROVE Index(p, A) < offset + n
    <3>1. CASE At(blocks, p).name \in seen
      <4>1. Index(p, A) < offset /\ Index(p, A) \in Nat
        BY <1>2, <2>1, <3>1
      <4>. HIDE DEF A
      <4>. QED BY <1>1, <4>1
    <3>2. CASE At(blocks, p).name \in names
      <4>1. PICK q \in FromOffset(n, A) : At(blocks, q).name = At(blocks, p).name
        BY <3>2
      <4>2. q = p
        BY <1>3, <3>2, <4>1 DEF LInv, NamedOnce
      <4>. QED BY <1>3, <4>2
    <3>. QED BY <2>3, <3>1, <3>2
  <2>. QED BY <1>1, <2>1, <2>2, <2>3 DEF SeenBefore
<1>6. "removed" \notin churn => BeforeSeen(blocks, kept, seen', offset')
  <2>. SUFFICES ASSUME "removed" \notin churn, NEW p \in A,
                       At(blocks, p).name \in kept, Index(p, A) < offset + n
                PROVE  At(blocks, p).name \in seen \cup names
    BY <1>1 DEF BeforeSeen
  <2>1. CASE Index(p, A) < offset
    BY <2>1 DEF LInv, BeforeSeen
  <2>2. CASE ~ (Index(p, A) < offset)
    <3>1. offset <= Index(p, A)
      <4>1. Index(p, A) \in Nat
        BY <1>2
      <4>. HIDE DEF A
      <4>. QED BY <1>1, <2>2, <4>1
    <3>2. p \in FromOffset(n, A)
      BY <1>4, <3>1
    <3>3. At(blocks, p).name \in Names
      BY DEF LInv, ListedIn
    <3>. QED BY <3>2, <3>3
  <2>. QED BY <2>1, <2>2
<1>7. offset' \in Nat /\ offset' # Closed /\ seen' \subseteq Names
  BY <1>1 DEF LInv, Closed
<1>. QED BY <1>1, <1>5, <1>6, <1>7 DEF LInv, IInv

(* All the steps of a directory and a listing.                              *)
LEMMA LInvNext ==
  ASSUME LInv, Roomy, [LNext]_lvars, [NoHole]_lvars
  PROVE  LInv'
<1>1. CASE UNCHANGED lvars
  BY <1>1 DEF lvars, LInv, IInv
<1>2. ASSUME LNext, NoHole PROVE LInv'
  <2>1. ASSUME NEW name \in Names, add(name), Changed("added") PROVE LInv'
    BY <1>2, <2>1, LInvAdd
  <2>2. ASSUME NEW name \in Names, remove(name), Changed("removed") PROVE LInv'
    BY <2>2, LInvRemove
  <2>3. CASE opendir
    <3>1. /\ offset = Closed /\ offset' = 0 /\ kept' = ListedIn(blocks)
          /\ blocks' = blocks /\ seen' = {} /\ twice' = {} /\ churn' = {}
      BY <2>3, SameDirectory DEF opendir, LInv
    <3>2. \A p \in AllocatedIn(blocks) : ~ (Index(p, AllocatedIn(blocks)) < 0)
      BY AllocatedFinite, IndexGrows DEF LInv, IInv
    <3>3. SeenBefore(blocks, {}, 0) /\ BeforeSeen(blocks, kept', {}, 0)
      BY <3>2 DEF SeenBefore, BeforeSeen
    <3>4. IInv' /\ NamedOnce(blocks')
      BY <3>1 DEF LInv, IInv
    <3>5. offset' # Closed /\ offset' \in Nat
      BY <3>1 DEF Closed
    <3>. QED BY <3>1, <3>3, <3>4, <3>5 DEF LInv
  <2>4. ASSUME NEW n \in 1 .. MaxReply, readdir(n) PROVE LInv'
    BY <2>4, LInvRead
  <2>5. CASE readdir_end
    <3>1. /\ offset' = Closed /\ seen' = {} /\ twice' = {} /\ kept' = {} /\ churn' = {}
          /\ blocks' = blocks
      BY <2>5 DEF readdir_end
    <3>2. SeenBefore(blocks, {}, Closed) /\ BeforeSeen(blocks, {}, {}, Closed)
      BY DEF SeenBefore, BeforeSeen
    <3>3. IInv' /\ NamedOnce(blocks')
      BY <3>1 DEF LInv, IInv
    <3>. QED BY <3>1, <3>2, <3>3 DEF LInv
  <2>. QED BY <1>2, <2>1, <2>2, <2>3, <2>4, <2>5 DEF LNext
<1>. QED BY <1>1, <1>2

(* The invariant holds as long as no insertion leaves a hole.               *)
LEMMA LInvAlways ==
  ASSUME Roomy
  PROVE  LSpec /\ [][NoHole]_lvars => []LInv
<1>1. LInit => LInv
  BY LInvInit
<1>2. LInv /\ [LNext]_lvars /\ [NoHole]_lvars => LInv'
  BY LInvNext
<1>. QED BY <1>1, <1>2, PTL DEF LSpec

(* A listing during which nothing is inserted returns no name twice, on     *)
(* every directory in which no insertion leaves a hole: what readdir has    *)
(* returned stays before its offset, since a removal shifts records         *)
(* towards the front only.                                                  *)
THEOREM ListedOnce ==
  ASSUME Roomy
  PROVE  LSpec /\ [][NoHole]_lvars => []ListingOnce
<1>1. LInv => ListingOnce
  BY DEF LInv, ListingOnce
<1>. QED BY <1>1, LInvAlways, PTL

(* The end of a listing.                                                    *)
LEMMA EndComplete ==
  ASSUME LInv, readdir_end, "removed" \notin churn
  PROVE  kept \subseteq seen
<1>. SUFFICES ASSUME NEW name \in kept PROVE name \in seen
  OBVIOUS
<1>. DEFINE A == AllocatedIn(blocks)
<1>1. offset \in Nat /\ offset >= Cardinality(A)
  BY SameDirectory DEF readdir_end, LInv
<1>2. PICK p \in A : At(blocks, p).name = name
  BY ListedNames DEF LInv, Bearers
<1>3. Index(p, A) < Cardinality(A) /\ Cardinality(A) \in Nat /\ Index(p, A) \in Nat
  BY IndexBelow, IndexGrows, AllocatedFinite DEF LInv, IInv
<1>4. Index(p, A) < offset
  <2>. HIDE DEF A
  <2>. QED BY <1>1, <1>3
<1>. QED BY <1>2, <1>4 DEF LInv, BeforeSeen

(* A listing during which nothing is removed returns every name that was    *)
(* there all the time: an insertion shifts records away from the front      *)
(* only, so none is skipped.                                                *)
THEOREM ListedCompletely ==
  ASSUME Roomy
  PROVE  LSpec /\ [][NoHole]_lvars => ListingComplete
<1>1. LInv => [readdir_end => "removed" \in churn \/ kept \subseteq seen]_lvars
  BY EndComplete
<1>. QED BY <1>1, LInvAlways, PTL DEF ListingComplete
=============================================================================
