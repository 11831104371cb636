--------------------------- MODULE FormatV1Proofs ---------------------------
(***************************************************************************)
(* What the operations of FormatV1 preserve, for every geometry, set of     *)
(* names and number of handles: the blocks of different inodes are          *)
(* disjoint, link counts are exact, handles refer to allocated files and,   *)
(* where no inode can outgrow its pointers, none loses its last name        *)
(* without being freed, and the free counts follow the bitmaps.             *)
(*                                                                          *)
(* IInv is the inductive invariant.  Its parts need each other: delete()    *)
(* frees the blocks of the inode its entry names, so that ownership needs   *)
(* exact link counts and that what is named is allocated; write() grows the *)
(* inode of a handle, so that it needs handles to be valid.                 *)
(*                                                                          *)
(* Each part is restated as a property of an inode table n, directory       *)
(* blocks c and bitmaps db and ib (Ownership, Naming, Counted), because an  *)
(* operation changes them several times in one step and the intermediate    *)
(* values have no variable of their own.                                    *)
(***************************************************************************)
EXTENDS FormatV1, FiniteSetTheorems, SequenceTheorems, TLAPS

IProofs == INSTANCE BitmapAllocatorProofs WITH MaxIndex <- NI, MapBlocks <- IMapBlocks
DProofs == INSTANCE BitmapAllocatorProofs WITH MaxIndex <- ND, MapBlocks <- DMapBlocks

-----------------------------------------------------------------------------
(* Sequences                                                                *)

(* A concatenation repeats nothing exactly if its parts do not and have     *)
(* nothing in common.                                                       *)
LEMMA ConcatInjective ==
  ASSUME NEW S, NEW s \in Seq(S), NEW t \in Seq(S)
  PROVE  IsInjective(s \o t) <=>
           IsInjective(s) /\ IsInjective(t) /\ Range(s) \cap Range(t) = {}
<1>. DEFINE u == s \o t
<1>1. /\ u \in Seq(S) /\ Len(u) = Len(s) + Len(t)
      /\ \A i \in 1 .. Len(s) : u[i] = s[i]
      /\ \A i \in 1 .. Len(t) : u[Len(s) + i] = t[i]
  BY ConcatProperties
<1>2. DOMAIN u = 1 .. Len(s) + Len(t) /\ DOMAIN s = 1 .. Len(s) /\ DOMAIN t = 1 .. Len(t)
  BY <1>1
<1>3. Len(s) \in Nat /\ Len(t) \in Nat
  OBVIOUS
<1>. HIDE DEF u
<1>4. ASSUME IsInjective(u)
      PROVE  IsInjective(s) /\ IsInjective(t) /\ Range(s) \cap Range(t) = {}
  <2>1. IsInjective(s)
    BY <1>1, <1>2, <1>3, <1>4 DEF IsInjective
  <2>2. IsInjective(t)
    <3>. SUFFICES ASSUME NEW i \in 1 .. Len(t), NEW j \in 1 .. Len(t), t[i] = t[j]
                  PROVE  i = j
      BY <1>2 DEF IsInjective
    <3>1. Len(s) + i \in 1 .. Len(s) + Len(t) /\ Len(s) + j \in 1 .. Len(s) + Len(t)
      BY <1>3
    <3>2. u[Len(s) + i] = u[Len(s) + j]
      BY <1>1
    <3>3. Len(s) + i = Len(s) + j
      BY <1>2, <1>4, <3>1, <3>2 DEF IsInjective
    <3>. QED BY <1>3, <3>3
  <2>3. ASSUME NEW i \in 1 .. Len(s), NEW j \in 1 .. Len(t) PROVE s[i] # t[j]
    <3>1. i \in 1 .. Len(s) + Len(t) /\ Len(s) + j \in 1 .. Len(s) + Len(t) /\ i # Len(s) + j
      BY <1>3
    <3>. QED BY <1>1, <1>2, <1>4, <3>1 DEF IsInjective
  <2>. QED BY <1>2, <2>1, <2>2, <2>3 DEF Range
<1>5. ASSUME IsInjective(s), IsInjective(t), Range(s) \cap Range(t) = {}
      PROVE  IsInjective(u)
  <2>. SUFFICES ASSUME NEW i \in 1 .. Len(s) + Len(t), NEW j \in 1 .. Len(s) + Len(t),
                       u[i] = u[j]
                PROVE  i = j
    BY <1>2 DEF IsInjective
  <2>1. \A k \in 1 .. Len(s), l \in 1 .. Len(t) : s[k] # t[l]
    BY <1>2, <1>5 DEF Range
  <2>2. ASSUME NEW k \in 1 .. Len(s) + Len(t), k > Len(s)
        PROVE  k - Len(s) \in 1 .. Len(t) /\ u[k] = t[k - Len(s)]
    <3>1. k - Len(s) \in 1 .. Len(t) /\ Len(s) + (k - Len(s)) = k
      BY <1>3, <2>2
    <3>. QED BY <1>1, <3>1
  <2>3. \A k \in 1 .. Len(s) + Len(t) : k <= Len(s) => k \in 1 .. Len(s) /\ u[k] = s[k]
    BY <1>1, <1>3
  <2>4. CASE i <= Len(s) /\ j <= Len(s)
    BY <1>2, <1>5, <2>3, <2>4 DEF IsInjective
  <2>5. CASE i > Len(s) /\ j > Len(s)
    <3>1. i - Len(s) = j - Len(s)
      BY <1>2, <1>5, <2>2, <2>5 DEF IsInjective
    <3>. QED BY <1>3, <3>1
  <2>6. CASE ~(i <= Len(s) <=> j <= Len(s))
    BY <1>3, <2>1, <2>2, <2>3, <2>6
  <2>. QED BY <1>3, <2>4, <2>5, <2>6
<1>. QED BY <1>4, <1>5 DEF u

(* A part of a sequence that repeats nothing repeats nothing.               *)
LEMMA SubSeqInjective ==
  ASSUME NEW S, NEW s \in Seq(S), NEW m \in Nat \ {0}, NEW n \in 0 .. Len(s)
  PROVE  /\ SubSeq(s, m, n) \in Seq(S)
         /\ Range(SubSeq(s, m, n)) \subseteq Range(s)
         /\ IsInjective(s) => IsInjective(SubSeq(s, m, n))
<1>. DEFINE t == SubSeq(s, m, n)
<1>1. \A i \in m .. n : s[i] \in S
  OBVIOUS
<1>2. /\ t \in Seq(S) /\ Len(t) = IF m <= n THEN n - m + 1 ELSE 0
      /\ \A i \in 1 .. n - m + 1 : t[i] = s[m + i - 1]
  BY <1>1, SubSeqProperties
<1>. HIDE DEF t
<1>3. \A i \in DOMAIN t : m + i - 1 \in DOMAIN s /\ t[i] = s[m + i - 1] /\ i \in Int
  BY <1>2
<1>4. Range(t) \subseteq Range(s)
  BY <1>3 DEF Range
<1>5. ASSUME IsInjective(s) PROVE IsInjective(t)
  BY <1>3, <1>5 DEF IsInjective
<1>. QED BY <1>2, <1>4, <1>5 DEF t

-----------------------------------------------------------------------------
(* FormatV1::allocate                                                       *)

(* The instances of the allocator in the model and in the proofs agree.     *)
LEMMA DataFound ==
  ASSUME NEW bits, NEW last \in Int, NEW n \in Nat
  PROVE  LET f == DMap!find_free(bits, last, n)
         IN  f \in Seq(Block \ bits) /\ Len(f) <= n /\ IsInjective(f)
<1>1. ByteBits \in Nat \ {0} /\ BlockBits \in Nat \ {0} /\ ND \in Nat
  BY FormatAssumption
<1>2. DMap!find_free(bits, last, n) = DProofs!find_free(bits, last, n)
  BY DEF DMap!find_free, DProofs!find_free, DMap!Searched, DProofs!Searched,
         DMap!FirstPass, DProofs!FirstPass, DMap!SecondPass, DProofs!SecondPass,
         DMap!SearchedBefore, DProofs!SearchedBefore, DMap!StartOfByte, DProofs!StartOfByte,
         DMap!StartOfBlock, DProofs!StartOfBlock, DMap!Mapped, DProofs!Mapped, DMap!Index, DProofs!Index,
         DMap!Cardinality, DProofs!Cardinality, DMap!IsFiniteSet, DProofs!IsFiniteSet
<1>3. Block = DProofs!Index
  BY DEF Block, DProofs!Index
<1>. DEFINE g == DProofs!find_free(bits, last, n)
<1>4. /\ g \in Seq(DProofs!Index \ bits)
      /\ Len(g) <= n
      /\ \A k, l \in DOMAIN g : g[k] = g[l] => k = l
  BY <1>1, DProofs!FindFree
<1>. QED BY <1>2, <1>3, <1>4 DEF IsInjective

(* What find_free returns for inodes: clear bits of the table, none twice,  *)
(* at most as many as asked for.                                            *)
LEMMA InodesFound ==
  ASSUME NEW bits, NEW last \in Int, NEW n \in Nat
  PROVE  LET f == IMap!find_free(bits, last, n)
         IN  f \in Seq(Inode \ bits) /\ Len(f) <= n /\ IsInjective(f)
<1>1. ByteBits \in Nat \ {0} /\ BlockBits \in Nat \ {0} /\ NI \in Nat
  BY FormatAssumption
<1>2. IMap!find_free(bits, last, n) = IProofs!find_free(bits, last, n)
  BY DEF IMap!find_free, IProofs!find_free, IMap!Searched, IProofs!Searched,
         IMap!FirstPass, IProofs!FirstPass, IMap!SecondPass, IProofs!SecondPass,
         IMap!SearchedBefore, IProofs!SearchedBefore, IMap!StartOfByte, IProofs!StartOfByte,
         IMap!StartOfBlock, IProofs!StartOfBlock, IMap!Mapped, IProofs!Mapped, IMap!Index, IProofs!Index,
         IMap!Cardinality, IProofs!Cardinality, IMap!IsFiniteSet, IProofs!IsFiniteSet
<1>3. Inode = IProofs!Index
  BY DEF Inode, IProofs!Index
<1>. DEFINE g == IProofs!find_free(bits, last, n)
<1>4. /\ g \in Seq(IProofs!Index \ bits)
      /\ Len(g) <= n
      /\ \A k, l \in DOMAIN g : g[k] = g[l] => k = l
  BY <1>1, IProofs!FindFree
<1>. QED BY <1>2, <1>3, <1>4 DEF IsInjective

(* last_alloc stays in the region.                                          *)
LEMMA LastAlloc ==
  ASSUME NEW S, NEW last \in S, NEW seq \in Seq(S)
  PROVE  IMap!last_alloc(last, seq) \in S /\ DMap!last_alloc(last, seq) \in S
<1>1. DOMAIN seq = 1 .. Len(seq) /\ Len(seq) \in Nat
  OBVIOUS
<1>2. Cardinality(1 .. Len(seq)) = Len(seq)
  BY <1>1, FS_Interval
<1>3. /\ IMap!Cardinality(1 .. Len(seq)) = Cardinality(1 .. Len(seq))
      /\ DMap!Cardinality(1 .. Len(seq)) = Cardinality(1 .. Len(seq))
  BY DEF Cardinality, IMap!Cardinality, DMap!Cardinality,
         IsFiniteSet, IMap!IsFiniteSet, DMap!IsFiniteSet
<1>. QED BY <1>1, <1>2, <1>3 DEF IMap!last_alloc, DMap!last_alloc

(* A successful allocate() hands out bits that were clear, each once.       *)
LEMMA AllocatedFresh ==
  ASSUME TypeOK, NEW ni \in Nat, NEW nd \in Nat, Allocated(ni, nd)
  PROVE  /\ Inodes(ni) \in Seq(Inode \ ibits) /\ Len(Inodes(ni)) = ni
         /\ Data(nd) \in Seq(Block \ dbits) /\ Len(Data(nd)) = nd /\ IsInjective(Data(nd))
         /\ ibits' = ibits \cup Range(Inodes(ni))
         /\ dbits' = dbits \cup Range(Data(nd))
         /\ ibits' \subseteq Inode /\ dbits' \subseteq Block
         /\ ilast' \in Inode /\ dlast' \in Block
         /\ sb' \in Counts /\ saved' \in Counts
<1>1. /\ Inodes(ni) \in Seq(Inode \ ibits) /\ Len(Inodes(ni)) = ni
      /\ Data(nd) \in Seq(Block \ dbits) /\ Len(Data(nd)) = nd /\ IsInjective(Data(nd))
  <2>1. ilast \in Int /\ dlast \in Int
    BY DEF TypeOK, Inode, Block
  <2>. QED BY <2>1, InodesFound, DataFound DEF Allocated, Inodes, Data
<1>2. ibits' = ibits \cup Range(Inodes(ni)) /\ dbits' = dbits \cup Range(Data(nd))
  BY DEF Allocated, IMap!allocate, DMap!allocate, Range
<1>3. ibits' \subseteq Inode /\ dbits' \subseteq Block
  <2>1. Range(Inodes(ni)) \subseteq Inode /\ Range(Data(nd)) \subseteq Block
    BY <1>1, RangeOfSeq
  <2>. QED BY <1>2, <2>1 DEF TypeOK
<1>4. ilast' \in Inode /\ dlast' \in Block
  <2>1. Inodes(ni) \in Seq(Inode) /\ Data(nd) \in Seq(Block)
    BY <1>1, SeqMonotonic, Zenon
  <2>2. /\ ilast' = IMap!last_alloc(ilast, Inodes(ni))
        /\ dlast' = DMap!last_alloc(dlast, Data(nd))
    BY DEF Allocated
  <2>. QED BY <2>1, <2>2, LastAlloc DEF TypeOK
<1>5. sb' \in Counts /\ saved' \in Counts
  BY FormatAssumption DEF Allocated, TypeOK, Counts
<1>. QED BY <1>1, <1>2, <1>3, <1>4, <1>5

-----------------------------------------------------------------------------
(* Pointer blocks                                                           *)

(* Division rounds down monotonically.                                      *)
LEMMA DivMonotone ==
  ASSUME NEW n \in Nat \ {0}, NEW a \in Nat, NEW b \in Nat, a <= b
  PROVE  a \div n \in Nat /\ a \div n <= b \div n
OBVIOUS

(* More blocks never need fewer pointer blocks.                             *)
LEMMA MetadataMonotone ==
  ASSUME NEW a \in Nat, NEW b \in Nat, a <= b
  PROVE  /\ MetadataBlocks(a) \in Nat /\ MetadataBlocks(b) \in Nat
         /\ MetadataBlocks(a) <= MetadataBlocks(b)
<1>. DEFINE over(x) == x - Direct - Indirect + Indirect - 1
<1>1. Direct \in Nat \ {0} /\ Indirect \in Nat \ {0}
  BY PointerAssumption
<1>2. ASSUME NEW x \in Nat, NEW y \in Nat, x <= y, x > Direct + Indirect
      PROVE  over(x) \div Indirect \in Nat /\ over(x) \div Indirect <= over(y) \div Indirect
  <2>1. over(x) \in Nat /\ over(y) \in Nat /\ over(x) <= over(y)
    BY <1>1, <1>2
  <2>. HIDE DEF over
  <2>. QED BY <1>1, <2>1, DivMonotone
<1>3. \A x \in Nat : MetadataBlocks(x) = IF x <= Direct THEN 0 ELSE IF x <= Direct + Indirect THEN 1
                                        ELSE 2 + over(x) \div Indirect
  BY DEF MetadataBlocks
<1>. HIDE DEF over
<1>4. b > Direct + Indirect => over(b) \div Indirect \in Nat
  BY <1>2
<1>5. a > Direct + Indirect => /\ over(a) \div Indirect \in Nat
                              /\ over(a) \div Indirect <= over(b) \div Indirect
  BY <1>2
<1>. QED BY <1>1, <1>3, <1>4, <1>5

(* Growing a file by more data blocks (blocks_necessary_to_grow_n) never    *)
(* takes fewer pointer blocks: write() may keep a prefix of what it         *)
(* reserved.                                                                *)
LEMMA GrowMonotone ==
  ASSUME NEW b \in Nat, NEW m \in Nat, NEW n \in Nat, m <= n
  PROVE  /\ MetadataToGrow(b, m) \in Nat /\ MetadataToGrow(b, n) \in Nat
         /\ MetadataToGrow(b, m) <= MetadataToGrow(b, n)
<1>1. b + m \in Nat /\ b + n \in Nat /\ b <= b + m /\ b + m <= b + n
  OBVIOUS
<1>2. /\ MetadataBlocks(b) \in Nat /\ MetadataBlocks(b + m) \in Nat /\ MetadataBlocks(b + n) \in Nat
      /\ MetadataBlocks(b) <= MetadataBlocks(b + m) /\ MetadataBlocks(b + m) <= MetadataBlocks(b + n)
  BY <1>1, MetadataMonotone
<1>. QED BY <1>2 DEF MetadataToGrow

-----------------------------------------------------------------------------
(* Block ownership, as a property of an inode table n, a data bitmap db and *)
(* an inode bitmap ib, so that steps of an action can be taken in turn.     *)

Blocks(x) == x.blocks \o x.ptrs

INodes == [type : Types, links : Nat, blocks : Seq(Block), ptrs : Seq(Block)]

Ownership(n, db, ib) ==
  /\ \A i \in ib : IsInjective(Blocks(n[i])) /\ Range(Blocks(n[i])) \subseteq db
  /\ \A i, j \in ib : i # j => Range(Blocks(n[i])) \cap Range(Blocks(n[j])) = {}

(* The invariant the runs check is Ownership of the current tables,         *)
LEMMA OwnershipIs == BlockOwnership <=> Ownership(inode, dbits, ibits)
<1>1. \A i : Owned(i) = Blocks(inode[i])
  BY DEF Owned, Blocks
<1>2. ASSUME BlockOwnership PROVE Ownership(inode, dbits, ibits)
  <2>1. \A i \in ibits : IsInjective(Blocks(inode[i]))
    BY <1>1, <1>2, Zenon DEF BlockOwnership, IsInjective
  <2>2. \A i \in ibits : Range(Blocks(inode[i])) \subseteq dbits
    BY <1>1, <1>2 DEF BlockOwnership, Range
  <2>3. \A i, j \in ibits : i # j => Range(Blocks(inode[i])) \cap Range(Blocks(inode[j])) = {}
    BY <1>1, <1>2 DEF BlockOwnership, Range
  <2>. QED BY <2>1, <2>2, <2>3 DEF Ownership
<1>3. ASSUME Ownership(inode, dbits, ibits) PROVE BlockOwnership
  BY <1>1, <1>3 DEF BlockOwnership, Ownership, IsInjective, Range
<1>. QED BY <1>2, <1>3

(* and so it is after a step.                                               *)
LEMMA OwnershipIsNext == BlockOwnership' <=> Ownership(inode', dbits', ibits')
<1>1. Ownership(inode, dbits, ibits)' <=> Ownership(inode', dbits', ibits')
  BY DEF Ownership
<1>. QED BY <1>1, OwnershipIs, PTL

(* A bitmap with more bits set.                                             *)
LEMMA OwnershipMore ==
  ASSUME NEW n, NEW db, NEW ib, NEW db2, Ownership(n, db, ib), db \subseteq db2
  PROVE  Ownership(n, db2, ib)
BY DEF Ownership

(* Only the blocks of the allocated inodes matter.                          *)
LEMMA OwnershipSame ==
  ASSUME NEW n, NEW db, NEW ib, NEW n2, Ownership(n, db, ib),
         \A i \in ib : n2[i].blocks = n[i].blocks /\ n2[i].ptrs = n[i].ptrs
  PROVE  Ownership(n2, db, ib)
<1>1. \A i \in ib : Blocks(n2[i]) = Blocks(n[i])
  BY DEF Blocks
<1>. QED BY <1>1 DEF Ownership

(* A free slot of the table gets an inode with blocks that were clear.      *)
LEMMA OwnershipNew ==
  ASSUME NEW n \in [Inode -> INodes], NEW db, NEW ib, NEW i \in Inode \ ib, NEW x, NEW F,
         Ownership(n, db, ib), F \cap db = {},
         IsInjective(Blocks(x)), Range(Blocks(x)) \subseteq F, ib \subseteq Inode
  PROVE  Ownership([n EXCEPT ![i] = x], db \cup F, ib \cup {i})
<1>. DEFINE m == [n EXCEPT ![i] = x]
<1>1. m[i] = x /\ \A j \in ib : m[j] = n[j]
  OBVIOUS
<1>. HIDE DEF m
<1>. QED BY <1>1 DEF Ownership, m

(* An inode gets more blocks, that were clear.                              *)
LEMMA OwnershipGrown ==
  ASSUME NEW n \in [Inode -> INodes], NEW db, NEW ib, NEW i \in ib, NEW x, NEW F,
         Ownership(n, db, ib), F \cap db = {}, ib \subseteq Inode,
         IsInjective(Blocks(x)), Range(Blocks(x)) \subseteq Range(Blocks(n[i])) \cup F
  PROVE  Ownership([n EXCEPT ![i] = x], db \cup F, ib)
<1>. DEFINE m == [n EXCEPT ![i] = x]
<1>1. m[i] = x /\ \A j \in ib \ {i} : m[j] = n[j]
  OBVIOUS
<1>. HIDE DEF m
<1>. QED BY <1>1 DEF Ownership, m

(* An inode and blocks of it are released.                                  *)
LEMMA OwnershipReleased ==
  ASSUME NEW n, NEW db, NEW ib, NEW i \in ib, NEW F, Ownership(n, db, ib),
         F \subseteq Range(Blocks(n[i]))
  PROVE  Ownership(n, db \ F, ib \ {i})
BY DEF Ownership

(* Grown appends to the content blocks and to the pointer blocks.           *)
LEMMA GrownBlocks ==
  ASSUME NEW bl \in Seq(Block), NEW pt \in Seq(Block), NEW data \in Seq(Block),
         NEW extra \in Seq(Block),
         IsInjective(bl \o pt), IsInjective(data), IsInjective(extra),
         Range(data) \cap Range(extra) = {},
         (Range(data) \cup Range(extra)) \cap Range(bl \o pt) = {}
  PROVE  /\ bl \o data \in Seq(Block) /\ pt \o extra \in Seq(Block)
         /\ IsInjective((bl \o data) \o (pt \o extra))
         /\ Range((bl \o data) \o (pt \o extra)) =
              Range(bl \o pt) \cup Range(data) \cup Range(extra)
<1>1. bl \o data \in Seq(Block) /\ pt \o extra \in Seq(Block)
  BY ConcatProperties
<1>2. /\ Range(bl \o pt) = Range(bl) \cup Range(pt)
      /\ Range(bl \o data) = Range(bl) \cup Range(data)
      /\ Range(pt \o extra) = Range(pt) \cup Range(extra)
      /\ Range((bl \o data) \o (pt \o extra)) = Range(bl \o data) \cup Range(pt \o extra)
  <2>1. \A s, t \in Seq(Block) : Range(s \o t) = Range(s) \cup Range(t)
    BY RangeConcatenation, Zenon
  <2>. QED BY <1>1, <2>1, Zenon
<1>3. IsInjective(bl) /\ IsInjective(pt) /\ Range(bl) \cap Range(pt) = {}
  BY ConcatInjective
<1>4. IsInjective(bl \o data) /\ IsInjective(pt \o extra)
  BY <1>2, <1>3, ConcatInjective
<1>5. Range(bl \o data) \cap Range(pt \o extra) = {}
  BY <1>2, <1>3
<1>6. IsInjective((bl \o data) \o (pt \o extra))
  BY <1>1, <1>4, <1>5, ConcatInjective
<1>. QED BY <1>1, <1>2, <1>6

-----------------------------------------------------------------------------
(* Directory entries                                                        *)

(* The search returns a position of the set, if it has one.                 *)
LEMMA FirstIn ==
  ASSUME NEW L \in Nat, NEW P \in SUBSET ((1 .. L) \X Slot), P # {}
  PROVE  First(P) \in P
<1>. DEFINE R == {r \in P \X P : Earlier(r[1], r[2])}
            before(x) == {y \in P : Earlier(y, x)}
<1>1. IsFiniteSet(P)
  <2>1. IsFiniteSet(1 .. L) /\ IsFiniteSet(Slot)
    BY FS_Interval, FormatAssumption DEF Slot
  <2>2. IsFiniteSet((1 .. L) \X Slot)
    BY <2>1, FS_Product
  <2>. QED BY <2>2, FS_Subset
<1>2. \A S : DProofs!Cardinality(S) = Cardinality(S) /\ (DProofs!IsFiniteSet(S) <=> IsFiniteSet(S))
  BY DEF Cardinality, DProofs!Cardinality, IsFiniteSet, DProofs!IsFiniteSet
<1>3. \A x \in P : x[1] \in Int /\ x[2] \in Int /\ x = <<x[1], x[2]>>
  BY FormatAssumption DEF Slot
<1>4. \A x, y \in P : <<x, y>> \in R <=> Earlier(x, y)
  OBVIOUS
<1>5. DProofs!Orders(R, P)
  <2>. HIDE DEF R
  <2>1. \A x, y \in P : x = y \/ Earlier(x, y) \/ Earlier(y, x)
    BY <1>3 DEF Earlier
  <2>2. \A x \in P : ~Earlier(x, x)
    BY <1>3 DEF Earlier
  <2>3. \A x, y, z \in P : Earlier(x, y) /\ Earlier(y, z) => Earlier(x, z)
    BY <1>3 DEF Earlier
  <2>. QED BY <1>4, <2>1, <2>2, <2>3 DEF DProofs!Orders
<1>6. \A x \in P : DProofs!Before(R, P, x) = before(x)
  BY DEF DProofs!Before
<1>7. PICK x \in P : Cardinality(before(x)) = 0
  <2>1. Cardinality(P) \in Nat /\ Cardinality(P) # 0
    BY <1>1, FS_CardinalityType, FS_EmptySet
  <2>2. 0 \in 0 .. DProofs!Cardinality(P) - 1
    BY <1>2, <2>1
  <2>. HIDE DEF R
  <2>3. \E x \in P : DProofs!Cardinality(DProofs!Before(R, P, x)) = 0
    BY <1>1, <1>2, <1>5, <2>2, DProofs!Rank
  <2>. QED BY <1>2, <1>6, <2>3
<1>8. before(x) = {}
  <2>1. IsFiniteSet(before(x))
    BY <1>1, FS_Subset
  <2>. HIDE DEF before
  <2>. QED BY <1>7, <2>1, FS_EmptySet
<1>9. \A y \in P : y = x \/ Earlier(x, y)
  BY <1>3, <1>8 DEF Earlier
<1>. QED BY <1>7, <1>9 DEF First

(* Position <<k, s>> of directory d holds an entry that names i, in a table *)
(* n with directory blocks c and inode bitmap ib.                           *)
IsRef(n, c, ib, d, k, s, i) ==
  /\ d \in ib /\ n[d].type = "directory"
  /\ k \in 1 .. Len(n[d].blocks) /\ s \in Slot
  /\ IsNamed(c[n[d].blocks[k]][s]) /\ c[n[d].blocks[k]][s].ino = i

(* Refs for such a table.                                                   *)
Naming(n, c, ib, i) ==
  UNION {{<<d, pos>> : pos \in {x \in (1 .. Len(n[d].blocks)) \X Slot :
                                  /\ IsNamed(c[n[d].blocks[x[1]]][x[2]])
                                  /\ c[n[d].blocks[x[1]]][x[2]].ino = i}}
         : d \in {d \in ib : n[d].type = "directory"}}

(* The references the runs count are Naming of the current tables,          *)
LEMMA RefsIs == \A i : Refs(i) = Naming(inode, content, ibits, i)
BY DEF Refs, Naming, Position, At, Directories

(* and so they are after a step.                                            *)
LEMMA RefsIsNext == \A i : Refs(i)' = Naming(inode', content', ibits', i)
BY DEF Refs, Naming, Position, At, Directories

(* Membership in Naming, without its UNION.                                 *)
LEMMA NamingIs ==
  ASSUME NEW n, NEW c, NEW ib, NEW i
  PROVE  /\ \A d, k, s : <<d, <<k, s>>>> \in Naming(n, c, ib, i) <=> IsRef(n, c, ib, d, k, s, i)
         /\ \A r \in Naming(n, c, ib, i) : \E d, k, s : r = <<d, <<k, s>>>>
<1>1. ASSUME NEW d, NEW k, NEW s, <<d, <<k, s>>>> \in Naming(n, c, ib, i)
      PROVE  IsRef(n, c, ib, d, k, s, i)
  BY <1>1 DEF Naming, IsRef
<1>2. ASSUME NEW d, NEW k, NEW s, IsRef(n, c, ib, d, k, s, i)
      PROVE  <<d, <<k, s>>>> \in Naming(n, c, ib, i)
  <2>. DEFINE D == {x \in ib : n[x].type = "directory"}
              at(x) == {pos \in (1 .. Len(n[x].blocks)) \X Slot :
                          /\ IsNamed(c[n[x].blocks[pos[1]]][pos[2]])
                          /\ c[n[x].blocks[pos[1]]][pos[2]].ino = i}
              refs(x) == {<<x, pos>> : pos \in at(x)}
  <2>1. d \in D /\ <<k, s>> \in at(d)
    BY <1>2 DEF IsRef
  <2>2. <<d, <<k, s>>>> \in refs(d)
    BY <2>1
  <2>3. Naming(n, c, ib, i) = UNION {refs(x) : x \in D}
    BY DEF Naming
  <2>. HIDE DEF D, refs
  <2>. QED BY <2>1, <2>2, <2>3
<1>3. ASSUME NEW r \in Naming(n, c, ib, i) PROVE \E d, k, s : r = <<d, <<k, s>>>>
  BY <1>3 DEF Naming
<1>. QED BY <1>1, <1>2, <1>3

(* Tables with the same references name the same inodes.                    *)
LEMMA NamingEqual ==
  ASSUME NEW n, NEW c, NEW ib, NEW n2, NEW c2, NEW ib2, NEW i,
         \A d, k, s : IsRef(n, c, ib, d, k, s, i) <=> IsRef(n2, c2, ib2, d, k, s, i)
  PROVE  Naming(n, c, ib, i) = Naming(n2, c2, ib2, i)
<1>1. \A r \in Naming(n, c, ib, i) : r \in Naming(n2, c2, ib2, i)
  BY NamingIs
<1>2. \A r \in Naming(n2, c2, ib2, i) : r \in Naming(n, c, ib, i)
  BY NamingIs
<1>. QED BY <1>1, <1>2

(* An inode is named finitely often, so that its names can be counted.      *)
LEMMA NamingFinite ==
  ASSUME NEW n \in [Inode -> INodes], NEW c, NEW ib \in SUBSET Inode, NEW i
  PROVE  IsFiniteSet(Naming(n, c, ib, i))
<1>. DEFINE D == {d \in ib : n[d].type = "directory"}
            at(d) == {x \in (1 .. Len(n[d].blocks)) \X Slot :
                                  /\ IsNamed(c[n[d].blocks[x[1]]][x[2]])
                                  /\ c[n[d].blocks[x[1]]][x[2]].ino = i}
            refs(d) == {<<d, pos>> : pos \in at(d)}
<1>1. IsFiniteSet(D)
  <2>1. IsFiniteSet(Inode)
    BY FS_Interval, FormatAssumption DEF Inode
  <2>. QED BY <2>1, FS_Subset
<1>2. \A d \in D : IsFiniteSet(refs(d))
  <2>. SUFFICES ASSUME NEW d \in D PROVE IsFiniteSet(refs(d))
    OBVIOUS
  <2>1. Len(n[d].blocks) \in Nat
    BY DEF INodes
  <2>2. IsFiniteSet(1 .. Len(n[d].blocks)) /\ IsFiniteSet(Slot)
    BY <2>1, FS_Interval, FormatAssumption DEF Slot
  <2>3. IsFiniteSet((1 .. Len(n[d].blocks)) \X Slot)
    BY <2>2, FS_Product
  <2>4. IsFiniteSet(at(d))
    BY <2>3, FS_Subset
  <2>. DEFINE f == [pos \in at(d) |-> <<d, pos>>]
  <2>. HIDE DEF at
  <2>5. refs(d) = {f[pos] : pos \in DOMAIN f}
    OBVIOUS
  <2>6. f \in Surjection(at(d), refs(d))
    BY DEF Surjection
  <2>. QED BY <2>4, <2>6, FS_Surjection
<1>3. IsFiniteSet({refs(d) : d \in D})
  <2>. HIDE DEF D, refs
  <2>. DEFINE g == [d \in D |-> refs(d)]
  <2>1. g \in Surjection(D, {refs(d) : d \in D})
    BY DEF Surjection
  <2>. QED BY <1>1, <2>1, FS_Surjection
<1>4. IsFiniteSet(UNION {refs(d) : d \in D})
  <2>. HIDE DEF D, refs
  <2>. QED BY <1>2, <1>3, FS_UNION
<1>. QED BY <1>4 DEF Naming

(* Only the types and the content blocks of allocated directories matter.   *)
LEMMA NamingSame ==
  ASSUME NEW n, NEW c, NEW ib, NEW n2, NEW i,
         \A d \in ib : /\ n2[d].type = n[d].type
                       /\ n[d].type = "directory" => n2[d].blocks = n[d].blocks
  PROVE  Naming(n2, c, ib, i) = Naming(n, c, ib, i)
<1>1. \A d, k, s : IsRef(n2, c, ib, d, k, s, i) <=> IsRef(n, c, ib, d, k, s, i)
  BY DEF IsRef
<1>. QED BY <1>1, NamingEqual

(* A content block is at one place of one allocated inode.                  *)
LEMMA BlocksApart ==
  ASSUME NEW n \in [Inode -> INodes], NEW db, NEW ib \in SUBSET Inode, Ownership(n, db, ib),
         NEW d \in ib, NEW k \in 1 .. Len(n[d].blocks)
  PROVE  /\ n[d].blocks[k] \in db /\ n[d].blocks[k] \in Block
         /\ \A e \in ib : \A l \in 1 .. Len(n[e].blocks) :
              n[d].blocks[k] = n[e].blocks[l] => d = e /\ k = l
<1>1. \A e \in ib : n[e].blocks \in Seq(Block) /\ n[e].ptrs \in Seq(Block)
  BY DEF INodes
<1>2. \A e \in ib : DOMAIN n[e].blocks = 1 .. Len(n[e].blocks)
  BY <1>1
<1>3. \A e \in ib : /\ Range(n[e].blocks) \subseteq Range(Blocks(n[e]))
                    /\ IsInjective(n[e].blocks)
  <2>. SUFFICES ASSUME NEW e \in ib
                PROVE  Range(n[e].blocks) \subseteq Range(Blocks(n[e])) /\ IsInjective(n[e].blocks)
    OBVIOUS
  <2>1. IsInjective(n[e].blocks \o n[e].ptrs)
    BY DEF Ownership, Blocks
  <2>2. IsInjective(n[e].blocks)
    BY <1>1, <2>1, ConcatInjective
  <2>3. Range(n[e].blocks \o n[e].ptrs) = Range(n[e].blocks) \cup Range(n[e].ptrs)
    BY <1>1, RangeConcatenation
  <2>. QED BY <2>2, <2>3 DEF Blocks
<1>4. \A e \in ib : \A l \in 1 .. Len(n[e].blocks) : n[e].blocks[l] \in Range(Blocks(n[e]))
  BY <1>2, <1>3 DEF Range
<1>5. n[d].blocks[k] \in db /\ n[d].blocks[k] \in Block
  BY <1>1, <1>4 DEF Ownership
<1>6. ASSUME NEW e \in ib, NEW l \in 1 .. Len(n[e].blocks), n[d].blocks[k] = n[e].blocks[l]
      PROVE  d = e /\ k = l
  <2>1. d = e
    <3>1. n[d].blocks[k] \in Range(Blocks(n[d])) \cap Range(Blocks(n[e]))
      BY <1>4, <1>6
    <3>. QED BY <3>1, Zenon DEF Ownership
  <2>. QED BY <1>2, <1>3, <1>6, <2>1 DEF IsInjective
<1>. QED BY <1>5, <1>6

Contents == [Block -> [Slot -> SlotContent]]

(* One slot of the directory blocks is written, or one block of them.       *)
WroteSlot(c, c2, b, s, e) ==
  /\ c2 \in Contents /\ c2[b][s] = e
  /\ \A x \in Block, t \in Slot : ~(x = b /\ t = s) => c2[x][t] = c[x][t]

WroteBlock(c, c2, b, new) ==
  /\ c2 \in Contents /\ c2[b] = new
  /\ \A x \in Block \ {b} : c2[x] = c[x]

(* EXCEPT on the directory blocks writes a slot, or a block, and nothing    *)
(* else.                                                                    *)
LEMMA Writes ==
  ASSUME NEW c \in Contents, NEW b \in Block
  PROVE  /\ \A s \in Slot, e \in SlotContent : WroteSlot(c, [c EXCEPT ![b][s] = e], b, s, e)
         /\ \A new \in [Slot -> SlotContent] : WroteBlock(c, [c EXCEPT ![b] = new], b, new)
BY DEF Contents, WroteSlot, WroteBlock

(* One more reference, at position <<k, s>> of directory p, to i; and one   *)
(* less.                                                                    *)
OneMore(n, c, n2, c2, ib, p, k, s, i) ==
  /\ \A j : <<p, <<k, s>>>> \notin Naming(n, c, ib, j)
  /\ Naming(n2, c2, ib, i) = Naming(n, c, ib, i) \cup {<<p, <<k, s>>>>}
  /\ \A j : j # i => Naming(n2, c2, ib, j) = Naming(n, c, ib, j)

OneLess(n, c, c2, ib, p, k, s, i) ==
  /\ <<p, <<k, s>>>> \in Naming(n, c, ib, i)
  /\ Naming(n, c2, ib, i) = Naming(n, c, ib, i) \ {<<p, <<k, s>>>>}
  /\ \A j : j # i => Naming(n, c2, ib, j) = Naming(n, c, ib, j)

(* OneMore in terms of positions.                                           *)
LEMMA OneMoreIs ==
  ASSUME NEW n, NEW c, NEW n2, NEW c2, NEW ib, NEW p, NEW k, NEW s, NEW i,
         \A j : ~IsRef(n, c, ib, p, k, s, j),
         \A d, l, t, j : IsRef(n2, c2, ib, d, l, t, j) <=>
                           \/ IsRef(n, c, ib, d, l, t, j)
                           \/ d = p /\ l = k /\ t = s /\ j = i
  PROVE  OneMore(n, c, n2, c2, ib, p, k, s, i)
<1>1. \A j : <<p, <<k, s>>>> \notin Naming(n, c, ib, j)
  BY NamingIs
<1>2. ASSUME NEW j, j # i PROVE Naming(n2, c2, ib, j) = Naming(n, c, ib, j)
  BY <1>2, NamingEqual
<1>3. Naming(n2, c2, ib, i) \subseteq Naming(n, c, ib, i) \cup {<<p, <<k, s>>>>}
  <2>. SUFFICES ASSUME NEW r \in Naming(n2, c2, ib, i), r # <<p, <<k, s>>>>
                PROVE  r \in Naming(n, c, ib, i)
    OBVIOUS
  <2>1. PICK d, l, t : r = <<d, <<l, t>>>>
    BY NamingIs
  <2>2. IsRef(n2, c2, ib, d, l, t, i) /\ ~(d = p /\ l = k /\ t = s)
    BY <2>1, NamingIs
  <2>. QED BY <2>1, <2>2, NamingIs
<1>4. Naming(n, c, ib, i) \cup {<<p, <<k, s>>>>} \subseteq Naming(n2, c2, ib, i)
  <2>1. <<p, <<k, s>>>> \in Naming(n2, c2, ib, i)
    BY NamingIs
  <2>2. ASSUME NEW r \in Naming(n, c, ib, i) PROVE r \in Naming(n2, c2, ib, i)
    <3>1. PICK d, l, t : r = <<d, <<l, t>>>>
      BY NamingIs
    <3>. QED BY <3>1, NamingIs
  <2>. QED BY <2>1, <2>2
<1>. QED BY <1>1, <1>2, <1>3, <1>4 DEF OneMore

(* An entry is put into a free slot.                                        *)
LEMMA AddedHere ==
  ASSUME NEW n \in [Inode -> INodes], NEW c \in Contents, NEW db, NEW ib \in SUBSET Inode,
         Ownership(n, db, ib), NEW p \in ib, n[p].type = "directory",
         NEW k \in 1 .. Len(n[p].blocks), NEW s \in Slot,
         c[n[p].blocks[k]][s].ino = NoInode,
         NEW e \in SlotContent, IsNamed(e),
         NEW c2, WroteSlot(c, c2, n[p].blocks[k], s, e)
  PROVE  OneMore(n, c, n, c2, ib, p, k, s, e.ino)
<1>. DEFINE b == n[p].blocks[k]
<1>1. b \in Block /\ \A d \in ib : \A l \in 1 .. Len(n[d].blocks) :
                          n[d].blocks[l] \in Block /\ (b = n[d].blocks[l] => d = p /\ l = k)
  BY BlocksApart
<1>3. c2[b][s] = e /\ \A x \in Block, t \in Slot : ~(x = b /\ t = s) => c2[x][t] = c[x][t]
  BY DEF WroteSlot
<1>. HIDE DEF b
<1>4. \A j : ~IsRef(n, c, ib, p, k, s, j)
  BY DEF IsRef, IsNamed, b
<1>5. ASSUME NEW d, NEW l, NEW t, NEW j
      PROVE  IsRef(n, c2, ib, d, l, t, j) <=> \/ IsRef(n, c, ib, d, l, t, j)
                                              \/ d = p /\ l = k /\ t = s /\ j = e.ino
  <2>1. CASE d = p /\ l = k /\ t = s
    BY <1>3, <1>4, <2>1 DEF IsRef, b
  <2>2. CASE ~(d = p /\ l = k /\ t = s)
    BY <1>1, <1>3, <2>2 DEF IsRef
  <2>. QED BY <2>1, <2>2
<1>. QED BY <1>4, <1>5, OneMoreIs

(* The directory grows by a block that holds the entry only.                *)
LEMMA AddedGrow ==
  ASSUME NEW n \in [Inode -> INodes], NEW c \in Contents, NEW db, NEW ib \in SUBSET Inode,
         Ownership(n, db, ib), NEW p \in ib, n[p].type = "directory",
         NEW eb \in Block \ db, NEW n2,
         \A d \in ib : n2[d].type = n[d].type,
         \A d \in ib \ {p} : n2[d].blocks = n[d].blocks,
         n2[p].blocks = n[p].blocks \o <<eb>>,
         NEW e \in SlotContent, IsNamed(e),
         NEW c2, WroteBlock(c, c2, eb, [s \in Slot |-> IF s = 1 THEN e ELSE Free])
  PROVE  OneMore(n, c, n2, c2, ib, p, Len(n[p].blocks) + 1, 1, e.ino)
<1>. DEFINE new == [s \in Slot |-> IF s = 1 THEN e ELSE Free]
            k == Len(n[p].blocks) + 1
<1>1. ~IsNamed(Free)
  BY DEF Free, IsNamed
<1>3. c2[eb] = new /\ \A x \in Block \ {eb} : c2[x] = c[x]
  BY DEF WroteBlock
<1>4. \A d \in ib : \A l \in 1 .. Len(n[d].blocks) : n[d].blocks[l] \in Block \ {eb}
  BY BlocksApart
<1>5. n[p].blocks \in Seq(Block) /\ Len(n[p].blocks) \in Nat
  BY DEF INodes
<1>6. /\ Len(n2[p].blocks) = k /\ n2[p].blocks[k] = eb
      /\ \A l \in 1 .. k - 1 : n2[p].blocks[l] = n[p].blocks[l]
  BY <1>5, ConcatProperties
<1>7. 1 \in Slot
  BY FormatAssumption DEF Slot
<1>8. \A j : ~IsRef(n, c, ib, p, k, 1, j)
  BY <1>5 DEF IsRef
<1>. HIDE DEF k
<1>9. ASSUME NEW d, NEW l, NEW t, NEW j
      PROVE  IsRef(n2, c2, ib, d, l, t, j) <=> \/ IsRef(n, c, ib, d, l, t, j)
                                               \/ d = p /\ l = k /\ t = 1 /\ j = e.ino
  <2>1. CASE d = p /\ l = k
    <3>1. ~IsRef(n, c, ib, d, l, t, j)
      BY <1>5, <2>1 DEF IsRef, k
    <3>2. k \in 1 .. Len(n2[p].blocks)
      BY <1>5, <1>6 DEF k
    <3>3. t \in Slot => c2[n2[p].blocks[k]][t] = IF t = 1 THEN e ELSE Free
      BY <1>3, <1>6
    <3>. QED BY <1>1, <1>7, <2>1, <3>1, <3>2, <3>3 DEF IsRef
  <2>2. CASE d = p /\ l # k
    <3>1. l \in 1 .. Len(n2[p].blocks) <=> l \in 1 .. Len(n[p].blocks)
      BY <1>5, <1>6, <2>2 DEF k
    <3>2. l \in 1 .. Len(n[p].blocks) => n2[p].blocks[l] = n[p].blocks[l]
      BY <1>5, <1>6 DEF k
    <3>. QED BY <1>3, <1>4, <2>2, <3>1, <3>2 DEF IsRef
  <2>3. CASE d # p
    BY <1>3, <1>4, <2>3 DEF IsRef
  <2>. QED BY <2>1, <2>2, <2>3
<1>10. OneMore(n, c, n2, c2, ib, p, k, 1, e.ino)
  BY <1>8, <1>9, OneMoreIs
<1>. QED BY <1>10 DEF k

(* The slot of an entry is freed.                                           *)
LEMMA FreedEntry ==
  ASSUME NEW n \in [Inode -> INodes], NEW c \in Contents, NEW db, NEW ib \in SUBSET Inode,
         Ownership(n, db, ib), NEW p, NEW k, NEW s, NEW i, IsRef(n, c, ib, p, k, s, i),
         NEW c2, WroteSlot(c, c2, n[p].blocks[k], s, Free)
  PROVE  OneLess(n, c, c2, ib, p, k, s, i)
<1>. DEFINE b == n[p].blocks[k]
<1>0. /\ p \in ib /\ n[p].type = "directory" /\ k \in 1 .. Len(n[p].blocks) /\ s \in Slot
      /\ c[b][s].ino = i
  BY DEF IsRef
<1>1. b \in Block /\ \A d \in ib : \A l \in 1 .. Len(n[d].blocks) :
                          n[d].blocks[l] \in Block /\ (b = n[d].blocks[l] => d = p /\ l = k)
  BY <1>0, BlocksApart
<1>2. ~IsNamed(Free)
  BY DEF Free, IsNamed
<1>4. c2[b][s] = Free /\ \A x \in Block, t \in Slot : ~(x = b /\ t = s) => c2[x][t] = c[x][t]
  BY DEF WroteSlot
<1>. HIDE DEF b
<1>5. ASSUME NEW d, NEW l, NEW t, NEW j
      PROVE  IsRef(n, c2, ib, d, l, t, j) <=> /\ IsRef(n, c, ib, d, l, t, j)
                                              /\ ~(d = p /\ l = k /\ t = s)
  <2>1. CASE d = p /\ l = k /\ t = s
    BY <1>2, <1>4, <2>1 DEF IsRef, b
  <2>2. CASE ~(d = p /\ l = k /\ t = s)
    BY <1>1, <1>4, <2>2 DEF IsRef
  <2>. QED BY <2>1, <2>2
<1>6. <<p, <<k, s>>>> \in Naming(n, c, ib, i)
  BY NamingIs
<1>7. ASSUME NEW j, j # i PROVE Naming(n, c2, ib, j) = Naming(n, c, ib, j)
  <2>1. ~IsRef(n, c, ib, p, k, s, j)
    BY <1>0, <1>7 DEF IsRef, b
  <2>. QED BY <1>5, <2>1, NamingEqual
<1>8. Naming(n, c2, ib, i) \subseteq Naming(n, c, ib, i) \ {<<p, <<k, s>>>>}
  <2>. SUFFICES ASSUME NEW r \in Naming(n, c2, ib, i)
                PROVE  r \in Naming(n, c, ib, i) /\ r # <<p, <<k, s>>>>
    OBVIOUS
  <2>1. PICK d, l, t : r = <<d, <<l, t>>>>
    BY NamingIs
  <2>. QED BY <1>5, <2>1, NamingIs
<1>9. Naming(n, c, ib, i) \ {<<p, <<k, s>>>>} \subseteq Naming(n, c2, ib, i)
  <2>. SUFFICES ASSUME NEW r \in Naming(n, c, ib, i), r # <<p, <<k, s>>>>
                PROVE  r \in Naming(n, c2, ib, i)
    OBVIOUS
  <2>1. PICK d, l, t : r = <<d, <<l, t>>>>
    BY NamingIs
  <2>. QED BY <1>5, <2>1, NamingIs
<1>. QED BY <1>6, <1>7, <1>8, <1>9 DEF OneLess

(* Inode i of a table names nothing: it is not a directory, or one that has *)
(* only the entries of Directory::new, in a block that was clear.           *)
NamesNothing(x, c, c2, db, i, p) ==
  \/ x.type # "directory" /\ c2 = c
  \/ \E b \in Block \ db : x.blocks = <<b>> /\ c2 = [c EXCEPT ![b] = NewDirectory(i, p)]

(* A new inode, a directory with its two dot entries included, names no     *)
(* inode.                                                                   *)
LEMMA NewNames ==
  ASSUME NEW n \in [Inode -> INodes], NEW c \in Contents, NEW db, NEW ib \in SUBSET Inode,
         Ownership(n, db, ib), NEW i \in Inode \ ib, NEW p \in Inode, NEW n2, NEW c2,
         \A d \in ib : n2[d] = n[d], NamesNothing(n2[i], c, c2, db, i, p)
  PROVE  /\ c2 \in Contents
         /\ \A j : Naming(n2, c2, ib \cup {i}, j) = Naming(n, c, ib, j)
<1>1. CASE n2[i].type # "directory" /\ c2 = c
  <2>. SUFFICES ASSUME NEW j PROVE Naming(n2, c2, ib \cup {i}, j) = Naming(n, c, ib, j)
    BY <1>1
  <2>1. \A d, k, s : IsRef(n2, c2, ib \cup {i}, d, k, s, j) <=> IsRef(n, c, ib, d, k, s, j)
    BY <1>1 DEF IsRef
  <2>. QED BY <2>1, NamingEqual
<1>2. CASE \E b \in Block \ db : /\ n2[i].blocks = <<b>>
                                 /\ c2 = [c EXCEPT ![b] = NewDirectory(i, p)]
  <2>1. PICK b \in Block \ db : /\ n2[i].blocks = <<b>>
                                /\ c2 = [c EXCEPT ![b] = NewDirectory(i, p)]
    BY <1>2
  <2>2. NewDirectory(i, p) \in [Slot -> SlotContent]
    BY DEF NewDirectory, Entry, Free, SlotContent, Types
  <2>3. \A s \in Slot : ~IsNamed(NewDirectory(i, p)[s])
    BY DEF NewDirectory, Entry, Free, IsNamed
  <2>4. c2 \in Contents /\ c2[b] = NewDirectory(i, p) /\ \A x \in Block \ {b} : c2[x] = c[x]
    BY <2>1, <2>2 DEF Contents
  <2>5. \A d \in ib : \A l \in 1 .. Len(n[d].blocks) : n[d].blocks[l] \in Block \ {b}
    BY BlocksApart
  <2>6. Len(n2[i].blocks) = 1 /\ n2[i].blocks[1] = b
    BY <2>1
  <2>. SUFFICES ASSUME NEW j PROVE Naming(n2, c2, ib \cup {i}, j) = Naming(n, c, ib, j)
    BY <2>4
  <2>7. ASSUME NEW d, NEW k, NEW s
        PROVE  IsRef(n2, c2, ib \cup {i}, d, k, s, j) <=> IsRef(n, c, ib, d, k, s, j)
    <3>1. CASE d = i
      <4>1. k \in 1 .. Len(n2[i].blocks) => n2[i].blocks[k] = b
        BY <2>6
      <4>. QED BY <2>3, <2>4, <3>1, <4>1 DEF IsRef
    <3>2. CASE d # i
      BY <2>4, <2>5, <3>2 DEF IsRef
    <3>. QED BY <3>1, <3>2
  <2>. QED BY <2>7, NamingEqual
<1>. QED BY <1>1, <1>2 DEF NamesNothing

(* A released inode that names nothing takes no reference with it.          *)
LEMMA ReleasedNames ==
  ASSUME NEW n, NEW c, NEW ib, NEW i, \A k, s, j : ~IsRef(n, c, ib, i, k, s, j)
  PROVE  \A j : Naming(n, c, ib \ {i}, j) = Naming(n, c, ib, j)
<1>. SUFFICES ASSUME NEW j PROVE Naming(n, c, ib \ {i}, j) = Naming(n, c, ib, j)
  OBVIOUS
<1>1. ASSUME NEW d, NEW k, NEW s
      PROVE  IsRef(n, c, ib \ {i}, d, k, s, j) <=> IsRef(n, c, ib, d, k, s, j)
  <2>1. CASE d = i
    <3>1. ~IsRef(n, c, ib, d, k, s, j)
      BY <2>1
    <3>. QED BY <2>1, <3>1 DEF IsRef
  <2>2. CASE d # i
    BY <2>2 DEF IsRef
  <2>. QED BY <2>1, <2>2
<1>. QED BY <1>1, NamingEqual

(* Blocks allocated to add one entry to p.                                  *)
FreshFor(p, extra) == /\ extra \in Seq(Block \ dbits) /\ IsInjective(extra)
                      /\ Len(extra) = EntryBlocks(p)

(* The table with p as add_entry leaves it.                                 *)
WithParent(p, extra) == [inode EXCEPT ![p] = Parent(p, extra)]

(* Adding an entry that names i to a directory, here or in a new block: one *)
(* reference more, and the blocks that were allocated for it are its own.   *)
EntryIn(p, i, extra, n1, c1) ==
  /\ Parent(p, extra) \in INodes
  /\ n1 \in [Inode -> INodes] /\ c1 \in Contents
  /\ Ownership(n1, dbits \cup Range(extra), ibits)
  /\ \A d \in Inode : n1[d].type = inode[d].type /\ n1[d].links = inode[d].links
  /\ \A d \in ibits : \A k \in 1 .. Len(inode[d].blocks) :
       k \in 1 .. Len(n1[d].blocks) /\ n1[d].blocks[k] = inode[d].blocks[k]
  /\ \E k, s : OneMore(inode, content, n1, c1, ibits, p, k, s, i)

LEMMA EntryAdded ==
  ASSUME TypeOK, BlockOwnership, NEW p \in Directories, NEW e \in SlotContent, IsNamed(e),
         NEW extra, FreshFor(p, extra)
  PROVE  EntryIn(p, e.ino, extra, WithParent(p, extra), Added(p, e, EntryBlock(extra)))
<1>. DEFINE n1 == WithParent(p, extra)
            c1 == Added(p, e, EntryBlock(extra))
<1>0. /\ extra \in Seq(Block \ dbits) /\ IsInjective(extra) /\ Len(extra) = EntryBlocks(p)
      /\ n1 = [inode EXCEPT ![p] = Parent(p, extra)]
  BY DEF FreshFor, WithParent
<1>. HIDE DEF n1
<1>1. /\ inode \in [Inode -> INodes] /\ content \in Contents
      /\ ibits \in SUBSET Inode /\ dbits \subseteq Block
      /\ p \in ibits /\ p \in Inode /\ inode[p].type = "directory"
  BY DEF TypeOK, INodes, Contents, Directories
<1>2. Ownership(inode, dbits, ibits)
  BY OwnershipIs
<1>3. inode[p] \in INodes /\ inode[p].blocks \in Seq(Block) /\ Len(inode[p].blocks) \in Nat
  BY <1>1 DEF INodes
<1>4. CASE Fit(p) # {}
  <2>1. Parent(p, extra) = inode[p] /\ n1 = inode
    BY <1>0, <1>1, <1>4 DEF Parent
  <2>2. Ownership(n1, dbits \cup Range(extra), ibits)
    BY <1>2, <2>1, OwnershipMore
  <2>. DEFINE pos == First(Fit(p))
  <2>3. pos \in Fit(p)
    <3>1. Fit(p) \in SUBSET ((1 .. Len(inode[p].blocks)) \X Slot)
      BY DEF Fit, Position
    <3>. QED BY <1>3, <1>4, <3>1, FirstIn
  <2>. HIDE DEF pos
  <2>4. /\ pos[1] \in 1 .. Len(inode[p].blocks) /\ pos[2] \in Slot
        /\ content[inode[p].blocks[pos[1]]][pos[2]].ino = NoInode
    BY <2>3 DEF Fit, Position, At
  <2>5. c1 = [content EXCEPT ![inode[p].blocks[pos[1]]][pos[2]] = e]
    BY <1>4 DEF Added, pos
  <2>. HIDE DEF c1
  <2>6. WroteSlot(content, c1, inode[p].blocks[pos[1]], pos[2], e)
    <3>. DEFINE b == inode[p].blocks[pos[1]]
    <3>1. b \in Block /\ c1 = [content EXCEPT ![b][pos[2]] = e]
      BY <1>3, <2>4, <2>5
    <3>. HIDE DEF b
    <3>2. WroteSlot(content, c1, b, pos[2], e)
      BY <1>1, <2>4, <3>1, Writes
    <3>. QED BY <3>2 DEF b
  <2>7. OneMore(inode, content, inode, c1, ibits, p, pos[1], pos[2], e.ino)
    BY <1>1, <1>2, <2>4, <2>6, AddedHere
  <2>8. EntryIn(p, e.ino, extra, n1, c1)
    <3>1. c1 \in Contents /\ \E k, s : OneMore(inode, content, n1, c1, ibits, p, k, s, e.ino)
      BY <2>1, <2>6, <2>7 DEF WroteSlot
    <3>. QED BY <1>1, <1>3, <2>1, <2>2, <3>1 DEF EntryIn
  <2>. QED BY <2>8 DEF c1, n1
<1>5. CASE Fit(p) = {}
  <2>. DEFINE m == MetadataToGrow(Len(inode[p].blocks), 1)
              eb == extra[1]
              pool == SubSeq(Tail(extra), 1, m)
              F == Range(extra)
  <2>1. m \in Nat /\ Len(extra) = 1 + m
    <3>1. MetadataToGrow(Len(inode[p].blocks), 1) \in Nat
      BY <1>3, GrowMonotone, 1 \in Nat, 1 <= 1
    <3>. QED BY <1>0, <1>5, <3>1 DEF EntryBlocks, blocks_necessary_to_grow_n
  <2>2. /\ extra # <<>> /\ extra \in Seq(Block) /\ Tail(extra) \in Seq(Block)
        /\ Len(Tail(extra)) = m
        /\ eb \in Block \ dbits
    BY <1>0, <2>1
  <2>3. IsInjective(Tail(extra)) /\ Range(Tail(extra)) \subseteq F \ {eb}
    <3>1. DOMAIN Tail(extra) = 1 .. m /\ DOMAIN extra = 1 .. m + 1
      BY <2>1, <2>2
    <3>2. \A k \in 1 .. m : Tail(extra)[k] = extra[k + 1] /\ k + 1 \in 1 .. m + 1 /\ k + 1 # 1
      <4>. HIDE DEF m
      <4>. QED BY <2>1, <2>2
    <3>3. \A k \in 1 .. m : Tail(extra)[k] \in F /\ Tail(extra)[k] # eb
      BY <1>0, <2>1, <3>1, <3>2 DEF IsInjective, Range
    <3>4. IsInjective(Tail(extra))
      <4>. SUFFICES ASSUME NEW k \in 1 .. m, NEW l \in 1 .. m, Tail(extra)[k] = Tail(extra)[l]
                    PROVE  k = l
        BY <3>1 DEF IsInjective
      <4>1. k + 1 = l + 1
        BY <1>0, <3>1, <3>2 DEF IsInjective
      <4>. QED BY <2>1, <4>1
    <3>. QED BY <3>1, <3>3, <3>4 DEF Range
  <2>4. pool \in Seq(Block) /\ IsInjective(pool) /\ Range(pool) \subseteq F \ {eb}
    <3>. DEFINE T == Tail(extra)
    <3>1. T \in Seq(Block) /\ m \in 0 .. Len(T) /\ IsInjective(T) /\ Range(T) \subseteq F \ {eb}
      BY <2>1, <2>2, <2>3
    <3>. HIDE DEF T, m, F, eb
    <3>2. /\ SubSeq(T, 1, m) \in Seq(Block) /\ IsInjective(SubSeq(T, 1, m))
          /\ Range(SubSeq(T, 1, m)) \subseteq Range(T)
      BY <3>1, 1 \in Nat \ {0}, SubSeqInjective
    <3>. QED BY <3>1, <3>2 DEF T
  <2>5. <<eb>> \in Seq(Block) /\ IsInjective(<<eb>>) /\ Range(<<eb>>) = {eb} /\ Len(<<eb>>) = 1
    BY <2>2 DEF IsInjective, Range
  <2>6. F \cap dbits = {} /\ eb \in F
    <3>1. F \subseteq Block \ dbits
      BY <1>0, RangeOfSeq
    <3>2. 1 \in DOMAIN extra
      BY <2>1, <2>2
    <3>. QED BY <3>1, <3>2 DEF Range
  <2>7. IsInjective(Blocks(inode[p])) /\ Range(Blocks(inode[p])) \subseteq dbits
    BY <1>1, <1>2 DEF Ownership
  <2>. DEFINE y == [inode[p] EXCEPT !.blocks = @ \o <<eb>>, !.ptrs = @ \o pool]
  <2>8. Parent(p, extra) = y
    BY <1>5, <2>5 DEF Parent, Grown, blocks_necessary_to_grow_n
  <2>. HIDE DEF F, pool, eb
  <2>9. /\ y \in INodes
        /\ y.type = inode[p].type /\ y.links = inode[p].links
        /\ y.blocks = inode[p].blocks \o <<eb>> /\ y.ptrs = inode[p].ptrs \o pool
    <3>1. inode[p].blocks \o <<eb>> \in Seq(Block) /\ inode[p].ptrs \o pool \in Seq(Block)
      BY <1>3, <2>4, <2>5, ConcatProperties DEF INodes
    <3>. QED BY <1>3, <3>1 DEF INodes
  <2>. HIDE DEF y
  <2>10. /\ IsInjective(Blocks(y))
         /\ Range(Blocks(y)) = Range(Blocks(inode[p])) \cup Range(<<eb>>) \cup Range(pool)
    <3>1. (Range(<<eb>>) \cup Range(pool)) \cap Range(Blocks(inode[p])) = {}
      BY <2>4, <2>5, <2>6, <2>7
    <3>2. Range(<<eb>>) \cap Range(pool) = {}
      BY <2>4, <2>5
    <3>. DEFINE data == <<eb>>
                bl == inode[p].blocks
                pt == inode[p].ptrs
    <3>3. /\ data \in Seq(Block) /\ IsInjective(data) /\ Range(data) \cap Range(pool) = {}
          /\ bl \in Seq(Block) /\ pt \in Seq(Block) /\ IsInjective(bl \o pt)
          /\ (Range(data) \cup Range(pool)) \cap Range(bl \o pt) = {}
          /\ Blocks(y) = (bl \o data) \o (pt \o pool)
          /\ Blocks(inode[p]) = bl \o pt
      BY <1>3, <2>5, <2>7, <2>9, <3>1, <3>2 DEF Blocks, INodes
    <3>. HIDE DEF data, bl, pt
    <3>4. /\ IsInjective(Blocks(y))
          /\ Range(Blocks(y)) = Range(Blocks(inode[p])) \cup Range(data) \cup Range(pool)
      <4>1. /\ IsInjective((bl \o data) \o (pt \o pool))
            /\ Range((bl \o data) \o (pt \o pool)) =
                 Range(bl \o pt) \cup Range(data) \cup Range(pool)
        BY <2>4, <3>3, GrownBlocks, SMTT(30)
      <4>. QED BY <3>3, <4>1, Zenon
    <3>. QED BY <3>4 DEF data
  <2>11. /\ n1 \in [Inode -> INodes] /\ n1[p] = y /\ \A d \in Inode \ {p} : n1[d] = inode[d]
    BY <1>0, <1>1, <2>8, <2>9
  <2>12. Ownership(n1, dbits \cup F, ibits)
    <3>1. n1 = [inode EXCEPT ![p] = y]
      BY <1>0, <2>8
    <3>. QED BY <1>1, <1>2, <2>4, <2>5, <2>6, <2>10, <3>1, OwnershipGrown
  <2>13. c1 = [content EXCEPT ![eb] = [s \in Slot |-> IF s = 1 THEN e ELSE Free]]
    BY <1>5, <2>2 DEF Added, EntryBlock, eb
  <2>. HIDE DEF c1
  <2>14. /\ c1 \in Contents
         /\ OneMore(inode, content, n1, c1, ibits, p, Len(inode[p].blocks) + 1, 1, e.ino)
    <3>1. \A d \in ibits : n1[d].type = inode[d].type
      BY <1>1, <2>9, <2>11
    <3>2. \A d \in ibits \ {p} : n1[d].blocks = inode[d].blocks
      BY <1>1, <2>11
    <3>3. n1[p].blocks = inode[p].blocks \o <<eb>>
      BY <2>9, <2>11
    <3>4. [s \in Slot |-> IF s = 1 THEN e ELSE Free] \in [Slot -> SlotContent]
      BY DEF Free, SlotContent, Types
    <3>5. WroteBlock(content, c1, eb, [s \in Slot |-> IF s = 1 THEN e ELSE Free])
      BY <1>1, <2>2, <2>13, <3>4, Writes
    <3>6. OneMore(inode, content, n1, c1, ibits, p, Len(inode[p].blocks) + 1, 1, e.ino)
      BY <1>1, <1>2, <2>2, <3>1, <3>2, <3>3, <3>5, AddedGrow
    <3>. QED BY <3>5, <3>6 DEF WroteBlock
  <2>15. \A d \in Inode : n1[d].type = inode[d].type /\ n1[d].links = inode[d].links
    BY <2>9, <2>11
  <2>16. \A k \in 1 .. Len(inode[p].blocks) :
           k \in 1 .. Len(y.blocks) /\ y.blocks[k] = inode[p].blocks[k]
    BY <1>3, <2>5, <2>9, ConcatProperties
  <2>17. \A d \in ibits : \A k \in 1 .. Len(inode[d].blocks) :
           k \in 1 .. Len(n1[d].blocks) /\ n1[d].blocks[k] = inode[d].blocks[k]
    BY <1>1, <2>11, <2>16
  <2>18. EntryIn(p, e.ino, extra, n1, c1)
    BY <2>8, <2>9, <2>11, <2>12, <2>14, <2>15, <2>17 DEF F, EntryIn
  <2>. QED BY <2>18 DEF c1, n1
<1>. QED BY <1>4, <1>5

-----------------------------------------------------------------------------
(* The inductive invariant                                                  *)

(* The root is allocated and nothing names it; what is named is allocated,  *)
(* and its link counter is the number of its names.                         *)
Counted(n, c, ib) ==
  /\ Root \in ib /\ Naming(n, c, ib, Root) = {}
  /\ \A i \in Inode : Naming(n, c, ib, i) # {} =>
       i \in ib /\ n[i].links = Cardinality(Naming(n, c, ib, i))

NamesCounted == Counted(inode, content, ibits)

(* A handle refers to an allocated file.                                    *)
OpenFiles == \A h \in Handles : open[h] # NoInode => open[h] \in ibits /\ inode[open[h]].type = "file"

IInv == TypeOK /\ BlockOwnership /\ NamesCounted /\ OpenFiles

(* Allocated inodes that no entry names, and a step that adds none.         *)
Orphans(n, c, ib) == {i \in ib \ {Root} : Naming(n, c, ib, i) = {}}
NoneOrphaned == Orphans(inode', content', ibits') \subseteq Orphans(inode, content, ibits)

(* A step whose references are those of the state before, or more.          *)
LEMMA OrphansSame ==
  ASSUME NEW n, NEW c, NEW ib, NEW n2, NEW c2, NEW ib2, ib2 \subseteq ib,
         \A j : Naming(n, c, ib, j) \subseteq Naming(n2, c2, ib2, j)
  PROVE  Orphans(n2, c2, ib2) \subseteq Orphans(n, c, ib)
  BY DEF Orphans

(* A step that removes one reference to an inode that has at least two      *)
(* links.                                                                   *)
LEMMA OrphansLess ==
  ASSUME NEW n \in [Inode -> INodes], NEW c, NEW ib, NEW i \in Inode, Counted(n, c, ib),
         NEW r \in Naming(n, c, ib, i), n[i].links > 1
  PROVE  Naming(n, c, ib, i) \ {r} # {}
<1>1. Cardinality(Naming(n, c, ib, i)) > 1
  BY DEF Counted
<1>2. SUFFICES ASSUME Naming(n, c, ib, i) \ {r} = {} PROVE FALSE
  OBVIOUS
<1>3. Naming(n, c, ib, i) = {r}
  BY <1>2
<1>4. Cardinality({r}) = 1
  BY FS_Singleton, Zenon
<1>5. Cardinality(Naming(n, c, ib, i)) = 1
  BY <1>3, <1>4, Zenon
<1>. QED BY <1>1, <1>5

(* What the steps that add, and that remove, a reference do to the counts.  *)
LEMMA CountedMore ==
  ASSUME NEW n \in [Inode -> INodes], NEW c, NEW ib \in SUBSET Inode, Counted(n, c, ib),
         NEW n2, NEW c2, NEW ib2, ib \subseteq ib2, NEW i \in ib2, i # Root,
         NEW r, r \notin Naming(n, c, ib, i),
         Naming(n2, c2, ib2, i) = Naming(n, c, ib, i) \cup {r},
         \A j : j # i => Naming(n2, c2, ib2, j) = Naming(n, c, ib, j),
         n2[i].links = Cardinality(Naming(n, c, ib, i)) + 1,
         \A j \in ib \ {i} : n2[j].links = n[j].links
  PROVE  Counted(n2, c2, ib2)
<1>1. IsFiniteSet(Naming(n, c, ib, i))
  BY NamingFinite
<1>2. Cardinality(Naming(n2, c2, ib2, i)) = Cardinality(Naming(n, c, ib, i)) + 1
  <2>. DEFINE N == Naming(n, c, ib, i)
  <2>1. IsFiniteSet(N) /\ r \notin N /\ Naming(n2, c2, ib2, i) = N \cup {r}
    BY <1>1
  <2>. HIDE DEF N
  <2>2. Cardinality(N \cup {r}) = Cardinality(N) + 1
    BY <2>1, FS_AddElement
  <2>. QED BY <2>1, <2>2 DEF N
<1>3. ASSUME NEW j \in Inode, Naming(n2, c2, ib2, j) # {}
      PROVE  j \in ib2 /\ n2[j].links = Cardinality(Naming(n2, c2, ib2, j))
  <2>1. CASE j = i
    BY <1>2, <2>1
  <2>2. CASE j # i
    BY <1>3, <2>2 DEF Counted
  <2>. QED BY <2>1, <2>2
<1>. QED BY <1>3 DEF Counted

(* Link counts stay exact when a reference goes and the inode it named is   *)
(* decremented, or freed because that was the last one.                     *)
LEMMA CountedLess ==
  ASSUME NEW n \in [Inode -> INodes], NEW c, NEW ib \in SUBSET Inode, Counted(n, c, ib),
         NEW n2, NEW c2, NEW ib2 \in SUBSET ib, NEW i \in Inode,
         NEW r \in Naming(n, c, ib, i),
         Naming(n2, c2, ib2, i) = Naming(n, c, ib, i) \ {r},
         \A j : j # i => Naming(n2, c2, ib2, j) = Naming(n, c, ib, j),
         \A j \in ib \ {i} : j \in ib2 /\ n2[j].links = n[j].links,
         i \in ib2 => n2[i].links = n[i].links - 1,
         i \notin ib2 => n[i].links <= 1
  PROVE  Counted(n2, c2, ib2)
<1>1. IsFiniteSet(Naming(n, c, ib, i))
  BY NamingFinite
<1>2. /\ IsFiniteSet(Naming(n2, c2, ib2, i))
      /\ Cardinality(Naming(n2, c2, ib2, i)) = Cardinality(Naming(n, c, ib, i)) - 1
      /\ Cardinality(Naming(n2, c2, ib2, i)) \in Nat
  BY <1>1, FS_RemoveElement, FS_CardinalityType
<1>3. i \in ib /\ n[i].links = Cardinality(Naming(n, c, ib, i)) /\ i # Root
  BY DEF Counted
<1>4. Cardinality(Naming(n, c, ib, i)) \in Nat
  BY <1>1, FS_CardinalityType
<1>5. i \notin ib2 => Naming(n2, c2, ib2, i) = {}
  <2>. SUFFICES ASSUME i \notin ib2 PROVE Cardinality(Naming(n2, c2, ib2, i)) = 0
    BY <1>2, FS_EmptySet
  <2>. QED BY <1>2, <1>3, <1>4
<1>6. ASSUME NEW j \in Inode, Naming(n2, c2, ib2, j) # {}
      PROVE  j \in ib2 /\ n2[j].links = Cardinality(Naming(n2, c2, ib2, j))
  <2>1. CASE j = i
    BY <1>2, <1>3, <1>5, <1>6, <2>1
  <2>2. CASE j # i
    BY <1>6, <2>2 DEF Counted
  <2>. QED BY <2>1, <2>2
<1>7. Root \in ib2 /\ Naming(n2, c2, ib2, Root) = {}
  BY <1>3 DEF Counted
<1>. QED BY <1>6, <1>7 DEF Counted

(* The entry of a file the model can name.                                  *)
LEMMA EntryNamed ==
  ASSUME NEW name \in Names, NEW i \in Inode, NEW type \in Types
  PROVE  /\ Entry(name, i, type) \in SlotContent /\ IsNamed(Entry(name, i, type))
         /\ Entry(name, i, type).ino = i
<1>1. name \notin {".", ".."} /\ i # NoInode
  BY FormatAssumption DEF Inode, NoInode
<1>. QED BY <1>1 DEF Entry, SlotContent, IsNamed

(* What the type invariant says of the table and the directory blocks.      *)
LEMMA Typed ==
  ASSUME TypeOK
  PROVE  /\ inode \in [Inode -> INodes] /\ content \in Contents
         /\ ibits \in SUBSET Inode /\ dbits \in SUBSET Block
BY DEF TypeOK, INodes, Contents

(* The table with the link counter of i incremented too.                    *)
WithLink(i, p, extra) == [inode EXCEPT ![i].links = @ + 1, ![p] = Parent(p, extra)]

(* Tables that differ in the link counter of i, by one.                     *)
SameBut(i, n, n2) ==
  /\ n \in [Inode -> INodes]
  /\ \A d \in Inode : /\ n2[d].type = n[d].type
                      /\ n2[d].blocks = n[d].blocks /\ n2[d].ptrs = n[d].ptrs
  /\ n2[i].links = n[i].links + 1
  /\ \A d \in Inode \ {i} : n2[d].links = n[d].links

(* A link to i is added to directory p: the part hard links and rename      *)
(* share.                                                                   *)
LEMMA LinkAdded ==
  ASSUME IInv, NEW p \in Directories, NEW i \in ibits, i # p, Refs(i) # {}, NEW name \in Names,
         NEW extra, FreshFor(p, extra)
  PROVE  LET n2 == WithLink(i, p, extra)
             c2 == Added(p, Entry(name, i, "file"), EntryBlock(extra))
         IN  /\ n2 \in [Inode -> INodes] /\ c2 \in Contents
             /\ Ownership(n2, dbits \cup Range(extra), ibits)
             /\ \A d \in Inode : n2[d].type = inode[d].type
             /\ SameBut(i, WithParent(p, extra), n2) /\ n2[i].links = inode[i].links + 1
             /\ \A d \in ibits : \A k \in 1 .. Len(inode[d].blocks) :
                  k \in 1 .. Len(n2[d].blocks) /\ n2[d].blocks[k] = inode[d].blocks[k]
             /\ \A j : Naming(inode, content, ibits, j) \subseteq Naming(n2, c2, ibits, j)
             /\ Counted(n2, c2, ibits)
<1>. DEFINE e == Entry(name, i, "file")
            n1 == WithParent(p, extra)
            n2 == WithLink(i, p, extra)
            c2 == Added(p, e, EntryBlock(extra))
            y == [inode[i] EXCEPT !.links = @ + 1]
<1>1. /\ inode \in [Inode -> INodes] /\ content \in Contents
      /\ ibits \in SUBSET Inode /\ TypeOK /\ BlockOwnership
      /\ i \in Inode /\ p \in Inode /\ p \in ibits
  BY Typed DEF IInv, Directories
<1>2. e \in SlotContent /\ IsNamed(e) /\ e.ino = i
  BY <1>1, EntryNamed, "file" \in Types DEF Types
<1>3. /\ Parent(p, extra) \in INodes /\ n1 \in [Inode -> INodes] /\ c2 \in Contents
      /\ Ownership(n1, dbits \cup Range(extra), ibits)
      /\ \A d \in Inode : n1[d].type = inode[d].type /\ n1[d].links = inode[d].links
      /\ \A d \in ibits : \A k \in 1 .. Len(inode[d].blocks) :
           k \in 1 .. Len(n1[d].blocks) /\ n1[d].blocks[k] = inode[d].blocks[k]
      /\ \E k, s : OneMore(inode, content, n1, c2, ibits, p, k, s, i)
  <2>. HIDE DEF e
  <2>1. EntryIn(p, e.ino, extra, n1, c2)
    BY <1>1, <1>2, EntryAdded
  <2>. HIDE DEF n1, c2
  <2>. QED BY <1>2, <2>1 DEF EntryIn
<1>4. inode[i] \in INodes
  BY <1>1
<1>5. /\ y \in INodes /\ y.links = inode[i].links + 1 /\ y.type = inode[i].type
      /\ y.blocks = inode[i].blocks /\ y.ptrs = inode[i].ptrs
  BY <1>4 DEF INodes
<1>6. /\ n1 = [inode EXCEPT ![p] = Parent(p, extra)]
      /\ n2 = [inode EXCEPT ![i] = y, ![p] = Parent(p, extra)]
  BY <1>1 DEF WithParent, WithLink
<1>. HIDE DEF y, n1, n2, c2, e
<1>7. /\ n2 \in [Inode -> INodes] /\ n2[i] = y
      /\ n1[i] = inode[i]
      /\ \A d \in Inode \ {i} : n2[d] = n1[d]
  BY <1>1, <1>3, <1>5, <1>6
<1>8. /\ \A d \in Inode : /\ n2[d].type = n1[d].type
                          /\ n2[d].blocks = n1[d].blocks /\ n2[d].ptrs = n1[d].ptrs
      /\ n2[i].links = inode[i].links + 1
      /\ \A d \in Inode \ {i} : n2[d].links = inode[d].links
  BY <1>1, <1>3, <1>5, <1>7
<1>9. Ownership(n2, dbits \cup Range(extra), ibits)
  BY <1>1, <1>3, <1>8, OwnershipSame
<1>10. \A j : Naming(n2, c2, ibits, j) = Naming(n1, c2, ibits, j)
  <2>1. \A d \in ibits : n2[d].type = n1[d].type /\ n2[d].blocks = n1[d].blocks
    BY <1>1, <1>8
  <2>. QED BY <2>1, NamingSame
<1>11. PICK k, s : OneMore(inode, content, n1, c2, ibits, p, k, s, i)
  BY <1>3
<1>12. /\ <<p, <<k, s>>>> \notin Naming(inode, content, ibits, i)
       /\ Naming(n2, c2, ibits, i) = Naming(inode, content, ibits, i) \cup {<<p, <<k, s>>>>}
       /\ \A j : j # i => Naming(n2, c2, ibits, j) = Naming(inode, content, ibits, j)
  BY <1>10, <1>11 DEF OneMore
<1>13. /\ i # Root
       /\ inode[i].links = Cardinality(Naming(inode, content, ibits, i))
       /\ Counted(inode, content, ibits)
  <2>1. Naming(inode, content, ibits, i) # {} /\ Counted(inode, content, ibits)
    BY RefsIs DEF IInv, NamesCounted
  <2>. QED BY <1>1, <2>1 DEF Counted
<1>14. Counted(n2, c2, ibits)
  <2>1. n2[i].links = Cardinality(Naming(inode, content, ibits, i)) + 1
    BY <1>8, <1>13
  <2>2. \A j \in ibits \ {i} : n2[j].links = inode[j].links
    BY <1>1, <1>8
  <2>3. ibits \subseteq ibits
    OBVIOUS
  <2>. DEFINE r == <<p, <<k, s>>>>
  <2>4. /\ r \notin Naming(inode, content, ibits, i)
        /\ Naming(n2, c2, ibits, i) = Naming(inode, content, ibits, i) \cup {r}
    BY <1>12
  <2>. HIDE DEF r
  <2>. QED BY <1>1, <1>12, <1>13, <2>1, <2>2, <2>3, <2>4, CountedMore
<1>15. \A j : Naming(inode, content, ibits, j) \subseteq Naming(n2, c2, ibits, j)
  BY <1>12
<1>16. \A d \in ibits : \A l \in 1 .. Len(inode[d].blocks) :
              l \in 1 .. Len(n2[d].blocks) /\ n2[d].blocks[l] = inode[d].blocks[l]
  BY <1>1, <1>3, <1>8
<1>17. SameBut(i, n1, n2)
  BY <1>1, <1>3, <1>7, <1>8 DEF SameBut
<1>. QED BY <1>3, <1>7, <1>8, <1>9, <1>14, <1>15, <1>16, <1>17 DEF n1, n2, c2, e

(* The references and the counters of what is named are the same.           *)
LEMMA CountedSame ==
  ASSUME NEW n, NEW c, NEW ib, NEW n2, NEW c2, NEW ib2, Counted(n, c, ib), ib \subseteq ib2,
         \A j : Naming(n2, c2, ib2, j) = Naming(n, c, ib, j),
         \A j \in ib : n2[j].links = n[j].links
  PROVE  Counted(n2, c2, ib2)
<1>1. ASSUME NEW j \in Inode, Naming(n2, c2, ib2, j) # {}
      PROVE  j \in ib2 /\ n2[j].links = Cardinality(Naming(n2, c2, ib2, j))
  <2>1. Naming(n, c, ib, j) # {} /\ Naming(n2, c2, ib2, j) = Naming(n, c, ib, j)
    BY <1>1
  <2>2. j \in ib /\ n[j].links = Cardinality(Naming(n, c, ib, j))
    BY <2>1 DEF Counted
  <2>. QED BY <2>1, <2>2
<1>. QED BY <1>1 DEF Counted

(* The invariant of the next state, from its parts.                         *)
LEMMA Assembled ==
  ASSUME ibits' \subseteq Inode, ilast' \in Inode, dbits' \subseteq Block, dlast' \in Block,
         sb' \in Counts, saved' \in Counts,
         inode' \in [Inode -> INodes], content' \in Contents,
         open' \in [Handles -> Inode \cup {NoInode}],
         Ownership(inode', dbits', ibits'), Counted(inode', content', ibits'),
         \A h \in Handles : open'[h] # NoInode =>
            open'[h] \in ibits' /\ inode'[open'[h]].type = "file"
  PROVE  IInv'
<1>1. TypeOK'
  BY DEF TypeOK, INodes, Contents, Counts, SlotContent
<1>2. BlockOwnership'
  BY OwnershipIsNext
<1>3. NamesCounted'
  BY DEF NamesCounted, Counted, Naming
<1>4. OpenFiles'
  BY DEF OpenFiles
<1>. QED BY <1>1, <1>2, <1>3, <1>4 DEF IInv

(* A step that changes no inode and no directory.                           *)
LEMMA Kept ==
  ASSUME IInv, ibits' = ibits, ilast' \in Inode, dbits \subseteq dbits', dbits' \subseteq Block,
         dlast' \in Block, sb' \in Counts, saved' \in Counts, inode' = inode, content' = content,
         open' \in [Handles -> Inode \cup {NoInode}],
         \A h \in Handles : open'[h] # NoInode =>
            open'[h] \in ibits /\ inode[open'[h]].type = "file"
  PROVE  IInv' /\ NoneOrphaned
<1>1. /\ inode \in [Inode -> INodes] /\ content \in Contents /\ ibits \in SUBSET Inode
      /\ Counted(inode, content, ibits) /\ Ownership(inode, dbits, ibits)
  BY Typed, OwnershipIs DEF IInv, NamesCounted
<1>2. Ownership(inode', dbits', ibits') /\ Counted(inode', content', ibits')
  BY <1>1, OwnershipMore
<1>3. NoneOrphaned
  BY OrphansSame DEF NoneOrphaned
<1>. QED BY <1>1, <1>2, <1>3, Assembled

(* The handles, as the invariant has them.                                  *)
LEMMA Handled ==
  ASSUME IInv
  PROVE  /\ open \in [Handles -> Inode \cup {NoInode}]
         /\ \A h \in Handles : open[h] # NoInode =>
              open[h] \in ibits /\ inode[open[h]].type = "file"
         /\ ilast \in Inode /\ dlast \in Block /\ sb \in Counts /\ saved \in Counts
BY DEF IInv, TypeOK, OpenFiles

(* allocate() fails: only the counts in memory change.                      *)
LEMMA FullKept ==
  ASSUME IInv, NEW ni \in Nat, NEW nd \in Nat, InodesFull(nd) \/ DataFull(ni, nd)
  PROVE  IInv' /\ NoneOrphaned
<1>1. sb' \in Counts
  <2>1. CASE InodesFull(nd)
    <3>1. /\ sb \in [free_inodes : 0 .. U32 - 1, free_data : 0 .. U32 - 1]
          /\ sb' = [sb EXCEPT !.free_inodes = 0]
      BY <2>1, Handled DEF InodesFull, Counts
    <3>2. 0 \in 0 .. U32 - 1
      BY FormatAssumption
    <3>. QED BY <3>1, <3>2 DEF Counts
  <2>2. CASE DataFull(ni, nd)
    <3>1. Len(Data(nd)) \in Nat /\ Len(Data(nd)) <= nd
      <4>1. dlast \in Int
        BY Handled DEF Block
      <4>2. Data(nd) \in Seq(Block \ dbits) /\ Len(Data(nd)) <= nd
        BY <4>1, DataFound DEF Data
      <4>. QED BY <4>2
    <3>2. /\ sb \in [free_inodes : 0 .. U32 - 1, free_data : 0 .. U32 - 1]
          /\ Len(Data(nd)) < nd /\ nd <= sb.free_data
          /\ sb' = [sb EXCEPT !.free_data = Len(Data(nd))]
      BY <2>2, Handled DEF DataFull, Counts
    <3>3. Len(Data(nd)) \in 0 .. U32 - 1
      BY <3>1, <3>2, FormatAssumption
    <3>. QED BY <3>2, <3>3 DEF Counts
  <2>. QED BY <2>1, <2>2
<1>2. /\ ibits' = ibits /\ ilast' = ilast /\ dbits' = dbits /\ dlast' = dlast /\ saved' = saved
      /\ inode' = inode /\ content' = content /\ open' = open
  BY DEF InodesFull, DataFull
<1>3. dbits \subseteq Block
  BY DEF IInv, TypeOK
<1>. QED BY <1>1, <1>2, <1>3, Handled, Kept

(* Data blocks to add an entry.                                             *)
LEMMA EntryBlocksNat ==
  ASSUME TypeOK, NEW p \in Directories
  PROVE  EntryBlocks(p) \in Nat
<1>1. Len(inode[p].blocks) \in Nat
  BY DEF TypeOK, Directories
<1>2. MetadataToGrow(Len(inode[p].blocks), 1) \in Nat
  BY <1>1, GrowMonotone, 1 \in Nat, 1 <= 1
<1>. QED BY <1>2 DEF EntryBlocks, blocks_necessary_to_grow_n

(* What allocate() returns for an entry is fresh, and no inode is taken.    *)
LEMMA EntryAllocated ==
  ASSUME TypeOK, NEW p \in Directories, Allocated(0, EntryBlocks(p))
  PROVE  /\ FreshFor(p, Data(EntryBlocks(p)))
         /\ ibits' = ibits /\ dbits' = dbits \cup Range(Data(EntryBlocks(p)))
         /\ dbits' \subseteq Block
         /\ ilast' \in Inode /\ dlast' \in Block /\ sb' \in Counts /\ saved' \in Counts
<1>1. EntryBlocks(p) \in Nat
  BY EntryBlocksNat
<1>2. /\ Inodes(0) \in Seq(Inode \ ibits) /\ Len(Inodes(0)) = 0
      /\ Data(EntryBlocks(p)) \in Seq(Block \ dbits)
      /\ Len(Data(EntryBlocks(p))) = EntryBlocks(p) /\ IsInjective(Data(EntryBlocks(p)))
      /\ ibits' = ibits \cup Range(Inodes(0))
      /\ dbits' = dbits \cup Range(Data(EntryBlocks(p)))
      /\ ibits' \subseteq Inode /\ dbits' \subseteq Block
      /\ ilast' \in Inode /\ dlast' \in Block /\ sb' \in Counts /\ saved' \in Counts
  BY <1>1, AllocatedFresh, 0 \in Nat
<1>3. Range(Inodes(0)) = {}
  BY <1>2 DEF Range
<1>. QED BY <1>2, <1>3 DEF FreshFor

(* A hard link that fails leaks blocks at most.                             *)
LEMMA HardlinkFailsKept ==
  ASSUME IInv, NEW p \in Directories, HardlinkFails(p)
  PROVE  IInv' /\ NoneOrphaned
<1>1. TypeOK /\ EntryBlocks(p) \in Nat
  BY EntryBlocksNat DEF IInv
<1>2. CASE DataFull(0, EntryBlocks(p))
  BY <1>1, <1>2, FullKept, 0 \in Nat
<1>3. CASE Allocated(0, EntryBlocks(p)) /\ UNCHANGED <<inode, content, open>>
  <2>1. /\ ibits' = ibits /\ dbits \subseteq dbits' /\ dbits' \subseteq Block
        /\ ilast' \in Inode /\ dlast' \in Block /\ sb' \in Counts /\ saved' \in Counts
    BY <1>1, <1>3, EntryAllocated
  <2>2. inode' = inode /\ content' = content /\ open' = open
    BY <1>3
  <2>. QED BY <2>1, <2>2, Handled, Kept
<1>. QED BY <1>2, <1>3 DEF HardlinkFails

(* create_hardlink, link and the first half of rename, when they succeed.   *)
LinkTo(i, p, name) ==
  /\ Allocated(0, EntryBlocks(p))
  /\ content' = Added(p, Entry(name, i, "file"), EntryBlock(Data(EntryBlocks(p))))
  /\ inode' = [inode EXCEPT ![i].links = @ + 1, ![p] = Parent(p, Data(EntryBlocks(p)))]
  /\ open' = open

(* The successful path of the hard links preserves the invariant and        *)
(* orphans nothing.                                                         *)
LEMMA LinkStep ==
  ASSUME IInv, NEW p \in Directories, NEW i \in ibits, i # p, Refs(i) # {}, NEW name \in Names,
         LinkTo(i, p, name)
  PROVE  IInv' /\ NoneOrphaned
<1>. DEFINE extra == Data(EntryBlocks(p))
<1>1. /\ FreshFor(p, extra)
      /\ ibits' = ibits /\ dbits' = dbits \cup Range(extra) /\ dbits' \subseteq Block
      /\ ilast' \in Inode /\ dlast' \in Block /\ sb' \in Counts /\ saved' \in Counts
  BY EntryAllocated DEF IInv, LinkTo
<1>2. /\ inode' = WithLink(i, p, extra)
      /\ content' = Added(p, Entry(name, i, "file"), EntryBlock(extra))
      /\ open' = open
  BY DEF LinkTo, WithLink
<1>. HIDE DEF extra
<1>3. /\ inode' \in [Inode -> INodes] /\ content' \in Contents
      /\ Ownership(inode', dbits', ibits') /\ Counted(inode', content', ibits')
      /\ \A d \in Inode : inode'[d].type = inode[d].type
      /\ \A j : Naming(inode, content, ibits, j) \subseteq Naming(inode', content', ibits, j)
  BY <1>1, <1>2, LinkAdded
<1>4. ibits \subseteq Inode
  BY DEF IInv, TypeOK
<1>5. \A h \in Handles : open'[h] # NoInode => open'[h] \in ibits' /\ inode'[open'[h]].type = "file"
  BY <1>1, <1>2, <1>3, <1>4, Handled
<1>6. NoneOrphaned
  BY <1>1, <1>3, OrphansSame DEF NoneOrphaned
<1>. QED BY <1>1, <1>2, <1>3, <1>4, <1>5, <1>6, Handled, Assembled

(* So do create_hardlink and create_child_hardlink, their error path        *)
(* included.                                                                *)
LEMMA HardlinkKept ==
  ASSUME IInv, NEW p \in Directories, NEW i \in ibits, i # p, Linked(i), NEW name \in Names,
         Hardlink(i, p, name)
  PROVE  IInv' /\ NoneOrphaned
<1>1. Refs(i) # {}
  <2>0. PICK d \in Directories : \E pos \in Position(d) : IsNamed(At(d, pos)) /\ At(d, pos).ino = i
    BY DEF Linked
  <2>1. PICK pos \in Position(d) : IsNamed(At(d, pos)) /\ At(d, pos).ino = i
    BY <2>0
  <2>2. IsRef(inode, content, ibits, d, pos[1], pos[2], i)
    BY <2>1 DEF IsRef, Position, At, Directories
  <2>. QED BY <2>2, NamingIs, RefsIs
<1>2. CASE HardlinkFails(p)
  BY <1>2, HardlinkFailsKept
<1>3. CASE ~HardlinkFails(p)
  <2>1. LinkTo(i, p, name)
    BY <1>3, Zenon DEF Hardlink, LinkTo
  <2>. QED BY <1>1, <2>1, LinkStep
<1>. QED BY <1>2, <1>3

-----------------------------------------------------------------------------
(* An entry found under a name is a reference.                              *)
LEMMA FoundRef ==
  ASSUME TypeOK, NEW p \in Directories, NEW name \in Names, Find(p, name) # {},
         NEW pos, pos = First(Find(p, name))
  PROVE  /\ IsRef(inode, content, ibits, p, pos[1], pos[2], At(p, pos).ino)
         /\ At(p, pos).ino \in Inode
<1>1. Len(inode[p].blocks) \in Nat
  BY DEF TypeOK, Directories
<1>2. pos \in Find(p, name)
  <2>1. Find(p, name) \in SUBSET ((1 .. Len(inode[p].blocks)) \X Slot)
    BY DEF Find, Position
  <2>. QED BY <1>1, <2>1, FirstIn
<1>3. /\ pos[1] \in 1 .. Len(inode[p].blocks) /\ pos[2] \in Slot
      /\ At(p, pos).ino # NoInode /\ At(p, pos).name = name
  BY <1>2 DEF Find, Position
<1>4. At(p, pos) \in SlotContent
  <2>1. inode[p].blocks[pos[1]] \in Block
    BY <1>3 DEF TypeOK, Directories
  <2>. QED BY <1>3, <2>1 DEF TypeOK, At
<1>5. name \notin {".", ".."}
  BY FormatAssumption
<1>6. IsNamed(At(p, pos)) /\ At(p, pos).ino \in Inode
  BY <1>3, <1>4, <1>5 DEF IsNamed, SlotContent
<1>. QED BY <1>3, <1>6 DEF IsRef, At, Directories

(* The directory blocks after a slot is freed.                              *)
Cleared(c, b, s) == [c EXCEPT ![b][s] = Free]

(* Freeing the record of a reference takes exactly that reference away.     *)
LEMMA ClearedLess ==
  ASSUME NEW n \in [Inode -> INodes], NEW c \in Contents, NEW db, NEW ib \in SUBSET Inode,
         Ownership(n, db, ib), NEW p, NEW k, NEW s, NEW i, IsRef(n, c, ib, p, k, s, i)
  PROVE  /\ Cleared(c, n[p].blocks[k], s) \in Contents
         /\ OneLess(n, c, Cleared(c, n[p].blocks[k], s), ib, p, k, s, i)
<1>. DEFINE b == n[p].blocks[k]
<1>1. p \in ib /\ k \in 1 .. Len(n[p].blocks) /\ s \in Slot
  BY DEF IsRef
<1>2. b \in Block
  BY <1>1 DEF INodes
<1>3. Free \in SlotContent
  BY DEF Free, SlotContent, Types
<1>. HIDE DEF b
<1>4. WroteSlot(c, Cleared(c, b, s), b, s, Free)
  BY <1>1, <1>2, <1>3, Writes DEF Cleared
<1>5. OneLess(n, c, Cleared(c, b, s), ib, p, k, s, i)
  BY <1>4, FreedEntry DEF b
<1>. QED BY <1>4, <1>5 DEF WroteSlot, b

(* delete, unlink and rmdir.                                                *)
LEMMA DeleteKept ==
  ASSUME IInv, "delete_open" \notin Risky, NEW p \in Directories, NEW name \in Names,
         Find(p, name) # {}, Delete(p, First(Find(p, name)))
  PROVE  IInv' /\ NoneOrphaned
<1>. DEFINE pos == First(Find(p, name))
            i == At(p, pos).ino
            k == pos[1]
            s == pos[2]
<1>1. /\ inode \in [Inode -> INodes] /\ content \in Contents
      /\ ibits \in SUBSET Inode /\ dbits \in SUBSET Block /\ TypeOK
      /\ Ownership(inode, dbits, ibits) /\ Counted(inode, content, ibits)
  BY Typed, OwnershipIs DEF IInv, NamesCounted
<1>2. IsRef(inode, content, ibits, p, k, s, i) /\ i \in Inode
  BY <1>1, FoundRef
<1>3. /\ inode[i].type = "directory" => Empty(i)
      /\ ~LastLink(i) \/ \A h \in Handles : open[h] # i
      /\ LastLink(i) => /\ dbits' = DMap!deallocate(dbits, ToDealloc(i))
                        /\ ibits' = IMap!deallocate(ibits, <<i>>)
                        /\ sb' = [free_inodes |-> (sb.free_inodes + 1) % U32,
                                  free_data   |-> (sb.free_data + Len(ToDealloc(i))) % U32]
                        /\ saved' = sb' /\ inode' = inode
      /\ ~LastLink(i) => /\ inode' = [inode EXCEPT ![i].links = @ - 1]
                         /\ dbits' = dbits /\ ibits' = ibits /\ sb' = sb /\ saved' = saved
      /\ content' = Cleared(content, inode[p].blocks[k], s)
      /\ ilast' = ilast /\ dlast' = dlast /\ open' = open
  BY DEF Delete, Freed, Cleared
<1>. HIDE DEF pos, i, k, s
<1>4. /\ content' \in Contents
      /\ OneLess(inode, content, content', ibits, p, k, s, i)
  BY <1>1, <1>2, <1>3, ClearedLess
<1>. DEFINE r == <<p, <<k, s>>>>
<1>5. /\ r \in Naming(inode, content, ibits, i)
      /\ Naming(inode, content', ibits, i) = Naming(inode, content, ibits, i) \ {r}
      /\ \A j : j # i => Naming(inode, content', ibits, j) = Naming(inode, content, ibits, j)
  BY <1>4 DEF OneLess
<1>. HIDE DEF r
<1>6. i \in ibits
  BY <1>1, <1>2, <1>5 DEF Counted
<1>7. CASE LastLink(i)
  <2>1. dbits' = dbits \ Range(inode[i].blocks) /\ ibits' = ibits \ {i}
    BY <1>3, <1>7 DEF DMap!deallocate, IMap!deallocate, ToDealloc, Range
  <2>2. Ownership(inode, dbits \ Range(inode[i].blocks), ibits \ {i})
    <3>1. inode[i].blocks \in Seq(Block) /\ inode[i].ptrs \in Seq(Block)
      BY <1>1, <1>2 DEF INodes
    <3>2. Range(inode[i].blocks \o inode[i].ptrs) = Range(inode[i].blocks) \cup Range(inode[i].ptrs)
      BY <3>1, RangeConcatenation
    <3>3. Range(inode[i].blocks) \subseteq Range(Blocks(inode[i]))
      BY <3>2 DEF Blocks
    <3>. QED BY <1>1, <1>6, <3>3, OwnershipReleased
  <2>3. \A l, t, j : ~IsRef(inode, content', ibits, i, l, t, j)
    <3>1. ASSUME NEW l, NEW t, NEW j, IsRef(inode, content', ibits, i, l, t, j) PROVE FALSE
      <4>1. <<i, <<l, t>>>> \in Naming(inode, content, ibits, j)
        BY <1>5, <3>1, NamingIs
      <4>2. IsRef(inode, content, ibits, i, l, t, j)
        BY <4>1, NamingIs
      <4>3. Empty(i)
        BY <1>3, <4>2 DEF IsRef
      <4>4. <<l, t>> \in Position(i) /\ IsNamed(At(i, <<l, t>>))
        BY <4>2 DEF IsRef, Position, At
      <4>. QED BY <4>3, <4>4 DEF Empty
    <3>. QED BY <3>1
  <2>4. \A j : Naming(inode, content', ibits \ {i}, j) = Naming(inode, content', ibits, j)
    BY <2>3, ReleasedNames
  <2>5. Counted(inode, content', ibits \ {i})
    <3>. DEFINE ib2 == ibits \ {i}
                c2 == content'
    <3>1. /\ ib2 \in SUBSET ibits /\ i \notin ib2 /\ inode[i].links <= 1
          /\ \A j \in ibits \ {i} : j \in ib2
          /\ Naming(inode, c2, ib2, i) = Naming(inode, content, ibits, i) \ {r}
          /\ \A j : j # i => Naming(inode, c2, ib2, j) = Naming(inode, content, ibits, j)
      BY <1>5, <1>7, <2>4 DEF LastLink
    <3>. HIDE DEF ib2, c2
    <3>2. Counted(inode, c2, ib2)
      BY <1>1, <1>2, <1>5, <3>1, CountedLess
    <3>. QED BY <3>2 DEF ib2, c2
  <2>6. sb' \in Counts /\ saved' \in Counts
    <3>1. sb.free_inodes \in Nat /\ sb.free_data \in Nat /\ Len(ToDealloc(i)) \in Nat
      BY <1>1, <1>2, Handled DEF Counts, ToDealloc, INodes
    <3>2. U32 \in Nat \ {0}
      BY FormatAssumption
    <3>3. (sb.free_inodes + 1) % U32 \in 0 .. U32 - 1
      BY <3>1, <3>2
    <3>4. (sb.free_data + Len(ToDealloc(i))) % U32 \in 0 .. U32 - 1
      BY <3>1, <3>2
    <3>. QED BY <1>3, <1>7, <3>3, <3>4 DEF Counts
  <2>7. \A h \in Handles : open'[h] # NoInode => open'[h] \in ibits' /\ inode'[open'[h]].type = "file"
    BY <1>3, <1>7, <2>1, Handled
  <2>8. inode' = inode /\ ibits' \subseteq Inode /\ dbits' \subseteq Block
    BY <1>1, <1>3, <1>7, <2>1
  <2>9. Ownership(inode', dbits', ibits') /\ Counted(inode', content', ibits')
    BY <2>1, <2>2, <2>5, <2>8
  <2>10. NoneOrphaned
    <3>1. \A j \in ibits \ {i} : Naming(inode, content', ibits \ {i}, j) = Naming(inode, content, ibits, j)
      BY <1>5, <2>4
    <3>. QED BY <2>1, <2>8, <3>1 DEF NoneOrphaned, Orphans
  <2>. QED BY <1>1, <1>3, <1>4, <2>6, <2>7, <2>8, <2>9, <2>10, Handled, Assembled
<1>8. CASE ~LastLink(i)
  <2>1. /\ inode' \in [Inode -> INodes]
        /\ \A d \in Inode : /\ inode'[d].type = inode[d].type
                            /\ inode'[d].blocks = inode[d].blocks /\ inode'[d].ptrs = inode[d].ptrs
        /\ inode'[i].links = inode[i].links - 1
        /\ \A d \in Inode \ {i} : inode'[d].links = inode[d].links
    <3>. DEFINE y == [inode[i] EXCEPT !.links = @ - 1]
    <3>1. inode[i] \in INodes /\ inode[i].links \in Nat /\ inode[i].links > 1
      BY <1>1, <1>2, <1>8 DEF INodes, LastLink
    <3>2. /\ y \in INodes /\ y.type = inode[i].type /\ y.links = inode[i].links - 1
          /\ y.blocks = inode[i].blocks /\ y.ptrs = inode[i].ptrs
      BY <3>1 DEF INodes
    <3>3. inode' = [inode EXCEPT ![i] = y]
      BY <1>1, <1>2, <1>3, <1>8
    <3>. HIDE DEF y
    <3>. QED BY <1>1, <1>2, <3>2, <3>3
  <2>2. Ownership(inode', dbits, ibits)
    BY <1>1, <2>1, OwnershipSame
  <2>3. \A j : Naming(inode', content', ibits, j) = Naming(inode, content', ibits, j)
    <3>1. \A d \in ibits : inode'[d].type = inode[d].type /\ inode'[d].blocks = inode[d].blocks
      BY <1>1, <2>1
    <3>. QED BY <3>1, NamingSame
  <2>4. Counted(inode', content', ibits)
    <3>1. /\ ibits \in SUBSET ibits
          /\ \A j \in ibits \ {i} : j \in ibits /\ inode'[j].links = inode[j].links
          /\ Naming(inode', content', ibits, i) = Naming(inode, content, ibits, i) \ {r}
          /\ \A j : j # i => Naming(inode', content', ibits, j) = Naming(inode, content, ibits, j)
          /\ inode'[i].links = inode[i].links - 1
      BY <1>1, <1>5, <2>1, <2>3
    <3>. QED BY <1>1, <1>2, <1>5, <1>6, <3>1, CountedLess
  <2>5. \A h \in Handles : open'[h] # NoInode => open'[h] \in ibits' /\ inode'[open'[h]].type = "file"
    BY <1>1, <1>3, <1>8, <2>1, Handled
  <2>6. NoneOrphaned
    <3>1. inode[i].links > 1
      BY <1>1, <1>2, <1>8 DEF INodes, LastLink
    <3>2. Naming(inode', content', ibits, i) # {}
      <4>1. Naming(inode, content, ibits, i) \ {r} # {}
        BY <1>1, <1>2, <1>5, <3>1, OrphansLess
      <4>. QED BY <1>5, <2>3, <4>1
    <3>3. \A j : j # i => Naming(inode', content', ibits, j) = Naming(inode, content, ibits, j)
      BY <1>5, <2>3
    <3>4. ibits' = ibits
      BY <1>3, <1>8
    <3>. QED BY <3>2, <3>3, <3>4 DEF NoneOrphaned, Orphans
  <2>. QED BY <1>1, <1>3, <1>4, <1>8, <2>1, <2>2, <2>4, <2>5, <2>6, Handled, Assembled
<1>. QED BY <1>7, <1>8

-----------------------------------------------------------------------------
(* The whole of rename: the link under the new name, then the old one goes. *)
LEMMA Moved ==
  ASSUME IInv, NEW p \in Directories, NEW q \in Directories, NEW k, NEW s, NEW i \in ibits, i # q,
         IsRef(inode, content, ibits, p, k, s, i), NEW newname \in Names,
         NEW extra, FreshFor(q, extra)
  PROVE  LET n3 == WithParent(q, extra)
             c3 == Cleared(Added(q, Entry(newname, i, "file"), EntryBlock(extra)),
                           inode[p].blocks[k], s)
         IN  /\ n3 \in [Inode -> INodes] /\ c3 \in Contents
             /\ Ownership(n3, dbits \cup Range(extra), ibits)
             /\ \A d \in Inode : n3[d].type = inode[d].type
             /\ Counted(n3, c3, ibits)
             /\ Orphans(n3, c3, ibits) \subseteq Orphans(inode, content, ibits)
<1>. DEFINE n2 == WithLink(i, q, extra)
            n3 == WithParent(q, extra)
            c2 == Added(q, Entry(newname, i, "file"), EntryBlock(extra))
            c3 == Cleared(c2, inode[p].blocks[k], s)
            db == dbits \cup Range(extra)
            r == <<p, <<k, s>>>>
<1>1. ibits \in SUBSET Inode /\ i \in Inode
  BY Typed DEF IInv
<1>2. r \in Naming(inode, content, ibits, i) /\ Refs(i) # {}
  BY NamingIs, RefsIs
<1>3. /\ n2 \in [Inode -> INodes] /\ c2 \in Contents
      /\ Ownership(n2, db, ibits)
      /\ \A d \in Inode : n2[d].type = inode[d].type
      /\ SameBut(i, n3, n2) /\ n2[i].links = inode[i].links + 1
      /\ \A d \in ibits : \A l \in 1 .. Len(inode[d].blocks) :
           l \in 1 .. Len(n2[d].blocks) /\ n2[d].blocks[l] = inode[d].blocks[l]
      /\ \A j : Naming(inode, content, ibits, j) \subseteq Naming(n2, c2, ibits, j)
      /\ Counted(n2, c2, ibits)
  BY <1>2, LinkAdded
<1>. HIDE DEF n2, n3, c2, db
<1>4. IsRef(n2, c2, ibits, p, k, s, i)
  BY <1>2, <1>3, NamingIs
<1>5. n2[p].blocks[k] = inode[p].blocks[k]
  BY <1>3 DEF IsRef
<1>6. c3 \in Contents /\ OneLess(n2, c2, c3, ibits, p, k, s, i)
  BY <1>1, <1>3, <1>4, <1>5, ClearedLess
<1>. HIDE DEF c3
<1>7. /\ n3 \in [Inode -> INodes]
      /\ \A d \in Inode : /\ n3[d].type = n2[d].type
                          /\ n3[d].blocks = n2[d].blocks /\ n3[d].ptrs = n2[d].ptrs
      /\ n2[i].links = n3[i].links + 1
      /\ \A d \in Inode \ {i} : n3[d].links = n2[d].links
  BY <1>3 DEF SameBut
<1>8. n3[i].links = n2[i].links - 1
  BY <1>1, <1>7 DEF INodes
<1>9. Ownership(n3, db, ibits)
  BY <1>1, <1>3, <1>7, OwnershipSame
<1>10. \A j : Naming(n3, c3, ibits, j) = Naming(n2, c3, ibits, j)
  <2>1. \A d \in ibits : n3[d].type = n2[d].type /\ n3[d].blocks = n2[d].blocks
    BY <1>1, <1>7
  <2>. QED BY <2>1, NamingSame
<1>11. /\ r \in Naming(n2, c2, ibits, i)
       /\ Naming(n3, c3, ibits, i) = Naming(n2, c2, ibits, i) \ {r}
       /\ \A j : j # i => Naming(n3, c3, ibits, j) = Naming(n2, c2, ibits, j)
  BY <1>6, <1>10 DEF OneLess
<1>. HIDE DEF r
<1>12. Counted(n3, c3, ibits)
  <2>1. /\ ibits \in SUBSET ibits
        /\ \A j \in ibits \ {i} : j \in ibits /\ n3[j].links = n2[j].links
    BY <1>1, <1>7
  <2>. QED BY <1>1, <1>3, <1>8, <1>11, <2>1, CountedLess
<1>13. \A d \in Inode : n3[d].type = inode[d].type
  BY <1>3, <1>7
<1>14. Orphans(n3, c3, ibits) \subseteq Orphans(inode, content, ibits)
  <2>1. inode[i].links > 0
    <3>1. inode[i].links = Cardinality(Naming(inode, content, ibits, i)) /\ inode[i].links \in Nat
      BY <1>1, <1>2, Typed DEF IInv, NamesCounted, Counted, INodes
    <3>2. IsFiniteSet(Naming(inode, content, ibits, i)) /\ Naming(inode, content, ibits, i) # {}
      BY <1>1, <1>2, Typed, NamingFinite DEF IInv
    <3>. QED BY <3>1, <3>2, FS_EmptySet
  <2>2. n2[i].links > 1
    BY <1>1, <1>3, <2>1, Typed DEF IInv, INodes
  <2>3. Naming(n3, c3, ibits, i) # {}
    BY <1>1, <1>3, <1>11, <2>2, OrphansLess
  <2>. QED BY <1>3, <1>11, <2>3 DEF Orphans
<1>. QED BY <1>6, <1>7, <1>9, <1>12, <1>13, <1>14 DEF n3, c3, c2, db

(* FUSE rename (a hard link, then the removal of the old name) preserves    *)
(* the invariant, and the inode it moves is never without a name.           *)
LEMMA RenameKept ==
  ASSUME IInv, NEW p \in Directories, NEW q \in Directories, NEW name \in Names,
         NEW newname \in Names, rename(p, name, q, newname)
  PROVE  IInv' /\ NoneOrphaned
<1>. DEFINE pos == First(Find(p, name))
            i == At(p, pos).ino
            k == pos[1]
            s == pos[2]
            extra == Data(EntryBlocks(q))
<1>1. /\ TypeOK /\ inode \in [Inode -> INodes] /\ ibits \in SUBSET Inode
      /\ Counted(inode, content, ibits)
  BY Typed DEF IInv, NamesCounted
<1>2. Find(p, name) # {}
  BY DEF rename
<1>3. IsRef(inode, content, ibits, p, k, s, i) /\ i \in Inode
  BY <1>1, <1>2, FoundRef
<1>4. i # q
  <2>1. inode[i].type = "directory" => q \notin {i} \cup Below(i)
    BY DEF rename
  <2>2. inode[q].type = "directory"
    BY DEF Directories
  <2>. HIDE DEF i
  <2>. QED BY <2>1, <2>2
<1>5. \/ HardlinkFails(q)
      \/ LinkTo(i, q, newname)
      \/ /\ Allocated(0, EntryBlocks(q))
         /\ content' = Cleared(Added(q, Entry(newname, i, "file"), EntryBlock(extra)),
                               inode[p].blocks[k], s)
         /\ inode' = WithParent(q, extra)
         /\ open' = open
  BY Zenon DEF rename, LinkTo, Freed, Cleared, WithParent
<1>. HIDE DEF pos, i, k, s
<1>6. i \in ibits /\ Refs(i) # {}
  <2>1. Naming(inode, content, ibits, i) # {}
    BY <1>3, NamingIs
  <2>. QED BY <1>1, <1>3, <2>1, RefsIs DEF Counted
<1>7. CASE HardlinkFails(q)
  BY <1>7, HardlinkFailsKept
<1>8. CASE LinkTo(i, q, newname)
  BY <1>4, <1>6, <1>8, LinkStep
<1>9. CASE /\ Allocated(0, EntryBlocks(q))
           /\ content' = Cleared(Added(q, Entry(newname, i, "file"), EntryBlock(extra)),
                                 inode[p].blocks[k], s)
           /\ inode' = WithParent(q, extra)
           /\ open' = open
  <2>1. /\ FreshFor(q, extra)
        /\ ibits' = ibits /\ dbits' = dbits \cup Range(extra) /\ dbits' \subseteq Block
        /\ ilast' \in Inode /\ dlast' \in Block /\ sb' \in Counts /\ saved' \in Counts
    BY <1>1, <1>9, EntryAllocated
  <2>. HIDE DEF extra
  <2>2. /\ inode' \in [Inode -> INodes] /\ content' \in Contents
        /\ Ownership(inode', dbits', ibits') /\ Counted(inode', content', ibits')
        /\ \A d \in Inode : inode'[d].type = inode[d].type
        /\ NoneOrphaned
    <3>. DEFINE n3 == WithParent(q, extra)
                c3 == Cleared(Added(q, Entry(newname, i, "file"), EntryBlock(extra)),
                              inode[p].blocks[k], s)
    <3>1. /\ n3 \in [Inode -> INodes] /\ c3 \in Contents
          /\ Ownership(n3, dbits \cup Range(extra), ibits)
          /\ \A d \in Inode : n3[d].type = inode[d].type
          /\ Counted(n3, c3, ibits)
          /\ Orphans(n3, c3, ibits) \subseteq Orphans(inode, content, ibits)
      BY <1>3, <1>4, <1>6, <2>1, Moved
    <3>2. inode' = n3 /\ content' = c3
      BY <1>9
    <3>. HIDE DEF n3, c3
    <3>. QED BY <2>1, <3>1, <3>2 DEF NoneOrphaned
  <2>3. \A h \in Handles : open'[h] # NoInode => open'[h] \in ibits' /\ inode'[open'[h]].type = "file"
    BY <1>1, <1>9, <2>1, <2>2, Handled
  <2>. QED BY <1>1, <1>9, <2>1, <2>2, <2>3, Handled, Assembled
<1>. QED BY <1>5, <1>7, <1>8, <1>9

-----------------------------------------------------------------------------
(* A write that grows a file preserves the invariant: the data and pointer  *)
(* blocks it keeps were clear and are set, the surplus it reserved stays    *)
(* unowned.                                                                 *)
LEMMA WriteKept ==
  ASSUME IInv, NEW h \in Handles, NEW n \in 1 .. MaxGrow, write(h, n)
  PROVE  IInv' /\ NoneOrphaned
<1>. DEFINE i     == open[h]
            m     == MetadataToGrow(Len(inode[i].blocks), n)
            meta  == Data(m)
            bits1 == DMap!allocate(dbits, meta)
            last1 == DMap!last_alloc(dlast, meta)
            data  == DMap!find_free(bits1, last1, n)
            used  == MetadataToGrow(Len(inode[i].blocks), Len(data))
            extra == SubSeq(meta, 1, used)
<1>1. /\ TypeOK /\ inode \in [Inode -> INodes] /\ content \in Contents
      /\ ibits \in SUBSET Inode /\ dbits \in SUBSET Block
      /\ Ownership(inode, dbits, ibits) /\ Counted(inode, content, ibits)
      /\ n \in Nat /\ dlast \in Block /\ dlast \in Int
  BY Typed, OwnershipIs, FormatAssumption, Handled DEF IInv, NamesCounted, Block
<1>2. i \in ibits /\ i \in Inode /\ inode[i].type = "file"
  <2>1. open[h] # NoInode
    BY DEF write
  <2>. QED BY <1>1, <2>1, Handled
<1>3. inode[i] \in INodes /\ Len(inode[i].blocks) \in Nat
  BY <1>1, <1>2 DEF INodes
<1>4. m \in Nat
  BY <1>1, <1>3, GrowMonotone, n <= n
<1>5. /\ Len(meta) = m
      /\ \/ data = <<>> /\ dbits' = DMap!deallocate(bits1, meta) /\ dlast' = last1
            /\ sb' = sb /\ saved' = saved /\ inode' = inode
         \/ /\ data # <<>>
            /\ dbits' = DMap!allocate(bits1, data) /\ dlast' = DMap!last_alloc(last1, data)
            /\ \/ sb' = sb /\ saved' = saved /\ inode' = inode
               \/ /\ inode' = [inode EXCEPT ![i] = [inode[i] EXCEPT !.blocks = @ \o data,
                                                                    !.ptrs = @ \o extra]]
                  /\ sb' = [sb EXCEPT !.free_data = Minus(@, WriteCost(data, m))]
                  /\ saved' = sb'
      /\ ibits' = ibits /\ ilast' = ilast /\ content' = content /\ open' = open
  BY DEF write, blocks_necessary_to_grow_n, Grown
<1>6. /\ meta \in Seq(Block \ dbits) /\ IsInjective(meta)
      /\ meta \in Seq(Block) /\ Range(meta) \subseteq Block \ dbits
      /\ bits1 = dbits \cup Range(meta) /\ last1 \in Block /\ last1 \in Int
  <2>1. meta \in Seq(Block \ dbits) /\ IsInjective(meta)
    BY <1>1, <1>4, DataFound DEF Data
  <2>2. meta \in Seq(Block) /\ Range(meta) \subseteq Block \ dbits
    BY <2>1, RangeOfSeq
  <2>3. bits1 = dbits \cup Range(meta)
    BY DEF DMap!allocate, Range
  <2>4. last1 \in Block
    BY <1>1, <2>2, LastAlloc
  <2>. QED BY <2>1, <2>2, <2>3, <2>4 DEF Block
<1>. HIDE DEF i, m, meta, bits1, last1
<1>7. /\ data \in Seq(Block \ bits1) /\ IsInjective(data) /\ Len(data) <= n /\ Len(data) \in Nat
      /\ data \in Seq(Block) /\ Range(data) \subseteq Block \ bits1
      /\ DMap!allocate(bits1, data) = bits1 \cup Range(data)
      /\ DMap!last_alloc(last1, data) \in Block
  <2>1. data \in Seq(Block \ bits1) /\ IsInjective(data) /\ Len(data) <= n
    BY <1>1, <1>6, DataFound
  <2>. HIDE DEF data
  <2>2. data \in Seq(Block) /\ Range(data) \subseteq Block \ bits1 /\ Len(data) \in Nat
    BY <2>1, RangeOfSeq
  <2>3. DMap!allocate(bits1, data) = bits1 \cup Range(data)
    BY DEF DMap!allocate, Range
  <2>4. DMap!last_alloc(last1, data) \in Block
    BY <1>6, <2>2, LastAlloc
  <2>. QED BY <2>1, <2>2, <2>3, <2>4
<1>. HIDE DEF data
<1>8. CASE data = <<>> /\ dbits' = DMap!deallocate(bits1, meta)
  <2>1. dbits' = dbits
    BY <1>6, <1>8 DEF DMap!deallocate, Range
  <2>2. /\ dlast' \in Block /\ sb' = sb /\ saved' = saved /\ inode' = inode
        /\ ibits' = ibits /\ ilast' = ilast /\ content' = content /\ open' = open
    BY <1>5, <1>6, <1>8
  <2>. QED BY <1>1, <2>1, <2>2, Handled, Kept
<1>9. CASE dbits' = DMap!allocate(bits1, data) /\ inode' = inode /\ sb' = sb /\ saved' = saved
           /\ dlast' = DMap!last_alloc(last1, data)
  <2>1. dbits \subseteq dbits' /\ dbits' \subseteq Block /\ dlast' \in Block
    BY <1>1, <1>6, <1>7, <1>9
  <2>. QED BY <1>1, <1>5, <1>9, <2>1, Handled, Kept
<1>10. CASE /\ inode' = [inode EXCEPT ![i] = [inode[i] EXCEPT !.blocks = @ \o data,
                                                              !.ptrs = @ \o extra]]
            /\ dbits' = DMap!allocate(bits1, data) /\ dlast' = DMap!last_alloc(last1, data)
            /\ sb' = [sb EXCEPT !.free_data = Minus(@, WriteCost(data, m))]
            /\ saved' = sb'
  <2>1. /\ extra \in Seq(Block) /\ IsInjective(extra) /\ Range(extra) \subseteq Range(meta)
    <3>1. used \in 0 .. Len(meta)
      BY <1>1, <1>3, <1>5, <1>7, GrowMonotone DEF m
    <3>. HIDE DEF used
    <3>. QED BY <1>6, <3>1, 1 \in Nat \ {0}, SubSeqInjective
  <2>. DEFINE bl == inode[i].blocks
              pt == inode[i].ptrs
              y  == [inode[i] EXCEPT !.blocks = @ \o data, !.ptrs = @ \o extra]
  <2>. HIDE DEF extra
  <2>2. bl \in Seq(Block) /\ pt \in Seq(Block) /\ Blocks(inode[i]) = bl \o pt
    BY <1>3 DEF INodes, Blocks
  <2>3. /\ IsInjective(bl \o pt) /\ Range(bl \o pt) \subseteq dbits
    BY <1>1, <1>2, <2>2 DEF Ownership
  <2>4. /\ bl \o data \in Seq(Block) /\ pt \o extra \in Seq(Block)
        /\ IsInjective((bl \o data) \o (pt \o extra))
        /\ Range((bl \o data) \o (pt \o extra)) = Range(bl \o pt) \cup Range(data) \cup Range(extra)
    <3>1. /\ Range(data) \cap Range(extra) = {}
          /\ (Range(data) \cup Range(extra)) \cap Range(bl \o pt) = {}
      BY <1>6, <1>7, <2>1, <2>3
    <3>. HIDE DEF bl, pt
    <3>. QED BY <1>7, <2>1, <2>2, <2>3, <3>1, GrownBlocks, SMTT(30)
  <2>5. /\ y \in INodes /\ y.type = inode[i].type /\ y.links = inode[i].links
        /\ y.blocks = bl \o data /\ y.ptrs = pt \o extra
    BY <1>3, <2>4 DEF INodes
  <2>6. inode' = [inode EXCEPT ![i] = y]
    BY <1>10
  <2>. HIDE DEF y, bl, pt
  <2>7. /\ IsInjective(Blocks(y))
        /\ Range(Blocks(y)) \subseteq Range(Blocks(inode[i])) \cup (Range(meta) \cup Range(data))
    BY <2>1, <2>2, <2>4, <2>5 DEF Blocks
  <2>8. dbits' = dbits \cup (Range(meta) \cup Range(data)) /\ dbits' \subseteq Block
        /\ (Range(meta) \cup Range(data)) \cap dbits = {}
    BY <1>1, <1>6, <1>7, <1>10
  <2>9. Ownership(inode', dbits', ibits)
    <3>. DEFINE F == Range(meta) \cup Range(data)
    <3>1. /\ F \cap dbits = {} /\ Range(Blocks(y)) \subseteq Range(Blocks(inode[i])) \cup F
          /\ dbits' = dbits \cup F
      BY <2>7, <2>8
    <3>. HIDE DEF F
    <3>2. Ownership([inode EXCEPT ![i] = y], dbits \cup F, ibits)
      BY <1>1, <1>2, <2>7, <3>1, OwnershipGrown
    <3>. QED BY <2>6, <3>1, <3>2
  <2>10. /\ inode' \in [Inode -> INodes] /\ inode'[i] = y
         /\ \A d \in Inode \ {i} : inode'[d] = inode[d]
    BY <1>1, <1>2, <2>5, <2>6
  <2>11. /\ \A d \in Inode : inode'[d].type = inode[d].type /\ inode'[d].links = inode[d].links
         /\ \A d \in Inode : inode[d].type = "directory" => inode'[d].blocks = inode[d].blocks
    BY <1>2, <2>5, <2>10
  <2>12. Counted(inode', content', ibits) /\ NoneOrphaned
    <3>1. \A d \in ibits : /\ inode'[d].type = inode[d].type
                           /\ inode[d].type = "directory" => inode'[d].blocks = inode[d].blocks
      BY <1>1, <2>11
    <3>2. \A j : Naming(inode', content', ibits, j) = Naming(inode, content, ibits, j)
      BY <1>5, <3>1, NamingSame
    <3>3. \A j \in ibits : inode'[j].links = inode[j].links
      BY <1>1, <2>11
    <3>4. NoneOrphaned
      BY <1>5, <3>2, OrphansSame DEF NoneOrphaned
    <3>. QED BY <1>1, <3>2, <3>3, <3>4, CountedSame
  <2>13. sb' \in Counts /\ saved' \in Counts
    <3>1. m \in Int /\ Len(data) \in Int /\ U32 \in Nat \ {0} /\ sb \in Counts
      BY <1>4, <1>7, FormatAssumption, Handled
    <3>2. sb.free_data \in Int
      BY <3>1 DEF Counts
    <3>3. Minus(sb.free_data, WriteCost(data, m)) \in 0 .. U32 - 1
      BY <3>1, <3>2 DEF Minus, WriteCost
    <3>. QED BY <1>10, <3>1, <3>3 DEF Counts
  <2>14. \A g \in Handles : open'[g] # NoInode => open'[g] \in ibits' /\ inode'[open'[g]].type = "file"
    BY <1>1, <1>5, <2>11, Handled
  <2>15. dlast' \in Block
    BY <1>7, <1>10
  <2>. QED BY <1>1, <1>5, <2>8, <2>9, <2>10, <2>12, <2>13, <2>14, <2>15, Handled, Assembled
<1>. QED BY <1>5, <1>8, <1>9, <1>10

-----------------------------------------------------------------------------
(* The blocks of a create are the new inode's own one, if it has one, and   *)
(* those for the entry.                                                     *)
LEMMA BlocksSplit ==
  ASSUME NEW S, NEW blocks \in Seq(S), IsInjective(blocks), NEW own \in {0, 1}, NEW m \in Nat,
         Len(blocks) = own + m
  PROVE  LET mine  == SubSeq(blocks, 1, own)
             extra == SubSeq(blocks, own + 1, own + m)
         IN  /\ mine \in Seq(S) /\ IsInjective(mine) /\ Range(mine) \subseteq Range(blocks)
             /\ own = 1 => mine = <<blocks[1]>> /\ Range(mine) = {blocks[1]} /\ blocks[1] \in S
             /\ extra \in Seq(S) /\ IsInjective(extra) /\ Range(extra) \subseteq Range(blocks)
             /\ Len(extra) = m
             /\ Range(mine) \cap Range(extra) = {}
<1>. DEFINE mine  == SubSeq(blocks, 1, own)
            extra == SubSeq(blocks, own + 1, own + m)
<1>1. /\ mine \in Seq(S) /\ Range(mine) \subseteq Range(blocks) /\ IsInjective(mine)
  BY own \in 0 .. Len(blocks), 1 \in Nat \ {0}, SubSeqInjective
<1>2. /\ extra \in Seq(S) /\ Range(extra) \subseteq Range(blocks) /\ IsInjective(extra)
  <2>1. own + m \in 0 .. Len(blocks) /\ own + 1 \in Nat \ {0}
    OBVIOUS
  <2>. QED BY <2>1, SubSeqInjective
<1>3. /\ \A k \in own + 1 .. own + m : blocks[k] \in S
      /\ \A k \in 1 .. own : blocks[k] \in S
  OBVIOUS
<1>4. /\ Len(extra) = m
      /\ \A k \in 1 .. m : extra[k] = blocks[own + k]
  <2>1. /\ Len(extra) = IF own + 1 <= own + m THEN own + m - (own + 1) + 1 ELSE 0
        /\ \A k \in 1 .. own + m - (own + 1) + 1 : extra[k] = blocks[own + 1 + k - 1]
    BY <1>3, own + 1 \in Int, own + m \in Int, SubSeqProperties
  <2>. HIDE DEF extra
  <2>. QED BY <2>1
<1>5. own = 0 => mine = <<>>
  BY SubSeqEmpty
<1>6. own = 1 => mine = <<blocks[1]>>
  <2>. SUFFICES ASSUME own = 1 PROVE mine = <<blocks[1]>>
    OBVIOUS
  <2>1. Len(mine) = 1 /\ mine[1] = blocks[1]
    BY <1>3, SubSeqProperties
  <2>. HIDE DEF mine
  <2>. QED BY <1>1, <2>1
<1>. HIDE DEF mine, extra
<1>7. Range(mine) \cap Range(extra) = {}
  <2>1. CASE own = 0
    BY <1>5, <2>1 DEF Range
  <2>2. CASE own = 1
    <3>1. DOMAIN extra = 1 .. m /\ DOMAIN blocks = 1 .. m + 1
      BY <1>2, <1>4, <2>2
    <3>2. \A k \in 1 .. m : extra[k] = blocks[k + 1] /\ k + 1 \in 1 .. m + 1 /\ k + 1 # 1
      BY <1>4, <2>2
    <3>3. \A k \in 1 .. m : extra[k] # blocks[1]
      BY <3>1, <3>2, 1 \in 1 .. m + 1 DEF IsInjective
    <3>4. Range(mine) = {blocks[1]}
      BY <1>6, <2>2 DEF Range
    <3>. QED BY <3>1, <3>3, <3>4 DEF Range
  <2>. QED BY <2>1, <2>2
<1>8. own = 1 => Range(mine) = {blocks[1]} /\ blocks[1] \in S
  BY <1>6 DEF Range
<1>. QED BY <1>1, <1>2, <1>4, <1>6, <1>7, <1>8 DEF mine, extra

(* A new inode is a well-formed table entry that owns the blocks given.     *)
LEMMA NewInodeOwns ==
  ASSUME NEW type \in Types, NEW blocks \in Seq(Block), IsInjective(blocks)
  PROVE  /\ NewInode(type, blocks) \in INodes
         /\ NewInode(type, blocks).type = type /\ NewInode(type, blocks).links = 1
         /\ NewInode(type, blocks).blocks = blocks
         /\ Blocks(NewInode(type, blocks)) = blocks
<1>1. blocks \o <<>> = blocks
  BY ConcatEmptySeq
<1>. QED BY <1>1 DEF NewInode, INodes, Blocks

(* The directory blocks with the block of a new directory filled in.        *)
Filled(type, c, b, i, p) == IF type = "directory" THEN [c EXCEPT ![b] = NewDirectory(i, p)] ELSE c

(* Blocks for a new inode that are clear in db; b is the only one, if any.  *)
OwnBlocks(type, mine, b, db) ==
  /\ mine \in Seq(Block) /\ IsInjective(mine) /\ Range(mine) \cap db = {}
  /\ type # "file" => mine = <<b>> /\ b \in Block /\ b \notin db

(* The table with the new inode.                                            *)
WithInode(n, i, type, mine) == [n EXCEPT ![i] = NewInode(type, mine)]

(* The tables n2 and c2 are n and c with inode i added, which owns `mine'.  *)
Sound(n, c, db, ib) == /\ n \in [Inode -> INodes] /\ c \in Contents
                       /\ Ownership(n, db, ib)
Extended(n, c, db, ib, n2, c2, i, type, mine) ==
  /\ n2 \in [Inode -> INodes] /\ c2 \in Contents
  /\ n2[i].type = type /\ n2[i].links = 1
  /\ \A d \in Inode \ {i} : n2[d] = n[d]
  /\ Ownership(n2, db \cup Range(mine), ib \cup {i})
  /\ \A j : Naming(n2, c2, ib \cup {i}, j) = Naming(n, c, ib, j)

(* A new inode with blocks of its own, in tables where nothing names it yet.*)
LEMMA NodeAdded ==
  ASSUME NEW n, NEW c, NEW db, NEW ib \in SUBSET Inode, Sound(n, c, db, ib),
         NEW i \in Inode \ ib, NEW p \in Inode, NEW type \in Types,
         NEW mine, NEW b, OwnBlocks(type, mine, b, db)
  PROVE  Extended(n, c, db, ib, WithInode(n, i, type, mine), Filled(type, c, b, i, p),
                  i, type, mine)
<1>. DEFINE x  == NewInode(type, mine)
            n2 == [n EXCEPT ![i] = x]
            c2 == Filled(type, c, b, i, p)
            F  == Range(mine)
<1>. n \in [Inode -> INodes] /\ c \in Contents /\ Ownership(n, db, ib)
  BY DEF Sound
<1>0. /\ mine \in Seq(Block) /\ IsInjective(mine) /\ F \cap db = {}
      /\ type # "file" => mine = <<b>> /\ b \in Block /\ b \notin db
  BY DEF OwnBlocks
<1>1. /\ x \in INodes /\ x.type = type /\ x.links = 1 /\ x.blocks = mine
      /\ Blocks(x) = mine
  BY <1>0, NewInodeOwns
<1>. HIDE DEF x
<1>2. Ownership(n2, db \cup F, ib \cup {i})
  <2>1. F \cap db = {} /\ IsInjective(Blocks(x)) /\ Range(Blocks(x)) \subseteq F /\ ib \subseteq Inode
    BY <1>0, <1>1
  <2>. HIDE DEF F
  <2>. QED BY <2>1, OwnershipNew
<1>3. n2 \in [Inode -> INodes] /\ n2[i] = x /\ \A d \in Inode \ {i} : n2[d] = n[d]
  BY <1>1
<1>. HIDE DEF n2
<1>4. c2 \in Contents /\ \A j : Naming(n2, c2, ib \cup {i}, j) = Naming(n, c, ib, j)
  <2>1. \A d \in ib : n2[d] = n[d]
    BY <1>3
  <2>2. NamesNothing(n2[i], c, c2, db, i, p)
    BY <1>0, <1>1, <1>3 DEF Filled, NamesNothing
  <2>. HIDE DEF c2
  <2>. QED BY <2>1, <2>2, NewNames
<1>5. WithInode(n, i, type, mine) = n2
  BY DEF WithInode, n2, x
<1>. QED BY <1>1, <1>2, <1>3, <1>4, <1>5 DEF Extended

(* The parent of a create has no room for the entry and cannot grow: the    *)
(* inode is there, its name is not.                                         *)
EntryRefused(p, type) ==
  /\ Fit(p) = {} /\ TooBig(p, 1)
  /\ Allocated(1, (IF type = "file" THEN 0 ELSE 1) + EntryBlocks(p))

(* create, create_child and the handlers that call it.                      *)
LEMMA CreateKept ==
  ASSUME IInv, NEW p \in Directories, NEW name \in Names, NEW type \in Types,
         NEW H \in SUBSET Handles, H = {} \/ type = "file", Create(p, name, type, H)
  PROVE  IInv' /\ (NoneOrphaned \/ EntryRefused(p, type))
<1>. DEFINE own    == IF type = "file" THEN 0 ELSE 1
            m      == EntryBlocks(p)
            nd     == own + m
            blocks == Data(nd)
            i      == Inodes(1)[1]
            mine   == SubSeq(blocks, 1, own)
            extra  == SubSeq(blocks, own + 1, own + m)
            e      == Entry(name, i, type)
            b      == blocks[1]
            n1     == WithParent(p, extra)
            c1     == Added(p, e, EntryBlock(extra))
<1>1. /\ TypeOK /\ BlockOwnership /\ inode \in [Inode -> INodes] /\ content \in Contents
      /\ ibits \in SUBSET Inode /\ dbits \in SUBSET Block
      /\ Ownership(inode, dbits, ibits) /\ Counted(inode, content, ibits)
      /\ p \in ibits /\ p \in Inode
  BY Typed, OwnershipIs DEF IInv, NamesCounted, Directories
<1>2. own \in {0, 1} /\ m \in Nat /\ nd \in Nat
  BY <1>1, EntryBlocksNat
<1>3. \/ InodesFull(nd) \/ DataFull(1, nd)
      \/ /\ Allocated(1, nd)
         /\ \/ /\ inode' = [inode EXCEPT ![i] = NewInode(type, mine), ![p] = Parent(p, extra)]
               /\ content' = Filled(type, c1, b, i, p)
               /\ open' = [h \in Handles |-> IF h \in H THEN i ELSE open[h]]
            \/ /\ inode' = WithInode(inode, i, type, mine)
               /\ content' = Filled(type, content, b, i, p)
               /\ open' = open
               /\ EntryRefused(p, type)
  BY Zenon DEF Create, Filled, WithInode, EntryRefused
<1>4. CASE InodesFull(nd) \/ DataFull(1, nd)
  BY <1>2, <1>4, FullKept, 1 \in Nat
<1>5. CASE Allocated(1, nd)
  <2>1. /\ Inodes(1) \in Seq(Inode \ ibits) /\ Len(Inodes(1)) = 1
        /\ blocks \in Seq(Block \ dbits) /\ Len(blocks) = nd /\ IsInjective(blocks)
        /\ ibits' = ibits \cup Range(Inodes(1))
        /\ dbits' = dbits \cup Range(blocks)
        /\ ibits' \subseteq Inode /\ dbits' \subseteq Block
        /\ ilast' \in Inode /\ dlast' \in Block
        /\ sb' \in Counts /\ saved' \in Counts
    <3>. HIDE DEF nd
    <3>. QED BY <1>1, <1>2, <1>5, AllocatedFresh, 1 \in Nat
  <2>2. i \in Inode \ ibits /\ ibits' = ibits \cup {i} /\ i # p
    BY <1>1, <2>1 DEF Range
  <2>. DEFINE S == Block \ dbits
  <2>. HIDE DEF own, m, blocks, i, S
  <2>3. blocks \in Seq(S) /\ IsInjective(blocks) /\ Len(blocks) = own + m
    BY <2>1 DEF S
  <2>4. /\ mine \in Seq(S) /\ IsInjective(mine) /\ Range(mine) \subseteq Range(blocks)
        /\ own = 1 => mine = <<b>> /\ Range(mine) = {b} /\ b \in S
        /\ extra \in Seq(S) /\ IsInjective(extra) /\ Range(extra) \subseteq Range(blocks)
        /\ Len(extra) = m
        /\ Range(mine) \cap Range(extra) = {}
    BY <1>2, <2>3, BlocksSplit
  <2>. HIDE DEF mine, extra, b
  <2>5. /\ mine \in Seq(Block) /\ Range(mine) \cap dbits = {} /\ FreshFor(p, extra)
        /\ type # "file" => mine = <<b>> /\ Range(mine) = {b} /\ b \in Block /\ b \notin dbits
        /\ OwnBlocks(type, mine, b, dbits)
    <3>1. mine \in Seq(Block) /\ Range(mine) \subseteq S
      BY <2>4, RangeOfSeq DEF S
    <3>. QED BY <2>4, <3>1 DEF S, own, m, FreshFor, OwnBlocks
  <2>6. \A h \in Handles : open[h] # NoInode => /\ open[h] \in ibits /\ open[h] \in Inode
                                               /\ open[h] # i /\ inode[open[h]].type = "file"
    BY <1>1, <2>2, Handled
  <2>7. Naming(inode, content, ibits, i) = {} /\ i # Root
    BY <2>2, <1>1 DEF Counted
  <2>8. CASE /\ inode' = WithInode(inode, i, type, mine)
             /\ content' = Filled(type, content, b, i, p)
             /\ open' = open /\ EntryRefused(p, type)
    <3>1. /\ inode' \in [Inode -> INodes] /\ content' \in Contents
          /\ \A d \in Inode \ {i} : inode'[d] = inode[d]
          /\ Ownership(inode', dbits \cup Range(mine), ibits')
          /\ \A j : Naming(inode', content', ibits', j) = Naming(inode, content, ibits, j)
      <4>. DEFINE n2 == WithInode(inode, i, type, mine)
                  c2 == Filled(type, content, b, i, p)
      <4>1. Extended(inode, content, dbits, ibits, n2, c2, i, type, mine)
        <5>1. Sound(inode, content, dbits, ibits)
          BY <1>1 DEF Sound
        <5>2. i \in Inode \ ibits /\ p \in Inode /\ ibits \in SUBSET Inode
          BY <1>1, <2>2
        <5>3. OwnBlocks(type, mine, b, dbits)
          BY <2>5
        <5>. QED BY ONLY <5>1, <5>2, <5>3, type \in Types, NodeAdded
      <4>2. inode' = n2 /\ content' = c2
        BY <2>8
      <4>. HIDE DEF n2, c2
      <4>. QED BY <2>2, <4>1, <4>2 DEF Extended
    <3>2. Ownership(inode', dbits', ibits')
      <4>1. dbits \cup Range(mine) \subseteq dbits'
        BY <2>1, <2>4
      <4>. QED BY <3>1, <4>1, OwnershipMore
    <3>3. Counted(inode', content', ibits')
      <4>1. \A j \in ibits : inode'[j].links = inode[j].links
        BY <1>1, <2>2, <3>1
      <4>2. ibits \subseteq ibits'
        BY <2>2
      <4>. QED BY <1>1, <3>1, <4>1, <4>2, CountedSame
    <3>4. \A h \in Handles : open'[h] # NoInode =>
                               open'[h] \in ibits' /\ inode'[open'[h]].type = "file"
      BY <2>2, <2>6, <2>8, <3>1
    <3>5. open' \in [Handles -> Inode \cup {NoInode}]
      BY <2>8, Handled
    <3>. QED BY <2>1, <2>8, <3>1, <3>2, <3>3, <3>4, <3>5, Assembled
  <2>9. CASE /\ inode' = [inode EXCEPT ![i] = NewInode(type, mine), ![p] = Parent(p, extra)]
             /\ content' = Filled(type, c1, b, i, p)
             /\ open' = [h \in Handles |-> IF h \in H THEN i ELSE open[h]]
    <3>. DEFINE db1 == dbits \cup Range(extra)
    <3>1. e \in SlotContent /\ IsNamed(e) /\ e.ino = i
      BY <2>2, EntryNamed
    <3>. HIDE DEF e
    <3>2. /\ Parent(p, extra) \in INodes
          /\ n1 \in [Inode -> INodes] /\ c1 \in Contents
          /\ Ownership(n1, db1, ibits)
          /\ \A d \in Inode : n1[d].type = inode[d].type /\ n1[d].links = inode[d].links
          /\ \E k, s : OneMore(inode, content, n1, c1, ibits, p, k, s, i)
      <4>1. EntryIn(p, e.ino, extra, n1, c1)
        BY <1>1, <2>5, <3>1, EntryAdded
      <4>. HIDE DEF n1, c1
      <4>. QED BY <3>1, <4>1 DEF EntryIn
    <3>3. inode' = WithInode(n1, i, type, mine)
      BY <1>1, <2>2, <2>9 DEF WithParent, WithInode
    <3>. HIDE DEF n1, c1
    <3>4. /\ Range(mine) \cap db1 = {}
          /\ OwnBlocks(type, mine, b, db1)
      BY <2>4, <2>5 DEF OwnBlocks
    <3>. HIDE DEF db1
    <3>5. /\ inode' \in [Inode -> INodes] /\ content' \in Contents
          /\ inode'[i].type = type /\ inode'[i].links = 1
          /\ \A d \in Inode \ {i} : inode'[d] = n1[d]
          /\ Ownership(inode', db1 \cup Range(mine), ibits')
          /\ \A j : Naming(inode', content', ibits', j) = Naming(n1, c1, ibits, j)
      <4>. DEFINE n2 == WithInode(n1, i, type, mine)
                  c2 == Filled(type, c1, b, i, p)
      <4>1. Extended(n1, c1, db1, ibits, n2, c2, i, type, mine)
        <5>1. Sound(n1, c1, db1, ibits)
          BY <3>2 DEF Sound
        <5>2. i \in Inode \ ibits /\ p \in Inode /\ ibits \in SUBSET Inode
          BY <1>1, <2>2
        <5>3. OwnBlocks(type, mine, b, db1)
          BY <3>4
        <5>. QED BY ONLY <5>1, <5>2, <5>3, type \in Types, NodeAdded
      <4>2. inode' = n2 /\ content' = c2
        BY <2>9, <3>3
      <4>. HIDE DEF n2, c2
      <4>. QED BY <2>2, <4>1, <4>2 DEF Extended
    <3>6. Ownership(inode', dbits', ibits')
      <4>1. db1 \cup Range(mine) \subseteq dbits'
        BY <2>1, <2>4 DEF db1
      <4>. QED BY <3>5, <4>1, OwnershipMore
    <3>7. PICK k, s : OneMore(inode, content, n1, c1, ibits, p, k, s, i)
      BY <3>2
    <3>. DEFINE r == <<p, <<k, s>>>>
    <3>8. /\ r \notin Naming(inode, content, ibits, i)
          /\ Naming(inode', content', ibits', i) = Naming(inode, content, ibits, i) \cup {r}
          /\ \A j : j # i => Naming(inode', content', ibits', j) = Naming(inode, content, ibits, j)
      BY <3>5, <3>7 DEF OneMore
    <3>. HIDE DEF r
    <3>9. Counted(inode', content', ibits')
      <4>1. inode'[i].links = Cardinality(Naming(inode, content, ibits, i)) + 1
        BY <2>7, <3>5, FS_EmptySet
      <4>2. \A j \in ibits \ {i} : inode'[j].links = inode[j].links
        BY <1>1, <3>2, <3>5
      <4>3. ibits \subseteq ibits' /\ i \in ibits'
        BY <2>2
      <4>. QED BY <1>1, <2>7, <3>8, <4>1, <4>2, <4>3, CountedMore
    <3>10. \A h \in Handles : open'[h] # NoInode =>
                                open'[h] \in ibits' /\ inode'[open'[h]].type = "file"
      <4>. SUFFICES ASSUME NEW h \in Handles, open'[h] # NoInode
                    PROVE  open'[h] \in ibits' /\ inode'[open'[h]].type = "file"
        OBVIOUS
      <4>1. CASE h \in H
        BY <2>2, <2>9, <3>5, <4>1
      <4>2. CASE h \notin H
        <5>1. open'[h] = open[h]
          BY <2>9, <4>2
        <5>2. open[h] \in Inode \ {i} /\ open[h] \in ibits /\ inode[open[h]].type = "file"
          BY <2>6, <5>1
        <5>. QED BY <2>2, <3>2, <3>5, <5>1, <5>2
      <4>. QED BY <4>1, <4>2
    <3>11. open' \in [Handles -> Inode \cup {NoInode}]
      BY <2>2, <2>9, Handled
    <3>12. NoneOrphaned
      BY <2>2, <3>8 DEF NoneOrphaned, Orphans
    <3>. QED BY <2>1, <3>5, <3>6, <3>9, <3>10, <3>11, <3>12, Assembled
  <2>. QED BY <1>3, <1>4, <2>8, <2>9
<1>. QED BY <1>3, <1>4, <1>5

-----------------------------------------------------------------------------
(* Mounting: the allocators start over and the saved counts are read.       *)
LEMMA MountKept ==
  ASSUME IInv, mount
  PROVE  IInv' /\ NoneOrphaned
<1>1. dbits \subseteq Block /\ 0 \in Inode /\ 0 \in Block
  BY FormatAssumption DEF IInv, TypeOK, Inode, Block
<1>2. /\ ibits' = ibits /\ ilast' = 0 /\ dbits' = dbits /\ dlast' = 0
      /\ sb' = saved /\ saved' = saved /\ inode' = inode /\ content' = content
      /\ open' = [h \in Handles |-> NoInode]
  BY DEF mount
<1>. QED BY <1>1, <1>2, Handled, Kept

(* The calls that touch the handles only.                                   *)
LEMMA OpenKept ==
  ASSUME IInv, NEW h \in Handles,
         (\E i \in ibits : open_file(h, i)) \/ close_file(h)
  PROVE  IInv' /\ NoneOrphaned
<1>1. ibits \subseteq Inode /\ dbits \subseteq Block
  BY DEF IInv, TypeOK
<1>3. ASSUME NEW i \in ibits, open_file(h, i) PROVE IInv' /\ NoneOrphaned
  <2>1. /\ open' = [open EXCEPT ![h] = i] /\ inode[i].type = "file"
        /\ ibits' = ibits /\ ilast' = ilast /\ dbits' = dbits /\ dlast' = dlast
        /\ sb' = sb /\ saved' = saved /\ inode' = inode /\ content' = content
    BY <1>3 DEF open_file, alloc
  <2>2. /\ open' \in [Handles -> Inode \cup {NoInode}]
        /\ \A g \in Handles : open'[g] # NoInode =>
             open'[g] \in ibits /\ inode[open'[g]].type = "file"
    BY <1>1, <2>1, Handled
  <2>. QED BY <1>1, <2>1, <2>2, Handled, Kept
<1>4. CASE close_file(h)
  <2>1. /\ open' = [open EXCEPT ![h] = NoInode]
        /\ ibits' = ibits /\ ilast' = ilast /\ dbits' = dbits /\ dlast' = dlast
        /\ sb' = sb /\ saved' = saved /\ inode' = inode /\ content' = content
    BY <1>4 DEF close_file, alloc
  <2>2. /\ open' \in [Handles -> Inode \cup {NoInode}]
        /\ \A g \in Handles : open'[g] # NoInode =>
             open'[g] \in ibits /\ inode[open'[g]].type = "file"
    BY <2>1, Handled
  <2>. QED BY <1>1, <2>1, <2>2, Handled, Kept
<1>. QED BY <1>3, <1>4

(* The formatted device: the root is the only inode, and its directory has  *)
(* no named entry.                                                          *)
LEMMA InitInv == Init => IInv
<1>. SUFFICES ASSUME Init PROVE IInv
  OBVIOUS
<1>1. 0 \in Inode /\ 0 \in Block /\ Root \in Inode /\ Root = 0
  BY FormatAssumption DEF Inode, Block, Root
<1>2. NewDirectory(Root, Root) \in [Slot -> SlotContent] /\ [s \in Slot |-> Free] \in [Slot -> SlotContent]
  BY <1>1 DEF NewDirectory, Entry, Free, SlotContent, Types
<1>3. \A s \in Slot : ~IsNamed(NewDirectory(Root, Root)[s])
  BY DEF NewDirectory, Entry, Free, IsNamed
<1>4. <<0>> \in Seq(Block) /\ IsInjective(<<0>>) /\ Range(<<0>>) = {0}
  BY <1>1 DEF IsInjective, Range
<1>5. /\ NewInode("directory", <<0>>) \in INodes
      /\ NewInode("directory", <<0>>).type = "directory"
      /\ NewInode("directory", <<0>>).blocks = <<0>>
      /\ Blocks(NewInode("directory", <<0>>)) = <<0>>
  BY <1>4, NewInodeOwns, "directory" \in Types DEF Types
<1>6. [NewInode("file", <<>>) EXCEPT !.links = 0] \in INodes
  <2>1. NewInode("file", <<>>) \in INodes
    BY EmptySeq DEF NewInode, INodes, Types
  <2>. HIDE DEF NewInode
  <2>. QED BY <2>1 DEF INodes
<1>7. inode \in [Inode -> INodes] /\ inode[Root] = NewInode("directory", <<0>>)
  <2>. DEFINE x == NewInode("directory", <<0>>)
              y == [NewInode("file", <<>>) EXCEPT !.links = 0]
  <2>1. inode = [i \in Inode |-> IF i = Root THEN x ELSE y]
    BY DEF Init
  <2>2. x \in INodes /\ y \in INodes
    BY <1>5, <1>6
  <2>. HIDE DEF x, y
  <2>3. inode \in [Inode -> INodes] /\ inode[Root] = x
    BY <1>1, <2>1, <2>2
  <2>. QED BY <2>3 DEF x
<1>8. content \in Contents /\ content[0] = NewDirectory(Root, Root)
  <2>. DEFINE x == NewDirectory(Root, Root)
              y == [s \in Slot |-> Free]
  <2>1. content = [b \in Block |-> IF b = 0 THEN x ELSE y]
    BY DEF Init
  <2>2. x \in [Slot -> SlotContent] /\ y \in [Slot -> SlotContent]
    BY <1>2
  <2>. HIDE DEF x, y
  <2>3. content \in Contents /\ content[0] = x
    BY <1>1, <2>1, <2>2 DEF Contents
  <2>. QED BY <2>3 DEF x
<1>9. ibits = {Root} /\ dbits = {0} /\ open = [h \in Handles |-> NoInode]
  BY DEF Init
<1>10. sb \in Counts /\ saved \in Counts
  BY FormatAssumption DEF Init, Counts
<1>11. TypeOK
  BY <1>1, <1>7, <1>8, <1>9, <1>10 DEF Init, TypeOK, INodes, Contents
<1>12. BlockOwnership
  <2>1. Ownership(inode, dbits, ibits)
    BY <1>4, <1>5, <1>7, <1>9 DEF Ownership
  <2>. QED BY <2>1, OwnershipIs
<1>13. NamesCounted
  <2>1. \A i : Naming(inode, content, ibits, i) = {}
    <3>. SUFFICES ASSUME NEW i, NEW d, NEW k, NEW s, IsRef(inode, content, ibits, d, k, s, i)
                  PROVE  FALSE
      BY NamingIs
    <3>1. d = Root /\ k \in 1 .. Len(<<0>>) /\ s \in Slot
          /\ IsNamed(content[inode[d].blocks[k]][s])
      BY <1>5, <1>7, <1>9 DEF IsRef
    <3>2. k = 1 /\ inode[d].blocks[k] = 0
      BY <1>5, <1>7, <3>1
    <3>. QED BY <1>3, <1>8, <3>1, <3>2
  <2>. QED BY <1>9, <2>1 DEF NamesCounted, Counted
<1>14. OpenFiles
  BY <1>9 DEF OpenFiles
<1>. QED BY <1>11, <1>12, <1>13, <1>14 DEF IInv

(* Every step keeps the invariant, and leaves behind no inode without a     *)
(* name unless the directory cannot take the entry.                         *)
LEMMA NextInv ==
  ASSUME Risky \cap {"delete_open", "file_parent"} = {}, IInv, [Next]_vars
  PROVE  IInv' /\ (NoneOrphaned \/ \E p \in Directories, type \in Types : EntryRefused(p, type))
<1>1. Parents = Directories
  BY DEF Parents
<1>2. "file" \in Types /\ "directory" \in Types /\ "symlink" \in Types
  BY DEF Types
<1>3. ASSUME NEW p \in Directories, NEW name \in Names,
             \/ \E type \in Types : create(p, name, type)
             \/ mknod(p, name) \/ mkdir(p, name) \/ symlink(p, name)
             \/ \E h \in Handles : create_open(p, name, h)
      PROVE  IInv' /\ (NoneOrphaned \/ \E type \in Types : EntryRefused(p, type))
  <2>1. \E type \in Types, H \in SUBSET Handles :
           (H = {} \/ type = "file") /\ Create(p, name, type, H)
    <3>1. CASE \E type \in Types : create(p, name, type)
      BY <3>1 DEF create
    <3>2. CASE mknod(p, name) \/ mkdir(p, name) \/ symlink(p, name)
      BY <1>2, <3>2 DEF mknod, mkdir, symlink, create_child
    <3>3. CASE \E h \in Handles : create_open(p, name, h)
      <4>1. PICK h \in Handles : create_open(p, name, h)
        BY <3>3
      <4>2. Create(p, name, "file", {h}) /\ {h} \in SUBSET Handles
        BY <4>1 DEF create_open, create_child
      <4>. QED BY <1>2, <4>2
    <3>. QED BY <1>3, <3>1, <3>2, <3>3
  <2>2. PICK type \in Types, H \in SUBSET Handles :
           (H = {} \/ type = "file") /\ Create(p, name, type, H)
    BY <2>1
  <2>. QED BY <2>2, CreateKept
<1>4. ASSUME NEW p \in Directories, NEW name \in Names, NEW i \in ibits,
             create_hardlink(i, p, name) \/ link(i, p, name)
      PROVE  IInv' /\ NoneOrphaned
  <2>1. Linked(i) /\ Hardlink(i, p, name)
    BY <1>4 DEF create_hardlink, link
  <2>2. i # p
    BY <1>4 DEF create_hardlink, link, Directories
  <2>. QED BY <2>1, <2>2, HardlinkKept
<1>5. ASSUME NEW p \in Directories, NEW name \in Names,
             delete(p, name) \/ unlink(p, name) \/ rmdir(p, name)
      PROVE  IInv' /\ NoneOrphaned
  <2>1. Find(p, name) # {} /\ Delete(p, First(Find(p, name)))
    BY <1>5 DEF delete, unlink, rmdir, delete_child
  <2>2. "delete_open" \notin Risky
    OBVIOUS
  <2>. QED BY <2>1, <2>2, DeleteKept
<1>6. ASSUME NEW p \in Directories, NEW name \in Names, NEW q \in Directories,
             NEW newname \in Names, rename(p, name, q, newname)
      PROVE  IInv' /\ NoneOrphaned
  BY <1>6, RenameKept
<1>7. ASSUME NEW h \in Handles,
             \/ \E i \in ibits : open_file(h, i)
             \/ close_file(h)
             \/ \E n \in 1 .. MaxGrow : write(h, n)
      PROVE  IInv' /\ NoneOrphaned
  BY <1>7, OpenKept, WriteKept
<1>8. CASE mount
  BY <1>8, MountKept
<1>9. CASE UNCHANGED vars
  <2>1. /\ ibits' = ibits /\ ilast' = ilast /\ dbits' = dbits /\ dlast' = dlast
        /\ sb' = sb /\ saved' = saved /\ inode' = inode /\ content' = content
        /\ open' = open /\ dbits \subseteq Block
    BY <1>9 DEF vars, IInv, TypeOK
  <2>. QED BY <2>1, Handled, Kept
<1>10. CASE Next
  BY <1>1, <1>3, <1>4, <1>5, <1>6, <1>7, <1>8, <1>10 DEF Next
<1>. QED BY <1>9, <1>10

-----------------------------------------------------------------------------
(* As long as nobody deletes a file that is open, or uses a file as the     *)
(* parent of a path -- the two things FormatV1 leaves to its caller -- ...  *)
THEOREM Invariance ==
  ASSUME Risky \cap {"delete_open", "file_parent"} = {}
  PROVE  Spec => []IInv
<1>1. Init => IInv
  BY InitInv
<1>2. IInv /\ [Next]_vars => IInv'
  BY NextInv
<1>. QED BY <1>1, <1>2, PTL DEF Spec

(* ... the tables and counters are well formed: in particular the link and  *)
(* free counters never leave their range, the allocators' memory of the     *)
(* last index stays on the device, and no name leads outside the table;     *)
THEOREM TypeCorrect ==
  ASSUME Risky \cap {"delete_open", "file_parent"} = {}
  PROVE  Spec => []TypeOK
<1>1. IInv => TypeOK
  BY DEF IInv
<1>. QED BY <1>1, Invariance, PTL

(* ... a data block is owned by one inode, at one place, and its bit is     *)
(* set, whatever calls fail on the way;                                     *)
THEOREM BlocksOwned ==
  ASSUME Risky \cap {"delete_open", "file_parent"} = {}
  PROVE  Spec => []BlockOwnership
<1>1. IInv => BlockOwnership
  BY DEF IInv
<1>. QED BY <1>1, Invariance, PTL

(* ... the link counter of an inode that is named counts the entries that   *)
(* name it, so delete() releases an inode with its last name and not        *)
(* before.                                                                  *)
THEOREM LinksCounted ==
  ASSUME Risky \cap {"delete_open", "file_parent"} = {}
  PROVE  Spec => []LinksExact
<1>1. IInv => LinksExact
  BY RefsIs DEF IInv, TypeOK, NamesCounted, Counted, LinksExact
<1>. QED BY <1>1, Invariance, PTL

(* On a device of no more data blocks than an inode can have, a directory   *)
(* that cannot grow owns every block: nothing can be allocated any more.    *)
LEMMA NeverRefused ==
  ASSUME IInv, ND <= MaxBlocks, NEW p \in Directories, NEW type \in Types
  PROVE  ~EntryRefused(p, type)
<1>. DEFINE nd == (IF type = "file" THEN 0 ELSE 1) + EntryBlocks(p)
            bs == inode[p].blocks
<1>. SUFFICES ASSUME EntryRefused(p, type) PROVE FALSE
  OBVIOUS
<1>1. /\ TypeOK /\ inode \in [Inode -> INodes] /\ p \in ibits /\ p \in Inode /\ dbits \in SUBSET Block
      /\ Ownership(inode, dbits, ibits)
  BY Typed, OwnershipIs DEF IInv, Directories
<1>2. bs \in Seq(Block) /\ inode[p].ptrs \in Seq(Block)
  BY <1>1 DEF INodes
<1>3. IsInjective(bs) /\ Range(bs) \subseteq dbits
  <2>1. IsInjective(bs \o inode[p].ptrs) /\ Range(bs \o inode[p].ptrs) \subseteq dbits
    BY <1>1 DEF Ownership, Blocks
  <2>2. Range(bs \o inode[p].ptrs) = Range(bs) \cup Range(inode[p].ptrs)
    BY <1>2, RangeConcatenation
  <2>. QED BY <1>2, <2>1, <2>2, ConcatInjective
<1>4. Len(bs) >= ND /\ ND \in Nat /\ Len(bs) \in Nat
  BY <1>2, FormatAssumption, PointerAssumption DEF EntryRefused, TooBig
<1>5. nd \in Nat /\ nd >= 1 /\ Len(Data(nd)) = nd
  <2>1. MetadataToGrow(Len(bs), 1) \in Nat
    BY <1>4, GrowMonotone, 1 \in Nat, 1 <= 1
  <2>2. EntryBlocks(p) = 1 + MetadataToGrow(Len(bs), 1)
    BY DEF EntryRefused, EntryBlocks, blocks_necessary_to_grow_n
  <2>. QED BY <2>1, <2>2 DEF EntryRefused, Allocated
<1>. HIDE DEF nd
<1>6. PICK x \in Block : x \notin dbits
  <2>1. dlast \in Int
    BY <1>1 DEF TypeOK, Block
  <2>2. Data(nd) \in Seq(Block \ dbits)
    BY <1>5, <2>1, DataFound DEF Data
  <2>3. Data(nd)[1] \in Block \ dbits
    BY <1>5, <2>2
  <2>. QED BY <2>3
<1>7. IsFiniteSet(Block) /\ Cardinality(Block) = ND
  <2>1. 0 \in Int /\ ND - 1 \in Int /\ ND > 0
    BY FormatAssumption
  <2>2. IsFiniteSet(0 .. ND - 1)
        /\ Cardinality(0 .. ND - 1) = IF 0 > ND - 1 THEN 0 ELSE (ND - 1) - 0 + 1
    BY <2>1, FS_Interval
  <2>. QED BY <1>4, <2>1, <2>2 DEF Block
<1>. DEFINE T == Block \ {x}
<1>8. IsFiniteSet(T) /\ Cardinality(T) = ND - 1
  BY <1>7, FS_RemoveElement
<1>9. IsFiniteSet(1 .. Len(bs)) /\ Cardinality(1 .. Len(bs)) = Len(bs)
  <2>. DEFINE n == Len(bs)
  <2>1. 1 \in Int /\ n \in Int /\ n \in Nat
    BY <1>4
  <2>. HIDE DEF n
  <2>2. IsFiniteSet(1 .. n) /\ Cardinality(1 .. n) = IF 1 > n THEN 0 ELSE n - 1 + 1
    BY <2>1, FS_Interval
  <2>. QED BY <2>1, <2>2 DEF n
<1>10. bs \in [1 .. Len(bs) -> T]
  BY <1>2, <1>3, <1>6 DEF Range
<1>. HIDE DEF bs, T
<1>11. \E k, l \in 1 .. Len(bs) : k # l /\ bs[k] = bs[l]
  BY <1>4, <1>8, <1>9, <1>10, FS_PigeonHole
<1>. QED BY <1>3, <1>10, <1>11 DEF IsInjective

(* On such a device (one megabyte and a bit, with the sizes of the code)    *)
(* every allocated inode has a name: create() and its like never lose the   *)
(* inode they have allocated, a deletion frees what it takes the last name  *)
(* from, and no deletion takes the directory from under an entry.           *)
THEOREM NothingOrphaned ==
  ASSUME Risky \cap {"delete_open", "file_parent"} = {}, ND <= MaxBlocks
  PROVE  Spec => []NoOrphans
<1>. DEFINE Inv == IInv /\ Orphans(inode, content, ibits) = {}
<1>1. Init => Inv
  BY InitInv DEF Init, Orphans
<1>2. Inv /\ [Next]_vars => Inv'
  <2>. SUFFICES ASSUME Inv, [Next]_vars PROVE Inv'
    OBVIOUS
  <2>1. IInv' /\ NoneOrphaned
    BY NextInv, NeverRefused
  <2>2. Orphans(inode, content, ibits)' = Orphans(inode', content', ibits')
    BY DEF Orphans, Naming
  <2>. QED BY <2>1, <2>2 DEF NoneOrphaned
<1>3. Inv => NoOrphans
  BY RefsIs DEF NoOrphans, Orphans
<1>. QED BY <1>1, <1>2, <1>3, PTL DEF Spec

-----------------------------------------------------------------------------
(* The free counts                                                          *)

(* The search for clear bits, which starts at the byte of the last          *)
(* allocation, leaves none of them out.  (It does where a bit is cleared    *)
(* before that byte, in its own block of the bitmap.)                       *)
AllSearched == /\ IMap!Searched(ibits, ilast) = Inode \ ibits
               /\ DMap!Searched(dbits, dlast) = Block \ dbits

(* The counts for bitmaps ib and db.                                        *)
FreeCounts(ib, db) == [free_inodes |-> NI - Cardinality(ib), free_data |-> ND - Cardinality(db)]

(* Every index of the two regions has its bit.                              *)
LEMMA AllMapped == IMap!Mapped = Inode /\ DMap!Mapped = Block
<1>. DEFINE I == IMapBlocks * BlockBits
            D == DMapBlocks * BlockBits
<1>1. /\ NI \in Nat /\ ND \in Nat
      /\ IMapBlocks \in Nat /\ DMapBlocks \in Nat /\ BlockBits \in Nat
  BY FormatAssumption
<1>2. NI <= I /\ ND <= D
  BY FormatAssumption, Zenon
<1>3. I \in Nat /\ D \in Nat
  BY <1>1
<1>4. IMap!Mapped = {i \in Inode : i < I} /\ DMap!Mapped = {i \in Block : i < D}
  BY DEF IMap!Mapped, DMap!Mapped, IMap!Index, DMap!Index, Inode, Block
<1>. HIDE DEF I, D
<1>5. (\A i \in Inode : i < I) /\ (\A i \in Block : i < D)
  BY <1>1, <1>2, <1>3 DEF Inode, Block
<1>. QED BY <1>4, <1>5

(* CountersExact, without the instances of the allocator.                   *)
LEMMA CountsAre ==
  ASSUME ibits \subseteq Inode, dbits \subseteq Block
  PROVE  CountersExact <=> sb = FreeCounts(ibits, dbits) /\ saved = FreeCounts(ibits, dbits)
<1>1. /\ IMap!Cardinality(ibits) = Cardinality(ibits)
      /\ DMap!Cardinality(dbits) = Cardinality(dbits)
  BY DEF Cardinality, IMap!Cardinality, DMap!Cardinality,
         IsFiniteSet, IMap!IsFiniteSet, DMap!IsFiniteSet
<1>2. ibits \cap IMap!Mapped = ibits /\ dbits \cap DMap!Mapped = dbits
  BY AllMapped
<1>. QED BY <1>1, <1>2 DEF CountersExact, FreeCounts, IMap!count_allocated, DMap!count_allocated

(* The same of the next state.                                              *)
LEMMA CountsAreNext ==
  ASSUME ibits' \subseteq Inode, dbits' \subseteq Block
  PROVE  CountersExact' <=> sb' = FreeCounts(ibits', dbits') /\ saved' = FreeCounts(ibits', dbits')
<1>1. /\ IMap!Cardinality(ibits') = Cardinality(ibits')
      /\ DMap!Cardinality(dbits') = Cardinality(dbits')
  BY DEF Cardinality, IMap!Cardinality, DMap!Cardinality,
         IsFiniteSet, IMap!IsFiniteSet, DMap!IsFiniteSet
<1>2. ibits' \cap IMap!Mapped = ibits' /\ dbits' \cap DMap!Mapped = dbits'
  BY AllMapped
<1>. QED BY <1>1, <1>2 DEF CountersExact, FreeCounts, IMap!count_allocated, DMap!count_allocated

(* A sequence without repetitions is as long as its range is large.         *)
LEMMA RangeSize ==
  ASSUME NEW S, NEW s \in Seq(S), IsInjective(s)
  PROVE  IsFiniteSet(Range(s)) /\ Cardinality(Range(s)) = Len(s)
<1>. DEFINE n == Len(s)
            R == Range(s)
<1>1. n \in Nat /\ DOMAIN s = 1 .. n
  OBVIOUS
<1>2. s \in Surjection(1 .. n, R) /\ s \in Injection(1 .. n, R)
  <2>1. s \in [1 .. n -> R]
    BY <1>1 DEF Range
  <2>. QED BY <1>1, <2>1 DEF Range, Surjection, Injection, IsInjective
<1>. HIDE DEF n, R
<1>3. IsFiniteSet(1 .. n) /\ Cardinality(1 .. n) = n
  BY <1>1, FS_Interval
<1>. QED BY <1>2, <1>3, FS_Surjection DEF n, R

(* The bitmaps are finite, and have as many bits as the region.             *)
LEMMA RegionSize ==
  /\ IsFiniteSet(Inode) /\ Cardinality(Inode) = NI
  /\ IsFiniteSet(Block) /\ Cardinality(Block) = ND
<1>1. NI \in Nat /\ ND \in Nat /\ NI > 0 /\ ND > 0
  BY FormatAssumption
<1>. QED BY <1>1, FS_Interval DEF Inode, Block

(* The bits of a region, set and clear.                                     *)
LEMMA BitsCounted ==
  ASSUME NEW U, IsFiniteSet(U), NEW B \in SUBSET U
  PROVE  /\ IsFiniteSet(B) /\ Cardinality(B) \in Nat /\ Cardinality(U) \in Nat
         /\ Cardinality(B) <= Cardinality(U)
         /\ Cardinality(U \ B) = Cardinality(U) - Cardinality(B)
<1>1. /\ IsFiniteSet(B) /\ Cardinality(B) <= Cardinality(U)
      /\ Cardinality(B) \in Nat /\ Cardinality(U) \in Nat
  BY FS_Subset, FS_CardinalityType
<1>2. U \cap B = B
  OBVIOUS
<1>. QED BY <1>1, <1>2, FS_Difference

(* Setting clear bits moves the count by their number.                      *)
LEMMA BitsSet ==
  ASSUME NEW U, IsFiniteSet(U), NEW B \in SUBSET U, NEW F \in SUBSET U, F \cap B = {}
  PROVE  /\ Cardinality(B \cup F) = Cardinality(B) + Cardinality(F)
         /\ Cardinality(B) + Cardinality(F) <= Cardinality(U)
<1>1. IsFiniteSet(B) /\ IsFiniteSet(F) /\ Cardinality(B) \in Nat /\ Cardinality(F) \in Nat
  BY BitsCounted
<1>2. B \cap F = {} /\ Cardinality({}) = 0
  BY FS_EmptySet
<1>3. Cardinality(B \cup F) = Cardinality(B) + Cardinality(F) - Cardinality({})
  BY <1>1, <1>2, FS_Union
<1>4. Cardinality(B \cup F) <= Cardinality(U)
  <2>1. B \cup F \in SUBSET U
    OBVIOUS
  <2>. QED BY <2>1, FS_Subset
<1>. QED BY <1>1, <1>2, <1>3, <1>4

(* Clearing set bits does, too.                                             *)
LEMMA BitsCleared ==
  ASSUME NEW U, IsFiniteSet(U), NEW B \in SUBSET U, NEW F \in SUBSET B
  PROVE  Cardinality(B \ F) = Cardinality(B) - Cardinality(F)
<1>1. IsFiniteSet(B) /\ B \cap F = F
  BY BitsCounted
<1>. QED BY <1>1, FS_Difference

(* A search that returns less than it was asked for has returned everything *)
(* it looked at.                                                            *)
LEMMA ShortSearch ==
  ASSUME NEW bits, NEW last \in Int, NEW n \in Nat
  PROVE  /\ LET f == IMap!find_free(bits, last, n)
            IN  Len(f) < n => IMap!Searched(bits, last) \subseteq Range(f)
         /\ LET f == DMap!find_free(bits, last, n)
            IN  Len(f) < n => DMap!Searched(bits, last) \subseteq Range(f)
<1>1. ByteBits \in Nat \ {0} /\ BlockBits \in Nat \ {0} /\ NI \in Nat /\ ND \in Nat
  BY FormatAssumption
<1>2. /\ IMap!find_free(bits, last, n) = IProofs!find_free(bits, last, n)
      /\ IMap!Searched(bits, last) = IProofs!Searched(bits, last)
  BY DEF IMap!find_free, IProofs!find_free, IMap!Searched, IProofs!Searched,
         IMap!FirstPass, IProofs!FirstPass, IMap!SecondPass, IProofs!SecondPass,
         IMap!SearchedBefore, IProofs!SearchedBefore, IMap!StartOfByte, IProofs!StartOfByte,
         IMap!StartOfBlock, IProofs!StartOfBlock, IMap!Mapped, IProofs!Mapped, IMap!Index, IProofs!Index,
         IMap!Cardinality, IProofs!Cardinality, IMap!IsFiniteSet, IProofs!IsFiniteSet
<1>3. /\ DMap!find_free(bits, last, n) = DProofs!find_free(bits, last, n)
      /\ DMap!Searched(bits, last) = DProofs!Searched(bits, last)
  BY DEF DMap!find_free, DProofs!find_free, DMap!Searched, DProofs!Searched,
         DMap!FirstPass, DProofs!FirstPass, DMap!SecondPass, DProofs!SecondPass,
         DMap!SearchedBefore, DProofs!SearchedBefore, DMap!StartOfByte, DProofs!StartOfByte,
         DMap!StartOfBlock, DProofs!StartOfBlock, DMap!Mapped, DProofs!Mapped, DMap!Index, DProofs!Index,
         DMap!Cardinality, DProofs!Cardinality, DMap!IsFiniteSet, DProofs!IsFiniteSet
<1>. DEFINE is == IProofs!find_free(bits, last, n)
            bs == DProofs!find_free(bits, last, n)
<1>4. IProofs!Exhausted(is, bits, last, n) /\ DProofs!Exhausted(bs, bits, last, n)
  BY <1>1, IProofs!FindFree, DProofs!FindFree
<1>. HIDE DEF is, bs
<1>5. Len(is) < n => IProofs!Searched(bits, last) \subseteq Range(is)
  BY <1>4 DEF Range, IProofs!Exhausted
<1>6. Len(bs) < n => DProofs!Searched(bits, last) \subseteq Range(bs)
  BY <1>4 DEF Range, DProofs!Exhausted
<1>. QED BY <1>2, <1>3, <1>5, <1>6 DEF is, bs

(* While the counts are exact and the search leaves nothing out, allocate() *)
(* gets what the counts promise: it never comes to "correct" them.          *)
LEMMA NeverShort ==
  ASSUME TypeOK, CountersExact, AllSearched, NEW ni \in Nat, NEW nd \in Nat
  PROVE  ~InodesFull(nd) /\ ~DataFull(ni, nd)
<1>1. /\ ibits \in SUBSET Inode /\ dbits \in SUBSET Block /\ ilast \in Int /\ dlast \in Int
      /\ sb = FreeCounts(ibits, dbits)
  BY CountsAre DEF TypeOK, Inode, Block
<1>2. /\ sb.free_inodes = Cardinality(Inode \ ibits) /\ sb.free_data = Cardinality(Block \ dbits)
  <2>1. /\ Cardinality(Inode \ ibits) = NI - Cardinality(ibits)
        /\ Cardinality(Block \ dbits) = ND - Cardinality(dbits)
    BY <1>1, RegionSize, BitsCounted
  <2>. QED BY <1>1, <2>1 DEF FreeCounts
<1>3. ASSUME NEW n \in Nat, n <= sb.free_inodes PROVE Len(Inodes(n)) = n
  <2>. DEFINE f == Inodes(n)
  <2>1. /\ f \in Seq(Inode \ ibits) /\ Len(f) <= n /\ IsInjective(f)
        /\ Len(f) < n => IMap!Searched(ibits, ilast) \subseteq Range(f)
    BY <1>1, InodesFound, ShortSearch DEF Inodes
  <2>. HIDE DEF f
  <2>2. Range(f) \subseteq Inode \ ibits /\ Len(f) \in Nat /\ Cardinality(Range(f)) = Len(f)
    BY <2>1, RangeOfSeq, RangeSize
  <2>3. ASSUME Len(f) < n PROVE FALSE
    <3>1. Range(f) = Inode \ ibits
      BY <2>1, <2>2, <2>3 DEF AllSearched
    <3>. QED BY <1>2, <1>3, <2>2, <2>3, <3>1
  <2>. QED BY <2>1, <2>2, <2>3 DEF f
<1>4. ASSUME NEW n \in Nat, n <= sb.free_data PROVE Len(Data(n)) = n
  <2>. DEFINE f == Data(n)
  <2>1. /\ f \in Seq(Block \ dbits) /\ Len(f) <= n /\ IsInjective(f)
        /\ Len(f) < n => DMap!Searched(dbits, dlast) \subseteq Range(f)
    BY <1>1, DataFound, ShortSearch DEF Data
  <2>. HIDE DEF f
  <2>2. Range(f) \subseteq Block \ dbits /\ Len(f) \in Nat /\ Cardinality(Range(f)) = Len(f)
    BY <2>1, RangeOfSeq, RangeSize
  <2>3. ASSUME Len(f) < n PROVE FALSE
    <3>1. Range(f) = Block \ dbits
      BY <2>1, <2>2, <2>3 DEF AllSearched
    <3>. QED BY <1>2, <1>4, <2>2, <2>3, <3>1
  <2>. QED BY <2>1, <2>2, <2>3 DEF f
<1>5. ~InodesFull(nd)
  <2>1. ASSUME InodesFull(nd) PROVE FALSE
    <3>1. 1 <= sb.free_inodes /\ Inodes(1) = <<>>
      BY <1>1, <2>1 DEF InodesFull
    <3>2. Len(Inodes(1)) = 1
      BY <1>3, <3>1
    <3>. QED BY <3>1, <3>2
  <2>. QED BY <2>1
<1>6. ~DataFull(ni, nd)
  <2>1. ASSUME DataFull(ni, nd) PROVE FALSE
    <3>1. nd <= sb.free_data /\ Len(Data(nd)) < nd
      BY <2>1 DEF DataFull
    <3>2. Len(Data(nd)) = nd
      BY <1>4, <3>1
    <3>. QED BY <3>1, <3>2
  <2>. QED BY <2>1
<1>. QED BY <1>5, <1>6

(* A successful allocate() takes from the counts what it sets of the bits.  *)
LEMMA AllocatedCounted ==
  ASSUME TypeOK, CountersExact, NEW ni \in Nat, NEW nd \in Nat, Allocated(ni, nd)
  PROVE  CountersExact'
<1>1. /\ ibits \in SUBSET Inode /\ dbits \in SUBSET Block /\ ilast \in Int /\ dlast \in Int
      /\ sb = FreeCounts(ibits, dbits)
  BY CountsAre DEF TypeOK, Inode, Block
<1>2. /\ Inodes(ni) \in Seq(Inode \ ibits) /\ Len(Inodes(ni)) = ni /\ IsInjective(Inodes(ni))
      /\ Data(nd) \in Seq(Block \ dbits) /\ Len(Data(nd)) = nd /\ IsInjective(Data(nd))
      /\ ibits' = ibits \cup Range(Inodes(ni)) /\ dbits' = dbits \cup Range(Data(nd))
      /\ ibits' \subseteq Inode /\ dbits' \subseteq Block
  <2>1. IsInjective(Inodes(ni))
    BY <1>1, InodesFound DEF Inodes
  <2>. QED BY <2>1, AllocatedFresh
<1>. DEFINE I == Range(Inodes(ni))
            D == Range(Data(nd))
<1>3. I \subseteq Inode \ ibits /\ D \subseteq Block \ dbits /\ Cardinality(I) = ni /\ Cardinality(D) = nd
  BY <1>2, RangeOfSeq, RangeSize
<1>4. /\ ibits' = ibits \cup I /\ dbits' = dbits \cup D
      /\ I \in SUBSET Inode /\ I \cap ibits = {} /\ D \in SUBSET Block /\ D \cap dbits = {}
  BY <1>2, <1>3
<1>. HIDE DEF I, D
<1>5. /\ Cardinality(ibits') = Cardinality(ibits) + ni /\ Cardinality(ibits) \in Nat
      /\ Cardinality(dbits') = Cardinality(dbits) + nd /\ Cardinality(dbits) \in Nat
  <2>1. Cardinality(ibits) \in Nat /\ Cardinality(dbits) \in Nat
    BY <1>1, RegionSize, BitsCounted
  <2>2. Cardinality(ibits \cup I) = Cardinality(ibits) + Cardinality(I)
    <3>1. IsFiniteSet(Inode) /\ ibits \in SUBSET Inode /\ I \in SUBSET Inode /\ I \cap ibits = {}
      BY <1>1, <1>4, RegionSize
    <3>. QED BY <3>1, BitsSet
  <2>3. Cardinality(dbits \cup D) = Cardinality(dbits) + Cardinality(D)
    <3>1. IsFiniteSet(Block) /\ dbits \in SUBSET Block /\ D \in SUBSET Block /\ D \cap dbits = {}
      BY <1>1, <1>4, RegionSize
    <3>. QED BY <3>1, BitsSet
  <2>. QED BY <1>3, <1>4, <2>1, <2>2, <2>3
<1>6. /\ sb' = [free_inodes |-> sb.free_inodes - ni, free_data |-> sb.free_data - nd]
      /\ saved' = sb'
  BY DEF Allocated
<1>7. sb' = FreeCounts(ibits', dbits')
  <2>1. NI \in Nat /\ ND \in Nat
    BY FormatAssumption
  <2>2. sb.free_inodes = NI - Cardinality(ibits) /\ sb.free_data = ND - Cardinality(dbits)
    BY <1>1 DEF FreeCounts
  <2>3. /\ sb.free_inodes - ni = NI - Cardinality(ibits')
        /\ sb.free_data - nd = ND - Cardinality(dbits')
    BY <1>5, <2>1, <2>2
  <2>. QED BY <1>6, <2>3 DEF FreeCounts
<1>. QED BY <1>2, <1>6, <1>7, CountsAreNext

(* Nothing wraps that is smaller than the modulus.                          *)
LEMMA NoWrap ==
  ASSUME NEW n \in Nat \ {0}, NEW a \in Nat, a < n
  PROVE  a % n = a
OBVIOUS

(* A deletion gives back to the counts what it clears of the bits.          *)
LEMMA DeleteCounted ==
  ASSUME IInv, CountersExact, NEW p \in Directories, NEW name \in Names,
         Find(p, name) # {}, Delete(p, First(Find(p, name)))
  PROVE  CountersExact'
<1>. DEFINE pos == First(Find(p, name))
            i == At(p, pos).ino
            bs == inode[i].blocks
<1>1. /\ inode \in [Inode -> INodes] /\ ibits \in SUBSET Inode /\ dbits \in SUBSET Block /\ TypeOK
      /\ Ownership(inode, dbits, ibits) /\ Counted(inode, content, ibits)
      /\ sb = FreeCounts(ibits, dbits) /\ saved = FreeCounts(ibits, dbits)
  BY Typed, OwnershipIs, CountsAre DEF IInv, NamesCounted, TypeOK
<1>2. i \in ibits /\ i \in Inode
  <2>1. IsRef(inode, content, ibits, p, pos[1], pos[2], i) /\ i \in Inode
    BY <1>1, FoundRef
  <2>2. Naming(inode, content, ibits, i) # {}
    BY <2>1, NamingIs
  <2>. QED BY <1>1, <2>1, <2>2 DEF Counted
<1>3. CASE ~LastLink(i)
  <2>1. dbits' = dbits /\ ibits' = ibits /\ sb' = sb /\ saved' = saved
    BY <1>3 DEF Delete
  <2>. QED BY <1>1, <2>1, CountsAreNext
<1>4. CASE LastLink(i)
  <2>1. /\ dbits' = dbits \ Range(bs) /\ ibits' = ibits \ {i}
        /\ sb' = [free_inodes |-> (sb.free_inodes + 1) % U32,
                  free_data   |-> (sb.free_data + Len(bs)) % U32]
        /\ saved' = sb'
    BY <1>4 DEF Delete, DMap!deallocate, IMap!deallocate, ToDealloc, Range
  <2>2. bs \in Seq(Block) /\ IsInjective(bs) /\ Range(bs) \in SUBSET dbits
    <3>1. bs \in Seq(Block) /\ inode[i].ptrs \in Seq(Block)
      BY <1>1, <1>2 DEF INodes
    <3>2. IsInjective(bs \o inode[i].ptrs) /\ Range(bs \o inode[i].ptrs) \subseteq dbits
      BY <1>1, <1>2 DEF Ownership, Blocks
    <3>3. Range(bs \o inode[i].ptrs) = Range(bs) \cup Range(inode[i].ptrs)
      BY <3>1, RangeConcatenation
    <3>. QED BY <3>1, <3>2, <3>3, ConcatInjective
  <2>. HIDE DEF bs, i, pos
  <2>3. Len(bs) \in Nat /\ Cardinality(Range(bs)) = Len(bs)
    BY <2>2, RangeSize
  <2>. DEFINE D == Range(bs)
  <2>4. /\ Cardinality(dbits \ D) = Cardinality(dbits) - Cardinality(D)
        /\ Cardinality(dbits) \in Nat /\ Cardinality(dbits) <= ND
    <3>. HIDE DEF D
    <3>1. D \in SUBSET dbits
      BY <2>2 DEF D
    <3>. QED BY <1>1, <3>1, RegionSize, BitsCounted, BitsCleared
  <2>5. D \in SUBSET dbits /\ Cardinality(D) = Len(bs) /\ Cardinality(D) <= Cardinality(dbits)
    <3>1. IsFiniteSet(dbits)
      BY <1>1, RegionSize, BitsCounted
    <3>. QED BY <2>2, <2>3, <3>1, FS_Subset
  <2>6. /\ Cardinality(ibits \ {i}) = Cardinality(ibits) - 1
        /\ Cardinality(ibits) \in Nat /\ Cardinality(ibits) <= NI
        /\ Cardinality(ibits \ {i}) \in Nat
    <3>1. IsFiniteSet(ibits) /\ Cardinality(ibits) \in Nat /\ Cardinality(ibits) <= NI
      BY <1>1, RegionSize, BitsCounted
    <3>2. Cardinality(ibits \ {i}) = Cardinality(ibits) - 1 /\ IsFiniteSet(ibits \ {i})
      BY <1>2, <3>1, FS_RemoveElement
    <3>. QED BY <3>1, <3>2, FS_CardinalityType
  <2>7. /\ sb.free_inodes + 1 = NI - Cardinality(ibits')
        /\ sb.free_data + Len(bs) = ND - Cardinality(dbits')
        /\ sb.free_inodes + 1 \in 0 .. NI /\ sb.free_data + Len(bs) \in 0 .. ND
    <3>1. sb.free_inodes = NI - Cardinality(ibits) /\ sb.free_data = ND - Cardinality(dbits)
      BY <1>1 DEF FreeCounts
    <3>2. /\ Cardinality(ibits') = Cardinality(ibits) - 1
          /\ Cardinality(dbits') = Cardinality(dbits) - Len(bs)
      BY <2>1, <2>4, <2>5, <2>6
    <3>3. NI \in Nat /\ ND \in Nat
      BY FormatAssumption
    <3>. QED BY <2>3, <2>4, <2>5, <2>6, <3>1, <3>2, <3>3
  <2>8. /\ (sb.free_inodes + 1) % U32 = sb.free_inodes + 1
        /\ (sb.free_data + Len(bs)) % U32 = sb.free_data + Len(bs)
    <3>1. U32 \in Nat \ {0} /\ NI < U32 /\ ND < U32 /\ NI \in Nat /\ ND \in Nat
      BY FormatAssumption
    <3>2. /\ sb.free_inodes + 1 \in Nat /\ sb.free_inodes + 1 < U32
          /\ sb.free_data + Len(bs) \in Nat /\ sb.free_data + Len(bs) < U32
      BY <2>7, <3>1
    <3>. QED BY <3>1, <3>2, NoWrap
  <2>9. sb' = FreeCounts(ibits', dbits') /\ saved' = sb'
    BY <2>1, <2>7, <2>8 DEF FreeCounts
  <2>. QED BY <1>1, <2>1, <2>9, CountsAreNext
<1>. QED BY <1>3, <1>4

(* On a device of no more data blocks than an inode can have, no write is   *)
(* refused for the size of the file.                                        *)
LEMMA NeverTooBig ==
  ASSUME IInv, ND <= MaxBlocks, NEW i \in ibits, NEW bits, dbits \subseteq bits,
         NEW data \in Seq(Block \ bits), IsInjective(data)
  PROVE  ~TooBig(i, Len(data))
<1>. DEFINE bs == inode[i].blocks
<1>1. /\ inode \in [Inode -> INodes] /\ ibits \in SUBSET Inode /\ dbits \in SUBSET Block
      /\ Ownership(inode, dbits, ibits)
  BY Typed, OwnershipIs DEF IInv
<1>2. bs \in Seq(Block) /\ IsInjective(bs) /\ Range(bs) \subseteq dbits
  <2>1. bs \in Seq(Block) /\ inode[i].ptrs \in Seq(Block)
    BY <1>1 DEF INodes
  <2>2. IsInjective(bs \o inode[i].ptrs) /\ Range(bs \o inode[i].ptrs) \subseteq dbits
    BY <1>1 DEF Ownership, Blocks
  <2>3. Range(bs \o inode[i].ptrs) = Range(bs) \cup Range(inode[i].ptrs)
    BY <2>1, RangeConcatenation
  <2>. QED BY <2>1, <2>2, <2>3, ConcatInjective
<1>. HIDE DEF bs
<1>. DEFINE B == Range(bs)
            D == Range(data)
<1>3. /\ Cardinality(B) = Len(bs) /\ Cardinality(D) = Len(data) /\ D \subseteq Block \ bits
      /\ Len(bs) \in Nat /\ Len(data) \in Nat
  BY <1>2, RangeSize, RangeOfSeq
<1>4. B \in SUBSET Block /\ D \in SUBSET Block /\ D \cap B = {}
  BY <1>1, <1>2, <1>3
<1>. HIDE DEF B, D
<1>5. Cardinality(B) + Cardinality(D) <= ND
  BY <1>4, RegionSize, BitsSet
<1>. QED BY <1>3, <1>5, FormatAssumption, PointerAssumption DEF TooBig, bs

(* A write takes from the counts the data blocks it gets and all the        *)
(* pointer blocks it has reserved, or nothing if it gets no data block.     *)
LEMMA WriteCounted ==
  ASSUME IInv, CountersExact, ND <= MaxBlocks, NEW h \in Handles, NEW n \in 1 .. MaxGrow, write(h, n)
  PROVE  CountersExact'
<1>. DEFINE i     == open[h]
            m     == MetadataToGrow(Len(inode[i].blocks), n)
            meta  == Data(m)
            bits1 == DMap!allocate(dbits, meta)
            last1 == DMap!last_alloc(dlast, meta)
            data  == DMap!find_free(bits1, last1, n)
<1>1. /\ inode \in [Inode -> INodes] /\ ibits \in SUBSET Inode /\ dbits \in SUBSET Block
      /\ n \in Nat /\ dlast \in Block /\ dlast \in Int
      /\ sb = FreeCounts(ibits, dbits) /\ saved = FreeCounts(ibits, dbits)
  BY Typed, FormatAssumption, Handled, CountsAre DEF IInv, TypeOK, Block
<1>2. i \in ibits
  BY Handled DEF write
<1>3. m \in Nat
  <2>1. Len(inode[i].blocks) \in Nat
    BY <1>1, <1>2 DEF INodes
  <2>. QED BY <1>1, <2>1, GrowMonotone, n <= n
<1>4. /\ Len(meta) = m
      /\ \/ data = <<>> /\ dbits' = DMap!deallocate(bits1, meta) /\ sb' = sb /\ saved' = saved
         \/ /\ dbits' = DMap!allocate(bits1, data)
            /\ \/ TooBig(i, Len(data))
               \/ /\ sb' = [sb EXCEPT !.free_data = Minus(@, WriteCost(data, m))]
                  /\ saved' = sb'
      /\ ibits' = ibits
  BY DEF write, blocks_necessary_to_grow_n
<1>5. /\ meta \in Seq(Block \ dbits) /\ IsInjective(meta)
      /\ bits1 = dbits \cup Range(meta) /\ last1 \in Int
  <2>1. meta \in Seq(Block \ dbits) /\ IsInjective(meta)
    BY <1>1, <1>3, DataFound DEF Data
  <2>2. meta \in Seq(Block)
    BY <2>1, RangeOfSeq
  <2>3. bits1 = dbits \cup Range(meta)
    BY DEF DMap!allocate, Range
  <2>4. last1 \in Block
    BY <1>1, <2>2, LastAlloc
  <2>. QED BY <2>1, <2>3, <2>4 DEF Block
<1>. HIDE DEF i, m, meta, bits1, last1
<1>6. data \in Seq(Block \ bits1) /\ IsInjective(data)
  BY <1>1, <1>5, DataFound
<1>. HIDE DEF data
<1>. DEFINE M == Range(meta)
            D == Range(data)
<1>7. /\ M \subseteq Block \ dbits /\ D \subseteq Block \ bits1
      /\ Cardinality(M) = m /\ Cardinality(D) = Len(data) /\ Len(data) \in Nat
  BY <1>4, <1>5, <1>6, RangeOfSeq, RangeSize
<1>8. CASE data = <<>> /\ dbits' = DMap!deallocate(bits1, meta) /\ sb' = sb /\ saved' = saved
  <2>1. dbits' = dbits
    BY <1>5, <1>7, <1>8 DEF DMap!deallocate, Range
  <2>. QED BY <1>1, <1>4, <1>8, <2>1, CountsAreNext
<1>9. CASE /\ dbits' = DMap!allocate(bits1, data)
           /\ sb' = [sb EXCEPT !.free_data = Minus(@, WriteCost(data, m))] /\ saved' = sb'
  <2>1. dbits' = (dbits \cup M) \cup D
    BY <1>5, <1>9 DEF DMap!allocate, Range
  <2>2. /\ M \in SUBSET Block /\ M \cap dbits = {} /\ dbits \cup M \in SUBSET Block
        /\ D \in SUBSET Block /\ D \cap (dbits \cup M) = {} /\ dbits' \subseteq Block
    BY <1>1, <1>5, <1>7, <2>1
  <2>. DEFINE b == Cardinality(dbits)
  <2>3. b \in Nat /\ Cardinality(dbits \cup M) = b + m
    <3>. HIDE DEF M
    <3>1. IsFiniteSet(Block) /\ dbits \in SUBSET Block /\ M \in SUBSET Block /\ M \cap dbits = {}
      BY <1>1, <2>2, RegionSize
    <3>2. b \in Nat
      BY <3>1, BitsCounted
    <3>3. Cardinality(dbits \cup M) = b + Cardinality(M)
      BY <3>1, BitsSet
    <3>. QED BY <1>7, <3>2, <3>3 DEF M
  <2>4. /\ Cardinality((dbits \cup M) \cup D) = Cardinality(dbits \cup M) + Len(data)
        /\ Cardinality(dbits \cup M) + Len(data) <= ND
    <3>. DEFINE S == dbits \cup M
    <3>. HIDE DEF S, D
    <3>1. S \in SUBSET Block /\ D \in SUBSET Block /\ D \cap S = {}
      BY <2>2 DEF S
    <3>2. Cardinality(S \cup D) = Cardinality(S) + Cardinality(D) /\ Cardinality(S) + Cardinality(D) <= ND
      BY <3>1, RegionSize, BitsSet
    <3>. QED BY <1>7, <3>2 DEF S
  <2>5. Cardinality(dbits') = b + m + Len(data) /\ b + m + Len(data) <= ND
    BY <1>3, <1>7, <2>1, <2>3, <2>4
  <2>. HIDE DEF b
  <2>6. Minus(sb.free_data, WriteCost(data, m)) = ND - Cardinality(dbits')
    <3>1. U32 \in Nat \ {0} /\ ND < U32 /\ ND \in Nat
      BY FormatAssumption
    <3>. DEFINE a == ND - b - (Len(data) + m)
    <3>2. a \in Nat /\ a < U32 /\ a = ND - Cardinality(dbits')
      BY <1>3, <1>7, <2>3, <2>5, <3>1
    <3>3. sb.free_data = ND - b
      BY <1>1 DEF FreeCounts, b
    <3>4. Minus(sb.free_data, WriteCost(data, m)) = a % U32
      BY <3>3 DEF Minus, WriteCost
    <3>. HIDE DEF a
    <3>. QED BY <3>1, <3>2, <3>4, NoWrap
  <2>7. sb' = FreeCounts(ibits', dbits')
    BY <1>1, <1>4, <1>9, <2>6 DEF FreeCounts
  <2>. QED BY <1>1, <1>4, <1>9, <2>2, <2>7, CountsAreNext
<1>10. ~TooBig(i, Len(data))
  <2>1. dbits \subseteq bits1
    BY <1>5
  <2>. QED BY <1>2, <1>6, <2>1, NeverTooBig
<1>. QED BY <1>4, <1>8, <1>9, <1>10

(* Every step keeps the counts exact.                                       *)
LEMMA NextCounted ==
  ASSUME Risky \cap {"delete_open", "file_parent"} = {}, ND <= MaxBlocks,
         IInv, CountersExact, AllSearched, [Next]_vars
  PROVE  CountersExact'
<1>1. Parents = Directories /\ TypeOK /\ 0 \in Nat /\ 1 \in Nat
  BY DEF Parents, IInv
<1>2. ASSUME NEW ni \in Nat, NEW nd \in Nat, Allocated(ni, nd) \/ InodesFull(nd) \/ DataFull(ni, nd)
      PROVE  CountersExact'
  BY <1>1, <1>2, NeverShort, AllocatedCounted
<1>3. \A p \in Directories : EntryBlocks(p) \in Nat
  BY <1>1, EntryBlocksNat
<1>4. ASSUME NEW p \in Directories, NEW name \in Names,
             \/ \E type \in Types : create(p, name, type)
             \/ mknod(p, name) \/ mkdir(p, name) \/ symlink(p, name)
             \/ \E h \in Handles : create_open(p, name, h)
      PROVE  CountersExact'
  <2>1. PICK type, H : Create(p, name, type, H)
    BY <1>4 DEF create, mknod, mkdir, symlink, create_open, create_child
  <2>. DEFINE nd == (IF type = "file" THEN 0 ELSE 1) + EntryBlocks(p)
  <2>2. nd \in Nat
    BY <1>3
  <2>3. Allocated(1, nd) \/ InodesFull(nd) \/ DataFull(1, nd)
    BY <2>1 DEF Create
  <2>. HIDE DEF nd
  <2>. QED BY <1>1, <1>2, <2>2, <2>3
<1>5. ASSUME NEW p \in Directories, NEW name \in Names, NEW i \in ibits,
             create_hardlink(i, p, name) \/ link(i, p, name)
      PROVE  CountersExact'
  <2>1. Allocated(0, EntryBlocks(p)) \/ DataFull(0, EntryBlocks(p))
    BY <1>5 DEF create_hardlink, link, Hardlink, HardlinkFails
  <2>. QED BY <1>1, <1>2, <1>3, <2>1
<1>6. ASSUME NEW p \in Directories, NEW name \in Names,
             delete(p, name) \/ unlink(p, name) \/ rmdir(p, name)
      PROVE  CountersExact'
  <2>1. Find(p, name) # {} /\ Delete(p, First(Find(p, name)))
    BY <1>6 DEF delete, unlink, rmdir, delete_child
  <2>. QED BY <2>1, DeleteCounted
<1>7. ASSUME NEW p \in Directories, NEW name \in Names, NEW q \in Directories,
             NEW newname \in Names, rename(p, name, q, newname)
      PROVE  CountersExact'
  <2>1. Allocated(0, EntryBlocks(q)) \/ DataFull(0, EntryBlocks(q))
    BY <1>7 DEF rename, HardlinkFails
  <2>. QED BY <1>1, <1>2, <1>3, <2>1
<1>8. ASSUME ibits' = ibits, dbits' = dbits, sb' \in {sb, saved}, saved' = saved
      PROVE  CountersExact'
  BY <1>1, <1>8, CountsAre, CountsAreNext DEF TypeOK
<1>9. ASSUME NEW h \in Handles,
             \/ \E i \in ibits : open_file(h, i)
             \/ close_file(h)
             \/ \E n \in 1 .. MaxGrow : write(h, n)
      PROVE  CountersExact'
  <2>1. CASE \E n \in 1 .. MaxGrow : write(h, n)
    BY <2>1, WriteCounted
  <2>2. CASE (\E i \in ibits : open_file(h, i)) \/ close_file(h)
    BY <1>8, <2>2 DEF open_file, close_file, alloc
  <2>. QED BY <1>9, <2>1, <2>2
<1>10. CASE mount \/ UNCHANGED vars
  BY <1>8, <1>10 DEF mount, vars
<1>11. CASE Next
  BY <1>1, <1>4, <1>5, <1>6, <1>7, <1>9, <1>10, <1>11 DEF Next
<1>. QED BY <1>10, <1>11

(* On a device of no more data blocks than an inode can have, the free      *)
(* counts in memory and on the device are the numbers of clear bits for as  *)
(* long as the search of the bitmaps leaves out no clear bit: that search   *)
(* is the only thing that can make them wrong.  In particular allocate()    *)
(* does not come to the branch that corrects them, write(), which subtracts *)
(* from them without looking, does not wrap them, and a write that gives    *)
(* its reserved pointer blocks back does not count them.                    *)
THEOREM CountersFollow ==
  ASSUME Risky \cap {"delete_open", "file_parent"} = {}, ND <= MaxBlocks
  PROVE  Spec /\ []AllSearched => []CountersExact
<1>1. Init => IInv /\ CountersExact
  <2>. SUFFICES ASSUME Init PROVE CountersExact
    BY InitInv
  <2>1. ibits = {0} /\ dbits = {0} /\ ibits \subseteq Inode /\ dbits \subseteq Block
    BY FormatAssumption DEF Init, Root, Inode, Block
  <2>2. Cardinality({0}) = 1
    BY FS_Singleton
  <2>3. sb = FreeCounts(ibits, dbits) /\ saved = sb
    BY <2>1, <2>2 DEF Init, FreeCounts
  <2>. QED BY <2>1, <2>3, CountsAre
<1>2. IInv /\ CountersExact /\ AllSearched /\ [Next]_vars => IInv' /\ CountersExact'
  BY NextInv, NextCounted
<1>. QED BY <1>1, <1>2, PTL DEF Spec
=============================================================================
