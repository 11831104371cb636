------------------------- MODULE FormatV1Namespace --------------------------
(***************************************************************************)
(* What the operations of FormatV1 do to the name space, for every          *)
(* geometry, set of names and number of handles: entries lead to allocated  *)
(* inodes of the type they say, every call is at most one step of the       *)
(* abstract name space, and what the integrity checker passes is sound.     *)
(*                                                                          *)
(* The proofs see a directory as the set of records it holds.  Changes has  *)
(* the five things a call can do to them; CallChanges shows of every action *)
(* that it does one of these.  The invariants and the refinement then       *)
(* follow without a look at blocks and bitmaps.                             *)
(***************************************************************************)
EXTENDS FormatV1Proofs, IntegrityChecker, WellFoundedInduction

-----------------------------------------------------------------------------
(* Records                                                                  *)

(* Position <<k, s>> of directory d holds the record e, in a table n with   *)
(* directory blocks c and inode bitmap ib.                                  *)
Holds(n, c, ib, d, k, s, e) ==
  /\ d \in ib /\ n[d].type = "directory"
  /\ k \in 1 .. Len(n[d].blocks) /\ s \in Slot
  /\ c[n[d].blocks[k]][s] = e /\ e.ino # NoInode

(* One record more, at a position that held none; and one less.             *)
OneRecordMore(n, c, n2, c2, ib, p, k, s, e) ==
  /\ \A x : ~Holds(n, c, ib, p, k, s, x)
  /\ \A d, l, t, x : Holds(n2, c2, ib, d, l, t, x) <=>
                       \/ Holds(n, c, ib, d, l, t, x)
                       \/ d = p /\ l = k /\ t = s /\ x = e

OneRecordLess(n, c, c2, ib, p, k, s) ==
  \A d, l, t, x : Holds(n, c2, ib, d, l, t, x) <=> /\ Holds(n, c, ib, d, l, t, x)
                                                   /\ ~(d = p /\ l = k /\ t = s)

(* A reference is a record with a name.                                     *)
LEMMA RefHeld ==
  ASSUME NEW n, NEW c, NEW ib, NEW d, NEW k, NEW s, NEW i
  PROVE  IsRef(n, c, ib, d, k, s, i) <=> \E e : /\ Holds(n, c, ib, d, k, s, e)
                                                /\ IsNamed(e) /\ e.ino = i
<1>1. ASSUME IsRef(n, c, ib, d, k, s, i)
      PROVE  \E e : Holds(n, c, ib, d, k, s, e) /\ IsNamed(e) /\ e.ino = i
  <2>. DEFINE e == c[n[d].blocks[k]][s]
  <2>1. Holds(n, c, ib, d, k, s, e) /\ IsNamed(e) /\ e.ino = i
    BY <1>1 DEF IsRef, Holds, IsNamed
  <2>. QED BY <2>1
<1>2. ASSUME NEW e, Holds(n, c, ib, d, k, s, e), IsNamed(e), e.ino = i
      PROVE  IsRef(n, c, ib, d, k, s, i)
  BY <1>2 DEF IsRef, Holds
<1>. QED BY <1>1, <1>2

(* Only the types and the content blocks of allocated directories matter.   *)
LEMMA HeldSame ==
  ASSUME NEW n, NEW c, NEW ib, NEW n2,
         \A d \in ib : /\ n2[d].type = n[d].type
                       /\ n[d].type = "directory" => n2[d].blocks = n[d].blocks
  PROVE  \A d, k, s, e : Holds(n2, c, ib, d, k, s, e) <=> Holds(n, c, ib, d, k, s, e)
BY DEF Holds

(* A record is written into a free slot.                                    *)
LEMMA RecordHere ==
  ASSUME NEW n \in [Inode -> INodes], NEW c \in Contents, NEW db, NEW ib \in SUBSET Inode,
         Ownership(n, db, ib), NEW p \in ib, n[p].type = "directory",
         NEW k \in 1 .. Len(n[p].blocks), NEW s \in Slot,
         c[n[p].blocks[k]][s].ino = NoInode,
         NEW e \in SlotContent, e.ino # NoInode,
         NEW c2, WroteSlot(c, c2, n[p].blocks[k], s, e)
  PROVE  OneRecordMore(n, c, n, c2, ib, p, k, s, e)
<1>. DEFINE b == n[p].blocks[k]
<1>1. b \in Block /\ \A d \in ib : \A l \in 1 .. Len(n[d].blocks) :
                          n[d].blocks[l] \in Block /\ (b = n[d].blocks[l] => d = p /\ l = k)
  BY BlocksApart
<1>2. c2[b][s] = e /\ \A x \in Block, t \in Slot : ~(x = b /\ t = s) => c2[x][t] = c[x][t]
  BY DEF WroteSlot
<1>3. \A x : ~Holds(n, c, ib, p, k, s, x)
  BY DEF Holds
<1>. HIDE DEF b
<1>4. ASSUME NEW d, NEW l, NEW t, NEW x
      PROVE  Holds(n, c2, ib, d, l, t, x) <=> \/ Holds(n, c, ib, d, l, t, x)
                                              \/ d = p /\ l = k /\ t = s /\ x = e
  <2>1. CASE d = p /\ l = k /\ t = s
    <3>1. Holds(n, c2, ib, d, l, t, x) <=> x = e
      BY <1>2, <2>1 DEF Holds, b
    <3>. QED BY <1>3, <2>1, <3>1
  <2>2. CASE ~(d = p /\ l = k /\ t = s)
    BY <1>1, <1>2, <2>2 DEF Holds
  <2>. QED BY <2>1, <2>2
<1>. QED BY <1>3, <1>4 DEF OneRecordMore

(* The directory grows by a block that holds the record only.               *)
LEMMA RecordGrow ==
  ASSUME NEW n \in [Inode -> INodes], NEW c \in Contents, NEW db, NEW ib \in SUBSET Inode,
         Ownership(n, db, ib), NEW p \in ib, n[p].type = "directory",
         NEW eb \in Block \ db, NEW n2,
         \A d \in ib : n2[d].type = n[d].type,
         \A d \in ib \ {p} : n2[d].blocks = n[d].blocks,
         n2[p].blocks = n[p].blocks \o <<eb>>,
         NEW e \in SlotContent, e.ino # NoInode,
         NEW c2, WroteBlock(c, c2, eb, [s \in Slot |-> IF s = 1 THEN e ELSE Free])
  PROVE  OneRecordMore(n, c, n2, c2, ib, p, Len(n[p].blocks) + 1, 1, e)
<1>. DEFINE k == Len(n[p].blocks) + 1
<1>1. n[p].blocks \in Seq(Block) /\ Len(n[p].blocks) \in Nat
  BY DEF INodes
<1>2. /\ Len(n2[p].blocks) = k /\ n2[p].blocks[k] = eb
      /\ \A l \in 1 .. Len(n[p].blocks) : n2[p].blocks[l] = n[p].blocks[l]
  BY <1>1
<1>3. ASSUME NEW d \in ib, NEW l \in 1 .. Len(n[d].blocks)
      PROVE  n[d].blocks[l] \in Block \ {eb}
  <2>1. n[d].blocks[l] \in db /\ n[d].blocks[l] \in Block
    BY BlocksApart
  <2>. QED BY <2>1
<1>4. /\ \A x \in Block \ {eb} : c2[x] = c[x]
      /\ c2[eb] = [s \in Slot |-> IF s = 1 THEN e ELSE Free]
  BY DEF WroteBlock
<1>5. 1 \in Slot /\ Free.ino = NoInode
  BY FormatAssumption DEF Slot, Free
<1>6. \A x : ~Holds(n, c, ib, p, k, 1, x)
  BY <1>1 DEF Holds
<1>7. \A l \in 1 .. k : l = k \/ l \in 1 .. Len(n[p].blocks)
  BY <1>1
<1>8. \A l \in 1 .. Len(n[p].blocks) : l \in 1 .. k /\ l # k
  BY <1>1
<1>81. k \in 1 .. k
  BY <1>1
<1>. HIDE DEF k
<1>9. ASSUME NEW d, NEW l, NEW t, NEW x
      PROVE  Holds(n2, c2, ib, d, l, t, x) <=> \/ Holds(n, c, ib, d, l, t, x)
                                               \/ d = p /\ l = k /\ t = 1 /\ x = e
  <2>1. CASE d # p
    BY <1>3, <1>4, <2>1 DEF Holds
  <2>2. CASE d = p /\ l = k
    <3>1. ~Holds(n, c, ib, d, l, t, x)
      BY <1>8, <2>2 DEF Holds
    <3>2. Holds(n2, c2, ib, d, l, t, x) <=> t = 1 /\ x = e
      <4>1. CASE t = 1
        BY <1>2, <1>4, <1>5, <1>81, <2>2, <4>1 DEF Holds
      <4>2. CASE t # 1
        BY <1>2, <1>4, <1>5, <2>2, <4>2 DEF Holds
      <4>. QED BY <4>1, <4>2
    <3>. QED BY <2>2, <3>1, <3>2
  <2>3. CASE d = p /\ l # k
    <3>1. l \in 1 .. Len(n2[p].blocks) <=> l \in 1 .. Len(n[p].blocks)
      BY <1>2, <1>7, <1>8, <2>3
    <3>2. l \in 1 .. Len(n[p].blocks) => n2[p].blocks[l] = n[p].blocks[l]
      BY <1>2
    <3>. QED BY <1>3, <1>4, <2>3, <3>1, <3>2 DEF Holds
  <2>. QED BY <2>1, <2>2, <2>3
<1>. QED BY <1>6, <1>9 DEF OneRecordMore, k

(* The slot of a record is freed.                                           *)
LEMMA RecordFreed ==
  ASSUME NEW n \in [Inode -> INodes], NEW c \in Contents, NEW db, NEW ib \in SUBSET Inode,
         Ownership(n, db, ib), NEW p \in ib, n[p].type = "directory",
         NEW k \in 1 .. Len(n[p].blocks), NEW s \in Slot
  PROVE  OneRecordLess(n, c, Cleared(c, n[p].blocks[k], s), ib, p, k, s)
<1>. DEFINE b == n[p].blocks[k]
            c2 == Cleared(c, b, s)
<1>1. b \in Block /\ \A d \in ib : \A l \in 1 .. Len(n[d].blocks) :
                          n[d].blocks[l] \in Block /\ (b = n[d].blocks[l] => d = p /\ l = k)
  BY BlocksApart
<1>2. Free \in SlotContent /\ Free.ino = NoInode
  BY DEF Free, SlotContent, Types
<1>3. WroteSlot(c, c2, b, s, Free)
  <2>. HIDE DEF b
  <2>. QED BY <1>1, <1>2, Writes DEF Cleared
<1>4. c2[b][s] = Free /\ \A x \in Block, t \in Slot : ~(x = b /\ t = s) => c2[x][t] = c[x][t]
  BY <1>3 DEF WroteSlot
<1>. HIDE DEF c2
<1>5. ASSUME NEW d, NEW l, NEW t, NEW x
      PROVE  Holds(n, c2, ib, d, l, t, x) <=> /\ Holds(n, c, ib, d, l, t, x)
                                              /\ ~(d = p /\ l = k /\ t = s)
  <2>1. CASE d = p /\ l = k /\ t = s
    BY <1>2, <1>4, <2>1 DEF Holds
  <2>. HIDE DEF b
  <2>2. CASE ~(d = p /\ l = k /\ t = s)
    BY <1>1, <1>4, <2>2 DEF Holds
  <2>. QED BY <2>1, <2>2
<1>. QED BY <1>5 DEF OneRecordLess, c2

(* Adding a record to a directory, in a free slot or in a new block.        *)
LEMMA RecordAdded ==
  ASSUME TypeOK, BlockOwnership, NEW p \in Directories, NEW e \in SlotContent, IsNamed(e),
         NEW extra, FreshFor(p, extra)
  PROVE  \E k, s : OneRecordMore(inode, content, WithParent(p, extra),
                                 Added(p, e, EntryBlock(extra)), ibits, p, k, s, e)
<1>. DEFINE n1 == WithParent(p, extra)
            c1 == Added(p, e, EntryBlock(extra))
<1>1. /\ inode \in [Inode -> INodes] /\ content \in Contents /\ ibits \in SUBSET Inode
      /\ Ownership(inode, dbits, ibits)
      /\ p \in ibits /\ p \in Inode /\ inode[p].type = "directory"
  BY Typed, OwnershipIs DEF Directories
<1>2. inode[p].blocks \in Seq(Block) /\ Len(inode[p].blocks) \in Nat /\ inode[p] \in INodes
  BY <1>1 DEF INodes
<1>3. e.ino # NoInode
  BY DEF IsNamed
<1>4. n1 = [inode EXCEPT ![p] = Parent(p, extra)]
  BY DEF WithParent
<1>. HIDE DEF n1
<1>5. CASE Fit(p) # {}
  <2>1. n1 = inode
    BY <1>1, <1>4, <1>5 DEF Parent
  <2>. DEFINE pos == First(Fit(p))
              k == pos[1]
              s == pos[2]
              b == inode[p].blocks[k]
  <2>2. pos \in Fit(p)
    <3>1. Fit(p) \in SUBSET ((1 .. Len(inode[p].blocks)) \X Slot)
      BY DEF Fit, Position
    <3>. QED BY <1>2, <1>5, <3>1, FirstIn
  <2>3. c1 = [content EXCEPT ![b][s] = e]
    BY <1>5 DEF Added
  <2>. HIDE DEF pos
  <2>4. k \in 1 .. Len(inode[p].blocks) /\ s \in Slot /\ content[b][s].ino = NoInode
    BY <2>2 DEF Fit, Position, At
  <2>. HIDE DEF c1, k, s
  <2>5. b \in Block
    BY <1>2, <2>4
  <2>6. WroteSlot(content, c1, b, s, e)
    <3>. HIDE DEF b
    <3>. QED BY <1>1, <2>3, <2>4, <2>5, Writes
  <2>7. OneRecordMore(inode, content, inode, c1, ibits, p, k, s, e)
    BY <1>1, <1>3, <2>4, <2>6, RecordHere
  <2>. QED BY <2>1, <2>7 DEF c1, n1
<1>6. CASE Fit(p) = {}
  <2>. DEFINE eb == extra[1]
              new == [s \in Slot |-> IF s = 1 THEN e ELSE Free]
  <2>1. extra \in Seq(Block \ dbits) /\ extra # <<>> /\ eb \in Block \ dbits
    <3>1. MetadataToGrow(Len(inode[p].blocks), 1) \in Nat
      BY <1>2, GrowMonotone, 1 \in Nat, 1 <= 1
    <3>2. extra \in Seq(Block \ dbits) /\ Len(extra) >= 1
      BY <1>6, <3>1 DEF FreshFor, EntryBlocks, blocks_necessary_to_grow_n
    <3>. QED BY <3>2
  <2>2. c1 = [content EXCEPT ![eb] = new]
    BY <1>6, <2>1 DEF Added, EntryBlock
  <2>3. new \in [Slot -> SlotContent]
    BY DEF Free, SlotContent, Types
  <2>. HIDE DEF c1
  <2>4. WroteBlock(content, c1, eb, new)
    <3>. HIDE DEF eb, new
    <3>. QED BY <1>1, <2>1, <2>2, <2>3, Writes
  <2>5. /\ Parent(p, extra).blocks = inode[p].blocks \o <<eb>>
        /\ Parent(p, extra).type = inode[p].type
    BY <1>2, <1>6 DEF Parent, Grown, INodes
  <2>6. n1[p] = Parent(p, extra) /\ \A d \in ibits \ {p} : n1[d] = inode[d]
    BY <1>1, <1>4
  <2>7. /\ \A d \in ibits : n1[d].type = inode[d].type
        /\ \A d \in ibits \ {p} : n1[d].blocks = inode[d].blocks
        /\ n1[p].blocks = inode[p].blocks \o <<eb>>
    BY <1>1, <2>5, <2>6
  <2>8. OneRecordMore(inode, content, n1, c1, ibits, p, Len(inode[p].blocks) + 1, 1, e)
    <3>. HIDE DEF eb
    <3>. QED BY <1>1, <1>3, <2>1, <2>4, <2>7, RecordGrow
  <2>. QED BY <2>8 DEF c1, n1
<1>. QED BY <1>5, <1>6

(* The entries of Directory::new, in the block of directory i below p.      *)
IsDot(i, p, d, l, t, x) ==
  /\ d = i /\ l = 1
  /\ \/ t = 1 /\ x = Entry(".", i, "directory")
     \/ t = 2 /\ x = Entry("..", p, "directory")

(* A new inode holds nothing but the entries of Directory::new, if it is a  *)
(* directory.                                                               *)
LEMMA NodeHolds ==
  ASSUME NEW n, NEW c, NEW db, NEW ib \in SUBSET Inode, Sound(n, c, db, ib),
         NEW i \in Inode \ ib, NEW p \in Inode, NEW type \in Types,
         NEW mine, NEW b, OwnBlocks(type, mine, b, db)
  PROVE  \A d, l, t, x :
           Holds(WithInode(n, i, type, mine), Filled(type, c, b, i, p), ib \cup {i}, d, l, t, x) <=>
             \/ Holds(n, c, ib, d, l, t, x)
             \/ type = "directory" /\ IsDot(i, p, d, l, t, x)
<1>. DEFINE n2 == WithInode(n, i, type, mine)
            c2 == Filled(type, c, b, i, p)
<1>1. n \in [Inode -> INodes] /\ c \in Contents /\ Ownership(n, db, ib)
  BY DEF Sound
<1>2. mine \in Seq(Block) /\ (type # "file" => mine = <<b>> /\ b \in Block /\ b \notin db)
  BY DEF OwnBlocks
<1>3. /\ n2[i].type = type /\ n2[i].blocks = mine
      /\ \A d \in ib : n2[d] = n[d]
  BY <1>1 DEF WithInode, NewInode
<1>. HIDE DEF n2
<1>4. CASE type # "directory"
  <2>1. c2 = c
    BY <1>4 DEF Filled
  <2>. HIDE DEF c2
  <2>2. \A d, l, t, x : Holds(n2, c, ib \cup {i}, d, l, t, x) <=> Holds(n, c, ib, d, l, t, x)
    BY <1>3, <1>4 DEF Holds
  <2>. QED BY <1>4, <2>1, <2>2 DEF n2, c2
<1>5. CASE type = "directory"
  <2>1. c2 = [c EXCEPT ![b] = NewDirectory(i, p)]
    BY <1>5 DEF Filled
  <2>2. mine = <<b>> /\ b \in Block /\ b \notin db
    BY <1>2, <1>5
  <2>3. c2[b] = NewDirectory(i, p) /\ \A x \in Block \ {b} : c2[x] = c[x]
    BY <1>1, <2>1, <2>2 DEF Contents
  <2>. HIDE DEF c2
  <2>4. Len(n2[i].blocks) = 1 /\ n2[i].blocks[1] = b
    BY <1>3, <2>2
  <2>5. ASSUME NEW d \in ib, NEW l \in 1 .. Len(n[d].blocks)
        PROVE  n[d].blocks[l] \in Block \ {b}
    <3>1. n[d].blocks[l] \in db /\ n[d].blocks[l] \in Block
      BY <1>1, BlocksApart
    <3>. QED BY <2>2, <3>1
  <2>6. /\ 1 \in Slot /\ 2 \in Slot
        /\ Entry(".", i, "directory").ino # NoInode /\ Entry("..", p, "directory").ino # NoInode
        /\ Free.ino = NoInode
    BY FormatAssumption DEF Slot, Entry, Free, Inode, NoInode
  <2>7. \A t \in Slot : c2[b][t] = IF t = 1 THEN Entry(".", i, "directory")
                                   ELSE IF t = 2 THEN Entry("..", p, "directory") ELSE Free
    BY <2>3 DEF NewDirectory
  <2>8. ASSUME NEW d, NEW l, NEW t, NEW x
        PROVE  Holds(n2, c2, ib \cup {i}, d, l, t, x) <=>
                 Holds(n, c, ib, d, l, t, x) \/ IsDot(i, p, d, l, t, x)
    <3>1. CASE d = i
      <4>1. ~Holds(n, c, ib, d, l, t, x)
        BY <3>1 DEF Holds
      <4>2. Holds(n2, c2, ib \cup {i}, i, l, t, x) <=>
              l = 1 /\ t \in Slot /\ c2[b][t] = x /\ x.ino # NoInode
        <5>1. l \in 1 .. 1 <=> l = 1
          OBVIOUS
        <5>. QED BY <1>3, <1>5, <2>4, <5>1 DEF Holds
      <4>3. (t \in Slot /\ c2[b][t] = x /\ x.ino # NoInode) <=>
              \/ t = 1 /\ x = Entry(".", i, "directory")
              \/ t = 2 /\ x = Entry("..", p, "directory")
        <5>. HIDE DEF Entry, Free
        <5>1. CASE t = 1
          BY <2>6, <2>7, <5>1
        <5>2. CASE t = 2
          BY <2>6, <2>7, <5>2
        <5>3. CASE t # 1 /\ t # 2
          BY <2>6, <2>7, <5>3
        <5>. QED BY <5>1, <5>2, <5>3
      <4>. QED BY <3>1, <4>1, <4>2, <4>3 DEF IsDot
    <3>2. CASE d # i
      BY <1>3, <2>3, <2>5, <3>2 DEF Holds, IsDot
    <3>. QED BY <3>1, <3>2
  <2>. QED BY <1>5, <2>8 DEF n2, c2
<1>. QED BY <1>4, <1>5

(* The records of an inode that is released are gone.                       *)
LEMMA ReleasedHolds ==
  ASSUME NEW n, NEW c, NEW ib, NEW i
  PROVE  \A d, l, t, x : Holds(n, c, ib \ {i}, d, l, t, x) <=>
                           Holds(n, c, ib, d, l, t, x) /\ d # i
BY DEF Holds

-----------------------------------------------------------------------------
(* Changes                                                                  *)

Now(d, k, s, e)  == Holds(inode, content, ibits, d, k, s, e)
Then(d, k, s, e) == Holds(inode', content', ibits', d, k, s, e)

(* No record of directory p has the name.                                   *)
Vacant(p, name) == \A k, s, e : Now(p, k, s, e) => e.name # name

TypesKept == \A d \in ibits \cap ibits' : inode'[d].type = inode[d].type

(* The records are those of the state before and one more.                  *)
Adds(p, e) ==
  \E k, s : /\ \A x : ~Now(p, k, s, x)
            /\ \A d, l, t, x : Then(d, l, t, x) <=> \/ Now(d, l, t, x)
                                                    \/ d = p /\ l = k /\ t = s /\ x = e

(* A record goes from position <<k, s>> of directory p to directory q.      *)
Shifts(p, k, s, q, new) ==
  \E g, u : /\ \A x : ~Now(q, g, u, x)
            /\ \A d, l, t, x : Then(d, l, t, x) <=>
                 \/ Now(d, l, t, x) /\ ~(d = p /\ l = k /\ t = s)
                 \/ d = q /\ l = g /\ t = u /\ x = new

(* What a call can do: nothing that names can tell,                         *)
Quiet == /\ ibits' = ibits /\ TypesKept
         /\ \A d, l, t, x : Then(d, l, t, x) <=> Now(d, l, t, x)

(* create a node under a name,                                              *)
Creates(p, name, i, type) ==
  /\ p \in Directories /\ (Vacant(p, name) \/ "reuse_name" \in Risky)
  /\ i \in Inode \ ibits /\ ibits' = ibits \cup {i} /\ inode'[i].type = type /\ TypesKept
  /\ \E k, s :
       /\ \A x : ~Now(p, k, s, x)
       /\ \A d, l, t, x : Then(d, l, t, x) <=>
            \/ Now(d, l, t, x)
            \/ d = p /\ l = k /\ t = s /\ x = Entry(name, i, type)
            \/ type = "directory" /\ IsDot(i, p, d, l, t, x)

(* give a file a further name,                                              *)
Links(i, p, name) ==
  /\ p \in Directories /\ (Vacant(p, name) \/ "reuse_name" \in Risky)
  /\ i \in ibits /\ inode[i].type = "file"
  /\ ibits' = ibits /\ TypesKept
  /\ Adds(p, Entry(name, i, "file"))

(* remove a name, and the node if its counter says that it was the last,    *)
Removes(p, k, s, e) ==
  /\ Now(p, k, s, e) /\ IsNamed(e)
  /\ inode[e.ino].type = "directory" => \A l, t, x : Now(e.ino, l, t, x) => ~IsNamed(x)
  /\ ibits' = IF LastLink(e.ino) THEN ibits \ {e.ino} ELSE ibits
  /\ TypesKept
  /\ \A d, l, t, x : Then(d, l, t, x) <=> /\ Now(d, l, t, x) /\ d \in ibits'
                                          /\ ~(d = p /\ l = k /\ t = s)

(* or move what is not a directory to another name.                         *)
Moves(p, k, s, e, q, name) ==
  /\ Now(p, k, s, e) /\ IsNamed(e)
  /\ \/ inode[e.ino].type = "file"
     \/ inode[e.ino].type = "symlink" /\ "rename_symlink" \in Risky
  /\ q \in Directories /\ Vacant(q, name)
  /\ ibits' = ibits /\ TypesKept
  /\ Shifts(p, k, s, q, Entry(name, e.ino, "file"))

Changes ==
  \/ Quiet
  \/ \E p, i : \E name \in Names, type \in Types : Creates(p, name, i, type)
  \/ \E p, i : \E name \in Names : Links(i, p, name)
  \/ \E p, k, s, e : Removes(p, k, s, e)
  \/ \E p, k, s, e, q : \E name \in Names : Moves(p, k, s, e, q, name)

(* A name that is free for a create or a link.                              *)
LEMMA NameFree ==
  ASSUME NEW p \in Directories, NEW name, Find(p, name) = {}
  PROVE  Vacant(p, name)
<1>. SUFFICES ASSUME NEW k, NEW s, NEW e, Now(p, k, s, e), e.name = name PROVE FALSE
  BY DEF Vacant
<1>1. <<k, s>> \in Position(p) /\ At(p, <<k, s>>) = e /\ e.ino # NoInode
  BY DEF Now, Holds, Position, At
<1>. QED BY <1>1 DEF Find

(* A step that leaves the table, the directory blocks and the bitmap alone. *)
LEMMA QuietSame ==
  ASSUME ibits' = ibits, inode' = inode, content' = content
  PROVE  Quiet
BY DEF Quiet, TypesKept, Now, Then

(* create, create_child and the handlers that call it.                      *)
LEMMA CreateChanges ==
  ASSUME IInv, NEW p \in Directories, NEW name \in Names, NEW type \in Types,
         NEW H \in SUBSET Handles, Create(p, name, type, H)
  PROVE  Quiet \/ EntryRefused(p, type) \/ \E i : Creates(p, name, i, type)
<1>. DEFINE own    == IF type = "file" THEN 0 ELSE 1
            m      == EntryBlocks(p)
            nd     == own + m
            blocks == Data(nd)
            i      == Inodes(1)[1]
            mine   == SubSeq(blocks, 1, own)
            extra  == SubSeq(blocks, own + 1, own + m)
            e      == Entry(name, i, type)
            b      == blocks[1]
            n1     == WithParent(p, extra)
            c1     == Added(p, e, EntryBlock(extra))
<1>1. /\ TypeOK /\ BlockOwnership /\ inode \in [Inode -> INodes] /\ content \in Contents
      /\ ibits \in SUBSET Inode /\ dbits \in SUBSET Block
      /\ p \in ibits /\ p \in Inode
  BY Typed DEF IInv, Directories
<1>2. own \in {0, 1} /\ m \in Nat /\ nd \in Nat
  BY <1>1, EntryBlocksNat
<1>3. \/ InodesFull(nd) \/ DataFull(1, nd) \/ EntryRefused(p, type)
      \/ /\ Allocated(1, nd)
         /\ inode' = [inode EXCEPT ![i] = NewInode(type, mine), ![p] = Parent(p, extra)]
         /\ content' = Filled(type, c1, b, i, p)
  BY Zenon DEF Create, Filled, EntryRefused
<1>4. Vacant(p, name) \/ "reuse_name" \in Risky
  BY NameFree DEF Create, Available
<1>5. CASE InodesFull(nd) \/ DataFull(1, nd)
  BY <1>5, QuietSame DEF InodesFull, DataFull
<1>6. CASE /\ Allocated(1, nd)
           /\ inode' = [inode EXCEPT ![i] = NewInode(type, mine), ![p] = Parent(p, extra)]
           /\ content' = Filled(type, c1, b, i, p)
  <2>1. /\ Inodes(1) \in Seq(Inode \ ibits) /\ Len(Inodes(1)) = 1
        /\ blocks \in Seq(Block \ dbits) /\ Len(blocks) = nd /\ IsInjective(blocks)
        /\ ibits' = ibits \cup Range(Inodes(1))
    <3>. HIDE DEF nd
    <3>. QED BY <1>1, <1>2, <1>6, AllocatedFresh, 1 \in Nat
  <2>2. i \in Inode \ ibits /\ ibits' = ibits \cup {i} /\ i # p
    BY <1>1, <2>1 DEF Range
  <2>. DEFINE S == Block \ dbits
  <2>. HIDE DEF own, m, blocks, i, S
  <2>3. blocks \in Seq(S) /\ IsInjective(blocks) /\ Len(blocks) = own + m
    BY <2>1 DEF S
  <2>4. /\ mine \in Seq(S) /\ IsInjective(mine)
        /\ own = 1 => mine = <<b>> /\ Range(mine) = {b} /\ b \in S
        /\ extra \in Seq(S) /\ IsInjective(extra)
        /\ Len(extra) = m
        /\ Range(mine) \cap Range(extra) = {}
    BY <1>2, <2>3, BlocksSplit
  <2>. HIDE DEF mine, extra, b
  <2>. DEFINE db1 == dbits \cup Range(extra)
  <2>5. FreshFor(p, extra) /\ OwnBlocks(type, mine, b, db1)
    <3>1. mine \in Seq(Block) /\ Range(mine) \subseteq S
      BY <2>4, RangeOfSeq DEF S
    <3>2. type # "file" => mine = <<b>> /\ b \in Block /\ b \notin dbits /\ b \notin Range(extra)
      BY <2>4 DEF own, S
    <3>3. FreshFor(p, extra)
      BY <2>4 DEF S, m, FreshFor
    <3>4. Range(mine) \cap db1 = {}
      BY <2>4, <3>1 DEF S
    <3>. QED BY <2>4, <3>1, <3>2, <3>3, <3>4 DEF OwnBlocks
  <2>6. e \in SlotContent /\ IsNamed(e)
    BY <2>2, EntryNamed
  <2>. HIDE DEF e
  <2>7. Sound(n1, c1, db1, ibits) /\ \A d \in Inode : n1[d].type = inode[d].type
    <3>1. EntryIn(p, e.ino, extra, n1, c1)
      BY <1>1, <2>5, <2>6, EntryAdded
    <3>. HIDE DEF n1, c1
    <3>. QED BY <1>1, <3>1 DEF Sound, EntryIn
  <2>8. PICK k, s : OneRecordMore(inode, content, n1, c1, ibits, p, k, s, e)
    BY <1>1, <2>5, <2>6, RecordAdded
  <2>9. inode' = WithInode(n1, i, type, mine)
    BY <1>1, <1>6, <2>2 DEF WithParent, WithInode
  <2>. HIDE DEF n1, c1, db1
  <2>10. \A d, l, t, x : Then(d, l, t, x) <=>
            \/ Holds(n1, c1, ibits, d, l, t, x)
            \/ type = "directory" /\ IsDot(i, p, d, l, t, x)
    <3>1. i \in Inode \ ibits /\ p \in Inode /\ ibits \in SUBSET Inode
      BY <1>1, <2>2
    <3>2. \A d, l, t, x :
            Holds(WithInode(n1, i, type, mine), Filled(type, c1, b, i, p), ibits \cup {i},
                  d, l, t, x) <=>
              \/ Holds(n1, c1, ibits, d, l, t, x)
              \/ type = "directory" /\ IsDot(i, p, d, l, t, x)
      BY ONLY <2>5, <2>7, <3>1, type \in Types, NodeHolds
    <3>. QED BY ONLY <1>6, <2>2, <2>9, <3>2 DEF Then
  <2>11. inode'[i].type = type /\ TypesKept
    <3>1. n1 \in [Inode -> INodes]
      BY <2>7 DEF Sound
    <3>2. inode'[i] = NewInode(type, mine) /\ \A d \in ibits : inode'[d] = n1[d]
      BY <1>1, <2>2, <2>9, <3>1 DEF WithInode
    <3>. QED BY <1>1, <2>2, <2>7, <3>2 DEF TypesKept, NewInode
  <2>12. /\ \A x : ~Now(p, k, s, x)
         /\ \A d, l, t, x : Then(d, l, t, x) <=>
              \/ Now(d, l, t, x)
              \/ d = p /\ l = k /\ t = s /\ x = Entry(name, i, type)
              \/ type = "directory" /\ IsDot(i, p, d, l, t, x)
    <3>1. /\ \A x : ~Now(p, k, s, x)
          /\ \A d, l, t, x : Holds(n1, c1, ibits, d, l, t, x) <=>
               Now(d, l, t, x) \/ (d = p /\ l = k /\ t = s /\ x = e)
      BY <2>8 DEF OneRecordMore, Now
    <3>. QED BY <2>10, <3>1, Zenon DEF e
  <2>13. Creates(p, name, i, type)
    BY <1>4, <2>2, <2>11, <2>12 DEF Creates
  <2>. QED BY <2>13
<1>. QED BY <1>3, <1>5, <1>6

(* A hard link that succeeds adds a record, whatever the inode is.          *)
LEMMA LinkAdds ==
  ASSUME IInv, NEW p \in Directories, NEW i \in ibits, i # p, NEW name \in Names,
         LinkTo(i, p, name)
  PROVE  ibits' = ibits /\ TypesKept /\ Adds(p, Entry(name, i, "file"))
<1>. DEFINE extra == Data(EntryBlocks(p))
            e == Entry(name, i, "file")
            n1 == WithParent(p, extra)
            n2 == WithLink(i, p, extra)
            c2 == Added(p, e, EntryBlock(extra))
<1>1. /\ TypeOK /\ BlockOwnership /\ ibits \in SUBSET Inode /\ p \in Inode
      /\ inode \in [Inode -> INodes]
  BY Typed DEF IInv, Directories
<1>2. Allocated(0, EntryBlocks(p)) /\ inode' = n2 /\ content' = c2
  BY DEF LinkTo, WithLink
<1>3. FreshFor(p, extra) /\ ibits' = ibits
  BY <1>1, <1>2, EntryAllocated
<1>4. e \in SlotContent /\ IsNamed(e)
  BY <1>1, EntryNamed DEF Types
<1>. HIDE DEF extra, e
<1>5. n1 \in [Inode -> INodes] /\ \A d \in Inode : n1[d].type = inode[d].type
  <2>1. EntryIn(p, e.ino, extra, n1, c2)
    BY <1>1, <1>3, <1>4, EntryAdded
  <2>. HIDE DEF n1, c2
  <2>. QED BY <2>1 DEF EntryIn
<1>6. PICK k, s : OneRecordMore(inode, content, n1, c2, ibits, p, k, s, e)
  BY <1>1, <1>3, <1>4, RecordAdded
<1>7. \A d \in Inode : n2[d].type = n1[d].type /\ n2[d].blocks = n1[d].blocks
  <2>1. n1[i] = inode[i] /\ \A d \in Inode \ {i} : n2[d] = n1[d]
    BY <1>1 DEF WithParent, WithLink
  <2>2. n2[i] = [inode[i] EXCEPT !.links = @ + 1] /\ inode[i] \in INodes
    BY <1>1 DEF WithLink
  <2>3. n2[i].type = inode[i].type /\ n2[i].blocks = inode[i].blocks
    BY <2>2 DEF INodes
  <2>. QED BY <1>1, <2>1, <2>3
<1>. HIDE DEF n1, n2, c2
<1>8. \A d, l, t, x : Then(d, l, t, x) <=> Holds(n1, c2, ibits, d, l, t, x)
  <2>1. \A d \in ibits : /\ n2[d].type = n1[d].type
                         /\ n1[d].type = "directory" => n2[d].blocks = n1[d].blocks
    BY <1>1, <1>7
  <2>2. \A d, l, t, x : Holds(n2, c2, ibits, d, l, t, x) <=> Holds(n1, c2, ibits, d, l, t, x)
    BY ONLY <2>1, HeldSame
  <2>. QED BY <1>2, <1>3, <2>2 DEF Then
<1>9. Adds(p, e)
  BY <1>6, <1>8 DEF Adds, OneRecordMore, Now
<1>10. TypesKept
  BY <1>1, <1>2, <1>3, <1>5, <1>7 DEF TypesKept
<1>. QED BY <1>3, <1>9, <1>10 DEF e

(* A hard link that fails changes no record.                                *)
LEMMA LinkFails ==
  ASSUME IInv, NEW p \in Directories, HardlinkFails(p)
  PROVE  Quiet
<1>1. inode' = inode /\ content' = content
  BY DEF HardlinkFails, DataFull
<1>2. ibits' = ibits
  BY EntryAllocated DEF HardlinkFails, DataFull, IInv
<1>. QED BY <1>1, <1>2, QuietSame

(* create_hardlink and create_child_hardlink.                               *)
LEMMA LinkChanges ==
  ASSUME IInv, NEW p \in Directories, NEW i \in ibits, inode[i].type = "file", NEW name \in Names,
         Hardlink(i, p, name)
  PROVE  Quiet \/ Links(i, p, name)
<1>1. Vacant(p, name) \/ "reuse_name" \in Risky
  BY NameFree DEF Hardlink, Available
<1>2. i # p
  BY DEF Directories
<1>3. HardlinkFails(p) \/ LinkTo(i, p, name)
  BY Zenon DEF Hardlink, LinkTo
<1>. QED BY <1>1, <1>2, <1>3, LinkAdds, LinkFails DEF Links

(* A record found under a name.                                             *)
LEMMA FoundHeld ==
  ASSUME TypeOK, NEW p \in Directories, NEW name \in Names, Find(p, name) # {},
         NEW pos, pos = First(Find(p, name))
  PROVE  Now(p, pos[1], pos[2], At(p, pos)) /\ IsNamed(At(p, pos)) /\ At(p, pos).name = name
<1>1. IsRef(inode, content, ibits, p, pos[1], pos[2], At(p, pos).ino)
  BY FoundRef
<1>2. Now(p, pos[1], pos[2], At(p, pos)) /\ IsNamed(At(p, pos))
  BY <1>1 DEF IsRef, Now, Holds, IsNamed, At
<1>3. pos \in Find(p, name)
  <2>1. Len(inode[p].blocks) \in Nat
    BY DEF TypeOK, Directories
  <2>2. Find(p, name) \in SUBSET ((1 .. Len(inode[p].blocks)) \X Slot)
    BY DEF Find, Position
  <2>. QED BY <2>1, <2>2, FirstIn
<1>. QED BY <1>2, <1>3 DEF Find

(* What is named is allocated, and is not the root.                         *)
LEMMA NamedIn ==
  ASSUME NEW n \in [Inode -> INodes], NEW c \in Contents, NEW ib \in SUBSET Inode, Counted(n, c, ib),
         NEW d, NEW k, NEW s, NEW e, Holds(n, c, ib, d, k, s, e)
  PROVE  /\ e \in SlotContent
         /\ IsNamed(e) => e.ino \in ib /\ e.ino \in Inode /\ e.ino # Root /\ e.name \in Names
<1>1. e \in SlotContent
  <2>1. d \in Inode /\ k \in 1 .. Len(n[d].blocks) /\ s \in Slot /\ c[n[d].blocks[k]][s] = e
    BY DEF Holds
  <2>2. n[d].blocks[k] \in Block
    BY <2>1 DEF INodes
  <2>. QED BY <2>1, <2>2 DEF Contents
<1>2. ASSUME IsNamed(e) PROVE e.ino \in ib /\ e.ino \in Inode /\ e.ino # Root /\ e.name \in Names
  <2>1. e.ino \in Inode /\ e.name \in Names
    BY <1>1, <1>2 DEF IsNamed, SlotContent
  <2>2. <<d, <<k, s>>>> \in Naming(n, c, ib, e.ino)
    BY <1>2, RefHeld, NamingIs
  <2>. QED BY <2>1, <2>2 DEF Counted
<1>. QED BY <1>1, <1>2

(* So it is in this state,                                                  *)
LEMMA NamedAllocated ==
  ASSUME IInv, NEW d, NEW k, NEW s, NEW e, Now(d, k, s, e)
  PROVE  /\ e \in SlotContent
         /\ IsNamed(e) => e.ino \in ibits /\ e.ino \in Inode /\ e.ino # Root /\ e.name \in Names
BY NamedIn, Typed DEF IInv, NamesCounted, Now

(* and in the next one.                                                     *)
LEMMA NamedAllocatedNext ==
  ASSUME IInv', NEW d, NEW k, NEW s, NEW e, Then(d, k, s, e)
  PROVE  /\ e \in SlotContent
         /\ IsNamed(e) => e.ino \in ibits' /\ e.ino \in Inode /\ e.ino # Root /\ e.name \in Names
<1>1. /\ inode' \in [Inode -> INodes] /\ content' \in Contents /\ ibits' \in SUBSET Inode
  BY DEF IInv, TypeOK, INodes, Contents, Counts, SlotContent
<1>2. Counted(inode', content', ibits')
  BY DEF IInv, NamesCounted, Counted, Naming
<1>3. Holds(inode', content', ibits', d, k, s, e)
  BY DEF Then
<1>. QED BY ONLY <1>1, <1>2, <1>3, NamedIn

(* delete, unlink and rmdir.                                                *)
LEMMA DeleteChanges ==
  ASSUME IInv, NEW p \in Directories, NEW name \in Names,
         Find(p, name) # {}, Delete(p, First(Find(p, name)))
  PROVE  \E k, s, e : Removes(p, k, s, e)
<1>. DEFINE pos == First(Find(p, name))
            e == At(p, pos)
            i == e.ino
            k == pos[1]
            s == pos[2]
<1>1. /\ inode \in [Inode -> INodes] /\ content \in Contents /\ ibits \in SUBSET Inode
      /\ Ownership(inode, dbits, ibits) /\ TypeOK
      /\ p \in ibits /\ inode[p].type = "directory"
  BY Typed, OwnershipIs DEF IInv, Directories
<1>2. Now(p, k, s, e) /\ IsNamed(e)
  BY <1>1, FoundHeld
<1>3. /\ inode[i].type = "directory" => Empty(i)
      /\ LastLink(i) => ibits' = IMap!deallocate(ibits, <<i>>) /\ inode' = inode
      /\ ~LastLink(i) => inode' = [inode EXCEPT ![i].links = @ - 1] /\ ibits' = ibits
      /\ content' = Cleared(content, inode[p].blocks[k], s)
  BY DEF Delete, Freed, Cleared
<1>. HIDE DEF pos, e, k, s
<1>4. i \in Inode
  BY <1>2, NamedAllocated
<1>5. ibits' = IF LastLink(i) THEN ibits \ {i} ELSE ibits
  BY <1>3 DEF IMap!deallocate
<1>6. \A d \in Inode : inode'[d].type = inode[d].type /\ inode'[d].blocks = inode[d].blocks
  <2>1. inode[i] \in INodes
    BY <1>1, <1>4
  <2>. DEFINE y == [inode[i] EXCEPT !.links = @ - 1]
  <2>2. y.type = inode[i].type /\ y.blocks = inode[i].blocks
    BY <2>1 DEF INodes
  <2>3. ~LastLink(i) => inode' = [inode EXCEPT ![i] = y]
    BY <1>1, <1>3, <1>4
  <2>. HIDE DEF y
  <2>. QED BY <1>1, <1>3, <1>4, <2>2, <2>3
<1>7. k \in 1 .. Len(inode[p].blocks) /\ s \in Slot
  BY <1>2 DEF Now, Holds
<1>8. OneRecordLess(inode, content, content', ibits, p, k, s)
  BY <1>1, <1>3, <1>7, RecordFreed
<1>9. ASSUME NEW d, NEW l, NEW t, NEW x
      PROVE  Then(d, l, t, x) <=> /\ Now(d, l, t, x) /\ d \in ibits'
                                  /\ ~(d = p /\ l = k /\ t = s)
  <2>1. Then(d, l, t, x) <=> Holds(inode, content', ibits, d, l, t, x) /\ d \in ibits'
    BY <1>1, <1>5, <1>6 DEF Then, Holds
  <2>. QED BY <1>8, <2>1 DEF OneRecordLess, Now
<1>10. ASSUME inode[i].type = "directory", NEW l, NEW t, NEW x, Now(i, l, t, x) PROVE ~IsNamed(x)
  <2>1. <<l, t>> \in Position(i) /\ At(i, <<l, t>>) = x
    BY <1>10 DEF Now, Holds, Position, At
  <2>2. Empty(i)
    BY <1>3, <1>10
  <2>. QED BY <2>1, <2>2 DEF Empty
<1>11. TypesKept
  BY <1>1, <1>6 DEF TypesKept
<1>12. Removes(p, k, s, e)
  BY <1>2, <1>5, <1>9, <1>10, <1>11 DEF Removes
<1>. QED BY <1>12

(* FUSE rename of a record that is found: it has moved, or a directory that *)
(* cannot be deleted under its old name has two.                            *)
Renames(p, k, s, e, q, name) ==
  /\ Now(p, k, s, e) /\ IsNamed(e)
  /\ inode[e.ino].type = "directory" => "rename_directory" \in Risky
  /\ inode[e.ino].type = "symlink" => "rename_symlink" \in Risky
  /\ e.ino \in ibits /\ Vacant(q, name)
  /\ ibits' = ibits /\ TypesKept
  /\ \/ Shifts(p, k, s, q, Entry(name, e.ino, "file"))
     \/ inode[e.ino].type = "directory" /\ Adds(q, Entry(name, e.ino, "file"))

LEMMA RenameShifts ==
  ASSUME IInv, NEW p \in Directories, NEW q \in Directories,
         NEW name \in Names, NEW newname \in Names, rename(p, name, q, newname)
  PROVE  Quiet \/ \E k, s, e : Renames(p, k, s, e, q, newname)
<1>. DEFINE pos == First(Find(p, name))
            e == At(p, pos)
            i == e.ino
            k == pos[1]
            s == pos[2]
            extra == Data(EntryBlocks(q))
            new == Entry(newname, i, "file")
            n1 == WithParent(q, extra)
            c2 == Added(q, new, EntryBlock(extra))
            c3 == Cleared(c2, inode[p].blocks[k], s)
<1>1. /\ inode \in [Inode -> INodes] /\ content \in Contents /\ ibits \in SUBSET Inode
      /\ TypeOK /\ BlockOwnership /\ p \in ibits /\ inode[p].type = "directory"
  BY Typed DEF IInv, Directories
<1>2. Find(p, name) # {} /\ Vacant(q, newname)
  BY NameFree DEF rename
<1>3. Now(p, k, s, e) /\ IsNamed(e)
  BY <1>1, <1>2, FoundHeld
<1>4. /\ inode[i].type = "directory" => "rename_directory" \in Risky
      /\ inode[i].type = "symlink" => "rename_symlink" \in Risky
  BY DEF rename
<1>5. \/ HardlinkFails(q)
      \/ inode[i].type = "directory" /\ LinkTo(i, q, newname)
      \/ Allocated(0, EntryBlocks(q)) /\ content' = c3 /\ inode' = n1
  BY Zenon DEF rename, LinkTo, Freed, Cleared, WithParent
<1>51. i # q
  <2>1. inode[i].type = "directory" => q \notin {i} \cup Below(i)
    BY DEF rename
  <2>2. inode[q].type = "directory"
    BY DEF Directories
  <2>. HIDE DEF i
  <2>. QED BY <2>1, <2>2
<1>. HIDE DEF pos, e, k, s
<1>6. i \in Inode /\ i \in ibits
  BY <1>3, NamedAllocated
<1>7. CASE inode[i].type = "directory" /\ LinkTo(i, q, newname)
  <2>1. ibits' = ibits /\ TypesKept /\ Adds(q, Entry(newname, i, "file"))
    BY <1>51, <1>6, <1>7, LinkAdds
  <2>2. Renames(p, k, s, e, q, newname)
    BY <1>2, <1>3, <1>4, <1>6, <1>7, <2>1 DEF Renames
  <2>. QED BY <2>2
<1>8. CASE HardlinkFails(q)
  BY <1>8, LinkFails
<1>9. CASE Allocated(0, EntryBlocks(q)) /\ content' = c3 /\ inode' = n1
  <2>1. FreshFor(q, extra) /\ ibits' = ibits
    BY <1>1, <1>9, EntryAllocated
  <2>2. new \in SlotContent /\ IsNamed(new)
    BY <1>6, EntryNamed DEF Types
  <2>. HIDE DEF extra, new
  <2>3. /\ n1 \in [Inode -> INodes] /\ c2 \in Contents
        /\ Ownership(n1, dbits \cup Range(extra), ibits)
        /\ \A d \in Inode : n1[d].type = inode[d].type /\ n1[d].links = inode[d].links
        /\ \A d \in ibits : \A l \in 1 .. Len(inode[d].blocks) :
             l \in 1 .. Len(n1[d].blocks) /\ n1[d].blocks[l] = inode[d].blocks[l]
    <3>1. EntryIn(q, new.ino, extra, n1, c2)
      BY <1>1, <2>1, <2>2, EntryAdded
    <3>. HIDE DEF n1, c2
    <3>. QED BY <3>1 DEF EntryIn
  <2>4. PICK g, u : OneRecordMore(inode, content, n1, c2, ibits, q, g, u, new)
    BY <1>1, <2>1, <2>2, RecordAdded
  <2>. HIDE DEF n1, c2
  <2>5. /\ k \in 1 .. Len(n1[p].blocks) /\ s \in Slot
        /\ n1[p].blocks[k] = inode[p].blocks[k] /\ n1[p].type = "directory"
    BY <1>1, <1>3, <2>3 DEF Now, Holds
  <2>6. OneRecordLess(n1, c2, c3, ibits, p, k, s)
    BY <1>1, <2>3, <2>5, RecordFreed
  <2>7. \A x : ~Now(q, g, u, x)
    BY <2>4 DEF OneRecordMore, Now
  <2>8. ~(q = p /\ g = k /\ u = s)
    BY <1>3, <2>7
  <2>. HIDE DEF c3
  <2>9. ASSUME NEW d, NEW l, NEW t, NEW x
        PROVE  Then(d, l, t, x) <=> \/ Now(d, l, t, x) /\ ~(d = p /\ l = k /\ t = s)
                                    \/ d = q /\ l = g /\ t = u /\ x = new
    <3>1. Then(d, l, t, x) <=> Holds(n1, c3, ibits, d, l, t, x)
      BY <1>9, <2>1 DEF Then
    <3>2. Holds(n1, c3, ibits, d, l, t, x) <=> /\ Holds(n1, c2, ibits, d, l, t, x)
                                               /\ ~(d = p /\ l = k /\ t = s)
      BY <2>6 DEF OneRecordLess
    <3>3. Holds(n1, c2, ibits, d, l, t, x) <=> \/ Now(d, l, t, x)
                                               \/ d = q /\ l = g /\ t = u /\ x = new
      BY <2>4 DEF OneRecordMore, Now
    <3>. QED BY <2>8, <3>1, <3>2, <3>3
  <2>10. TypesKept
    BY <1>1, <1>9, <2>1, <2>3 DEF TypesKept
  <2>11. Shifts(p, k, s, q, Entry(newname, i, "file"))
    BY <2>7, <2>9 DEF new, Shifts
  <2>12. Renames(p, k, s, e, q, newname)
    BY <1>2, <1>3, <1>4, <1>6, <2>1, <2>10, <2>11 DEF Renames
  <2>. QED BY <2>12
<1>. QED BY <1>5, <1>7, <1>8, <1>9

(* FUSE rename of a file or a symbolic link.                                *)
LEMMA RenameChanges ==
  ASSUME IInv, "rename_directory" \notin Risky, NEW p \in Directories, NEW q \in Directories,
         NEW name \in Names, NEW newname \in Names, rename(p, name, q, newname)
  PROVE  Quiet \/ \E k, s, e : Moves(p, k, s, e, q, newname)
<1>1. CASE Quiet
  BY <1>1
<1>2. ASSUME NEW k, NEW s, NEW e, Renames(p, k, s, e, q, newname)
      PROVE  Moves(p, k, s, e, q, newname)
  <2>1. inode[e.ino].type \in Types /\ inode[e.ino].type # "directory"
    BY <1>2, Typed DEF Renames, IInv, INodes
  <2>. QED BY <1>2, <2>1 DEF Renames, Moves, Types
<1>. QED BY <1>1, <1>2, RenameShifts

(* A write changes the blocks of a file.                                    *)
LEMMA WriteChanges ==
  ASSUME IInv, NEW h \in Handles, NEW n, write(h, n)
  PROVE  Quiet
<1>. DEFINE i == open[h]
<1>1. i # NoInode /\ ibits' = ibits /\ content' = content
  BY DEF write
<1>2. inode \in [Inode -> INodes] /\ ibits \in SUBSET Inode /\ i \in ibits /\ inode[i].type = "file"
  BY <1>1, Typed, Handled DEF IInv
<1>3. \/ inode' = inode
      \/ \E data, meta : inode' = [inode EXCEPT ![i] = Grown(i, data, meta)]
  BY Zenon DEF write
<1>4. CASE inode' = inode
  BY <1>1, <1>4, QuietSame
<1>5. ASSUME NEW data, NEW meta, inode' = [inode EXCEPT ![i] = Grown(i, data, meta)]
      PROVE  Quiet
  <2>1. Grown(i, data, meta).type = "file"
    BY <1>2 DEF Grown, INodes
  <2>. HIDE DEF i
  <2>2. \A d \in ibits : /\ inode'[d].type = inode[d].type
                         /\ inode[d].type = "directory" => inode'[d].blocks = inode[d].blocks
    BY <1>2, <1>5, <2>1
  <2>3. \A d, l, t, x : Holds(inode', content, ibits, d, l, t, x) <=>
                          Holds(inode, content, ibits, d, l, t, x)
    <3>. DEFINE n2 == inode'
    <3>. HIDE DEF n2
    <3>1. \A d \in ibits : /\ n2[d].type = inode[d].type
                           /\ inode[d].type = "directory" => n2[d].blocks = inode[d].blocks
      BY <2>2 DEF n2
    <3>2. \A d, l, t, x : Holds(n2, content, ibits, d, l, t, x) <=>
                            Holds(inode, content, ibits, d, l, t, x)
      BY ONLY <3>1, HeldSame
    <3>. QED BY <3>2 DEF n2
  <2>. QED BY <1>1, <2>2, <2>3 DEF Quiet, TypesKept, Now, Then
<1>. QED BY <1>3, <1>4, <1>5

(* A create whose parent can take no further entry.                         *)
Refusal == \E p \in Directories, type \in Types : EntryRefused(p, type)

(* Every call that is not refused so changes the name space in one of the   *)
(* five ways.                                                               *)
LEMMA CallChanges ==
  ASSUME Risky \cap {"delete_open", "file_parent", "link_symlink", "rename_directory"} = {},
         IInv, [Next]_vars, ~Refusal
  PROVE  Changes
<1>1. Parents = Directories
  BY DEF Parents
<1>2. "file" \in Types /\ "directory" \in Types /\ "symlink" \in Types
  BY DEF Types
<1>3. ASSUME NEW p \in Directories, NEW name \in Names,
             \/ \E type \in Types : create(p, name, type)
             \/ mknod(p, name) \/ mkdir(p, name) \/ symlink(p, name)
             \/ \E h \in Handles : create_open(p, name, h)
      PROVE  Changes
  <2>1. \E type \in Types, H \in SUBSET Handles : Create(p, name, type, H)
    <3>1. CASE \E type \in Types : create(p, name, type)
      BY <3>1 DEF create
    <3>2. CASE mknod(p, name) \/ mkdir(p, name) \/ symlink(p, name)
      BY <1>2, <3>2 DEF mknod, mkdir, symlink, create_child
    <3>3. CASE \E h \in Handles : create_open(p, name, h)
      <4>1. PICK h \in Handles : create_open(p, name, h)
        BY <3>3
      <4>2. Create(p, name, "file", {h}) /\ {h} \in SUBSET Handles
        BY <4>1 DEF create_open, create_child
      <4>. QED BY <1>2, <4>2
    <3>. QED BY <1>3, <3>1, <3>2, <3>3
  <2>2. PICK type \in Types, H \in SUBSET Handles : Create(p, name, type, H)
    BY <2>1
  <2>3. Quiet \/ EntryRefused(p, type) \/ \E i : Creates(p, name, i, type)
    BY <2>2, CreateChanges
  <2>. QED BY <2>3 DEF Changes, Refusal
<1>4. ASSUME NEW p \in Directories, NEW name \in Names, NEW i \in ibits,
             create_hardlink(i, p, name) \/ link(i, p, name)
      PROVE  Changes
  <2>1. Hardlink(i, p, name) /\ inode[i].type = "file"
    BY <1>4 DEF create_hardlink, link
  <2>2. Quiet \/ Links(i, p, name)
    BY <2>1, LinkChanges
  <2>. QED BY <2>2 DEF Changes
<1>5. ASSUME NEW p \in Directories, NEW name \in Names,
             delete(p, name) \/ unlink(p, name) \/ rmdir(p, name)
      PROVE  Changes
  <2>1. Find(p, name) # {} /\ Delete(p, First(Find(p, name)))
    BY <1>5 DEF delete, unlink, rmdir, delete_child
  <2>2. \E k, s, e : Removes(p, k, s, e)
    BY <2>1, DeleteChanges
  <2>. QED BY <2>2 DEF Changes
<1>6. ASSUME NEW p \in Directories, NEW name \in Names, NEW q \in Directories,
             NEW newname \in Names, rename(p, name, q, newname)
      PROVE  Changes
  <2>1. Quiet \/ \E k, s, e : Moves(p, k, s, e, q, newname)
    BY <1>6, RenameChanges
  <2>. QED BY <2>1 DEF Changes
<1>7. ASSUME NEW h \in Handles,
             \/ \E i \in ibits : open_file(h, i)
             \/ close_file(h)
             \/ \E n \in 1 .. MaxGrow : write(h, n)
      PROVE  Changes
  <2>1. CASE (\E i \in ibits : open_file(h, i)) \/ close_file(h)
    BY <2>1, QuietSame DEF open_file, close_file, alloc, Changes
  <2>2. CASE \E n \in 1 .. MaxGrow : write(h, n)
    BY <2>2, WriteChanges DEF Changes
  <2>. QED BY <1>7, <2>1, <2>2
<1>8. CASE mount \/ UNCHANGED vars
  BY <1>8, QuietSame DEF mount, vars, Changes
<1>9. CASE Next
  BY <1>1, <1>3, <1>4, <1>5, <1>6, <1>7, <1>8, <1>9 DEF Next
<1>. QED BY <1>8, <1>9

-----------------------------------------------------------------------------
(* Entries                                                                  *)

(* The type of a named record is that of the inode,                         *)
NamesTyped == \A d, k, s, e : Now(d, k, s, e) /\ IsNamed(e) => e.type = inode[e.ino].type

(* `.' is the directory itself,                                             *)
SelfDots == \A d, k, s, e : Now(d, k, s, e) /\ e.name = "." => e.ino = d /\ e.type = "directory"

(* `..' is the directory that names it, or the root's own for the root,     *)
Names1(q, d) == \E l, t, x : Now(q, l, t, x) /\ IsNamed(x) /\ x.ino = d
ParentDots == \A d, k, s, e : Now(d, k, s, e) /\ e.name = ".." =>
                /\ e.type = "directory" /\ e.ino \in Directories
                /\ IF d = Root THEN e.ino = Root ELSE Names1(e.ino, d)

(* and a directory has one name only, so that the one rmdir frees is where  *)
(* no `..' leads any more.                                                  *)
NamedOnce == \A d, k, s, e, d2, k2, s2, e2 :
               /\ Now(d, k, s, e) /\ IsNamed(e) /\ inode[e.ino].type = "directory"
               /\ Now(d2, k2, s2, e2) /\ IsNamed(e2) /\ e2.ino = e.ino
               => d = d2 /\ k = k2 /\ s = s2

EInv == NamesTyped /\ SelfDots /\ ParentDots /\ NamedOnce

(* They make the entries valid.                                             *)
LEMMA EntriesAre ==
  ASSUME IInv, EInv
  PROVE  EntriesValid
<1>. SUFFICES ASSUME NEW d \in Directories, NEW pos \in Position(d), At(d, pos).ino # NoInode
              PROVE  At(d, pos).ino \in ibits /\ At(d, pos).type = inode[At(d, pos).ino].type
  BY DEF EntriesValid
<1>. DEFINE e == At(d, pos)
<1>1. Now(d, pos[1], pos[2], e)
  BY DEF Now, Holds, At, Position, Directories
<1>2. d \in ibits /\ inode[d].type = "directory"
  BY DEF Directories
<1>. HIDE DEF e
<1>3. CASE IsNamed(e)
  BY <1>1, <1>3, NamedAllocated DEF EInv, NamesTyped, e
<1>4. CASE e.name = "."
  BY <1>1, <1>2, <1>4 DEF EInv, SelfDots, e
<1>5. CASE e.name = ".."
  BY <1>1, <1>5 DEF EInv, ParentDots, Directories, e
<1>6. IsNamed(e) \/ e.name \in {".", ".."}
  BY DEF IsNamed, e
<1>. QED BY <1>3, <1>4, <1>5, <1>6

(* A position holds one record.                                             *)
LEMMA OneRecord ==
  ASSUME NEW d, NEW k, NEW s, NEW e, NEW x, Now(d, k, s, e), Now(d, k, s, x)
  PROVE  e = x
BY DEF Now, Holds

(* A directory that loses its name is freed.                                *)
LEMMA RemovedFreed ==
  ASSUME IInv, NamedOnce, NEW p, NEW k, NEW s, NEW e, Removes(p, k, s, e),
         inode[e.ino].type = "directory"
  PROVE  ibits' = ibits \ {e.ino}
<1>. DEFINE i == e.ino
            N == Naming(inode, content, ibits, i)
            r == <<p, <<k, s>>>>
<1>1. Now(p, k, s, e) /\ IsNamed(e) /\ (LastLink(i) => ibits' = ibits \ {i})
  BY DEF Removes
<1>2. /\ inode \in [Inode -> INodes] /\ Counted(inode, content, ibits) /\ i \in Inode
  BY <1>1, Typed, NamedAllocated DEF IInv, NamesCounted
<1>. SUFFICES ASSUME ~LastLink(i) PROVE FALSE
  BY <1>1
<1>3. r \in N
  BY <1>1, RefHeld, NamingIs DEF Now
<1>4. inode[i].links > 1
  BY <1>2 DEF LastLink, INodes
<1>5. N \ {r} # {}
  BY <1>2, <1>3, <1>4, OrphansLess
<1>6. PICK d, l, t : <<d, <<l, t>>>> \in N /\ <<d, <<l, t>>>> # r
  <2>1. PICK y \in N : y # r
    BY <1>5
  <2>2. \E d, l, t : y = <<d, <<l, t>>>>
    BY <2>1, NamingIs
  <2>. QED BY <2>1, <2>2
<1>7. PICK x : Now(d, l, t, x) /\ IsNamed(x) /\ x.ino = i
  BY <1>6, RefHeld, NamingIs DEF Now
<1>8. d = p /\ l = k /\ t = s
  BY <1>1, <1>7 DEF NamedOnce
<1>. QED BY <1>6, <1>8

(* The invariant of the next state, from its parts.                         *)
LEMMA EntriesNext ==
  ASSUME \A d, k, s, e : Then(d, k, s, e) /\ IsNamed(e) => e.type = inode'[e.ino].type,
         \A d, k, s, e : Then(d, k, s, e) /\ e.name = "." => e.ino = d /\ e.type = "directory",
         \A d, k, s, e : Then(d, k, s, e) /\ e.name = ".." =>
            /\ e.type = "directory" /\ e.ino \in ibits' /\ inode'[e.ino].type = "directory"
            /\ IF d = Root THEN e.ino = Root
                           ELSE \E l, t, x : Then(e.ino, l, t, x) /\ IsNamed(x) /\ x.ino = d,
         \A d, k, s, e, d2, k2, s2, e2 :
            /\ Then(d, k, s, e) /\ IsNamed(e) /\ inode'[e.ino].type = "directory"
            /\ Then(d2, k2, s2, e2) /\ IsNamed(e2) /\ e2.ino = e.ino
            => d = d2 /\ k = k2 /\ s = s2
  PROVE  EInv'
<1>1. \A d, k, s, e : Now(d, k, s, e)' <=> Then(d, k, s, e)
  BY DEF Now, Then, Holds
<1>2. \A e : IsNamed(e)' <=> IsNamed(e)
  BY DEF IsNamed
<1>3. NamesTyped'
  BY <1>1, <1>2 DEF NamesTyped
<1>4. SelfDots'
  BY <1>1 DEF SelfDots
<1>5. ParentDots'
  BY <1>1, <1>2 DEF ParentDots, Names1, Directories
<1>6. NamedOnce'
  BY <1>1, <1>2 DEF NamedOnce
<1>. QED BY <1>3, <1>4, <1>5, <1>6 DEF EInv

(* Records that stay, in a step that frees nothing.                         *)
LEMMA RecordsStay ==
  ASSUME IInv, EInv, ibits \subseteq ibits', TypesKept, NEW d, NEW k, NEW s, NEW e, Now(d, k, s, e)
  PROVE  /\ IsNamed(e) => e.type = inode'[e.ino].type /\ inode'[e.ino].type = inode[e.ino].type
         /\ e.name = "." => e.ino = d /\ e.type = "directory"
         /\ e.name = ".." =>
              /\ e.type = "directory" /\ e.ino \in ibits' /\ inode'[e.ino].type = "directory"
              /\ IF d = Root THEN e.ino = Root ELSE Names1(e.ino, d)
<1>1. ASSUME IsNamed(e)
      PROVE  e.type = inode'[e.ino].type /\ inode'[e.ino].type = inode[e.ino].type
  BY <1>1, NamedAllocated DEF EInv, NamesTyped, TypesKept
<1>2. e.name = "." => e.ino = d /\ e.type = "directory"
  BY DEF EInv, SelfDots
<1>3. ASSUME e.name = ".."
      PROVE  /\ e.type = "directory" /\ e.ino \in ibits' /\ inode'[e.ino].type = "directory"
             /\ IF d = Root THEN e.ino = Root ELSE Names1(e.ino, d)
  BY <1>3 DEF EInv, ParentDots, TypesKept, Directories
<1>. QED BY <1>1, <1>2, <1>3

(* A file gets a further name.                                              *)
LEMMA LinksEntries ==
  ASSUME IInv, EInv, NEW i, NEW p, NEW name \in Names, Links(i, p, name)
  PROVE  EInv'
<1>. DEFINE new == Entry(name, i, "file")
<1>1. /\ i \in ibits /\ inode[i].type = "file" /\ ibits' = ibits /\ TypesKept
      /\ ibits \in SUBSET Inode
  BY Typed DEF IInv, Links
<1>2. PICK k, s : \A d, l, t, x : Then(d, l, t, x) <=> \/ Now(d, l, t, x)
                                                       \/ d = p /\ l = k /\ t = s /\ x = new
  BY DEF Links, Adds
<1>3. IsNamed(new) /\ new.ino = i /\ new.type = "file" /\ new.name \notin {".", ".."}
  BY <1>1, EntryNamed DEF Types, Entry, IsNamed
<1>4. inode'[i].type = "file"
  BY <1>1 DEF TypesKept
<1>. HIDE DEF new
<1>5. \A d, l, t, x : Now(d, l, t, x) => Then(d, l, t, x)
  BY <1>2
<1>6. \A d, l, t, x : Then(d, l, t, x) => Now(d, l, t, x) \/ x = new
  BY <1>2
<1>7. \A d, l, t, x : Then(d, l, t, x) /\ IsNamed(x) => x.type = inode'[x.ino].type
  BY <1>1, <1>3, <1>4, <1>6, RecordsStay
<1>8. \A d, l, t, x : Then(d, l, t, x) /\ x.name = "." => x.ino = d /\ x.type = "directory"
  BY <1>1, <1>3, <1>6, RecordsStay
<1>9. ASSUME NEW d, NEW l, NEW t, NEW x, Then(d, l, t, x), x.name = ".."
      PROVE  /\ x.type = "directory" /\ x.ino \in ibits' /\ inode'[x.ino].type = "directory"
             /\ IF d = Root THEN x.ino = Root
                ELSE \E g, u, y : Then(x.ino, g, u, y) /\ IsNamed(y) /\ y.ino = d
  <2>1. Now(d, l, t, x)
    BY <1>3, <1>6, <1>9
  <2>2. /\ x.type = "directory" /\ x.ino \in ibits' /\ inode'[x.ino].type = "directory"
        /\ IF d = Root THEN x.ino = Root ELSE Names1(x.ino, d)
    BY <1>1, <1>9, <2>1, RecordsStay
  <2>. QED BY <1>5, <2>2 DEF Names1
<1>10. ASSUME NEW d, NEW l, NEW t, NEW x, NEW d2, NEW l2, NEW t2, NEW x2,
              Then(d, l, t, x), IsNamed(x), inode'[x.ino].type = "directory",
              Then(d2, l2, t2, x2), IsNamed(x2), x2.ino = x.ino
       PROVE  d = d2 /\ l = l2 /\ t = t2
  <2>1. Now(d, l, t, x) /\ Now(d2, l2, t2, x2)
    BY <1>3, <1>4, <1>6, <1>10
  <2>2. inode[x.ino].type = "directory"
    BY <1>1, <1>10, <2>1, RecordsStay
  <2>. QED BY <1>10, <2>1, <2>2 DEF EInv, NamedOnce
<1>. QED BY <1>7, <1>8, <1>9, <1>10, EntriesNext

(* A file moves.                                                            *)
LEMMA MovesEntries ==
  ASSUME IInv, EInv, "rename_symlink" \notin Risky,
         NEW p, NEW k, NEW s, NEW e, NEW q, NEW name \in Names, Moves(p, k, s, e, q, name)
  PROVE  EInv'
<1>. DEFINE i == e.ino
            new == Entry(name, i, "file")
<1>1. /\ Now(p, k, s, e) /\ IsNamed(e) /\ inode[i].type = "file" /\ ibits' = ibits /\ TypesKept
  BY DEF Moves
<1>2. PICK g, u : /\ \A x : ~Now(q, g, u, x)
                  /\ \A d, l, t, x : Then(d, l, t, x) <=>
                       \/ Now(d, l, t, x) /\ ~(d = p /\ l = k /\ t = s)
                       \/ d = q /\ l = g /\ t = u /\ x = new
  BY DEF Moves, Shifts
<1>3. i \in ibits /\ i \in Inode
  BY <1>1, NamedAllocated
<1>4. inode'[i].type = "file"
  BY <1>1, <1>3 DEF TypesKept
<1>. HIDE DEF i
<1>5. IsNamed(new) /\ new.ino = i /\ new.type = "file" /\ new.name \notin {".", ".."}
  BY <1>3, EntryNamed DEF Types, Entry, IsNamed
<1>. HIDE DEF new
<1>6. \A d, l, t, x : Then(d, l, t, x) => Now(d, l, t, x) \/ x = new
  BY <1>2
<1>7. \A d, l, t, x : Then(d, l, t, x) /\ IsNamed(x) => x.type = inode'[x.ino].type
  BY <1>1, <1>4, <1>5, <1>6, RecordsStay
<1>8. \A d, l, t, x : Then(d, l, t, x) /\ x.name = "." => x.ino = d /\ x.type = "directory"
  BY <1>1, <1>5, <1>6, RecordsStay
<1>9. ASSUME NEW d, NEW l, NEW t, NEW x, Then(d, l, t, x), x.name = ".."
      PROVE  /\ x.type = "directory" /\ x.ino \in ibits' /\ inode'[x.ino].type = "directory"
             /\ IF d = Root THEN x.ino = Root
                ELSE \E a, b, y : Then(x.ino, a, b, y) /\ IsNamed(y) /\ y.ino = d
  <2>1. Now(d, l, t, x)
    BY <1>5, <1>6, <1>9
  <2>2. /\ x.type = "directory" /\ x.ino \in ibits' /\ inode'[x.ino].type = "directory"
        /\ IF d = Root THEN x.ino = Root ELSE Names1(x.ino, d)
    BY <1>1, <1>9, <2>1, RecordsStay
  <2>3. inode[d].type = "directory"
    BY <2>1 DEF Now, Holds
  <2>4. ASSUME NEW a, NEW b, NEW y, Now(x.ino, a, b, y), y.ino = d PROVE Then(x.ino, a, b, y)
    <3>1. ~(x.ino = p /\ a = k /\ b = s)
      BY <1>1, <2>3, <2>4, OneRecord DEF i
    <3>. QED BY <1>2, <2>4, <3>1
  <2>. QED BY <2>2, <2>4 DEF Names1
<1>10. ASSUME NEW d, NEW l, NEW t, NEW x, NEW d2, NEW l2, NEW t2, NEW x2,
              Then(d, l, t, x), IsNamed(x), inode'[x.ino].type = "directory",
              Then(d2, l2, t2, x2), IsNamed(x2), x2.ino = x.ino
       PROVE  d = d2 /\ l = l2 /\ t = t2
  <2>1. Now(d, l, t, x) /\ Now(d2, l2, t2, x2)
    BY <1>4, <1>5, <1>6, <1>10
  <2>2. inode[x.ino].type = "directory"
    BY <1>1, <1>10, <2>1, RecordsStay
  <2>. QED BY <1>10, <2>1, <2>2 DEF EInv, NamedOnce
<1>. QED BY <1>7, <1>8, <1>9, <1>10, EntriesNext

(* A node is created.                                                       *)
LEMMA CreatesEntries ==
  ASSUME IInv, EInv, NEW p, NEW name \in Names, NEW i, NEW type \in Types,
         Creates(p, name, i, type)
  PROVE  EInv'
<1>. DEFINE new == Entry(name, i, type)
            dot(d, l, t, x) == type = "directory" /\ IsDot(i, p, d, l, t, x)
<1>1. /\ i \in Inode \ ibits /\ ibits' = ibits \cup {i} /\ inode'[i].type = type /\ TypesKept
      /\ p \in ibits /\ inode[p].type = "directory"
  BY DEF Creates, Directories
<1>2. PICK k, s : \A d, l, t, x : Then(d, l, t, x) <=>
                    \/ Now(d, l, t, x)
                    \/ d = p /\ l = k /\ t = s /\ x = new
                    \/ dot(d, l, t, x)
  BY Zenon DEF Creates
<1>3. IsNamed(new) /\ new.ino = i /\ new.type = type /\ new.name \notin {".", ".."}
  BY <1>1, EntryNamed DEF Entry, IsNamed
<1>4. \A d, l, t, x : dot(d, l, t, x) =>
        /\ type = "directory" /\ d = i /\ x.type = "directory" /\ ~IsNamed(x)
        /\ x.name = "." => x.ino = i
        /\ x.name = ".." => x.ino = p
  BY DEF IsDot, Entry, IsNamed
<1>. HIDE DEF new, dot
<1>5. \A d, l, t, x : Now(d, l, t, x) => Then(d, l, t, x)
  BY <1>2
<1>6. \A d, l, t, x : Then(d, l, t, x) =>
        Now(d, l, t, x) \/ (d = p /\ l = k /\ t = s /\ x = new) \/ dot(d, l, t, x)
  BY <1>2
<1>61. ibits \subseteq ibits'
  BY <1>1
<1>7. \A d, l, t, x : Then(d, l, t, x) /\ IsNamed(x) => x.type = inode'[x.ino].type
  BY <1>1, <1>3, <1>4, <1>6, <1>61, RecordsStay
<1>8. \A d, l, t, x : Then(d, l, t, x) /\ x.name = "." => x.ino = d /\ x.type = "directory"
  BY <1>1, <1>3, <1>4, <1>6, <1>61, RecordsStay
<1>9. ASSUME NEW d, NEW l, NEW t, NEW x, Then(d, l, t, x), x.name = ".."
      PROVE  /\ x.type = "directory" /\ x.ino \in ibits' /\ inode'[x.ino].type = "directory"
             /\ IF d = Root THEN x.ino = Root
                ELSE \E g, u, y : Then(x.ino, g, u, y) /\ IsNamed(y) /\ y.ino = d
  <2>1. CASE Now(d, l, t, x)
    <3>1. /\ x.type = "directory" /\ x.ino \in ibits' /\ inode'[x.ino].type = "directory"
          /\ IF d = Root THEN x.ino = Root ELSE Names1(x.ino, d)
      BY <1>1, <1>9, <1>61, <2>1, RecordsStay
    <3>. QED BY <1>5, <3>1 DEF Names1
  <2>2. CASE dot(d, l, t, x)
    <3>1. d = i /\ x.ino = p /\ x.type = "directory"
      BY <1>4, <1>9, <2>2
    <3>2. i # Root
      BY <1>1 DEF IInv, NamesCounted, Counted
    <3>3. p \in ibits' /\ inode'[p].type = "directory"
      BY <1>1 DEF TypesKept
    <3>4. Then(p, k, s, new)
      BY <1>2
    <3>. QED BY <1>3, <3>1, <3>2, <3>3, <3>4
  <2>. QED BY <1>3, <1>6, <1>9, <2>1, <2>2
<1>10. ASSUME NEW d, NEW l, NEW t, NEW x, NEW d2, NEW l2, NEW t2, NEW x2,
              Then(d, l, t, x), IsNamed(x), inode'[x.ino].type = "directory",
              Then(d2, l2, t2, x2), IsNamed(x2), x2.ino = x.ino
       PROVE  d = d2 /\ l = l2 /\ t = t2
  <2>1. \A a, b, c, y : Then(a, b, c, y) /\ IsNamed(y) =>
          \/ Now(a, b, c, y) /\ y.ino # i
          \/ a = p /\ b = k /\ c = s /\ y.ino = i
    BY <1>1, <1>3, <1>4, <1>6, NamedAllocated
  <2>2. CASE x.ino = i
    BY <1>10, <2>1, <2>2
  <2>3. CASE x.ino # i
    <3>1. Now(d, l, t, x) /\ Now(d2, l2, t2, x2)
      BY <1>10, <2>1, <2>3
    <3>2. inode[x.ino].type = "directory"
      BY <1>1, <1>10, <1>61, <3>1, RecordsStay
    <3>. QED BY <1>10, <3>1, <3>2 DEF EInv, NamedOnce
  <2>. QED BY <2>2, <2>3
<1>. QED BY <1>7, <1>8, <1>9, <1>10, EntriesNext

(* A name goes, and with the last one the node.                             *)
LEMMA RemovesEntries ==
  ASSUME IInv, IInv', EInv, NEW p, NEW k, NEW s, NEW e, Removes(p, k, s, e)
  PROVE  EInv'
<1>. DEFINE i == e.ino
<1>1. /\ Now(p, k, s, e) /\ IsNamed(e) /\ TypesKept
      /\ inode[i].type = "directory" => \A l, t, x : Now(i, l, t, x) => ~IsNamed(x)
      /\ ibits' \subseteq ibits /\ \A j \in ibits \ {i} : j \in ibits'
      /\ \A d, l, t, x : Then(d, l, t, x) <=> /\ Now(d, l, t, x) /\ d \in ibits'
                                              /\ ~(d = p /\ l = k /\ t = s)
  BY DEF Removes
<1>2. i # Root /\ i \in ibits
  BY <1>1, NamedAllocated
<1>3. inode[i].type = "directory" => i \notin ibits'
  BY RemovedFreed DEF EInv
<1>. HIDE DEF i
<1>4. \A d, l, t, x : Then(d, l, t, x) => Now(d, l, t, x) /\ d \in ibits'
  BY <1>1
<1>5. ASSUME NEW d, NEW l, NEW t, NEW x, Then(d, l, t, x), IsNamed(x)
      PROVE  x.type = inode[x.ino].type /\ inode'[x.ino].type = inode[x.ino].type
  <2>1. x.ino \in ibits' /\ Now(d, l, t, x)
    BY <1>4, <1>5, NamedAllocatedNext
  <2>2. inode'[x.ino].type = inode[x.ino].type
    BY <1>1, <2>1 DEF TypesKept
  <2>. QED BY <1>5, <2>1, <2>2 DEF EInv, NamesTyped
<1>6. \A d, l, t, x : Then(d, l, t, x) /\ x.name = "." => x.ino = d /\ x.type = "directory"
  BY <1>4 DEF EInv, SelfDots
<1>7. ASSUME NEW d, NEW l, NEW t, NEW x, Then(d, l, t, x), x.name = ".."
      PROVE  /\ x.type = "directory" /\ x.ino \in ibits' /\ inode'[x.ino].type = "directory"
             /\ IF d = Root THEN x.ino = Root
                ELSE \E g, u, y : Then(x.ino, g, u, y) /\ IsNamed(y) /\ y.ino = d
  <2>1. Now(d, l, t, x) /\ d \in ibits' /\ inode[d].type = "directory"
    BY <1>4, <1>7 DEF Now, Holds
  <2>2. /\ x.type = "directory" /\ x.ino \in ibits /\ inode[x.ino].type = "directory"
        /\ IF d = Root THEN x.ino = Root ELSE Names1(x.ino, d)
    BY <1>7, <2>1 DEF EInv, ParentDots, Directories
  <2>3. x.ino # i
    <3>1. CASE d = Root
      BY <1>2, <2>2, <3>1
    <3>2. CASE d # Root
      BY <1>1, <2>2, <3>2 DEF Names1
    <3>. QED BY <3>1, <3>2
  <2>4. x.ino \in ibits' /\ inode'[x.ino].type = "directory"
    BY <1>1, <2>2, <2>3 DEF TypesKept
  <2>5. ASSUME NEW g, NEW u, NEW y, Now(x.ino, g, u, y), y.ino = d PROVE Then(x.ino, g, u, y)
    <3>1. ~(x.ino = p /\ g = k /\ u = s)
      <4>. SUFFICES ASSUME x.ino = p /\ g = k /\ u = s PROVE FALSE
        OBVIOUS
      <4>1. d = i
        BY <1>1, <2>5, OneRecord DEF i
      <4>. QED BY <1>3, <2>1, <4>1
    <3>. QED BY <1>1, <2>4, <2>5, <3>1
  <2>. QED BY <2>2, <2>4, <2>5 DEF Names1
<1>8. ASSUME NEW d, NEW l, NEW t, NEW x, NEW d2, NEW l2, NEW t2, NEW x2,
             Then(d, l, t, x), IsNamed(x), inode'[x.ino].type = "directory",
             Then(d2, l2, t2, x2), IsNamed(x2), x2.ino = x.ino
      PROVE  d = d2 /\ l = l2 /\ t = t2
  <2>1. Now(d, l, t, x) /\ Now(d2, l2, t2, x2) /\ inode[x.ino].type = "directory"
    BY <1>4, <1>5, <1>8
  <2>. QED BY <1>8, <2>1 DEF EInv, NamedOnce
<1>9. \A d, l, t, x : Then(d, l, t, x) /\ IsNamed(x) => x.type = inode'[x.ino].type
  BY <1>5
<1>. QED BY <1>6, <1>7, <1>8, <1>9, EntriesNext

(* Nothing changes.                                                         *)
LEMMA QuietEntries ==
  ASSUME IInv, EInv, Quiet
  PROVE  EInv'
<1>1. /\ ibits' = ibits /\ TypesKept
      /\ \A d, l, t, x : Then(d, l, t, x) <=> Now(d, l, t, x)
  BY DEF Quiet
<1>2. \A d, l, t, x : Then(d, l, t, x) /\ IsNamed(x) => x.type = inode'[x.ino].type
  BY <1>1, RecordsStay
<1>3. \A d, l, t, x : Then(d, l, t, x) /\ x.name = "." => x.ino = d /\ x.type = "directory"
  BY <1>1, RecordsStay
<1>4. ASSUME NEW d, NEW l, NEW t, NEW x, Then(d, l, t, x), x.name = ".."
      PROVE  /\ x.type = "directory" /\ x.ino \in ibits' /\ inode'[x.ino].type = "directory"
             /\ IF d = Root THEN x.ino = Root
                ELSE \E g, u, y : Then(x.ino, g, u, y) /\ IsNamed(y) /\ y.ino = d
  <2>1. /\ x.type = "directory" /\ x.ino \in ibits' /\ inode'[x.ino].type = "directory"
        /\ IF d = Root THEN x.ino = Root ELSE Names1(x.ino, d)
    BY <1>1, <1>4, RecordsStay
  <2>. QED BY <1>1, <2>1 DEF Names1
<1>5. ASSUME NEW d, NEW l, NEW t, NEW x, NEW d2, NEW l2, NEW t2, NEW x2,
             Then(d, l, t, x), IsNamed(x), inode'[x.ino].type = "directory",
             Then(d2, l2, t2, x2), IsNamed(x2), x2.ino = x.ino
      PROVE  d = d2 /\ l = l2 /\ t = t2
  <2>1. Now(d, l, t, x) /\ Now(d2, l2, t2, x2) /\ inode[x.ino].type = "directory"
    BY <1>1, <1>5, RecordsStay
  <2>. QED BY <1>5, <2>1 DEF EInv, NamedOnce
<1>. QED BY <1>2, <1>3, <1>4, <1>5, EntriesNext

(* After format() the root holds `.' and `..' and nothing is named.         *)
LEMMA InitRecords ==
  ASSUME Init, NEW d, NEW l, NEW t, NEW x, Now(d, l, t, x)
  PROVE  d = Root /\ IsDot(Root, Root, d, l, t, x)
<1>1. Root \in Inode /\ 0 \in Block /\ Root = 0
  BY FormatAssumption DEF Inode, Block, Root
<1>2. d = Root
  BY DEF Init, Now, Holds
<1>3. inode[Root] = NewInode("directory", <<0>>) /\ content[0] = NewDirectory(Root, Root)
  BY <1>1 DEF Init
<1>4. inode[Root].blocks = <<0>>
  BY <1>3 DEF NewInode
<1>5. l = 1 /\ t \in Slot /\ x = NewDirectory(Root, Root)[t] /\ x.ino # NoInode
  <2>1. l \in 1 .. Len(<<0>>) /\ t \in Slot /\ x = content[inode[Root].blocks[l]][t]
        /\ x.ino # NoInode
    BY <1>2, <1>4 DEF Now, Holds
  <2>. QED BY <1>3, <1>4, <2>1
<1>6. \/ t = 1 /\ x = Entry(".", Root, "directory")
      \/ t = 2 /\ x = Entry("..", Root, "directory")
  BY <1>5 DEF NewDirectory, Free
<1>. QED BY <1>2, <1>5, <1>6 DEF IsDot

LEMMA InitEntries ==
  ASSUME Init
  PROVE  EInv
<1>1. ASSUME NEW d, NEW k, NEW s, NEW e, Now(d, k, s, e)
      PROVE  /\ ~IsNamed(e) /\ d = Root /\ e.ino = Root /\ e.type = "directory"
  BY <1>1, InitRecords DEF IsDot, Entry, IsNamed
<1>2. Root \in Directories
  BY FormatAssumption DEF Init, Directories, NewInode, Inode, Root
<1>3. NamesTyped /\ NamedOnce
  BY <1>1 DEF NamesTyped, NamedOnce
<1>4. SelfDots /\ ParentDots
  BY <1>1, <1>2 DEF SelfDots, ParentDots
<1>. QED BY <1>3, <1>4 DEF EInv

(* Every step that is not a refused create keeps the entries valid.         *)
LEMMA NextEntries ==
  ASSUME Risky \subseteq {"reuse_name"}, IInv, EInv, [Next]_vars, [~Refusal]_vars
  PROVE  IInv' /\ EInv'
<1>1. IInv'
  BY NextInv
<1>2. Changes
  <2>1. CASE UNCHANGED vars
    BY <2>1, QuietSame DEF vars, Changes
  <2>2. CASE ~Refusal
    BY <2>2, CallChanges
  <2>. QED BY <2>1, <2>2
<1>3. EInv'
  BY <1>1, <1>2, QuietEntries, CreatesEntries, LinksEntries, RemovesEntries, MovesEntries
  DEF Changes
<1>. QED BY <1>1, <1>3

(* As long as the caller deletes no open file, takes no file for a          *)
(* directory, links no symbolic link and renames files only (a name may be  *)
(* given twice), and no directory is at the limit of its block pointers,    *)
(* every record of every directory, `.' and `..' included, leads to an      *)
(* allocated inode of the type the record states: no sequence of creates,   *)
(* links, renames and deletions leaves a dangling or mistyped entry.        *)
THEOREM EntriesStayValid ==
  ASSUME Risky \subseteq {"reuse_name"}
  PROVE  Spec /\ [][~Refusal]_vars => []EntriesValid
<1>1. Init => IInv /\ EInv
  BY InitInv, InitEntries
<1>2. IInv /\ EInv /\ [Next]_vars /\ [~Refusal]_vars => IInv' /\ EInv'
  BY NextEntries
<1>3. IInv /\ EInv => EntriesValid
  BY EntriesAre
<1>. QED BY <1>1, <1>2, <1>3, PTL DEF Spec

(* On a device with no more data blocks than an inode can have, no          *)
(* directory gets to that limit.                                            *)
THEOREM EntriesAlwaysValid ==
  ASSUME Risky \subseteq {"reuse_name"}, ND <= MaxBlocks
  PROVE  Spec => []EntriesValid
<1>1. Init => IInv /\ EInv
  BY InitInv, InitEntries
<1>2. IInv /\ EInv /\ [Next]_vars => IInv' /\ EInv'
  <2>1. IInv => ~Refusal
    BY NeverRefused DEF Refusal
  <2>. QED BY <2>1, NextEntries
<1>3. IInv /\ EInv => EntriesValid
  BY EntriesAre
<1>. QED BY <1>1, <1>2, <1>3, PTL DEF Spec

-----------------------------------------------------------------------------
(* The name space                                                           *)

(* The links of the refinement mapping, for tables n, c and ib.             *)
LinksOf(n, c, ib) ==
  {<<r[1], c[n[r[1]].blocks[r[2][1]]][r[2][2]].name, c[n[r[1]].blocks[r[2][1]]][r[2][2]].ino>> :
     r \in UNION {Naming(n, c, ib, i) : i \in Inode}}
KindOf(n, ib) == [i \in Inode |-> IF i \in ib THEN n[i].type ELSE "none"]

Kind == KindOf(inode, ibits)
LinkSet == LinksOf(inode, content, ibits)

(* The mapping of module FormatV1 has these values,                         *)
LEMMA MappingIs ==
  /\ [i \in Inode |-> IF i \in ibits THEN inode[i].type ELSE "none"] = Kind
  /\ {<<r[1], At(r[1], r[2]).name, At(r[1], r[2]).ino>> : r \in UNION {Refs(i) : i \in Inode}}
       = LinkSet
BY DEF Kind, KindOf, LinkSet, LinksOf, At, Refs, Naming, Position, Directories

(* in the next state too.                                                   *)
LEMMA MappingIsNext ==
  /\ [i \in Inode |-> IF i \in ibits THEN inode[i].type ELSE "none"]' = KindOf(inode', ibits')
  /\ {<<r[1], At(r[1], r[2]).name, At(r[1], r[2]).ino>> : r \in UNION {Refs(i) : i \in Inode}}'
       = LinksOf(inode', content', ibits')
BY DEF KindOf, LinksOf, At, Refs, Naming, Position, Directories

(* A link is a named record.                                                *)
LEMMA LinksAre ==
  ASSUME NEW n \in [Inode -> INodes], NEW c \in Contents, NEW ib \in SUBSET Inode, Counted(n, c, ib)
  PROVE  /\ \A y \in LinksOf(n, c, ib) : \E d, nm, i : y = <<d, nm, i>>
         /\ \A d, nm, i : <<d, nm, i>> \in LinksOf(n, c, ib) <=>
              \E k, s, e : /\ Holds(n, c, ib, d, k, s, e) /\ IsNamed(e)
                           /\ e.name = nm /\ e.ino = i
<1>. DEFINE L == LinksOf(n, c, ib)
            N == UNION {Naming(n, c, ib, i) : i \in Inode}
            at(r) == c[n[r[1]].blocks[r[2][1]]][r[2][2]]
<1>1. L = {<<r[1], at(r).name, at(r).ino>> : r \in N}
  BY DEF LinksOf
<1>. HIDE DEF L
<1>2. \A y \in L : \E d, nm, i : y = <<d, nm, i>>
  BY <1>1
<1>3. ASSUME NEW d, NEW nm, NEW i, <<d, nm, i>> \in L
      PROVE  \E k, s, e : Holds(n, c, ib, d, k, s, e) /\ IsNamed(e) /\ e.name = nm /\ e.ino = i
  <2>1. PICK r \in N : d = r[1] /\ nm = at(r).name /\ i = at(r).ino
    <3>. HIDE DEF at, N
    <3>. QED BY <1>1, <1>3
  <2>2. PICK j \in Inode : r \in Naming(n, c, ib, j)
    OBVIOUS
  <2>3. PICK a, k, s : r = <<a, <<k, s>>>>
    BY <2>2, NamingIs
  <2>4. IsRef(n, c, ib, a, k, s, j)
    BY <2>2, <2>3, NamingIs
  <2>5. a = d /\ at(r) = c[n[d].blocks[k]][s]
    BY <2>1, <2>3
  <2>6. PICK e : Holds(n, c, ib, d, k, s, e) /\ IsNamed(e)
    BY <2>4, <2>5, RefHeld
  <2>7. e = at(r)
    BY <2>5, <2>6 DEF Holds
  <2>. QED BY <2>1, <2>6, <2>7
<1>4. ASSUME NEW d, NEW nm, NEW i, NEW k, NEW s, NEW e,
             Holds(n, c, ib, d, k, s, e), IsNamed(e), e.name = nm, e.ino = i
      PROVE  <<d, nm, i>> \in L
  <2>. DEFINE r == <<d, <<k, s>>>>
  <2>1. i \in Inode
    BY <1>4, NamedIn
  <2>2. r \in Naming(n, c, ib, i)
    BY <1>4, RefHeld, NamingIs
  <2>3. r \in N
    BY <2>1, <2>2
  <2>4. r[1] = d /\ at(r) = e
    BY <1>4 DEF Holds
  <2>. HIDE DEF r, N, at
  <2>. QED BY <1>1, <1>4, <2>3, <2>4
<1>. QED BY <1>2, <1>3, <1>4 DEF L

(* The abstract steps, in terms of the values of the mapping.               *)
LEMMA AbstractSteps ==
  ASSUME NEW d, NEW n, NEW x
  PROVE  LET K2 == KindOf(inode', ibits')
             L2 == LinksOf(inode', content', ibits')
             free(a, b) == \A l \in LinkSet : ~(l[1] = a /\ l[2] = b)
         IN  /\ \A t : /\ Kind[d] = "directory" /\ free(d, n) /\ Kind[x] = "none"
                       /\ K2 = [Kind EXCEPT ![x] = t] /\ L2 = LinkSet \cup {<<d, n, x>>}
                       => NS!Create(d, n, x, t)
             /\ /\ Kind[d] = "directory" /\ free(d, n) /\ Kind[x] = "file"
                /\ K2 = Kind /\ L2 = LinkSet \cup {<<d, n, x>>}
                => NS!Link(x, d, n)
             /\ /\ <<d, n, x>> \in LinkSet /\ \A l \in LinkSet : l[1] # x
                /\ L2 = LinkSet \ {<<d, n, x>>}
                /\ K2 = [Kind EXCEPT ![x] = IF \E l \in L2 : l[3] = x THEN @ ELSE "none"]
                => NS!Remove(d, n, x)
             /\ \A d2, n2 :
                  /\ <<d, n, x>> \in LinkSet /\ Kind[d2] = "directory" /\ free(d2, n2)
                  /\ L2 = (LinkSet \ {<<d, n, x>>}) \cup {<<d2, n2, x>>} /\ K2 = Kind
                  => NS!Move(d, n, d2, n2, x)
             /\ K2 = Kind /\ L2 = LinkSet => UNCHANGED NS!vars
BY MappingIs, MappingIsNext DEF NS!Create, NS!Link, NS!Remove, NS!Move, NS!Vacant, NS!vars

(* Links are the named records of this state, and of the next.              *)
LEMMA LinksNow ==
  ASSUME IInv
  PROVE  /\ \A y \in LinkSet : \E d, nm, i : y = <<d, nm, i>>
         /\ \A d, nm, i : <<d, nm, i>> \in LinkSet <=>
              \E k, s, e : Now(d, k, s, e) /\ IsNamed(e) /\ e.name = nm /\ e.ino = i
BY LinksAre, Typed DEF IInv, NamesCounted, Now, LinkSet

LEMMA LinksThen ==
  ASSUME IInv'
  PROVE  LET L2 == LinksOf(inode', content', ibits')
         IN  /\ \A y \in L2 : \E d, nm, i : y = <<d, nm, i>>
             /\ \A d, nm, i : <<d, nm, i>> \in L2 <=>
                  \E k, s, e : Then(d, k, s, e) /\ IsNamed(e) /\ e.name = nm /\ e.ino = i
<1>1. inode' \in [Inode -> INodes] /\ content' \in Contents /\ ibits' \in SUBSET Inode
  BY DEF IInv, TypeOK, INodes, Contents, Counts, SlotContent
<1>2. Counted(inode', content', ibits')
  BY DEF IInv, NamesCounted, Counted, Naming
<1>. DEFINE n2 == inode'
            c2 == content'
            ib2 == ibits'
<1>. HIDE DEF n2, c2, ib2
<1>3. n2 \in [Inode -> INodes] /\ c2 \in Contents /\ ib2 \in SUBSET Inode /\ Counted(n2, c2, ib2)
  BY <1>1, <1>2 DEF n2, c2, ib2
<1>4. /\ \A y \in LinksOf(n2, c2, ib2) : \E d, nm, i : y = <<d, nm, i>>
      /\ \A d, nm, i : <<d, nm, i>> \in LinksOf(n2, c2, ib2) <=>
           \E k, s, e : /\ Holds(n2, c2, ib2, d, k, s, e) /\ IsNamed(e)
                        /\ e.name = nm /\ e.ino = i
  BY ONLY <1>3, LinksAre
<1>. QED BY <1>4 DEF n2, c2, ib2, Then

(* Two records of a directory have different names.                         *)
NamesUnique == \A d, k, s, e, k2, s2, e2 :
                 Now(d, k, s, e) /\ IsNamed(e) /\ Now(d, k2, s2, e2) /\ e2.name = e.name
                 => k = k2 /\ s = s2

(* A vacant name is a vacant name of the name space.                        *)
LEMMA VacantFree ==
  ASSUME IInv, NEW p, NEW name, Vacant(p, name)
  PROVE  \A l \in LinkSet : ~(l[1] = p /\ l[2] = name)
<1>. SUFFICES ASSUME NEW l \in LinkSet, l[1] = p, l[2] = name PROVE FALSE
  OBVIOUS
<1>1. PICK d, nm, i : l = <<d, nm, i>>
  BY LinksNow
<1>2. <<p, name, i>> \in LinkSet
  BY <1>1
<1>3. \E k, s, e : Now(p, k, s, e) /\ e.name = name
  BY <1>2, LinksNow
<1>. QED BY <1>3 DEF Vacant

(* The inodes keep their kinds in a step that keeps the bitmap.             *)
LEMMA KindsKept ==
  ASSUME IInv, ibits' = ibits, TypesKept
  PROVE  KindOf(inode', ibits') = Kind
<1>1. \A i \in ibits : inode'[i].type = inode[i].type
  BY DEF TypesKept
<1>. QED BY <1>1 DEF Kind, KindOf

(* A quiet step is none, and leaves names unique.                           *)
LEMMA QuietRefines ==
  ASSUME IInv, IInv', NamesUnique, Quiet
  PROVE  NamesUnique' /\ UNCHANGED NS!vars
<1>. DEFINE L2 == LinksOf(inode', content', ibits')
<1>1. /\ ibits' = ibits /\ TypesKept
      /\ \A d, l, t, x : Then(d, l, t, x) <=> Now(d, l, t, x)
  BY DEF Quiet
<1>2. L2 = LinkSet
  <2>1. ASSUME NEW d, NEW nm, NEW i PROVE <<d, nm, i>> \in L2 <=> <<d, nm, i>> \in LinkSet
    <3>1. <<d, nm, i>> \in LinkSet <=>
            \E k, s, e : Now(d, k, s, e) /\ IsNamed(e) /\ e.name = nm /\ e.ino = i
      BY LinksNow
    <3>2. <<d, nm, i>> \in L2 <=>
            \E k, s, e : Then(d, k, s, e) /\ IsNamed(e) /\ e.name = nm /\ e.ino = i
      BY LinksThen
    <3>. QED BY <1>1, <3>1, <3>2
  <2>2. /\ \A y \in L2 : \E d, nm, i : y = <<d, nm, i>>
        /\ \A y \in LinkSet : \E d, nm, i : y = <<d, nm, i>>
    BY LinksNow, LinksThen
  <2>. HIDE DEF L2
  <2>. QED BY <2>1, <2>2
<1>3. UNCHANGED NS!vars
  BY <1>1, <1>2, KindsKept, AbstractSteps
<1>4. \A d, k, s, e : Now(d, k, s, e)' <=> Now(d, k, s, e)
  BY <1>1 DEF Now, Then, Holds
<1>5. NamesUnique'
  BY <1>4 DEF NamesUnique, IsNamed
<1>. QED BY <1>3, <1>5

(* A node is created under a name.                                          *)
LEMMA CreatesRefines ==
  ASSUME IInv, IInv', NamesUnique, "reuse_name" \notin Risky,
         NEW p, NEW i, NEW name \in Names, NEW type \in Types, Creates(p, name, i, type)
  PROVE  NamesUnique' /\ NS!Next
<1>. DEFINE L2 == LinksOf(inode', content', ibits')
            K2 == KindOf(inode', ibits')
            new == Entry(name, i, type)
<1>1. /\ p \in Inode /\ p \in ibits /\ inode[p].type = "directory" /\ Vacant(p, name)
      /\ i \in Inode \ ibits /\ ibits' = ibits \cup {i} /\ inode'[i].type = type /\ TypesKept
      /\ ibits \in SUBSET Inode
  BY Typed DEF IInv, Creates, Directories
<1>2. PICK k, s : \A d, l, t, x : Then(d, l, t, x) <=>
                    \/ Now(d, l, t, x)
                    \/ d = p /\ l = k /\ t = s /\ x = new
                    \/ type = "directory" /\ IsDot(i, p, d, l, t, x)
  BY Zenon DEF Creates
<1>3. IsNamed(new) /\ new.ino = i /\ new.name = name /\ name \notin {".", ".."}
  BY <1>1, EntryNamed, FormatAssumption DEF Entry
<1>4. \A d, l, t, x : IsDot(i, p, d, l, t, x) => x.name \in {".", ".."} /\ ~IsNamed(x)
  BY DEF IsDot, Entry, IsNamed
<1>. HIDE DEF new
<1>5. \A d, l, t, x : IsNamed(x) => (Then(d, l, t, x) <=> \/ Now(d, l, t, x)
                                                          \/ d = p /\ l = k /\ t = s /\ x = new)
  BY <1>2, <1>4
<1>6. L2 = LinkSet \cup {<<p, name, i>>}
  <2>1. ASSUME NEW d, NEW nm, NEW j
        PROVE  <<d, nm, j>> \in L2 <=> <<d, nm, j>> \in LinkSet \/ (d = p /\ nm = name /\ j = i)
    <3>1. <<d, nm, j>> \in LinkSet <=>
            \E l, t, x : Now(d, l, t, x) /\ IsNamed(x) /\ x.name = nm /\ x.ino = j
      BY LinksNow
    <3>2. <<d, nm, j>> \in L2 <=>
            \E l, t, x : Then(d, l, t, x) /\ IsNamed(x) /\ x.name = nm /\ x.ino = j
      BY LinksThen
    <3>. HIDE DEF L2
    <3>. QED BY <1>3, <1>5, <3>1, <3>2
  <2>2. /\ \A y \in L2 : \E d, nm, j : y = <<d, nm, j>>
        /\ \A y \in LinkSet : \E d, nm, j : y = <<d, nm, j>>
    BY LinksNow, LinksThen
  <2>. HIDE DEF L2
  <2>. QED BY <2>1, <2>2
<1>7. K2 = [Kind EXCEPT ![i] = type] /\ Kind[i] = "none" /\ Kind[p] = "directory"
  <2>1. \A j \in ibits : inode'[j].type = inode[j].type
    BY <1>1 DEF TypesKept
  <2>. QED BY <1>1, <2>1 DEF Kind, KindOf
<1>8. \A l \in LinkSet : ~(l[1] = p /\ l[2] = name)
  BY <1>1, VacantFree
<1>. HIDE DEF K2, L2
<1>9. NS!Create(p, name, i, type)
  BY <1>6, <1>7, <1>8, AbstractSteps DEF K2, L2
<1>10. NS!Next
  BY <1>1, <1>9 DEF NS!Next, NS!Kinds, Types
<1>11. ASSUME NEW d, NEW l, NEW t, NEW x, NEW l2, NEW t2, NEW x2,
              Then(d, l, t, x), IsNamed(x), Then(d, l2, t2, x2), x2.name = x.name
       PROVE  l = l2 /\ t = t2
  <2>1. \/ Now(d, l, t, x)
        \/ d = p /\ l = k /\ t = s /\ x = new
    BY <1>5, <1>11
  <2>2. \/ Now(d, l2, t2, x2)
        \/ d = p /\ l2 = k /\ t2 = s /\ x2 = new
    BY <1>2, <1>4, <1>11 DEF IsNamed
  <2>3. \A a, b, y : Now(p, a, b, y) => y.name # name
    BY <1>1 DEF Vacant
  <2>. QED BY <1>3, <1>11, <2>1, <2>2, <2>3 DEF NamesUnique
<1>12. NamesUnique'
  <2>1. \A d, l, t, x : Now(d, l, t, x)' <=> Then(d, l, t, x)
    BY DEF Now, Then, Holds
  <2>2. \A x : IsNamed(x)' <=> IsNamed(x)
    BY DEF IsNamed
  <2>. QED BY <1>11, <2>1, <2>2 DEF NamesUnique
<1>. QED BY <1>10, <1>12

(* A file gets a further name.                                              *)
LEMMA LinksRefines ==
  ASSUME IInv, IInv', NamesUnique, "reuse_name" \notin Risky,
         NEW p, NEW i, NEW name \in Names, Links(i, p, name)
  PROVE  NamesUnique' /\ NS!Next
<1>. DEFINE L2 == LinksOf(inode', content', ibits')
            K2 == KindOf(inode', ibits')
            new == Entry(name, i, "file")
<1>1. /\ p \in Inode /\ p \in ibits /\ inode[p].type = "directory" /\ Vacant(p, name)
      /\ i \in Inode /\ i \in ibits /\ inode[i].type = "file" /\ ibits' = ibits /\ TypesKept
  BY Typed DEF IInv, Links, Directories
<1>2. PICK k, s : \A d, l, t, x : Then(d, l, t, x) <=> \/ Now(d, l, t, x)
                                                       \/ d = p /\ l = k /\ t = s /\ x = new
  BY DEF Links, Adds
<1>3. IsNamed(new) /\ new.ino = i /\ new.name = name
  BY <1>1, EntryNamed DEF Entry, Types
<1>. HIDE DEF new
<1>4. L2 = LinkSet \cup {<<p, name, i>>}
  <2>1. ASSUME NEW d, NEW nm, NEW j
        PROVE  <<d, nm, j>> \in L2 <=> <<d, nm, j>> \in LinkSet \/ (d = p /\ nm = name /\ j = i)
    <3>1. <<d, nm, j>> \in LinkSet <=>
            \E l, t, x : Now(d, l, t, x) /\ IsNamed(x) /\ x.name = nm /\ x.ino = j
      BY LinksNow
    <3>2. <<d, nm, j>> \in L2 <=>
            \E l, t, x : Then(d, l, t, x) /\ IsNamed(x) /\ x.name = nm /\ x.ino = j
      BY LinksThen
    <3>. HIDE DEF L2
    <3>. QED BY <1>2, <1>3, <3>1, <3>2
  <2>2. /\ \A y \in L2 : \E d, nm, j : y = <<d, nm, j>>
        /\ \A y \in LinkSet : \E d, nm, j : y = <<d, nm, j>>
    BY LinksNow, LinksThen
  <2>. HIDE DEF L2
  <2>. QED BY <2>1, <2>2
<1>5. K2 = Kind /\ Kind[i] = "file" /\ Kind[p] = "directory"
  BY <1>1, KindsKept DEF Kind, KindOf
<1>6. \A l \in LinkSet : ~(l[1] = p /\ l[2] = name)
  BY <1>1, VacantFree
<1>. HIDE DEF K2, L2
<1>7. NS!Link(i, p, name)
  BY <1>4, <1>5, <1>6, AbstractSteps DEF K2, L2
<1>8. NS!Next
  BY <1>1, <1>7 DEF NS!Next
<1>9. ASSUME NEW d, NEW l, NEW t, NEW x, NEW l2, NEW t2, NEW x2,
             Then(d, l, t, x), IsNamed(x), Then(d, l2, t2, x2), x2.name = x.name
      PROVE  l = l2 /\ t = t2
  <2>1. \A a, b, y : Now(p, a, b, y) => y.name # name
    BY <1>1 DEF Vacant
  <2>. QED BY <1>2, <1>3, <1>9, <2>1 DEF NamesUnique
<1>10. NamesUnique'
  <2>1. \A d, l, t, x : Now(d, l, t, x)' <=> Then(d, l, t, x)
    BY DEF Now, Then, Holds
  <2>2. \A x : IsNamed(x)' <=> IsNamed(x)
    BY DEF IsNamed
  <2>. QED BY <1>9, <2>1, <2>2 DEF NamesUnique
<1>. QED BY <1>8, <1>10

(* A name goes, and the node exactly if it was the last one.                *)
LEMMA RemovesRefines ==
  ASSUME IInv, IInv', NamesUnique, NEW p, NEW k, NEW s, NEW e, Removes(p, k, s, e)
  PROVE  NamesUnique' /\ NS!Next
<1>. DEFINE L2 == LinksOf(inode', content', ibits')
            K2 == KindOf(inode', ibits')
            i == e.ino
            name == e.name
<1>1. /\ Now(p, k, s, e) /\ IsNamed(e) /\ TypesKept
      /\ inode[i].type = "directory" => \A l, t, x : Now(i, l, t, x) => ~IsNamed(x)
      /\ ibits' = IF LastLink(i) THEN ibits \ {i} ELSE ibits
      /\ \A d, l, t, x : Then(d, l, t, x) <=> /\ Now(d, l, t, x) /\ d \in ibits'
                                              /\ ~(d = p /\ l = k /\ t = s)
  BY DEF Removes
<1>2. /\ i \in ibits /\ i \in Inode /\ name \in Names /\ p \in Inode
      /\ inode \in [Inode -> INodes] /\ Counted(inode, content, ibits)
  BY <1>1, NamedAllocated, Typed DEF IInv, Now, Holds, NamesCounted
<1>. HIDE DEF i, name
<1>3. \A l, t, x : Now(i, l, t, x) => ~IsNamed(x)
  BY <1>1 DEF Now, Holds
<1>4. ASSUME NEW d, NEW l, NEW t, NEW x, IsNamed(x)
      PROVE  Then(d, l, t, x) <=> Now(d, l, t, x) /\ ~(d = p /\ l = k /\ t = s)
  <2>1. Now(d, l, t, x) => d \in ibits /\ d # i
    BY <1>3, <1>4 DEF Now, Holds
  <2>. QED BY <1>1, <2>1
<1>5. <<p, name, i>> \in LinkSet
  BY <1>1, LinksNow DEF i, name
<1>6. \A l \in LinkSet : l[1] # i
  <2>. SUFFICES ASSUME NEW l \in LinkSet, l[1] = i PROVE FALSE
    OBVIOUS
  <2>1. PICK d, nm, j : l = <<d, nm, j>>
    BY LinksNow
  <2>2. <<i, nm, j>> \in LinkSet
    BY <2>1
  <2>3. \E g, u, x : Now(i, g, u, x) /\ IsNamed(x)
    BY <2>2, LinksNow
  <2>. QED BY <1>3, <2>3
<1>7. L2 = LinkSet \ {<<p, name, i>>}
  <2>1. ASSUME NEW d, NEW nm, NEW j
        PROVE  <<d, nm, j>> \in L2 <=> <<d, nm, j>> \in LinkSet /\ ~(d = p /\ nm = name /\ j = i)
    <3>1. <<d, nm, j>> \in LinkSet <=>
            \E l, t, x : Now(d, l, t, x) /\ IsNamed(x) /\ x.name = nm /\ x.ino = j
      BY LinksNow
    <3>2. <<d, nm, j>> \in L2 <=>
            \E l, t, x : Then(d, l, t, x) /\ IsNamed(x) /\ x.name = nm /\ x.ino = j
      BY LinksThen
    <3>. HIDE DEF L2
    <3>3. ASSUME <<d, nm, j>> \in L2 PROVE <<d, nm, j>> \in LinkSet /\ ~(d = p /\ nm = name /\ j = i)
      <4>1. PICK l, t, x : Then(d, l, t, x) /\ IsNamed(x) /\ x.name = nm /\ x.ino = j
        BY <3>2, <3>3
      <4>2. Now(d, l, t, x) /\ ~(d = p /\ l = k /\ t = s)
        BY <1>4, <4>1
      <4>3. d = p => nm # name
        BY <1>1, <4>1, <4>2 DEF NamesUnique, name
      <4>. QED BY <3>1, <4>1, <4>2, <4>3
    <3>4. ASSUME <<d, nm, j>> \in LinkSet, ~(d = p /\ nm = name /\ j = i) PROVE <<d, nm, j>> \in L2
      <4>1. PICK l, t, x : Now(d, l, t, x) /\ IsNamed(x) /\ x.name = nm /\ x.ino = j
        BY <3>1, <3>4
      <4>2. ~(d = p /\ l = k /\ t = s)
        BY <1>1, <3>4, <4>1, OneRecord DEF i, name
      <4>. QED BY <1>4, <3>2, <4>1, <4>2
    <3>. QED BY <3>3, <3>4
  <2>2. /\ \A y \in L2 : \E d, nm, j : y = <<d, nm, j>>
        /\ \A y \in LinkSet : \E d, nm, j : y = <<d, nm, j>>
    BY LinksNow, LinksThen
  <2>. HIDE DEF L2
  <2>. QED BY <2>1, <2>2
<1>8. (\E l \in L2 : l[3] = i) <=> ~LastLink(i)
  <2>1. CASE LastLink(i)
    <3>. SUFFICES ASSUME NEW l \in L2, l[3] = i PROVE FALSE
      BY <2>1
    <3>1. PICK d, nm, j : l = <<d, nm, j>>
      BY LinksThen
    <3>2. <<d, nm, i>> \in L2
      BY <3>1
    <3>3. PICK g, u, x : Then(d, g, u, x) /\ IsNamed(x) /\ x.ino = i
      BY <3>2, LinksThen
    <3>4. i \in ibits'
      BY <3>3, NamedAllocatedNext
    <3>. QED BY <1>1, <2>1, <3>4
  <2>2. CASE ~LastLink(i)
    <3>. DEFINE N == Naming(inode, content, ibits, i)
                r == <<p, <<k, s>>>>
    <3>1. r \in N
      BY <1>1, RefHeld, NamingIs DEF Now, i
    <3>2. inode[i].links > 1
      BY <1>2, <2>2 DEF LastLink, INodes
    <3>3. N \ {r} # {}
      BY <1>2, <3>1, <3>2, OrphansLess
    <3>4. PICK y \in N : y # r
      BY <3>3
    <3>5. PICK d, l, t : y = <<d, <<l, t>>>>
      BY <3>4, NamingIs
    <3>6. PICK x : Now(d, l, t, x) /\ IsNamed(x) /\ x.ino = i
      BY <3>4, <3>5, RefHeld, NamingIs DEF Now
    <3>7. Then(d, l, t, x)
      BY <1>4, <3>4, <3>5, <3>6
    <3>8. <<d, x.name, i>> \in L2
      BY <3>6, <3>7, LinksThen
    <3>. HIDE DEF L2
    <3>. QED BY <2>2, <3>8
  <2>. QED BY <2>1, <2>2
<1>9. K2 = [Kind EXCEPT ![i] = IF \E l \in L2 : l[3] = i THEN @ ELSE "none"]
  <2>1. K2 = [Kind EXCEPT ![i] = IF LastLink(i) THEN "none" ELSE @]
    <3>1. \A j \in ibits' : j \in ibits /\ inode'[j].type = inode[j].type
      BY <1>1 DEF TypesKept
    <3>. QED BY <1>1, <1>2, <3>1 DEF Kind, KindOf
  <2>. HIDE DEF K2, L2
  <2>. QED BY <1>8, <2>1
<1>. HIDE DEF K2, L2
<1>10. NS!Remove(p, name, i)
  BY <1>5, <1>6, <1>7, <1>9, AbstractSteps DEF K2, L2
<1>11. NS!Next
  BY <1>2, <1>10 DEF NS!Next
<1>12. NamesUnique'
  <2>1. \A d, l, t, x : Now(d, l, t, x)' <=> Then(d, l, t, x)
    BY DEF Now, Then, Holds
  <2>2. \A x : IsNamed(x)' <=> IsNamed(x)
    BY DEF IsNamed
  <2>3. \A d, l, t, x : Then(d, l, t, x) => Now(d, l, t, x)
    BY <1>1
  <2>. QED BY <2>1, <2>2, <2>3 DEF NamesUnique
<1>. QED BY <1>11, <1>12

(* A file or a symbolic link moves.                                         *)
LEMMA MovesRefines ==
  ASSUME IInv, IInv', NamesUnique, NEW p, NEW k, NEW s, NEW e, NEW q, NEW newname \in Names,
         Moves(p, k, s, e, q, newname)
  PROVE  NamesUnique' /\ NS!Next
<1>. DEFINE L2 == LinksOf(inode', content', ibits')
            K2 == KindOf(inode', ibits')
            i == e.ino
            name == e.name
            new == Entry(newname, i, "file")
<1>1. /\ Now(p, k, s, e) /\ IsNamed(e) /\ ibits' = ibits /\ TypesKept
      /\ q \in Inode /\ q \in ibits /\ inode[q].type = "directory" /\ Vacant(q, newname)
  BY Typed DEF IInv, Moves, Directories
<1>2. PICK g, u : /\ \A x : ~Now(q, g, u, x)
                  /\ \A d, l, t, x : Then(d, l, t, x) <=>
                       \/ Now(d, l, t, x) /\ ~(d = p /\ l = k /\ t = s)
                       \/ d = q /\ l = g /\ t = u /\ x = new
  BY DEF Moves, Shifts
<1>3. i \in ibits /\ i \in Inode /\ name \in Names /\ p \in Inode
  BY <1>1, NamedAllocated, Typed DEF IInv, Now, Holds
<1>. HIDE DEF i, name
<1>4. IsNamed(new) /\ new.ino = i /\ new.name = newname
  BY <1>3, EntryNamed DEF Entry, Types
<1>. HIDE DEF new
<1>5. <<p, name, i>> \in LinkSet
  BY <1>1, LinksNow DEF i, name
<1>6. L2 = (LinkSet \ {<<p, name, i>>}) \cup {<<q, newname, i>>}
  <2>1. ASSUME NEW d, NEW nm, NEW j
        PROVE  <<d, nm, j>> \in L2 <=>
                 \/ <<d, nm, j>> \in LinkSet /\ ~(d = p /\ nm = name /\ j = i)
                 \/ d = q /\ nm = newname /\ j = i
    <3>1. <<d, nm, j>> \in LinkSet <=>
            \E l, t, x : Now(d, l, t, x) /\ IsNamed(x) /\ x.name = nm /\ x.ino = j
      BY LinksNow
    <3>2. <<d, nm, j>> \in L2 <=>
            \E l, t, x : Then(d, l, t, x) /\ IsNamed(x) /\ x.name = nm /\ x.ino = j
      BY LinksThen
    <3>. HIDE DEF L2
    <3>3. ASSUME <<d, nm, j>> \in L2
          PROVE  \/ <<d, nm, j>> \in LinkSet /\ ~(d = p /\ nm = name /\ j = i)
                 \/ d = q /\ nm = newname /\ j = i
      <4>1. PICK l, t, x : Then(d, l, t, x) /\ IsNamed(x) /\ x.name = nm /\ x.ino = j
        BY <3>2, <3>3
      <4>2. CASE Now(d, l, t, x) /\ ~(d = p /\ l = k /\ t = s)
        <5>1. d = p => nm # name
          BY <1>1, <4>1, <4>2 DEF NamesUnique, name
        <5>. QED BY <3>1, <4>1, <4>2, <5>1
      <4>3. CASE d = q /\ x = new
        BY <1>4, <4>1, <4>3
      <4>. QED BY <1>2, <4>1, <4>2, <4>3
    <3>4. ASSUME <<d, nm, j>> \in LinkSet, ~(d = p /\ nm = name /\ j = i) PROVE <<d, nm, j>> \in L2
      <4>1. PICK l, t, x : Now(d, l, t, x) /\ IsNamed(x) /\ x.name = nm /\ x.ino = j
        BY <3>1, <3>4
      <4>2. ~(d = p /\ l = k /\ t = s)
        BY <1>1, <3>4, <4>1, OneRecord DEF i, name
      <4>. QED BY <1>2, <3>2, <4>1, <4>2
    <3>5. ASSUME d = q, nm = newname, j = i PROVE <<d, nm, j>> \in L2
      <4>1. Then(q, g, u, new)
        BY <1>2
      <4>. QED BY <1>4, <3>2, <3>5, <4>1
    <3>. QED BY <3>3, <3>4, <3>5
  <2>2. /\ \A y \in L2 : \E d, nm, j : y = <<d, nm, j>>
        /\ \A y \in LinkSet : \E d, nm, j : y = <<d, nm, j>>
    BY LinksNow, LinksThen
  <2>. HIDE DEF L2
  <2>. QED BY <2>1, <2>2
<1>7. K2 = Kind /\ Kind[q] = "directory"
  BY <1>1, KindsKept DEF Kind, KindOf
<1>8. \A l \in LinkSet : ~(l[1] = q /\ l[2] = newname)
  BY <1>1, VacantFree
<1>. HIDE DEF K2, L2
<1>9. NS!Move(p, name, q, newname, i)
  BY <1>5, <1>6, <1>7, <1>8, AbstractSteps DEF K2, L2
<1>10. NS!Next
  BY <1>1, <1>3, <1>9 DEF NS!Next
<1>11. ASSUME NEW d, NEW l, NEW t, NEW x, NEW l2, NEW t2, NEW x2,
              Then(d, l, t, x), IsNamed(x), Then(d, l2, t2, x2), x2.name = x.name
       PROVE  l = l2 /\ t = t2
  <2>1. \A a, b, y : Now(q, a, b, y) => y.name # newname
    BY <1>1 DEF Vacant
  <2>2. Now(d, l, t, x) \/ (d = q /\ l = g /\ t = u /\ x = new)
    BY <1>2, <1>11
  <2>3. Now(d, l2, t2, x2) \/ (d = q /\ l2 = g /\ t2 = u /\ x2 = new)
    BY <1>2, <1>11
  <2>. QED BY <1>4, <1>11, <2>1, <2>2, <2>3 DEF NamesUnique
<1>12. NamesUnique'
  <2>1. \A d, l, t, x : Now(d, l, t, x)' <=> Then(d, l, t, x)
    BY DEF Now, Then, Holds
  <2>2. \A x : IsNamed(x)' <=> IsNamed(x)
    BY DEF IsNamed
  <2>. QED BY <1>11, <2>1, <2>2 DEF NamesUnique
<1>. QED BY <1>10, <1>12

(* The formatted device is the empty name space.                            *)
LEMMA InitRefines ==
  ASSUME Init
  PROVE  NamesUnique /\ NS!Init
<1>1. ASSUME NEW d, NEW k, NEW s, NEW e, Now(d, k, s, e) PROVE ~IsNamed(e)
  BY <1>1, InitRecords DEF IsDot, Entry, IsNamed
<1>2. NamesUnique
  BY <1>1 DEF NamesUnique
<1>3. LinkSet = {}
  <2>. SUFFICES ASSUME NEW y \in LinkSet PROVE FALSE
    OBVIOUS
  <2>1. PICK d, nm, i : y = <<d, nm, i>>
    BY InitInv, LinksNow
  <2>2. \E k, s, e : Now(d, k, s, e) /\ IsNamed(e)
    BY <2>1, InitInv, LinksNow
  <2>. QED BY <1>1, <2>2
<1>4. Kind = [x \in Inode |-> IF x = Root THEN "directory" ELSE "none"]
  <2>1. ibits = {Root} /\ inode[Root].type = "directory"
    BY FormatAssumption DEF Init, NewInode, Inode, Root
  <2>. QED BY <2>1 DEF Kind, KindOf
<1>. QED BY <1>2, <1>3, <1>4, MappingIs DEF NS!Init

(* Every step that is not a refused create is a step of the name space, or  *)
(* none.                                                                    *)
LEMMA NextRefines ==
  ASSUME Risky \subseteq {"rename_symlink"}, IInv, NamesUnique, [Next]_vars, [~Refusal]_vars
  PROVE  IInv' /\ NamesUnique' /\ [NS!Next]_(NS!vars)
<1>1. IInv'
  BY NextInv
<1>2. Changes
  <2>1. CASE UNCHANGED vars
    BY <2>1, QuietSame DEF vars, Changes
  <2>2. CASE ~Refusal
    BY <2>2, CallChanges
  <2>. QED BY <2>1, <2>2
<1>3. NamesUnique' /\ [NS!Next]_(NS!vars)
  BY <1>1, <1>2, QuietRefines, CreatesRefines, LinksRefines, RemovesRefines, MovesRefines
  DEF Changes
<1>. QED BY <1>1, <1>3

(* As long as the caller deletes no open file, takes no file for a          *)
(* directory, gives no name twice, links no symbolic link and renames no    *)
(* directory, and no directory is at the limit of its block pointers, every *)
(* call adds, removes or moves one link or changes no name at all; a failed *)
(* call, an open, a write and a mount are among the latter.  A node goes    *)
(* exactly with its last link, and only a directory without entries goes.   *)
THEOREM NamespaceImplemented ==
  ASSUME Risky \subseteq {"rename_symlink"}
  PROVE  Spec /\ [][~Refusal]_vars => ImplementsNamespace
<1>1. Init => IInv /\ NamesUnique /\ NS!Init
  BY InitInv, InitRefines
<1>2. IInv /\ NamesUnique /\ [Next]_vars /\ [~Refusal]_vars
        => IInv' /\ NamesUnique' /\ [NS!Next]_(NS!vars)
  BY NextRefines
<1>. QED BY <1>1, <1>2, PTL DEF Spec, ImplementsNamespace, NS!Spec

(* On a device with no more data blocks than an inode can have, no          *)
(* directory gets to that limit.                                            *)
THEOREM NamespaceAlways ==
  ASSUME Risky \subseteq {"rename_symlink"}, ND <= MaxBlocks
  PROVE  Spec => ImplementsNamespace
<1>1. Init => IInv /\ NamesUnique /\ NS!Init
  BY InitInv, InitRefines
<1>2. IInv /\ NamesUnique /\ [Next]_vars => IInv' /\ NamesUnique' /\ [NS!Next]_(NS!vars)
  <2>1. IInv => ~Refusal
    BY NeverRefused DEF Refusal
  <2>. QED BY <2>1, NextRefines
<1>. QED BY <1>1, <1>2, PTL DEF Spec, ImplementsNamespace, NS!Spec

-----------------------------------------------------------------------------
(* Heads                                                                    *)

(* A directory begins with its `.', no record outside the first two of the  *)
(* first block is called `.' or `..', and a name of type symlink leads to a *)
(* symbolic link, which is where check_integrity() does not look.           *)
Heads(n, c, ib) ==
  /\ \A d \in ib : n[d].type = "directory" => \E e : Holds(n, c, ib, d, 1, 1, e) /\ ~IsNamed(e)
  /\ \A d, k, s, e : Holds(n, c, ib, d, k, s, e) /\ ~IsNamed(e) =>
                       k = 1 /\ s \in {1, 2} /\ e.type = "directory"
  /\ \A d, k, s, e : Holds(n, c, ib, d, k, s, e) /\ IsNamed(e) /\ e.type = "symlink" =>
                       n[e.ino].type = "symlink"

DInv == IInv /\ Heads(inode, content, ibits)

(* What all calls have in common: the heads of directories stay, a new      *)
(* directory has one, and a new name of type symlink is that of a link.     *)
HeadsStay ==
  /\ TypesKept
  /\ \A d, k, s, e : Now(d, k, s, e) /\ ~IsNamed(e) /\ d \in ibits' => Then(d, k, s, e)
  /\ \A d \in ibits' \ ibits : inode'[d].type = "directory" => \E e : Then(d, 1, 1, e) /\ ~IsNamed(e)
  /\ \A d, k, s, e : Then(d, k, s, e) /\ ~IsNamed(e) =>
                       Now(d, k, s, e) \/ (k = 1 /\ s \in {1, 2} /\ e.type = "directory")
  /\ \A d, k, s, e : Then(d, k, s, e) /\ IsNamed(e) /\ e.type = "symlink" =>
                       Now(d, k, s, e) \/ inode'[e.ino].type = "symlink"

(* That is enough to keep the invariant.                                    *)
LEMMA HeadsKept ==
  ASSUME IInv, IInv', Heads(inode, content, ibits), HeadsStay
  PROVE  Heads(inode', content', ibits')
<1>1. ASSUME NEW d \in ibits', inode'[d].type = "directory"
      PROVE  \E e : Then(d, 1, 1, e) /\ ~IsNamed(e)
  <2>1. CASE d \in ibits
    <3>1. inode[d].type = "directory"
      BY <1>1, <2>1 DEF HeadsStay, TypesKept
    <3>2. PICK e : Now(d, 1, 1, e) /\ ~IsNamed(e)
      BY <2>1, <3>1 DEF Heads, Now
    <3>. QED BY <3>2 DEF HeadsStay
  <2>2. CASE d \notin ibits
    BY <1>1, <2>2 DEF HeadsStay
  <2>. QED BY <2>1, <2>2
<1>2. ASSUME NEW d, NEW k, NEW s, NEW e, Then(d, k, s, e), ~IsNamed(e)
      PROVE  k = 1 /\ s \in {1, 2} /\ e.type = "directory"
  BY <1>2 DEF HeadsStay, Heads, Now
<1>3. ASSUME NEW d, NEW k, NEW s, NEW e, Then(d, k, s, e), IsNamed(e), e.type = "symlink"
      PROVE  inode'[e.ino].type = "symlink"
  <2>. SUFFICES ASSUME Now(d, k, s, e) PROVE inode'[e.ino].type = "symlink"
    BY <1>3 DEF HeadsStay
  <2>1. e.ino \in ibits /\ e.ino \in ibits'
    BY <1>3, NamedAllocated, NamedAllocatedNext
  <2>2. inode[e.ino].type = "symlink"
    BY <1>3 DEF Heads, Now
  <2>. QED BY <2>1, <2>2 DEF HeadsStay, TypesKept
<1>. QED BY <1>1, <1>2, <1>3 DEF Heads, Then

(* No record changes.                                                       *)
LEMMA QuietHeads ==
  ASSUME Quiet
  PROVE  HeadsStay
BY DEF Quiet, HeadsStay

(* Records with names come and go.                                          *)
LEMMA AddsHeads ==
  ASSUME ibits' = ibits, TypesKept, NEW p, NEW e, IsNamed(e), e.type = "file", Adds(p, e)
  PROVE  HeadsStay
<1>1. PICK k, s : \A d, l, t, x : Then(d, l, t, x) <=>
                    \/ Now(d, l, t, x)
                    \/ d = p /\ l = k /\ t = s /\ x = e
  BY DEF Adds
<1>2. \A d, l, t, x : Then(d, l, t, x) /\ ~IsNamed(x) => Now(d, l, t, x)
  BY <1>1
<1>3. \A d, l, t, x : Now(d, l, t, x) => Then(d, l, t, x)
  BY <1>1
<1>4. \A d, l, t, x : Then(d, l, t, x) /\ x.type = "symlink" => Now(d, l, t, x)
  BY <1>1
<1>. QED BY <1>2, <1>3, <1>4 DEF HeadsStay

(* A record with a name moves.                                              *)
LEMMA ShiftsHeads ==
  ASSUME ibits' = ibits, TypesKept, NEW p, NEW k, NEW s, NEW e, Now(p, k, s, e), IsNamed(e),
         NEW q, NEW new, IsNamed(new), new.type = "file", Shifts(p, k, s, q, new)
  PROVE  HeadsStay
<1>1. PICK g, u : /\ \A x : ~Now(q, g, u, x)
                  /\ \A d, l, t, x : Then(d, l, t, x) <=>
                       \/ Now(d, l, t, x) /\ ~(d = p /\ l = k /\ t = s)
                       \/ d = q /\ l = g /\ t = u /\ x = new
  BY DEF Shifts
<1>2. \A d, l, t, x : Then(d, l, t, x) /\ ~IsNamed(x) => Now(d, l, t, x)
  BY <1>1
<1>3. ASSUME NEW d, NEW l, NEW t, NEW x, Now(d, l, t, x), ~IsNamed(x)
      PROVE  Then(d, l, t, x)
  <2>1. ~(d = p /\ l = k /\ t = s)
    BY <1>3, OneRecord
  <2>. QED BY <1>1, <1>3, <2>1
<1>4. \A d, l, t, x : Then(d, l, t, x) /\ x.type = "symlink" => Now(d, l, t, x)
  BY <1>1
<1>. QED BY <1>2, <1>3, <1>4 DEF HeadsStay

(* A record with a name goes, and maybe a directory with its head.          *)
LEMMA RemovesHeads ==
  ASSUME NEW p, NEW k, NEW s, NEW e, Removes(p, k, s, e)
  PROVE  HeadsStay
<1>1. /\ \A d, l, t, x : Then(d, l, t, x) <=> /\ Now(d, l, t, x) /\ d \in ibits'
                                              /\ ~(d = p /\ l = k /\ t = s)
      /\ Now(p, k, s, e) /\ IsNamed(e) /\ TypesKept /\ ibits' \subseteq ibits
  BY DEF Removes
<1>2. \A d, l, t, x : Then(d, l, t, x) => Now(d, l, t, x)
  BY <1>1
<1>3. \A d, l, t, x : Now(d, l, t, x) /\ ~IsNamed(x) /\ d \in ibits' => Then(d, l, t, x)
  BY <1>1, OneRecord
<1>4. \A d \in ibits' \ ibits : FALSE
  BY <1>1
<1>. QED BY <1>1, <1>2, <1>3, <1>4 DEF HeadsStay

(* A new node, with or without a name.                                      *)
LEMMA NodeHeads ==
  ASSUME NEW i, NEW p, NEW type, ibits' = ibits \cup {i}, inode'[i].type = type, TypesKept,
         \A d, l, t, x : Now(d, l, t, x) => Then(d, l, t, x),
         \A d, l, t, x : type = "directory" /\ IsDot(i, p, d, l, t, x) => Then(d, l, t, x),
         \A d, l, t, x : Then(d, l, t, x) /\ ~IsNamed(x) =>
            Now(d, l, t, x) \/ IsDot(i, p, d, l, t, x),
         \A d, l, t, x : Then(d, l, t, x) /\ IsNamed(x) =>
            Now(d, l, t, x) \/ (x.type = type /\ x.ino = i)
  PROVE  HeadsStay
<1>. DEFINE dot == Entry(".", i, "directory")
<1>1. IsDot(i, p, i, 1, 1, dot) /\ ~IsNamed(dot)
  BY DEF IsDot, IsNamed, Entry
<1>2. \A d, l, t, x : IsDot(i, p, d, l, t, x) => l = 1 /\ t \in {1, 2} /\ x.type = "directory"
  BY DEF IsDot, Entry
<1>. HIDE DEF dot
<1>3. type = "directory" => \E e : Then(i, 1, 1, e) /\ ~IsNamed(e)
  BY <1>1
<1>. QED BY <1>2, <1>3 DEF HeadsStay

(* A node is created under a name.                                          *)
LEMMA CreatesHeads ==
  ASSUME NEW p, NEW name \in Names, NEW i, NEW type \in Types, Creates(p, name, i, type)
  PROVE  HeadsStay
<1>. DEFINE new == Entry(name, i, type)
<1>1. i \in Inode /\ ibits' = ibits \cup {i} /\ inode'[i].type = type /\ TypesKept
  BY DEF Creates
<1>2. IsNamed(new)
  BY <1>1, EntryNamed
<1>3. PICK k, s : \A d, l, t, x : Then(d, l, t, x) <=>
                    \/ Now(d, l, t, x)
                    \/ d = p /\ l = k /\ t = s /\ x = new
                    \/ type = "directory" /\ IsDot(i, p, d, l, t, x)
  BY Zenon DEF Creates
<1>. HIDE DEF new
<1>4. \A d, l, t, x : Now(d, l, t, x) => Then(d, l, t, x)
  BY <1>3
<1>5. \A d, l, t, x : type = "directory" /\ IsDot(i, p, d, l, t, x) => Then(d, l, t, x)
  BY <1>3
<1>6. \A d, l, t, x : Then(d, l, t, x) /\ ~IsNamed(x) =>
                        Now(d, l, t, x) \/ IsDot(i, p, d, l, t, x)
  BY <1>2, <1>3
<1>7. \A d, l, t, x : Then(d, l, t, x) /\ IsNamed(x) =>
                        Now(d, l, t, x) \/ (x.type = type /\ x.ino = i)
  <2>1. \A d, l, t, x : IsDot(i, p, d, l, t, x) => ~IsNamed(x)
    BY DEF IsDot, IsNamed, Entry
  <2>2. new.type = type /\ new.ino = i
    BY DEF new, Entry
  <2>. QED BY <1>3, <2>1, <2>2
<1>. QED BY ONLY <1>1, <1>4, <1>5, <1>6, <1>7, NodeHeads

(* A create that is refused leaves its new node without a name.             *)
LEMMA RefusedHeads ==
  ASSUME IInv, NEW p \in Directories, NEW name \in Names, NEW type \in Types,
         NEW H \in SUBSET Handles, Create(p, name, type, H), EntryRefused(p, type)
  PROVE  HeadsStay
<1>. DEFINE own    == IF type = "file" THEN 0 ELSE 1
            m      == EntryBlocks(p)
            nd     == own + m
            blocks == Data(nd)
            i      == Inodes(1)[1]
            mine   == SubSeq(blocks, 1, own)
            extra  == SubSeq(blocks, own + 1, own + m)
            b      == blocks[1]
            n2     == WithInode(inode, i, type, mine)
            c2     == Filled(type, content, b, i, p)
<1>1. /\ TypeOK /\ BlockOwnership /\ inode \in [Inode -> INodes] /\ content \in Contents
      /\ ibits \in SUBSET Inode /\ dbits \in SUBSET Block
      /\ Ownership(inode, dbits, ibits) /\ p \in ibits /\ p \in Inode
  BY Typed, OwnershipIs DEF IInv, Directories
<1>2. own \in {0, 1} /\ m \in Nat /\ nd \in Nat
  BY <1>1, EntryBlocksNat
<1>3. \/ InodesFull(nd) \/ DataFull(1, nd)
      \/ Allocated(1, nd) /\ inode' = n2 /\ content' = c2
  BY Zenon DEF Create, Filled, WithInode, EntryRefused
<1>4. CASE InodesFull(nd) \/ DataFull(1, nd)
  <2>1. Quiet
    BY <1>4, QuietSame DEF InodesFull, DataFull
  <2>. QED BY <2>1, QuietHeads
<1>5. CASE Allocated(1, nd) /\ inode' = n2 /\ content' = c2
  <2>1. /\ Inodes(1) \in Seq(Inode \ ibits) /\ Len(Inodes(1)) = 1
        /\ blocks \in Seq(Block \ dbits) /\ Len(blocks) = nd /\ IsInjective(blocks)
        /\ ibits' = ibits \cup Range(Inodes(1))
    <3>. HIDE DEF nd
    <3>. QED BY <1>1, <1>2, <1>5, AllocatedFresh, 1 \in Nat
  <2>2. i \in Inode \ ibits /\ ibits' = ibits \cup {i} /\ i # p
    BY <1>1, <2>1 DEF Range
  <2>. DEFINE S == Block \ dbits
  <2>. HIDE DEF own, m, blocks, i, S
  <2>3. blocks \in Seq(S) /\ IsInjective(blocks) /\ Len(blocks) = own + m
    BY <2>1 DEF S
  <2>4. /\ mine \in Seq(S) /\ IsInjective(mine)
        /\ own = 1 => mine = <<b>> /\ Range(mine) = {b} /\ b \in S
    BY <1>2, <2>3, BlocksSplit
  <2>. HIDE DEF mine, extra, b
  <2>5. OwnBlocks(type, mine, b, dbits)
    <3>1. mine \in Seq(Block) /\ Range(mine) \subseteq S
      BY <2>4, RangeOfSeq DEF S
    <3>. QED BY <2>4, <3>1 DEF S, own, OwnBlocks
  <2>6. Sound(inode, content, dbits, ibits)
    BY <1>1 DEF Sound
  <2>7. \A d, l, t, x : Then(d, l, t, x) <=>
          Now(d, l, t, x) \/ (type = "directory" /\ IsDot(i, p, d, l, t, x))
    <3>1. i \in Inode \ ibits /\ p \in Inode /\ ibits \in SUBSET Inode
      BY <1>1, <2>2
    <3>2. \A d, l, t, x :
            Holds(n2, c2, ibits \cup {i}, d, l, t, x) <=>
              \/ Holds(inode, content, ibits, d, l, t, x)
              \/ type = "directory" /\ IsDot(i, p, d, l, t, x)
      BY ONLY <2>5, <2>6, <3>1, type \in Types, NodeHolds
    <3>. HIDE DEF n2, c2
    <3>. QED BY <1>5, <2>2, <3>2 DEF Then, Now
  <2>8. inode'[i].type = type /\ TypesKept
    <3>1. inode'[i] = NewInode(type, mine) /\ \A d \in ibits : inode'[d] = inode[d]
      BY <1>1, <1>5, <2>2 DEF WithInode
    <3>. QED BY <1>1, <2>2, <3>1 DEF TypesKept, NewInode
  <2>. HIDE DEF n2, c2
  <2>9. \A d, l, t, x : Now(d, l, t, x) => Then(d, l, t, x)
    BY <2>7
  <2>10. \A d, l, t, x : type = "directory" /\ IsDot(i, p, d, l, t, x) => Then(d, l, t, x)
    BY <2>7
  <2>11. \A d, l, t, x : Then(d, l, t, x) /\ ~IsNamed(x) =>
                           Now(d, l, t, x) \/ IsDot(i, p, d, l, t, x)
    BY <2>7
  <2>12. \A d, l, t, x : Then(d, l, t, x) /\ IsNamed(x) =>
                           Now(d, l, t, x) \/ (x.type = type /\ x.ino = i)
    <3>1. \A d, l, t, x : IsDot(i, p, d, l, t, x) => ~IsNamed(x)
      BY DEF IsDot, IsNamed, Entry
    <3>. QED BY <2>7, <3>1
  <2>. QED BY ONLY <2>2, <2>8, <2>9, <2>10, <2>11, <2>12, NodeHeads
<1>. QED BY <1>3, <1>4, <1>5

(* After format() the root has its head.                                    *)
LEMMA InitHeads ==
  ASSUME Init
  PROVE  Heads(inode, content, ibits)
<1>1. Root \in Inode /\ 0 \in Block /\ 1 \in Slot
  BY FormatAssumption DEF Inode, Block, Root, Slot
<1>2. /\ inode[Root] = NewInode("directory", <<0>>) /\ ibits = {Root}
      /\ content[0][1] = Entry(".", Root, "directory")
  BY <1>1 DEF Init, NewDirectory
<1>. DEFINE e == Entry(".", Root, "directory")
<1>3. ~IsNamed(e) /\ e.ino # NoInode
  BY DEF IsNamed, Entry, Root, NoInode
<1>4. Now(Root, 1, 1, e)
  <2>1. inode[Root].type = "directory" /\ inode[Root].blocks = <<0>>
    BY <1>2 DEF NewInode
  <2>. HIDE DEF e
  <2>. QED BY <1>1, <1>2, <1>3, <2>1 DEF Now, Holds, e
<1>5. \A d, k, s, x : Now(d, k, s, x) => k = 1 /\ s \in {1, 2} /\ x.type = "directory"
  BY InitRecords DEF IsDot, Entry
<1>. HIDE DEF e
<1>. QED BY <1>2, <1>3, <1>4, <1>5 DEF Heads, Now

(* Every call keeps the heads, a refused create and the calls that leave    *)
(* entries of a wrong type included.                                        *)
LEMMA NextHeads ==
  ASSUME Risky \cap {"delete_open", "file_parent"} = {}, DInv, [Next]_vars
  PROVE  DInv'
<1>1. IInv' /\ IInv
  BY NextInv DEF DInv
<1>2. Parents = Directories
  BY DEF Parents
<1>3. "file" \in Types /\ "directory" \in Types /\ "symlink" \in Types
  BY DEF Types
<1>4. ASSUME NEW p \in Directories, NEW name \in Names,
             \/ \E type \in Types : create(p, name, type)
             \/ mknod(p, name) \/ mkdir(p, name) \/ symlink(p, name)
             \/ \E h \in Handles : create_open(p, name, h)
      PROVE  HeadsStay
  <2>1. \E type \in Types, H \in SUBSET Handles : Create(p, name, type, H)
    <3>1. CASE \E type \in Types : create(p, name, type)
      BY <3>1 DEF create
    <3>2. CASE mknod(p, name) \/ mkdir(p, name) \/ symlink(p, name)
      BY <1>3, <3>2 DEF mknod, mkdir, symlink, create_child
    <3>3. CASE \E h \in Handles : create_open(p, name, h)
      <4>1. PICK h \in Handles : create_open(p, name, h)
        BY <3>3
      <4>2. Create(p, name, "file", {h}) /\ {h} \in SUBSET Handles
        BY <4>1 DEF create_open, create_child
      <4>. QED BY <1>3, <4>2
    <3>. QED BY <1>4, <3>1, <3>2, <3>3
  <2>2. PICK type \in Types, H \in SUBSET Handles : Create(p, name, type, H)
    BY <2>1
  <2>3. Quiet \/ EntryRefused(p, type) \/ \E i : Creates(p, name, i, type)
    BY <1>1, <2>2, CreateChanges
  <2>. QED BY <1>1, <2>2, <2>3, QuietHeads, RefusedHeads, CreatesHeads
<1>5. ASSUME NEW p \in Directories, NEW name \in Names, NEW i \in ibits,
             create_hardlink(i, p, name) \/ link(i, p, name)
      PROVE  HeadsStay
  <2>1. Hardlink(i, p, name) /\ i # p
    BY <1>5 DEF create_hardlink, link, Directories
  <2>2. HardlinkFails(p) \/ LinkTo(i, p, name)
    BY <2>1, Zenon DEF Hardlink, LinkTo
  <2>3. CASE HardlinkFails(p)
    BY <1>1, <2>3, LinkFails, QuietHeads
  <2>4. CASE LinkTo(i, p, name)
    <3>1. ibits' = ibits /\ TypesKept /\ Adds(p, Entry(name, i, "file"))
      BY <1>1, <2>1, <2>4, LinkAdds
    <3>2. i \in Inode
      BY <1>1, Typed DEF IInv
    <3>3. IsNamed(Entry(name, i, "file"))
      BY <1>3, <3>2, EntryNamed
    <3>4. Entry(name, i, "file").type = "file"
      BY DEF Entry
    <3>. QED BY <3>1, <3>3, <3>4, AddsHeads
  <2>. QED BY <2>2, <2>3, <2>4
<1>6. ASSUME NEW p \in Directories, NEW name \in Names,
             delete(p, name) \/ unlink(p, name) \/ rmdir(p, name)
      PROVE  HeadsStay
  <2>1. Find(p, name) # {} /\ Delete(p, First(Find(p, name)))
    BY <1>6 DEF delete, unlink, rmdir, delete_child
  <2>2. \E k, s, e : Removes(p, k, s, e)
    BY <1>1, <2>1, DeleteChanges
  <2>. QED BY <2>2, RemovesHeads
<1>7. ASSUME NEW p \in Directories, NEW name \in Names, NEW q \in Directories,
             NEW newname \in Names, rename(p, name, q, newname)
      PROVE  HeadsStay
  <2>1. CASE Quiet
    BY <2>1, QuietHeads
  <2>2. ASSUME NEW k, NEW s, NEW e, Renames(p, k, s, e, q, newname)
        PROVE  HeadsStay
    <3>. DEFINE new == Entry(newname, e.ino, "file")
    <3>1. /\ Now(p, k, s, e) /\ IsNamed(e) /\ e.ino \in ibits /\ ibits' = ibits /\ TypesKept
          /\ Shifts(p, k, s, q, new) \/ Adds(q, new)
      BY <2>2 DEF Renames
    <3>2. e.ino \in Inode
      BY <1>1, <3>1, Typed DEF IInv
    <3>3. IsNamed(new)
      BY <1>3, <3>2, EntryNamed
    <3>4. new.type = "file"
      BY DEF Entry
    <3>. HIDE DEF new
    <3>. QED BY <3>1, <3>3, <3>4, AddsHeads, ShiftsHeads
  <2>. QED BY <1>1, <1>7, <2>1, <2>2, RenameShifts
<1>8. ASSUME NEW h \in Handles,
             \/ \E i \in ibits : open_file(h, i)
             \/ close_file(h)
             \/ \E n \in 1 .. MaxGrow : write(h, n)
      PROVE  HeadsStay
  <2>1. CASE (\E i \in ibits : open_file(h, i)) \/ close_file(h)
    BY <2>1, QuietSame, QuietHeads DEF open_file, close_file, alloc
  <2>2. CASE \E n \in 1 .. MaxGrow : write(h, n)
    BY <1>1, <2>2, WriteChanges, QuietHeads
  <2>. QED BY <1>8, <2>1, <2>2
<1>9. ASSUME mount \/ UNCHANGED vars PROVE HeadsStay
  <2>1. Quiet
    BY <1>9, QuietSame DEF mount, vars
  <2>. QED BY <2>1, QuietHeads
<1>10. HeadsStay
  <2>1. CASE Next
    BY <1>2, <1>4, <1>5, <1>6, <1>7, <1>8, <1>9, <2>1 DEF Next
  <2>. QED BY <1>9, <2>1
<1>11. Heads(inode', content', ibits')
  BY <1>1, <1>10, HeadsKept DEF DInv
<1>. QED BY <1>1, <1>11 DEF DInv, Heads, Holds, IsNamed

-----------------------------------------------------------------------------
(* Sequences put together: what the checker's loops gather                  *)

(* A set of numbers has a least one: the proofs below look at the least     *)
(* place where a fact fails, instead of induction.                          *)
LEMMA Least ==
  ASSUME NEW T \in SUBSET Nat, T # {}
  PROVE  \E x \in T : \A y \in T : x <= y
<1>. DEFINE R == OpToRel(<, Nat)
<1>1. IsWellFoundedOn(R, Nat)
  BY NatLessThanWellFounded
<1>2. \A x, y \in Nat : <<y, x>> \in R <=> y < x
  BY DEF OpToRel
<1>. HIDE DEF R
<1>3. PICK x \in T : \A y \in T : ~ (<<y, x>> \in R)
  BY <1>1, WFMin
<1>4. \A y \in T : ~(y < x)
  BY <1>2, <1>3
<1>. QED BY <1>4

(* f runs through n steps of g from a.                                      *)
Iterates(S, a, g, n, f) == /\ f \in [0 .. n -> S] /\ f[0] = a
                           /\ \A k \in 1 .. n : f[k] = g[k][f[k - 1]]

(* There is such a function, for every length.                              *)
LEMMA IterationExists ==
  ASSUME NEW S, NEW a \in S, NEW g \in [Nat -> [S -> S]], NEW n \in Nat
  PROVE  \E f : Iterates(S, a, g, n, f)
<1>. DEFINE T == {m \in Nat : ~\E f : Iterates(S, a, g, m, f)}
<1>1. ASSUME T # {} PROVE FALSE
  <2>1. PICK m \in T : \A y \in T : m <= y
    BY <1>1, Least
  <2>2. m \in Nat /\ ~\E f : Iterates(S, a, g, m, f)
    OBVIOUS
  <2>3. CASE m = 0
    <3>. DEFINE f == [k \in 0 .. m |-> a]
    <3>1. f \in [0 .. m -> S] /\ f[0] = a /\ 1 .. m = {}
      BY <2>3
    <3>. HIDE DEF f
    <3>. QED BY <2>2, <3>1 DEF Iterates
  <2>4. CASE m # 0
    <3>1. m - 1 \in Nat /\ m - 1 \notin T /\ m \in 0 .. m /\ m >= 1
      <4>1. m - 1 \in Nat /\ ~(m <= m - 1) /\ m \in 0 .. m /\ m >= 1
        BY <2>2, <2>4
      <4>. HIDE DEF T
      <4>. QED BY <2>1, <4>1
    <3>2. PICK e : Iterates(S, a, g, m - 1, e)
      BY <3>1
    <3>. HIDE DEF T
    <3>. DEFINE f == [k \in 0 .. m |-> IF k = m THEN g[m][e[m - 1]] ELSE e[k]]
    <3>3. \A k \in 0 .. m : k = m \/ k \in 0 .. m - 1
      BY <2>2
    <3>4. e \in [0 .. m - 1 -> S] /\ e[m - 1] \in S /\ g[m][e[m - 1]] \in S
      <4>1. e \in [0 .. m - 1 -> S] /\ m - 1 \in 0 .. m - 1
        BY <2>2, <3>1, <3>2 DEF Iterates
      <4>2. e[m - 1] \in S /\ g[m] \in [S -> S]
        BY <2>2, <4>1
      <4>. QED BY <4>1, <4>2
    <3>5. f \in [0 .. m -> S]
      BY <3>3, <3>4
    <3>6. f[m] = g[m][e[m - 1]] /\ \A k \in 0 .. m - 1 : f[k] = e[k]
      BY <2>2, <3>1
    <3>. HIDE DEF f
    <3>7. f[0] = a
      BY <2>2, <3>1, <3>2, <3>6 DEF Iterates
    <3>8. ASSUME NEW k \in 1 .. m PROVE f[k] = g[k][f[k - 1]]
      <4>1. k - 1 \in 0 .. m - 1 /\ f[k - 1] = e[k - 1]
        BY <2>2, <3>6
      <4>2. CASE k = m
        BY <3>6, <4>1, <4>2
      <4>3. CASE k # m
        <5>1. k \in 1 .. m - 1 /\ k \in 0 .. m - 1
          BY <2>2, <4>3
        <5>2. e[k] = g[k][e[k - 1]]
          BY <3>2, <5>1 DEF Iterates
        <5>. QED BY <3>6, <4>1, <5>1, <5>2
      <4>. QED BY <4>2, <4>3
    <3>. QED BY <2>2, <3>5, <3>7, <3>8 DEF Iterates
  <2>. QED BY <2>3, <2>4
<1>2. n \notin T
  BY <1>1
<1>. QED BY <1>2

(* The concatenations of the first k members, for every k.                  *)
Joins(S, ss, f) == /\ f \in [0 .. Len(ss) -> Seq(S)] /\ f[0] = <<>>
                   /\ \A k \in 1 .. Len(ss) : f[k] = f[k - 1] \o ss[k]

(* FlattenSeq is the last of them.                                          *)
LEMMA FlattenIs ==
  ASSUME NEW S, NEW ss \in Seq(Seq(S))
  PROVE  \E f : Joins(S, ss, f) /\ FlattenSeq(ss) = f[Len(ss)]
<1>. DEFINE n == Len(ss)
            at(k) == IF k \in 1 .. n THEN ss[k] ELSE <<>>
            g == [k \in Nat |-> [x \in Seq(S) |-> x \o at(k)]]
<1>1. n \in Nat /\ \A k \in 1 .. n : ss[k] \in Seq(S)
  OBVIOUS
<1>2. \A k \in Nat : at(k) \in Seq(S)
  BY <1>1
<1>3. g \in [Nat -> [Seq(S) -> Seq(S)]] /\ <<>> \in Seq(S)
  <2>. HIDE DEF at
  <2>1. \A k \in Nat, x \in Seq(S) : x \o at(k) \in Seq(S)
    BY <1>2, ConcatProperties
  <2>. QED BY <2>1
<1>4. \A x \in Seq(S), k \in Nat : g[k][x] = x \o at(k)
  OBVIOUS
<1>. HIDE DEF g
<1>5. PICK f : Iterates(Seq(S), <<>>, g, n, f)
  BY <1>1, <1>3, IterationExists
<1>6. /\ f \in [0 .. n -> Seq(S)] /\ f[0] = <<>>
      /\ \A k \in 1 .. n : f[k] = f[k - 1] \o ss[k]
  <2>1. f \in [0 .. n -> Seq(S)] /\ f[0] = <<>>
    BY <1>5 DEF Iterates
  <2>2. ASSUME NEW k \in 1 .. n PROVE f[k] = f[k - 1] \o ss[k]
    <3>1. k \in Nat /\ k - 1 \in 0 .. n /\ at(k) = ss[k]
      BY <1>1
    <3>2. f[k] = g[k][f[k - 1]] /\ f[k - 1] \in Seq(S)
      BY <1>5, <2>1, <3>1 DEF Iterates
    <3>. QED BY <1>4, <3>1, <3>2
  <2>. QED BY <2>1, <2>2
<1>7. FlattenSeq(ss) = f[n]
  <2>1. CASE n = 0
    <3>1. FlattenSeq(ss) = ss /\ ss = <<>>
      BY <2>1 DEF FlattenSeq
    <3>. QED BY <1>6, <2>1, <3>1
  <2>2. CASE n # 0
    <3>. DEFINE F == CHOOSE h : h = [i \in 1 .. Len(ss) |->
                                       IF i = 1 THEN ss[i] ELSE h[i - 1] \o ss[i]]
                e == [i \in 1 .. n |-> f[i]]
    <3>1. FlattenSeq(ss) = F[n]
      BY <2>2 DEF FlattenSeq
    <3>2. f[1] = ss[1]
      <4>1. 1 \in 1 .. n /\ 1 - 1 = 0
        BY <1>1, <2>2
      <4>2. f[1] = <<>> \o ss[1] /\ ss[1] \in Seq(S)
        BY <1>1, <1>6, <4>1
      <4>. QED BY <4>2, ConcatEmptySeq
    <3>3. \A i \in 1 .. n : e[i] = IF i = 1 THEN ss[i] ELSE e[i - 1] \o ss[i]
      <4>1. \A i \in 1 .. n : i = 1 \/ i - 1 \in 1 .. n
        BY <1>1
      <4>2. \A i \in 1 .. n : e[i] = f[i]
        OBVIOUS
      <4>. HIDE DEF e
      <4>. QED BY <1>6, <3>2, <4>1, <4>2
    <3>4. e = [i \in 1 .. n |-> IF i = 1 THEN ss[i] ELSE e[i - 1] \o ss[i]]
      <4>1. e = [i \in 1 .. n |-> e[i]]
        OBVIOUS
      <4>. HIDE DEF e
      <4>. QED BY <3>3, <4>1
    <3>5. F = [i \in 1 .. n |-> IF i = 1 THEN ss[i] ELSE F[i - 1] \o ss[i]]
      <4>. HIDE DEF e
      <4>. QED BY <3>4
    <3>6. \A i \in 1 .. n : F[i] = IF i = 1 THEN ss[i] ELSE F[i - 1] \o ss[i]
      <4>. HIDE DEF F
      <4>. QED BY <3>5
    <3>. HIDE DEF F, e
    <3>. DEFINE T == {i \in Nat : i \in 1 .. n /\ F[i] # f[i]}
    <3>7. ASSUME T # {} PROVE FALSE
      <4>1. PICK i \in T : \A y \in T : i <= y
        BY <3>7, Least
      <4>2. i \in 1 .. n /\ F[i] # f[i]
        OBVIOUS
      <4>3. i # 1
        BY <3>2, <3>6, <4>2
      <4>4. i - 1 \in 1 .. n /\ i - 1 \in Nat /\ ~(i <= i - 1)
        BY <1>1, <4>2, <4>3
      <4>5. i - 1 \notin T
        <5>. HIDE DEF T
        <5>. QED BY <4>1, <4>4
      <4>6. F[i - 1] = f[i - 1]
        BY <4>4, <4>5
      <4>. QED BY <1>6, <3>6, <4>2, <4>3, <4>6
    <3>8. n \in Nat /\ n \in 1 .. n /\ n \notin T
      BY <1>1, <2>2, <3>7
    <3>. QED BY <3>1, <3>8
  <2>. QED BY <2>1, <2>2
<1>. QED BY <1>6, <1>7 DEF Joins

(* What a concatenation of sequences has, and when it repeats nothing.      *)
LEMMA Flattened ==
  ASSUME NEW S, NEW ss \in Seq(Seq(S))
  PROVE  LET u == FlattenSeq(ss)
         IN  /\ u \in Seq(S)
             /\ \A x : x \in Range(u) <=> \E k \in 1 .. Len(ss) : x \in Range(ss[k])
             /\ IsInjective(u) =>
                  /\ \A k \in 1 .. Len(ss) : IsInjective(ss[k])
                  /\ \A k, l \in 1 .. Len(ss) : k # l => Range(ss[k]) \cap Range(ss[l]) = {}
<1>. DEFINE n == Len(ss)
<1>1. PICK f : Joins(S, ss, f) /\ FlattenSeq(ss) = f[n]
  BY FlattenIs
<1>2. /\ f \in [0 .. n -> Seq(S)] /\ f[0] = <<>>
      /\ \A k \in 1 .. n : f[k] = f[k - 1] \o ss[k]
  BY <1>1 DEF Joins
<1>3. n \in Nat /\ \A k \in 1 .. n : ss[k] \in Seq(S)
  OBVIOUS
<1>. DEFINE Has(m) == \A x : x \in Range(f[m]) <=> \E k \in 1 .. m : x \in Range(ss[k])
            Apart(m) == IsInjective(f[m]) =>
                  /\ \A k \in 1 .. m : IsInjective(ss[k])
                  /\ \A k, l \in 1 .. m : k # l => Range(ss[k]) \cap Range(ss[l]) = {}
            T == {m \in Nat : m <= n /\ ~(Has(m) /\ Apart(m))}
<1>. HIDE DEF n, Has, Apart
<1>4. ASSUME T # {} PROVE FALSE
  <2>1. PICK m \in T : \A y \in T : m <= y
    BY <1>4, Least
  <2>2. m \in Nat /\ m <= n /\ m \in 0 .. n /\ ~(Has(m) /\ Apart(m))
    BY <1>3
  <2>3. CASE m = 0
    <3>1. Range(f[m]) = {} /\ 1 .. m = {}
      BY <1>2, <2>3 DEF Range
    <3>. QED BY <2>2, <3>1 DEF Has, Apart
  <2>4. CASE m # 0
    <3>1. m - 1 \in Nat /\ m - 1 <= n /\ m - 1 \in 0 .. n /\ m \in 1 .. n /\ m - 1 \notin T
      <4>1. /\ m - 1 \in Nat /\ m - 1 <= n /\ m - 1 \in 0 .. n /\ m \in 1 .. n
            /\ ~(m <= m - 1)
        BY <1>3, <2>2, <2>4
      <4>. HIDE DEF T
      <4>. QED BY <2>1, <4>1
    <3>2. Has(m - 1) /\ Apart(m - 1)
      BY <3>1
    <3>3. f[m] = f[m - 1] \o ss[m] /\ f[m - 1] \in Seq(S) /\ ss[m] \in Seq(S)
      BY <1>2, <1>3, <3>1
    <3>4. Range(f[m]) = Range(f[m - 1]) \cup Range(ss[m])
      BY <3>3, RangeConcatenation
    <3>5. \A k : k \in 1 .. m <=> k \in 1 .. m - 1 \/ k = m
      BY <2>2, <3>1
    <3>6. Has(m)
      BY <3>2, <3>4, <3>5 DEF Has
    <3>7. ASSUME IsInjective(f[m])
          PROVE  /\ \A k \in 1 .. m : IsInjective(ss[k])
                 /\ \A k, l \in 1 .. m : k # l => Range(ss[k]) \cap Range(ss[l]) = {}
      <4>1. IsInjective(f[m - 1]) /\ IsInjective(ss[m]) /\ Range(f[m - 1]) \cap Range(ss[m]) = {}
        BY <3>3, <3>7, ConcatInjective
      <4>2. /\ \A k \in 1 .. m - 1 : IsInjective(ss[k])
            /\ \A k, l \in 1 .. m - 1 : k # l => Range(ss[k]) \cap Range(ss[l]) = {}
        BY <3>2, <4>1 DEF Apart
      <4>3. \A k \in 1 .. m - 1 : Range(ss[k]) \cap Range(ss[m]) = {}
        BY <3>2, <4>1 DEF Has
      <4>. QED BY <3>5, <4>1, <4>2, <4>3
    <3>. QED BY <2>2, <3>6, <3>7 DEF Apart
  <2>. QED BY <2>3, <2>4
<1>5. n \in Nat /\ n <= n
  BY <1>3
<1>6. Has(n) /\ Apart(n)
  BY <1>4, <1>5
<1>7. f[n] \in Seq(S)
  BY <1>2, <1>3
<1>. QED BY <1>1, <1>6, <1>7 DEF Has, Apart, n

(* What is left of a sequence when only the members of K are kept.          *)
LEMMA PassingHas ==
  ASSUME NEW S, NEW s \in Seq(S), NEW K
  PROVE  LET u == FlattenSeq([k \in DOMAIN s |-> IF s[k] \in K THEN <<s[k]>> ELSE <<>>])
         IN  u \in Seq(S) /\ Range(u) = Range(s) \cap K
<1>. DEFINE ss == [k \in DOMAIN s |-> IF s[k] \in K THEN <<s[k]>> ELSE <<>>]
<1>1. DOMAIN s = 1 .. Len(s) /\ Len(s) \in Nat /\ \A k \in 1 .. Len(s) : s[k] \in S
  OBVIOUS
<1>2. \A k \in 1 .. Len(s) : ss[k] = IF s[k] \in K THEN <<s[k]>> ELSE <<>>
  BY <1>1
<1>3. \A k \in 1 .. Len(s) : ss[k] \in Seq(S)
  BY <1>1, <1>2
<1>4. ss = [k \in 1 .. Len(s) |-> ss[k]]
  BY <1>1
<1>. HIDE DEF ss
<1>5. ss \in Seq(Seq(S)) /\ Len(ss) = Len(s)
  BY <1>1, <1>3, <1>4
<1>6. ASSUME NEW k \in 1 .. Len(s), NEW x
      PROVE  x \in Range(ss[k]) <=> x = s[k] /\ s[k] \in K
  <2>1. Range(<<s[k]>>) = {s[k]} /\ Range(<<>>) = {}
    BY DEF Range
  <2>. QED BY <1>2, <2>1
<1>. DEFINE u == FlattenSeq(ss)
<1>7. u \in Seq(S) /\ \A x : x \in Range(u) <=> \E k \in 1 .. Len(s) : x \in Range(ss[k])
  BY <1>5, Flattened
<1>. HIDE DEF u
<1>8. Range(u) = Range(s) \cap K
  <2>1. \A x : x \in Range(s) <=> \E k \in 1 .. Len(s) : x = s[k]
    BY <1>1 DEF Range
  <2>2. ASSUME NEW x PROVE x \in Range(u) <=> x \in Range(s) /\ x \in K
    <3>1. x \in Range(u) <=> \E k \in 1 .. Len(s) : x \in Range(ss[k])
      BY <1>7
    <3>2. \A k \in 1 .. Len(s) : x \in Range(ss[k]) <=> x = s[k] /\ s[k] \in K
      BY <1>6
    <3>. QED BY <2>1, <3>1, <3>2
  <2>. QED BY <2>2
<1>. QED BY <1>7, <1>8 DEF u, ss

-----------------------------------------------------------------------------
(* What the checker reads in a directory                                    *)

(* The places the checker parses are those of the allocated blocks.         *)
LEMMA ParsedIs ==
  ASSUME TypeOK, NEW d \in Inode
  PROVE  /\ Parsed(d) \in Seq(1 .. Len(inode[d].blocks))
         /\ Range(Parsed(d)) = {k \in 1 .. Len(inode[d].blocks) : inode[d].blocks[k] \in dbits}
<1>. DEFINE b == inode[d].blocks
            n == Len(b)
            s == [k \in 1 .. n |-> k]
            K == {k \in 1 .. n : b[k] \in dbits}
<1>1. b \in Seq(Block) /\ n \in Nat /\ DOMAIN b = 1 .. n /\ \A k \in 1 .. n : b[k] \in Block
  BY DEF TypeOK
<1>2. \A k \in 1 .. n : DMap!is_allocated(dbits, b[k]) <=> b[k] \in dbits
  BY <1>1, FormatAssumption DEF DMap!is_allocated, Block
<1>3. s \in Seq(1 .. n) /\ DOMAIN s = 1 .. n /\ \A k \in 1 .. n : s[k] = k
  BY <1>1
<1>4. Parsed(d) = FlattenSeq([k \in DOMAIN s |-> IF DMap!is_allocated(dbits, b[s[k]])
                                                  THEN <<s[k]>> ELSE <<>>])
  BY <1>1 DEF Parsed, Passing, Concat
<1>. HIDE DEF s, n, b
<1>5. \A k \in DOMAIN s : DMap!is_allocated(dbits, b[s[k]]) <=> s[k] \in K
  BY <1>2, <1>3
<1>. HIDE DEF K
<1>6. [k \in DOMAIN s |-> IF DMap!is_allocated(dbits, b[s[k]]) THEN <<s[k]>> ELSE <<>>]
      = [k \in DOMAIN s |-> IF s[k] \in K THEN <<s[k]>> ELSE <<>>]
  BY <1>5
<1>7. Parsed(d) \in Seq(1 .. n) /\ Range(Parsed(d)) = Range(s) \cap K
  <2>. DEFINE v == FlattenSeq([k \in DOMAIN s |-> IF s[k] \in K THEN <<s[k]>> ELSE <<>>])
  <2>1. v \in Seq(1 .. n) /\ Range(v) = Range(s) \cap K
    BY <1>3, PassingHas
  <2>2. Parsed(d) = v
    BY <1>4, <1>6
  <2>. QED BY <2>1, <2>2
<1>8. Range(s) = 1 .. n
  BY <1>3 DEF Range
<1>. QED BY <1>7, <1>8 DEF n, b, K

(* The positions of the records it parses in directory d.                   *)
Read(d) == {pos \in Position(d) : /\ inode[d].blocks[pos[1]] \in dbits
                                  /\ At(d, pos).ino # NoInode}

(* They are what it reads, in some order.                                   *)
LEMMA EntriesRead ==
  ASSUME TypeOK, NEW d \in Inode
  PROVE  Entries(d) \in Seq(Position(d)) /\ Range(Entries(d)) = Read(d)
<1>. DEFINE P == Position(d)
            p == Parsed(d)
            n == Len(inode[d].blocks)
            ss == [k \in DOMAIN p |-> [s \in Slot |-> <<p[k], s>>]]
            u == FlattenSeq(ss)
            K == {pos \in P : At(d, pos).ino # NoInode}
<1>1. /\ p \in Seq(1 .. n) /\ Range(p) = {k \in 1 .. n : inode[d].blocks[k] \in dbits}
      /\ P = (1 .. n) \X Slot
  BY ParsedIs DEF Position
<1>2. DOMAIN p = 1 .. Len(p) /\ Len(p) \in Nat /\ \A k \in 1 .. Len(p) : p[k] \in 1 .. n
  BY <1>1
<1>3. Slot = 1 .. EntriesPerBlock /\ EntriesPerBlock \in Nat
  BY FormatAssumption DEF Slot
<1>. HIDE DEF p, P, n
<1>4. ASSUME NEW k \in 1 .. Len(p) PROVE ss[k] \in Seq(P) /\ Range(ss[k]) = {p[k]} \X Slot
  <2>. DEFINE r == [s \in Slot |-> <<p[k], s>>]
  <2>1. ss[k] = r
    BY <1>2
  <2>2. r \in [Slot -> P]
    BY <1>1, <1>2
  <2>3. r \in Seq(P)
    <3>. HIDE DEF r
    <3>. QED BY <1>3, <2>2
  <2>4. Range(r) = {p[k]} \X Slot
    BY DEF Range
  <2>. QED BY <2>1, <2>3, <2>4
<1>5. ss = [k \in 1 .. Len(p) |-> ss[k]]
  BY <1>2
<1>6. Entries(d) = FlattenSeq([k \in DOMAIN u |-> IF At(d, u[k]).ino # NoInode THEN <<u[k]>> ELSE <<>>])
  BY DEF Entries, Passing, Concat, p
<1>. HIDE DEF ss
<1>7. ss \in Seq(Seq(P)) /\ Len(ss) = Len(p)
  BY <1>2, <1>4, <1>5
<1>8. u \in Seq(P) /\ \A x : x \in Range(u) <=> \E k \in 1 .. Len(p) : x \in Range(ss[k])
  BY <1>7, Flattened
<1>. HIDE DEF u
<1>9. \A k \in DOMAIN u : At(d, u[k]).ino # NoInode <=> u[k] \in K
  BY <1>8
<1>10. Range(u) = {pos \in P : inode[d].blocks[pos[1]] \in dbits}
  <2>1. ASSUME NEW x \in Range(u) PROVE x \in P /\ inode[d].blocks[x[1]] \in dbits
    <3>1. PICK k \in 1 .. Len(p) : x \in {p[k]} \X Slot
      BY <1>4, <1>8
    <3>2. p[k] \in Range(p)
      BY <1>2 DEF Range
    <3>. QED BY <1>1, <3>1, <3>2
  <2>2. ASSUME NEW x \in P, inode[d].blocks[x[1]] \in dbits PROVE x \in Range(u)
    <3>1. x[1] \in Range(p) /\ x[2] \in Slot /\ x = <<x[1], x[2]>>
      BY <1>1, <2>2
    <3>2. PICK k \in 1 .. Len(p) : p[k] = x[1]
      BY <1>2, <3>1 DEF Range
    <3>3. x \in Range(ss[k])
      BY <1>4, <3>1, <3>2
    <3>. QED BY <1>8, <3>3
  <2>. QED BY <2>1, <2>2
<1>. HIDE DEF K
<1>11. [k \in DOMAIN u |-> IF At(d, u[k]).ino # NoInode THEN <<u[k]>> ELSE <<>>]
       = [k \in DOMAIN u |-> IF u[k] \in K THEN <<u[k]>> ELSE <<>>]
  BY <1>9
<1>12. Entries(d) \in Seq(P) /\ Range(Entries(d)) = Range(u) \cap K
  <2>. DEFINE v == FlattenSeq([k \in DOMAIN u |-> IF u[k] \in K THEN <<u[k]>> ELSE <<>>])
  <2>1. v \in Seq(P) /\ Range(v) = Range(u) \cap K
    BY <1>8, PassingHas
  <2>2. Entries(d) = v
    BY <1>6, <1>11
  <2>. QED BY <2>1, <2>2
<1>. QED BY <1>10, <1>12 DEF K, P, Read

(* The inodes of chosen positions.                                          *)
LEMMA InosAre ==
  ASSUME TypeOK, NEW d \in Inode, NEW K \in SUBSET Read(d), NEW v \in Seq(Position(d)),
         Range(v) = K
  PROVE  /\ Inos(d, v) \in Seq(Inode)
         /\ Range(Inos(d, v)) = {At(d, pos).ino : pos \in K}
<1>. DEFINE u == Inos(d, v)
<1>1. DOMAIN v = 1 .. Len(v) /\ Len(v) \in Nat
  OBVIOUS
<1>2. \A k \in 1 .. Len(v) : v[k] \in K
  BY <1>1 DEF Range
<1>3. u = [k \in 1 .. Len(v) |-> At(d, v[k]).ino]
  BY <1>1 DEF Inos
<1>4. ASSUME NEW pos \in Read(d) PROVE At(d, pos).ino \in Inode
  <2>1. pos[1] \in 1 .. Len(inode[d].blocks) /\ pos[2] \in Slot /\ At(d, pos).ino # NoInode
    BY DEF Read, Position
  <2>2. inode[d].blocks[pos[1]] \in Block
    BY <2>1 DEF TypeOK
  <2>3. At(d, pos) \in SlotContent
    BY <2>1, <2>2 DEF TypeOK, At
  <2>. QED BY <2>1, <2>3 DEF SlotContent
<1>5. \A k \in 1 .. Len(v) : u[k] = At(d, v[k]).ino /\ u[k] \in Inode
  BY <1>2, <1>3, <1>4
<1>6. u \in [1 .. Len(v) -> Inode]
  BY <1>2, <1>3, <1>4
<1>. HIDE DEF u
<1>7. u \in Seq(Inode) /\ DOMAIN u = 1 .. Len(v)
  BY <1>1, <1>6
<1>8. Range(u) = {At(d, pos).ino : pos \in K}
  <2>1. \A x : x \in Range(u) <=> \E k \in 1 .. Len(v) : x = At(d, v[k]).ino
    BY <1>5, <1>7 DEF Range
  <2>2. \A pos \in K : \E k \in 1 .. Len(v) : pos = v[k]
    BY <1>1 DEF Range
  <2>. QED BY <1>2, <2>1, <2>2
<1>. QED BY <1>7, <1>8 DEF u

(* Those it takes for directories, and the rest.                            *)
Children(d) == {pos \in Read(d) : IsChild(d, pos)}
Others(d) == {pos \in Read(d) : At(d, pos).type # "directory"}

(* The inodes it recurses into,                                             *)
LEMMA ChildrenAre ==
  ASSUME TypeOK, NEW d \in Inode
  PROVE  /\ child_dirs(d) \in Seq(Inode)
         /\ Range(child_dirs(d)) = {At(d, pos).ino : pos \in Children(d)}
<1>. DEFINE u == Entries(d)
            K == Children(d)
            v == FlattenSeq([k \in DOMAIN u |-> IF u[k] \in K THEN <<u[k]>> ELSE <<>>])
<1>1. u \in Seq(Position(d)) /\ Range(u) = Read(d)
  BY EntriesRead
<1>2. \A k \in DOMAIN u : u[k] \in Read(d)
  BY <1>1 DEF Range
<1>3. child_dirs(d) = Inos(d, FlattenSeq([k \in DOMAIN u |-> IF IsChild(d, u[k]) THEN <<u[k]>> ELSE <<>>]))
  BY DEF child_dirs, Passing, Concat
<1>. HIDE DEF u
<1>4. [k \in DOMAIN u |-> IF IsChild(d, u[k]) THEN <<u[k]>> ELSE <<>>]
      = [k \in DOMAIN u |-> IF u[k] \in K THEN <<u[k]>> ELSE <<>>]
  BY <1>2 DEF Children
<1>5. K \in SUBSET Read(d)
  BY DEF Children
<1>. HIDE DEF K
<1>6. v \in Seq(Position(d)) /\ Range(v) = Range(u) \cap K
  BY <1>1, PassingHas
<1>7. child_dirs(d) = Inos(d, v)
  BY <1>3, <1>4
<1>. HIDE DEF v
<1>8. Range(v) = K
  BY <1>1, <1>5, <1>6
<1>9. Inos(d, v) \in Seq(Inode) /\ Range(Inos(d, v)) = {At(d, pos).ino : pos \in K}
  BY <1>5, <1>6, <1>8, InosAre
<1>. QED BY <1>7, <1>9 DEF K

(* and those it looks at otherwise.                                         *)
LEMMA OthersAre ==
  ASSUME TypeOK, NEW d \in Inode
  PROVE  /\ child_others(d) \in Seq(Inode)
         /\ Range(child_others(d)) = {At(d, pos).ino : pos \in Others(d)}
<1>. DEFINE u == Entries(d)
            K == Others(d)
            v == FlattenSeq([k \in DOMAIN u |-> IF u[k] \in K THEN <<u[k]>> ELSE <<>>])
<1>1. u \in Seq(Position(d)) /\ Range(u) = Read(d)
  BY EntriesRead
<1>2. \A k \in DOMAIN u : u[k] \in Read(d)
  BY <1>1 DEF Range
<1>3. child_others(d) = Inos(d, FlattenSeq([k \in DOMAIN u |-> IF At(d, u[k]).type # "directory"
                                                               THEN <<u[k]>> ELSE <<>>]))
  BY DEF child_others, Passing, Concat
<1>. HIDE DEF u
<1>4. [k \in DOMAIN u |-> IF At(d, u[k]).type # "directory" THEN <<u[k]>> ELSE <<>>]
      = [k \in DOMAIN u |-> IF u[k] \in K THEN <<u[k]>> ELSE <<>>]
  BY <1>2 DEF Others
<1>5. K \in SUBSET Read(d)
  BY DEF Others
<1>. HIDE DEF K
<1>6. v \in Seq(Position(d)) /\ Range(v) = Range(u) \cap K
  BY <1>1, PassingHas
<1>7. child_others(d) = Inos(d, v)
  BY <1>3, <1>4
<1>. HIDE DEF v
<1>8. Range(v) = K
  BY <1>1, <1>5, <1>6
<1>9. Inos(d, v) \in Seq(Inode) /\ Range(Inos(d, v)) = {At(d, pos).ino : pos \in K}
  BY <1>5, <1>6, <1>8, InosAre
<1>. QED BY <1>7, <1>9 DEF K

(* The sequences F[x] for the members x of a sequence s, put together as u. *)
Gathers(S, s, F, u) ==
  /\ u \in Seq(S)
  /\ \A x : x \in Range(u) <=> \E i \in Range(s) : x \in Range(F[i])
  /\ IsInjective(u) =>
       /\ \A i \in Range(s) : IsInjective(F[i])
       /\ \A k, l \in DOMAIN s : k # l => Range(F[s[k]]) \cap Range(F[s[l]]) = {}

(* They are all there, and none is there twice if the result repeats        *)
(* nothing.                                                                 *)
LEMMA Gathered ==
  ASSUME NEW S, NEW s \in Seq(Inode), NEW F \in [Inode -> Seq(S)]
  PROVE  Gathers(S, s, F, FlattenSeq([k \in DOMAIN s |-> F[s[k]]]))
<1>. DEFINE ss == [k \in DOMAIN s |-> F[s[k]]]
            n == Len(s)
            u == FlattenSeq(ss)
<1>1. n \in Nat /\ DOMAIN s = 1 .. n /\ \A k \in 1 .. n : s[k] \in Inode
  OBVIOUS
<1>. HIDE DEF n
<1>2. ss \in [1 .. n -> Seq(S)] /\ \A k \in 1 .. n : ss[k] = F[s[k]]
  BY <1>1
<1>. HIDE DEF ss
<1>3. ss \in Seq(Seq(S)) /\ Len(ss) = n
  BY <1>1, <1>2
<1>4. /\ u \in Seq(S)
      /\ \A x : x \in Range(u) <=> \E k \in 1 .. n : x \in Range(ss[k])
      /\ IsInjective(u) =>
           /\ \A k \in 1 .. n : IsInjective(ss[k])
           /\ \A k, l \in 1 .. n : k # l => Range(ss[k]) \cap Range(ss[l]) = {}
  BY <1>3, Flattened
<1>. HIDE DEF u
<1>5. \A i : i \in Range(s) <=> \E k \in 1 .. n : i = s[k]
  BY <1>1 DEF Range
<1>6. ASSUME NEW x PROVE x \in Range(u) <=> \E i \in Range(s) : x \in Range(F[i])
  <2>1. x \in Range(u) <=> \E k \in 1 .. n : x \in Range(F[s[k]])
    BY <1>2, <1>4
  <2>. QED BY <1>5, <2>1
<1>7. ASSUME IsInjective(u)
      PROVE  /\ \A i \in Range(s) : IsInjective(F[i])
             /\ \A k, l \in DOMAIN s : k # l => Range(F[s[k]]) \cap Range(F[s[l]]) = {}
  <2>1. \A k \in 1 .. n : IsInjective(F[s[k]])
    BY <1>2, <1>4, <1>7
  <2>2. \A k, l \in 1 .. n : k # l => Range(F[s[k]]) \cap Range(F[s[l]]) = {}
    BY <1>2, <1>4, <1>7
  <2>. QED BY <1>1, <1>5, <2>1, <2>2
<1>8. Gathers(S, s, F, u)
  BY <1>4, <1>6, <1>7 DEF Gathers
<1>. QED BY <1>8 DEF u, ss

-----------------------------------------------------------------------------
(* The recursion of the checker                                             *)

(* The directories visited at each level.                                   *)
Levels(level) ==
  /\ level \in [0 .. NI -> Seq(Inode)] /\ level[0] = <<Root>>
  /\ \A n \in 1 .. NI : \A x : x \in Range(level[n]) <=>
                                \E i \in Range(level[n - 1]) : x \in Range(child_dirs(i))

(* DirVisits is made of such levels.                                        *)
LEMMA VisitsLevels ==
  ASSUME TypeOK
  PROVE  /\ DirVisits \in Seq(Inode)
         /\ \E level :
              /\ Levels(level)
              /\ \A x : x \in Range(DirVisits) <=> \E n \in 0 .. NI : x \in Range(level[n])
              /\ IsInjective(DirVisits) =>
                   \A m, n \in 0 .. NI : m # n => Range(level[m]) \cap Range(level[n]) = {}
<1>. DEFINE F == [i \in Inode |-> child_dirs(i)]
            down(s) == FlattenSeq([k \in DOMAIN s |-> F[s[k]]])
            g == [k \in Nat |-> [s \in Seq(Inode) |-> down(s)]]
            L == CHOOSE h : h = [n \in 0 .. NI |->
                                   IF n = 0 THEN <<Root>> ELSE Concat(child_dirs, h[n - 1])]
            ss == [n \in 1 .. NI + 1 |-> L[n - 1]]
<1>1. NI \in Nat /\ Root \in Inode /\ <<Root>> \in Seq(Inode)
  <2>1. NI \in Nat /\ Root \in Inode
    BY FormatAssumption DEF Inode, Root
  <2>. QED BY <2>1
<1>2. F \in [Inode -> Seq(Inode)] /\ \A i \in Inode : F[i] = child_dirs(i)
  BY ChildrenAre
<1>3. ASSUME NEW s \in Seq(Inode)
      PROVE  /\ down(s) \in Seq(Inode) /\ Concat(child_dirs, s) = down(s)
             /\ \A x : x \in Range(down(s)) <=> \E i \in Range(s) : x \in Range(child_dirs(i))
  <2>1. \A k \in DOMAIN s : s[k] \in Inode
    OBVIOUS
  <2>2. [k \in DOMAIN s |-> F[s[k]]] = [k \in DOMAIN s |-> child_dirs(s[k])]
    <3>. HIDE DEF F
    <3>. QED BY <1>2, <2>1
  <2>3. Concat(child_dirs, s) = down(s)
    <3>. HIDE DEF F
    <3>. QED BY <2>2 DEF Concat
  <2>. HIDE DEF F
  <2>4. /\ down(s) \in Seq(Inode)
        /\ \A x : x \in Range(down(s)) <=> \E i \in Range(s) : x \in Range(F[i])
    <3>1. F \in [Inode -> Seq(Inode)]
      BY <1>2
    <3>2. Gathers(Inode, s, F, down(s))
      BY <3>1, Gathered
    <3>. QED BY <3>2 DEF Gathers
  <2>5. \A i \in Range(s) : i \in Inode
    BY <2>1 DEF Range
  <2>. HIDE DEF down
  <2>. QED BY <1>2, <2>3, <2>4, <2>5
<1>. HIDE DEF F, down
<1>4. g \in [Nat -> [Seq(Inode) -> Seq(Inode)]] /\ \A k \in Nat, s \in Seq(Inode) : g[k][s] = down(s)
  BY <1>3
<1>. HIDE DEF g
<1>5. \E f : Iterates(Seq(Inode), <<Root>>, g, NI, f)
  BY <1>1, <1>4, IterationExists
<1>6. PICK f : /\ f \in [0 .. NI -> Seq(Inode)] /\ f[0] = <<Root>>
               /\ \A n \in 1 .. NI : f[n] = down(f[n - 1])
  <2>1. PICK f : Iterates(Seq(Inode), <<Root>>, g, NI, f)
    BY <1>5
  <2>2. f \in [0 .. NI -> Seq(Inode)] /\ f[0] = <<Root>>
    BY <2>1 DEF Iterates
  <2>3. ASSUME NEW n \in 1 .. NI PROVE f[n] = down(f[n - 1])
    <3>1. n \in Nat /\ n - 1 \in 0 .. NI
      BY <1>1
    <3>2. f[n] = g[n][f[n - 1]] /\ f[n - 1] \in Seq(Inode)
      BY <2>1, <2>2, <3>1 DEF Iterates
    <3>. QED BY <1>4, <3>1, <3>2
  <2>. QED BY <2>2, <2>3
<1>7. f = [n \in 0 .. NI |-> IF n = 0 THEN <<Root>> ELSE Concat(child_dirs, f[n - 1])]
  <2>1. f = [n \in 0 .. NI |-> f[n]]
    BY <1>6
  <2>2. ASSUME NEW n \in 0 .. NI
        PROVE  f[n] = IF n = 0 THEN <<Root>> ELSE Concat(child_dirs, f[n - 1])
    <3>1. CASE n = 0
      BY <1>6, <3>1
    <3>2. CASE n # 0
      <4>1. n \in 1 .. NI /\ n - 1 \in 0 .. NI
        BY <1>1, <3>2
      <4>2. f[n] = down(f[n - 1]) /\ f[n - 1] \in Seq(Inode)
        BY <1>6, <4>1
      <4>. QED BY <1>3, <3>2, <4>2
    <3>. QED BY <3>1, <3>2
  <2>. QED BY <2>1, <2>2
<1>8. L = [n \in 0 .. NI |-> IF n = 0 THEN <<Root>> ELSE Concat(child_dirs, L[n - 1])]
  BY <1>7
<1>9. DirVisits = FlattenSeq(ss)
  BY DEF DirVisits
<1>. HIDE DEF L
<1>10. \A n \in 0 .. NI : L[n] = IF n = 0 THEN <<Root>> ELSE Concat(child_dirs, L[n - 1])
  BY <1>8
<1>11. \A n \in 0 .. NI : L[n] \in Seq(Inode)
  <2>. DEFINE T == {n \in Nat : n <= NI /\ L[n] \notin Seq(Inode)}
  <2>1. ASSUME T # {} PROVE FALSE
    <3>1. PICK n \in T : \A y \in T : n <= y
      BY <2>1, Least
    <3>2. n \in Nat /\ n <= NI /\ L[n] \notin Seq(Inode) /\ n \in 0 .. NI
      BY <1>1
    <3>3. n # 0
      BY <1>1, <1>10, <3>2
    <3>4. n - 1 \in Nat /\ n - 1 <= NI /\ n - 1 \notin T
      <4>1. n - 1 \in Nat /\ n - 1 <= NI /\ ~(n <= n - 1)
        BY <1>1, <3>2, <3>3
      <4>. HIDE DEF T
      <4>. QED BY <3>1, <4>1
    <3>5. L[n - 1] \in Seq(Inode)
      BY <3>4
    <3>. QED BY <1>3, <1>10, <3>2, <3>3, <3>5
  <2>2. \A n \in 0 .. NI : n \in Nat /\ n <= NI
    BY <1>1
  <2>. QED BY <2>1, <2>2
<1>12. Levels(L)
  <2>1. L \in [0 .. NI -> Seq(Inode)] /\ L[0] = <<Root>>
    <3>1. 0 \in 0 .. NI
      BY <1>1
    <3>2. L = [n \in 0 .. NI |-> L[n]]
      BY <1>8
    <3>. QED BY <1>10, <1>11, <3>1, <3>2
  <2>2. ASSUME NEW n \in 1 .. NI
        PROVE  \A x : x \in Range(L[n]) <=> \E i \in Range(L[n - 1]) : x \in Range(child_dirs(i))
    <3>1. n \in 0 .. NI /\ n - 1 \in 0 .. NI /\ n # 0
      BY <1>1
    <3>2. L[n] = down(L[n - 1]) /\ L[n - 1] \in Seq(Inode)
      BY <1>3, <1>10, <1>11, <3>1
    <3>. QED BY <1>3, <3>2
  <2>. QED BY <2>1, <2>2 DEF Levels
<1>13. /\ ss \in Seq(Seq(Inode)) /\ Len(ss) = NI + 1
       /\ \A n \in 1 .. NI + 1 : ss[n] = L[n - 1]
  <2>1. \A n \in 1 .. NI + 1 : n - 1 \in 0 .. NI
    BY <1>1
  <2>2. ss \in [1 .. NI + 1 -> Seq(Inode)] /\ \A n \in 1 .. NI + 1 : ss[n] = L[n - 1]
    BY <1>11, <2>1
  <2>. HIDE DEF ss
  <2>. QED BY <1>1, <2>2
<1>. HIDE DEF ss
<1>14. /\ DirVisits \in Seq(Inode)
       /\ \A x : x \in Range(DirVisits) <=> \E n \in 1 .. NI + 1 : x \in Range(ss[n])
       /\ IsInjective(DirVisits) =>
            \A m, n \in 1 .. NI + 1 : m # n => Range(ss[m]) \cap Range(ss[n]) = {}
  BY <1>9, <1>13, Flattened
<1>15. \A n \in 0 .. NI : n + 1 \in 1 .. NI + 1 /\ ss[n + 1] = L[n]
  <2>1. \A n \in 0 .. NI : n + 1 \in 1 .. NI + 1 /\ (n + 1) - 1 = n
    BY <1>1
  <2>. QED BY <1>13, <2>1
<1>16. \A n \in 1 .. NI + 1 : n - 1 \in 0 .. NI /\ ss[n] = L[n - 1]
  BY <1>1, <1>13
<1>17. ASSUME NEW x PROVE x \in Range(DirVisits) <=> \E n \in 0 .. NI : x \in Range(L[n])
  <2>1. x \in Range(DirVisits) <=> \E n \in 1 .. NI + 1 : x \in Range(ss[n])
    BY <1>14
  <2>. QED BY <1>15, <1>16, <2>1
<1>18. ASSUME IsInjective(DirVisits), NEW m \in 0 .. NI, NEW n \in 0 .. NI, m # n
       PROVE  Range(L[m]) \cap Range(L[n]) = {}
  <2>1. m + 1 # n + 1
    BY <1>1, <1>18
  <2>. QED BY <1>14, <1>15, <1>18, <2>1
<1>. QED BY <1>12, <1>14, <1>17, <1>18

(* If no directory is visited twice, the last level is empty: the recursion *)
(* has come to its end.                                                     *)
LEMMA RecursionEnds ==
  ASSUME NEW level, Levels(level),
         \A m, n \in 0 .. NI : m # n => Range(level[m]) \cap Range(level[n]) = {}
  PROVE  Range(level[NI]) = {}
<1>. SUFFICES ASSUME Range(level[NI]) # {} PROVE FALSE
  OBVIOUS
<1>1. NI \in Nat
  BY FormatAssumption
<1>. DEFINE T == {m \in Nat : m <= NI /\ Range(level[NI - m]) = {}}
<1>2. ASSUME T # {} PROVE FALSE
  <2>1. PICK m \in T : \A y \in T : m <= y
    BY <1>2, Least
  <2>2. m \in Nat /\ m <= NI /\ Range(level[NI - m]) = {}
    OBVIOUS
  <2>3. m # 0
    BY <1>1, <2>2
  <2>4. m - 1 \in Nat /\ m - 1 <= NI /\ m - 1 \notin T
    <3>1. m - 1 \in Nat /\ m - 1 <= NI /\ ~(m <= m - 1)
      BY <1>1, <2>2, <2>3
    <3>. HIDE DEF T
    <3>. QED BY <2>1, <3>1
  <2>5. Range(level[NI - (m - 1)]) # {}
    BY <2>4
  <2>. DEFINE n == NI - (m - 1)
  <2>6. n \in 1 .. NI /\ n - 1 = NI - m
    BY <1>1, <2>2, <2>3
  <2>. HIDE DEF n
  <2>7. PICK x : x \in Range(level[n])
    BY <2>5 DEF n
  <2>8. \E i : i \in Range(level[n - 1])
    BY <2>6, <2>7 DEF Levels
  <2>. QED BY <2>2, <2>6, <2>8
<1>3. ASSUME NEW n \in 0 .. NI PROVE Range(level[n]) # {}
  <2>1. NI - n \in Nat /\ NI - n <= NI /\ NI - (NI - n) = n
    BY <1>1
  <2>. QED BY <1>2, <2>1
<1>. DEFINE pick == [n \in 0 .. NI |-> CHOOSE x : x \in Range(level[n])]
<1>4. ASSUME NEW n \in 0 .. NI PROVE pick[n] \in Range(level[n]) /\ pick[n] \in Inode
  <2>1. pick[n] \in Range(level[n])
    BY <1>3
  <2>2. level[n] \in Seq(Inode)
    BY DEF Levels
  <2>3. Range(level[n]) \subseteq Inode
    BY <2>2, RangeOfSeq
  <2>. QED BY <2>1, <2>3
<1>5. pick \in [0 .. NI -> Inode]
  BY <1>4
<1>. HIDE DEF pick
<1>6. IsFiniteSet(0 .. NI) /\ Cardinality(0 .. NI) = NI + 1
  BY <1>1, FS_Interval
<1>7. Cardinality(Inode) < Cardinality(0 .. NI) /\ IsFiniteSet(Inode)
  BY <1>1, <1>6, RegionSize
<1>8. PICK m, n \in 0 .. NI : m # n /\ pick[m] = pick[n]
  <2>. DEFINE D == 0 .. NI
  <2>. HIDE DEF D, T
  <2>1. /\ pick \in [D -> Inode] /\ IsFiniteSet(D) /\ IsFiniteSet(Inode)
        /\ Cardinality(Inode) < Cardinality(D)
    BY <1>5, <1>6, <1>7 DEF D
  <2>2. \E m, n \in D : m # n /\ pick[m] = pick[n]
    BY <2>1, FS_PigeonHole
  <2>. QED BY <2>2 DEF D
<1>. QED BY <1>4, <1>8

-----------------------------------------------------------------------------
(* The verdict                                                              *)

(* What the checker relies on: a directory has a first block, only its head *)
(* has entries called "." or "..", which are typed as directories, and the  *)
(* pointer blocks, which it never looks at, are allocated and hold nothing. *)
(* It does not tell a name of type symlink from one of type file.           *)
DotsInHead ==
  \A d \in Directories :
    /\ inode[d].blocks # <<>>
    /\ \A pos \in Position(d) : At(d, pos).ino # NoInode /\ ~IsNamed(At(d, pos)) =>
                                 IsHead(pos) /\ At(d, pos).type = "directory"
PointersApart == \A i \in ibits : \A k \in DOMAIN inode[i].ptrs :
                   inode[i].ptrs[k] \in dbits \ Content
SymlinksLead ==
  \A d \in Directories : \A pos \in Position(d) :
    IsNamed(At(d, pos)) /\ At(d, pos).type = "symlink" => inode[At(d, pos).ino].type = "symlink"

(* The blocks of directories and of the rest, in the order of the visits.   *)
LEMMA BlocksVisited ==
  ASSUME TypeOK, NEW dirs \in Seq(Inode), NEW others \in Seq(Inode)
  PROVE  \E a, b :
           /\ Visits(dirs, others) = a \o b
           /\ Gathers(Block, dirs, [i \in Inode |-> ParsedBlocks(i)], a)
           /\ Gathers(Block, others, [i \in Inode |-> inode[i].blocks], b)
<1>. DEFINE P == [i \in Inode |-> ParsedBlocks(i)]
            Q == [i \in Inode |-> inode[i].blocks]
            a == FlattenSeq([k \in DOMAIN dirs |-> P[dirs[k]]])
            b == FlattenSeq([k \in DOMAIN others |-> Q[others[k]]])
<1>1. Q \in [Inode -> Seq(Block)]
  BY DEF TypeOK
<1>2. ASSUME NEW i \in Inode PROVE ParsedBlocks(i) \in Seq(Block)
  <2>. DEFINE p == Parsed(i)
              n == Len(inode[i].blocks)
  <2>1. p \in Seq(1 .. n)
    BY ParsedIs
  <2>2. /\ inode[i].blocks \in Seq(Block) /\ n \in Nat
        /\ \A k \in 1 .. n : inode[i].blocks[k] \in Block
    BY DEF TypeOK
  <2>3. ParsedBlocks(i) = [k \in DOMAIN p |-> inode[i].blocks[p[k]]]
    BY DEF ParsedBlocks
  <2>. HIDE DEF p, n
  <2>4. DOMAIN p = 1 .. Len(p) /\ Len(p) \in Nat /\ \A k \in 1 .. Len(p) : p[k] \in 1 .. n
    BY <2>1, <2>2
  <2>5. ParsedBlocks(i) \in [1 .. Len(p) -> Block]
    BY <2>2, <2>3, <2>4
  <2>. QED BY <2>4, <2>5
<1>3. P \in [Inode -> Seq(Block)]
  BY <1>2
<1>4. [k \in DOMAIN dirs |-> P[dirs[k]]] = [k \in DOMAIN dirs |-> ParsedBlocks(dirs[k])]
  OBVIOUS
<1>5. [k \in DOMAIN others |-> Q[others[k]]] = [k \in DOMAIN others |-> inode[others[k]].blocks]
  OBVIOUS
<1>6. Visits(dirs, others) = a \o b
  <2>. HIDE DEF P, Q
  <2>. QED BY <1>4, <1>5 DEF Visits, Concat
<1>7. Gathers(Block, dirs, P, a) /\ Gathers(Block, others, Q, b)
  <2>. HIDE DEF P, Q
  <2>. QED BY <1>1, <1>3, Gathered
<1>. QED BY <1>6, <1>7

(* What is visited that is no directory.                                    *)
LEMMA OthersVisited ==
  ASSUME TypeOK, NEW dirs \in Seq(Inode)
  PROVE  LET others == Concat(child_others, dirs)
         IN  /\ others \in Seq(Inode)
             /\ \A x : x \in Range(others) <=> \E d \in Range(dirs) : x \in Range(child_others(d))
<1>. DEFINE F == [i \in Inode |-> child_others(i)]
            u == FlattenSeq([k \in DOMAIN dirs |-> F[dirs[k]]])
<1>1. F \in [Inode -> Seq(Inode)] /\ \A i \in Inode : F[i] = child_others(i)
  BY OthersAre
<1>2. [k \in DOMAIN dirs |-> F[dirs[k]]] = [k \in DOMAIN dirs |-> child_others(dirs[k])]
  OBVIOUS
<1>3. \A d \in Range(dirs) : d \in Inode
  BY DEF Range
<1>. HIDE DEF F
<1>4. Concat(child_others, dirs) = u
  BY <1>2 DEF Concat
<1>5. F \in [Inode -> Seq(Inode)]
  BY <1>1
<1>6. Gathers(Inode, dirs, F, u)
  BY <1>5, Gathered
<1>. HIDE DEF u
<1>. QED BY <1>1, <1>3, <1>4, <1>6 DEF Gathers

(* The places of a directory whose blocks are all allocated.                *)
LEMMA AllParsed ==
  ASSUME TypeOK, NEW d \in Inode, Range(inode[d].blocks) \subseteq dbits
  PROVE  /\ Range(Parsed(d)) = 1 .. Len(inode[d].blocks)
         /\ Range(ParsedBlocks(d)) = Range(inode[d].blocks)
         /\ IsInjective(ParsedBlocks(d)) => IsInjective(inode[d].blocks)
         /\ Read(d) = {pos \in Position(d) : At(d, pos).ino # NoInode}
<1>. DEFINE b == inode[d].blocks
            n == Len(b)
            p == Parsed(d)
            u == ParsedBlocks(d)
<1>1. b \in Seq(Block) /\ n \in Nat /\ DOMAIN b = 1 .. n
  BY DEF TypeOK
<1>2. \A k \in 1 .. n : b[k] \in dbits
  BY <1>1 DEF Range
<1>3. p \in Seq(1 .. n) /\ Range(p) = {k \in 1 .. n : b[k] \in dbits}
  BY ParsedIs
<1>4. u = [k \in DOMAIN p |-> b[p[k]]]
  BY DEF ParsedBlocks
<1>5. \A pos \in Position(d) : pos[1] \in 1 .. n
  BY DEF Position
<1>6. Read(d) = {pos \in Position(d) : At(d, pos).ino # NoInode}
  BY <1>2, <1>5 DEF Read
<1>. HIDE DEF b, n, p, u
<1>7. Range(p) = 1 .. n
  BY <1>2, <1>3
<1>8. DOMAIN u = DOMAIN p /\ \A k \in DOMAIN p : u[k] = b[p[k]] /\ p[k] \in 1 .. n
  <2>1. \A k \in DOMAIN p : p[k] \in Range(p)
    BY DEF Range
  <2>. QED BY <1>4, <1>7, <2>1
<1>9. \A l \in 1 .. n : \E k \in DOMAIN p : p[k] = l
  BY <1>7 DEF Range
<1>10. Range(u) = Range(b)
  <2>1. \A x : x \in Range(u) <=> \E k \in DOMAIN p : x = b[p[k]]
    BY <1>8 DEF Range
  <2>2. \A x : x \in Range(b) <=> \E l \in 1 .. n : x = b[l]
    BY <1>1 DEF Range
  <2>. QED BY <1>8, <1>9, <2>1, <2>2
<1>11. ASSUME IsInjective(u) PROVE IsInjective(b)
  <2>. SUFFICES ASSUME NEW l \in 1 .. n, NEW m \in 1 .. n, b[l] = b[m] PROVE l = m
    BY <1>1 DEF IsInjective
  <2>1. PICK j, k \in DOMAIN p : p[j] = l /\ p[k] = m
    BY <1>9
  <2>2. u[j] = u[k] /\ j \in DOMAIN u /\ k \in DOMAIN u
    BY <1>8, <2>1
  <2>3. j = k
    BY <1>11, <2>2 DEF IsInjective
  <2>. QED BY <2>1, <2>3
<1>. QED BY <1>6, <1>7, <1>10, <1>11 DEF b, n, p, u

(* What an empty report says, for the inodes and blocks that were visited.  *)
Clean(dirs, others) ==
  LET inodes == Range(dirs) \cup Range(others)
      visits == Visits(dirs, others)
  IN  /\ sb.free_inodes = NI - Cardinality(ibits)
      /\ sb.free_data = ND - Cardinality(dbits)
      /\ inodes = ibits
      /\ \A d \in Range(dirs) : /\ inode[d].type = "directory"
                               /\ Misplaced(d) = {}
      /\ \A i \in Range(others) : inode[i].type = "file"
      /\ \A i \in inodes : Range(inode[i].blocks) \subseteq dbits
      /\ IsInjective(visits)
      /\ Range(visits) \subseteq dbits => dbits = Range(visits)

(* No errors of a kind: they are about nothing.                             *)
LEMMA NoErrors ==
  ASSUME NEW kind, NEW S, {Error(kind, i) : i \in S} = {}
  PROVE  S = {}
OBVIOUS

(* An empty report says that much.                                          *)
LEMMA NothingReported ==
  ASSUME TypeOK, check_integrity = {}, DirVisits \in Seq(Inode),
         NEW others, others = Concat(child_others, DirVisits), others \in Seq(Inode),
         Visits(DirVisits, others) \in Seq(Block)
  PROVE  Clean(DirVisits, others)
<1>. DEFINE dirs == DirVisits
            inodes == Range(dirs) \cup Range(others)
            visits == Visits(dirs, others)
            A1 == IF sb.free_inodes # NI - IMap!count_allocated(ibits) THEN {Error("FreeInodes", 0)} ELSE {}
            A2 == IF sb.free_data # ND - DMap!count_allocated(dbits) THEN {Error("FreeData", 0)} ELSE {}
            A3 == {Error("UnallocatedINode", i) : i \in inodes \ Reached(inodes)}
            A4 == {Error("MismatchedFileType", i) : i \in WrongTypes(Range(dirs), Range(others))}
            A5 == {Error("UnallocatedData", b) : b \in (UNION {Range(inode[i].blocks) : i \in inodes}) \ dbits}
            A6 == {Error("DoubleReference", b) : b \in Twice(visits)}
            A7 == UNION {Misplaced(d) : d \in Range(dirs)}
            A8 == {Error("UnreachableINode", i) : i \in Unreached(ibits, Reached(inodes))}
            A9 == {Error("UnreachableData", b) : b \in Unreached(dbits, Range(visits))}
<1>1. check_integrity = A1 \cup A2 \cup A3 \cup A4 \cup A5 \cup A6 \cup A7 \cup A8 \cup A9
  BY DEF check_integrity
<1>2. /\ A1 = {} /\ A2 = {} /\ A3 = {} /\ A4 = {} /\ A5 = {}
      /\ A6 = {} /\ A7 = {} /\ A8 = {} /\ A9 = {}
  <2>. HIDE DEF A1, A2, A3, A4, A5, A6, A7, A8, A9
  <2>. QED BY <1>1
<1>3. /\ dirs \in Seq(Inode) /\ visits \in Seq(Block)
      /\ Range(dirs) \subseteq Inode /\ Range(others) \subseteq Inode
  BY RangeOfSeq
<1>. HIDE DEF dirs, visits
<1>4. /\ ibits \subseteq Inode /\ dbits \subseteq Block
      /\ IsFiniteSet(ibits) /\ IsFiniteSet(dbits)
  BY RegionSize, FS_Subset DEF TypeOK
<1>5. /\ IMap!count_allocated(ibits) = Cardinality(ibits)
      /\ DMap!count_allocated(dbits) = Cardinality(dbits)
  <2>1. /\ IMap!Cardinality(ibits) = Cardinality(ibits)
        /\ DMap!Cardinality(dbits) = Cardinality(dbits)
    BY DEF Cardinality, IMap!Cardinality, DMap!Cardinality,
           IsFiniteSet, IMap!IsFiniteSet, DMap!IsFiniteSet
  <2>2. ibits \cap IMap!Mapped = ibits /\ dbits \cap DMap!Mapped = dbits
    BY <1>4, AllMapped
  <2>. QED BY <2>1, <2>2 DEF IMap!count_allocated, DMap!count_allocated
<1>6. sb.free_inodes = NI - Cardinality(ibits) /\ sb.free_data = ND - Cardinality(dbits)
  BY <1>2, <1>5
<1>7. Reached(inodes) = inodes /\ inodes \subseteq ibits
  <2>1. inodes \ Reached(inodes) = {}
    <3>. DEFINE S == inodes \ Reached(inodes)
    <3>1. {Error("UnallocatedINode", i) : i \in S} = {}
      BY <1>2
    <3>. HIDE DEF S
    <3>2. S = {}
      BY <3>1, NoErrors
    <3>. QED BY <3>2 DEF S
  <2>2. Reached(inodes) \subseteq inodes /\ Reached(inodes) \subseteq ibits
    BY DEF Reached, IMap!is_allocated
  <2>. HIDE DEF inodes
  <2>. QED BY <2>1, <2>2
<1>8. inodes = ibits
  <2>1. Unreached(ibits, inodes) = {}
    <3>1. Unreached(ibits, Reached(inodes)) = {}
      <4>. DEFINE S == Unreached(ibits, Reached(inodes))
      <4>1. {Error("UnreachableINode", i) : i \in S} = {}
        BY <1>2
      <4>. HIDE DEF S
      <4>2. S = {}
        BY <4>1, NoErrors
      <4>. QED BY <4>2 DEF S
    <3>. HIDE DEF inodes
    <3>. QED BY <1>7, <3>1
  <2>. HIDE DEF inodes
  <2>2. CASE Cardinality(ibits) # Cardinality(inodes)
    BY <1>7, <2>1, <2>2 DEF Unreached
  <2>3. CASE Cardinality(ibits) = Cardinality(inodes)
    BY <1>4, <1>7, <2>3, FS_Subset
  <2>. QED BY <2>2, <2>3
<1>9. ASSUME Range(visits) \subseteq dbits PROVE dbits = Range(visits)
  <2>1. Unreached(dbits, Range(visits)) = {}
    BY <1>2
  <2>2. CASE Cardinality(dbits) # Cardinality(Range(visits))
    BY <1>9, <2>1, <2>2 DEF Unreached
  <2>3. CASE Cardinality(dbits) = Cardinality(Range(visits))
    BY <1>4, <1>9, <2>3, FS_Subset
  <2>. QED BY <2>2, <2>3
<1>10. WrongTypes(Range(dirs), Range(others)) = {}
  BY <1>2
<1>11. /\ \A d \in Range(dirs) : inode[d].type = "directory"
       /\ \A i \in Range(others) : inode[i].type = "file"
  BY <1>10 DEF WrongTypes
<1>12. \A d \in Range(dirs) : Misplaced(d) = {}
  BY <1>2
<1>13. \A i \in inodes : Range(inode[i].blocks) \subseteq dbits
  <2>1. (UNION {Range(inode[i].blocks) : i \in inodes}) \ dbits = {}
    BY <1>2
  <2>. HIDE DEF inodes
  <2>. QED BY <2>1
<1>14. IsInjective(visits)
  <2>1. Twice(visits) = {}
    BY <1>2
  <2>2. DOMAIN visits = 1 .. Len(visits) /\ Len(visits) \in Nat
    BY <1>3
  <2>3. \A k \in DOMAIN visits : \A l \in 1 .. k - 1 : visits[l] # visits[k]
    BY <2>1 DEF Twice
  <2>. SUFFICES ASSUME NEW k \in DOMAIN visits, NEW l \in DOMAIN visits, visits[k] = visits[l], k # l
                PROVE  FALSE
    BY DEF IsInjective
  <2>4. l \in 1 .. k - 1 \/ k \in 1 .. l - 1
    BY <2>2
  <2>. QED BY <2>3, <2>4
<1>. QED BY <1>6, <1>8, <1>9, <1>11, <1>12, <1>13, <1>14 DEF Clean, dirs, visits

(* Directories are visited once, with all their blocks.                     *)
LEMMA VisitedOnce ==
  ASSUME TypeOK, DotsInHead, NEW dirs \in Seq(Inode), NEW others \in Seq(Inode),
         Clean(dirs, others)
  PROVE  /\ IsInjective(dirs)
         /\ dbits = Content
         /\ \A i, j \in ibits : \A k \in DOMAIN inode[i].blocks : \A l \in DOMAIN inode[j].blocks :
              inode[i].blocks[k] = inode[j].blocks[l] => i = j /\ k = l
<1>. DEFINE P == [i \in Inode |-> ParsedBlocks(i)]
            Q == [i \in Inode |-> inode[i].blocks]
<1>1. PICK a, b : /\ Visits(dirs, others) = a \o b
                  /\ Gathers(Block, dirs, P, a)
                  /\ Gathers(Block, others, Q, b)
  BY BlocksVisited
<1>2. /\ Range(dirs) \subseteq Inode /\ Range(others) \subseteq Inode
      /\ ibits = Range(dirs) \cup Range(others)
      /\ \A d \in Range(dirs) : inode[d].type = "directory"
      /\ \A i \in Range(others) : inode[i].type = "file"
      /\ \A i \in ibits : Range(inode[i].blocks) \subseteq dbits
      /\ IsInjective(Visits(dirs, others))
      /\ Range(Visits(dirs, others)) \subseteq dbits => dbits = Range(Visits(dirs, others))
  BY RangeOfSeq DEF Clean
<1>3. /\ a \in Seq(Block) /\ b \in Seq(Block)
      /\ \A x : x \in Range(a) <=> \E i \in Range(dirs) : x \in Range(P[i])
      /\ \A x : x \in Range(b) <=> \E i \in Range(others) : x \in Range(Q[i])
  <2>. HIDE DEF P, Q
  <2>. QED BY <1>1 DEF Gathers
<1>4. IsInjective(a) /\ IsInjective(b) /\ Range(a) \cap Range(b) = {}
  <2>1. IsInjective(a \o b)
    BY <1>1, <1>2
  <2>. QED BY <1>3, <2>1, ConcatInjective
<1>5. /\ \A i \in Range(dirs) : IsInjective(P[i])
      /\ \A k, l \in DOMAIN dirs : k # l => Range(P[dirs[k]]) \cap Range(P[dirs[l]]) = {}
      /\ \A i \in Range(others) : IsInjective(Q[i])
      /\ \A k, l \in DOMAIN others : k # l => Range(Q[others[k]]) \cap Range(Q[others[l]]) = {}
  <2>. HIDE DEF P, Q
  <2>. QED BY <1>1, <1>4 DEF Gathers
<1>6. \A i \in Range(dirs) : /\ Range(P[i]) = Range(Q[i])
                             /\ IsInjective(P[i]) => IsInjective(Q[i])
  BY <1>2, AllParsed
<1>7. \A i \in Inode : Q[i] = inode[i].blocks
  OBVIOUS
<1>8. \A i \in Range(dirs) : Range(Q[i]) # {}
  <2>. SUFFICES ASSUME NEW i \in Range(dirs) PROVE Range(Q[i]) # {}
    OBVIOUS
  <2>1. i \in Directories /\ i \in Inode
    BY <1>2 DEF Directories
  <2>2. inode[i].blocks # <<>> /\ inode[i].blocks \in Seq(Block)
    BY <2>1 DEF DotsInHead, TypeOK
  <2>3. inode[i].blocks[1] \in Range(inode[i].blocks)
    BY <2>2 DEF Range
  <2>. QED BY <2>1, <2>3
<1>. HIDE DEF P, Q
<1>9. \A i \in ibits : IsInjective(Q[i])
  BY <1>2, <1>5, <1>6
<1>10. \A d \in Range(dirs) : \E k \in DOMAIN dirs : d = dirs[k]
  BY DEF Range
<1>11. \A d \in Range(others) : \E k \in DOMAIN others : d = others[k]
  BY DEF Range
<1>12. IsInjective(dirs)
  <2>. SUFFICES ASSUME NEW k \in DOMAIN dirs, NEW l \in DOMAIN dirs, dirs[k] = dirs[l], k # l
                PROVE  FALSE
    BY DEF IsInjective
  <2>1. Range(P[dirs[k]]) = {} /\ dirs[k] \in Range(dirs)
    BY <1>5 DEF Range
  <2>. QED BY <1>6, <1>8, <2>1
<1>13. \A x : x \in Range(a) \cup Range(b) <=> \E i \in ibits : x \in Range(Q[i])
  BY <1>2, <1>3, <1>6
<1>14. Range(Visits(dirs, others)) = Range(a) \cup Range(b)
  BY <1>1, <1>3, RangeConcatenation
<1>15. \A x : x \in Content <=> \E i \in ibits : x \in Range(Q[i])
  <2>1. \A i \in ibits : Q[i] = inode[i].blocks
    BY <1>2, <1>7
  <2>2. \A x : x \in Content <=> \E i \in ibits : x \in Range(inode[i].blocks)
    BY DEF Content
  <2>. QED BY <2>1, <2>2
<1>16. dbits = Content
  <2>1. Range(Visits(dirs, others)) = Content
    BY <1>13, <1>14, <1>15
  <2>2. Content \subseteq dbits
    BY <1>2 DEF Content
  <2>. QED BY <1>2, <2>1, <2>2
<1>17. ASSUME NEW i \in ibits, NEW j \in ibits, NEW x, x \in Range(Q[i]), x \in Range(Q[j])
       PROVE  i = j
  <2>1. CASE i \in Range(dirs) /\ j \in Range(dirs)
    <3>1. PICK k, l \in DOMAIN dirs : i = dirs[k] /\ j = dirs[l]
      BY <1>10, <2>1
    <3>2. x \in Range(P[i]) /\ x \in Range(P[j])
      BY <1>6, <1>17, <2>1
    <3>. QED BY <1>5, <3>1, <3>2
  <2>2. CASE i \in Range(others) /\ j \in Range(others)
    <3>1. PICK k, l \in DOMAIN others : i = others[k] /\ j = others[l]
      BY <1>11, <2>2
    <3>. QED BY <1>5, <1>17, <3>1
  <2>3. CASE i \in Range(dirs) /\ j \in Range(others)
    BY <1>3, <1>4, <1>6, <1>17, <2>3
  <2>4. CASE i \in Range(others) /\ j \in Range(dirs)
    BY <1>3, <1>4, <1>6, <1>17, <2>4
  <2>. QED BY <1>2, <2>1, <2>2, <2>3, <2>4
<1>18. ASSUME NEW i \in ibits, NEW j \in ibits, NEW k \in DOMAIN inode[i].blocks,
              NEW l \in DOMAIN inode[j].blocks, inode[i].blocks[k] = inode[j].blocks[l]
       PROVE  i = j /\ k = l
  <2>1. Q[i] = inode[i].blocks /\ Q[j] = inode[j].blocks
    BY <1>2, <1>7
  <2>2. Q[i][k] \in Range(Q[i]) /\ Q[i][k] \in Range(Q[j])
    BY <1>18, <2>1 DEF Range
  <2>3. i = j
    BY <1>17, <2>2
  <2>4. IsInjective(Q[i])
    BY <1>9
  <2>. QED BY <1>18, <2>1, <2>3, <2>4 DEF IsInjective
<1>. QED BY <1>12, <1>16, <1>18

(* An inode that a record of type directory leads to is visited as one, and *)
(* every other record as something else.                                    *)
LEMMA EntryVisited ==
  ASSUME TypeOK, NEW dirs \in Seq(Inode), NEW others \in Seq(Inode), Clean(dirs, others),
         NEW level, Levels(level), Range(level[NI]) = {},
         \A x : x \in Range(dirs) <=> \E n \in 0 .. NI : x \in Range(level[n]),
         \A x : x \in Range(others) <=> \E d \in Range(dirs) : x \in Range(child_others(d)),
         NEW d \in Range(dirs), NEW pos \in Position(d), IsNamed(At(d, pos))
  PROVE  IF At(d, pos).type = "directory" THEN At(d, pos).ino \in Range(dirs)
                                          ELSE At(d, pos).ino \in Range(others)
<1>. DEFINE e == At(d, pos)
<1>1. d \in Inode /\ d \in ibits /\ Range(inode[d].blocks) \subseteq dbits /\ Misplaced(d) = {}
  BY RangeOfSeq DEF Clean
<1>2. pos \in Read(d) /\ Range(Parsed(d)) = 1 .. Len(inode[d].blocks)
  BY <1>1, AllParsed DEF IsNamed
<1>3. CASE e.type # "directory"
  <2>1. pos \in Others(d)
    BY <1>2, <1>3 DEF Others
  <2>2. e.ino \in Range(child_others(d))
    BY <1>1, <2>1, OthersAre
  <2>. QED BY <1>3, <2>2
<1>4. CASE e.type = "directory"
  <2>1. ~IsHead(pos)
    <3>. SUFFICES ASSUME IsHead(pos) PROVE FALSE
      OBVIOUS
    <3>1. pos = <<pos[1], pos[2]>> /\ pos[1] \in 1 .. Len(inode[d].blocks) /\ pos[2] \in Slot
      BY DEF Position
    <3>2. pos[1] = 1 /\ pos[2] \in {1, 2} /\ 1 \in Range(Parsed(d))
      BY <1>2, <3>1 DEF IsHead, Slot
    <3>3. e.name \notin {".", ".."}
      BY DEF IsNamed
    <3>4. e = At(d, <<1, pos[2]>>)
      BY <3>1, <3>2
    <3>. HIDE DEF e
    <3>5. CASE pos[2] = 1
      <4>1. At(d, <<1, 1>>).name # <<".", "..">>[1] /\ 1 \in {1, 2}
        BY <3>3, <3>4, <3>5
      <4>2. Error(<<"MissingSelf", "MissingParent">>[1], d) \in Misplaced(d)
        BY <3>2, <4>1 DEF Misplaced
      <4>. QED BY <1>1, <4>2
    <3>6. CASE pos[2] = 2
      <4>1. At(d, <<1, 2>>).name # <<".", "..">>[2] /\ 2 \in {1, 2}
        BY <3>3, <3>4, <3>6
      <4>2. Error(<<"MissingSelf", "MissingParent">>[2], d) \in Misplaced(d)
        BY <3>2, <4>1 DEF Misplaced
      <4>. QED BY <1>1, <4>2
    <3>. QED BY <3>2, <3>5, <3>6
  <2>2. pos \in Children(d)
    BY <1>2, <1>4, <2>1 DEF Children, IsChild
  <2>3. e.ino \in Range(child_dirs(d))
    BY <1>1, <2>2, ChildrenAre
  <2>4. PICK n \in 0 .. NI : d \in Range(level[n])
    OBVIOUS
  <2>5. n # NI
    BY <2>4
  <2>6. n + 1 \in 1 .. NI /\ (n + 1) - 1 = n /\ n + 1 \in 0 .. NI
    BY <2>5, FormatAssumption
  <2>. HIDE DEF e
  <2>7. e.ino \in Range(level[n + 1])
    BY <2>3, <2>4, <2>6 DEF Levels
  <2>8. e.ino \in Range(dirs)
    BY <2>6, <2>7
  <2>. QED BY <1>4, <2>8 DEF e
<1>. QED BY <1>3, <1>4

(* What is visited below the root is named.                                 *)
LEMMA VisitedNamed ==
  ASSUME TypeOK, DotsInHead, NEW dirs \in Seq(Inode), NEW others \in Seq(Inode),
         Clean(dirs, others), NEW level, Levels(level),
         \A x : x \in Range(dirs) <=> \E n \in 0 .. NI : x \in Range(level[n]),
         \A x : x \in Range(others) <=> \E d \in Range(dirs) : x \in Range(child_others(d)),
         NEW i \in ibits \ {Root}
  PROVE  Refs(i) # {}
<1>1. PICK d \in Range(dirs) : \/ i \in Range(child_dirs(d))
                              \/ i \in Range(child_others(d))
  <2>1. CASE i \in Range(others)
    BY <2>1
  <2>2. CASE i \in Range(dirs)
    <3>1. PICK n \in 0 .. NI : i \in Range(level[n])
      BY <2>2
    <3>2. n # 0
      <4>1. Range(level[0]) = {Root}
        BY DEF Levels, Range
      <4>. QED BY <3>1, <4>1
    <3>3. n \in 1 .. NI /\ n - 1 \in 0 .. NI
      BY <3>2, FormatAssumption
    <3>4. PICK d \in Range(level[n - 1]) : i \in Range(child_dirs(d))
      BY <3>1, <3>3 DEF Levels
    <3>5. d \in Range(dirs)
      BY <3>3, <3>4
    <3>. QED BY <3>4, <3>5
  <2>3. i \in Range(dirs) \cup Range(others)
    BY DEF Clean
  <2>. QED BY <2>1, <2>2, <2>3
<1>2. d \in Inode /\ d \in ibits /\ inode[d].type = "directory" /\ d \in Directories
  BY RangeOfSeq DEF Clean, Directories
<1>3. PICK pos \in Read(d) : /\ At(d, pos).ino = i
                             /\ ~IsHead(pos) \/ At(d, pos).type # "directory"
  <2>1. CASE i \in Range(child_dirs(d))
    BY <1>2, <2>1, ChildrenAre DEF Children, IsChild
  <2>2. CASE i \in Range(child_others(d))
    BY <1>2, <2>2, OthersAre DEF Others
  <2>. QED BY <1>1, <2>1, <2>2
<1>4. pos \in Position(d) /\ At(d, pos).ino # NoInode
  BY <1>3 DEF Read
<1>5. IsNamed(At(d, pos))
  BY <1>2, <1>3, <1>4 DEF DotsInHead
<1>6. IsRef(inode, content, ibits, d, pos[1], pos[2], i)
  BY <1>2, <1>3, <1>4, <1>5 DEF IsRef, Position, At
<1>. QED BY <1>6, NamingIs, RefsIs

(* The pointer blocks are no content, so there are none if all blocks are.  *)
LEMMA NoPointers ==
  ASSUME TypeOK, PointersApart, dbits = Content, NEW i \in ibits
  PROVE  Owned(i) = inode[i].blocks
<1>1. inode[i].ptrs \in Seq(Block) /\ inode[i].blocks \in Seq(Block)
  BY DEF TypeOK
<1>2. \A k \in DOMAIN inode[i].ptrs : FALSE
  BY DEF PointersApart
<1>3. inode[i].ptrs = <<>>
  <2>1. Len(inode[i].ptrs) \in Nat /\ DOMAIN inode[i].ptrs = 1 .. Len(inode[i].ptrs)
    BY <1>1
  <2>2. 1 \notin 1 .. Len(inode[i].ptrs)
    BY <1>2, <2>1
  <2>. QED BY <1>1, <2>2
<1>. QED BY <1>1, <1>3 DEF Owned

(* The type of a record.                                                    *)
LEMMA RecordTyped ==
  ASSUME TypeOK, NEW d \in Directories, NEW pos \in Position(d)
  PROVE  At(d, pos).type \in Types
<1>1. /\ d \in Inode /\ inode[d].blocks \in Seq(Block)
      /\ pos[1] \in 1 .. Len(inode[d].blocks) /\ pos[2] \in Slot
  BY DEF TypeOK, Directories, Position
<1>2. inode[d].blocks[pos[1]] \in Block
  BY <1>1
<1>3. At(d, pos) \in SlotContent
  BY <1>1, <1>2 DEF TypeOK, At
<1>. QED BY <1>3 DEF SlotContent

(* In every state whose directories begin with their head, whose pointer    *)
(* blocks are in use for nothing else, and where names of type symlink lead *)
(* to symbolic links, the verdict of the checker can be relied on.          *)
LEMMA CheckerVerdict ==
  ASSUME TypeOK, DotsInHead, PointersApart, SymlinksLead
  PROVE  CheckerSound
<1>. SUFFICES ASSUME check_integrity = {}
              PROVE  Undamaged /\ EntriesAgree
  BY DEF CheckerSound
<1>. DEFINE dirs == DirVisits
            others == Concat(child_others, dirs)
<1>1. dirs \in Seq(Inode)
  BY VisitsLevels
<1>2. PICK level : /\ Levels(level)
                   /\ \A x : x \in Range(dirs) <=> \E n \in 0 .. NI : x \in Range(level[n])
                   /\ IsInjective(dirs) =>
                        \A m, n \in 0 .. NI : m # n => Range(level[m]) \cap Range(level[n]) = {}
  BY VisitsLevels
<1>. HIDE DEF dirs
<1>3. /\ others \in Seq(Inode)
      /\ \A x : x \in Range(others) <=> \E d \in Range(dirs) : x \in Range(child_others(d))
  BY <1>1, OthersVisited
<1>4. Visits(dirs, others) \in Seq(Block)
  <2>. HIDE DEF others
  <2>1. PICK a, b : /\ Visits(dirs, others) = a \o b
                    /\ a \in Seq(Block) /\ b \in Seq(Block)
    BY <1>1, <1>3, BlocksVisited DEF Gathers
  <2>. QED BY <2>1
<1>5. Clean(dirs, others)
  BY <1>1, <1>3, <1>4, NothingReported DEF dirs
<1>. HIDE DEF others
<1>6. /\ IsInjective(dirs)
      /\ dbits = Content
      /\ \A i, j \in ibits : \A k \in DOMAIN inode[i].blocks : \A l \in DOMAIN inode[j].blocks :
           inode[i].blocks[k] = inode[j].blocks[l] => i = j /\ k = l
  BY <1>1, <1>3, <1>5, VisitedOnce
<1>7. Range(level[NI]) = {}
  BY <1>2, <1>6, RecursionEnds
<1>8. BlockOwnership
  <2>1. \A i \in ibits : Owned(i) = inode[i].blocks
    BY <1>6, NoPointers
  <2>2. \A i \in ibits : \A k \in DOMAIN inode[i].blocks : inode[i].blocks[k] \in dbits
    BY <1>5 DEF Clean, Range
  <2>. QED BY <1>6, <2>1, <2>2 DEF BlockOwnership
<1>9. ASSUME NEW d \in Directories, NEW pos \in Position(d), IsNamed(At(d, pos))
      PROVE  LET e == At(d, pos)
             IN  /\ e.ino \in ibits
                 /\ inode[e.ino].type = IF e.type = "directory" THEN "directory" ELSE "file"
  <2>. DEFINE e == At(d, pos)
  <2>1. d \in Range(dirs)
    BY <1>5 DEF Clean, Directories
  <2>2. IF e.type = "directory" THEN e.ino \in Range(dirs) ELSE e.ino \in Range(others)
    BY <1>1, <1>2, <1>3, <1>5, <1>7, <1>9, <2>1, EntryVisited
  <2>. HIDE DEF e
  <2>3. /\ e.ino \in ibits
        /\ inode[e.ino].type = IF e.type = "directory" THEN "directory" ELSE "file"
    BY <1>5, <2>2 DEF Clean
  <2>. QED BY <2>3 DEF e
<1>10. EntriesLead /\ EntriesAgree
  <2>1. EntriesLead
    BY <1>9 DEF EntriesLead
  <2>2. ASSUME NEW d \in Directories, NEW pos \in Position(d), IsNamed(At(d, pos))
        PROVE  At(d, pos).type = inode[At(d, pos).ino].type
    <3>. DEFINE e == At(d, pos)
    <3>1. /\ e.type = "symlink" => inode[e.ino].type = "symlink"
          /\ inode[e.ino].type = IF e.type = "directory" THEN "directory" ELSE "file"
      BY <1>9, <2>2 DEF SymlinksLead
    <3>2. e.type \in Types
      BY <2>2, RecordTyped
    <3>. HIDE DEF e
    <3>3. e.type = inode[e.ino].type
      BY <3>1, <3>2 DEF Types
    <3>. QED BY <3>3 DEF e
  <2>. QED BY <2>1, <2>2 DEF EntriesAgree
<1>11. NoOrphans
  BY <1>1, <1>2, <1>3, <1>5, VisitedNamed DEF NoOrphans
<1>12. sb = [free_inodes |-> NI - Cardinality(ibits), free_data |-> ND - Cardinality(dbits)]
  <2>1. sb = [free_inodes |-> sb.free_inodes, free_data |-> sb.free_data]
    BY DEF TypeOK, Counts
  <2>. QED BY <1>5, <2>1 DEF Clean
<1>. QED BY <1>6, <1>8, <1>10, <1>11, <1>12 DEF Undamaged

(* What the invariant says of heads, pointer blocks and links.              *)
LEMMA ReliesOn ==
  ASSUME DInv
  PROVE  DotsInHead /\ PointersApart /\ SymlinksLead
<1>1. /\ TypeOK /\ BlockOwnership /\ Heads(inode, content, ibits)
      /\ inode \in [Inode -> INodes] /\ ibits \in SUBSET Inode
  BY Typed DEF DInv, IInv
<1>2. ASSUME NEW d \in Directories PROVE inode[d].blocks # <<>>
  <2>1. d \in ibits /\ inode[d].type = "directory" /\ inode[d].blocks \in Seq(Block)
    BY <1>1 DEF Directories, INodes
  <2>2. 1 \in 1 .. Len(inode[d].blocks)
    BY <1>1, <2>1 DEF Heads, Holds
  <2>. QED BY <2>1, <2>2
<1>3. ASSUME NEW d \in Directories, NEW pos \in Position(d), At(d, pos).ino # NoInode,
             ~IsNamed(At(d, pos))
      PROVE  IsHead(pos) /\ At(d, pos).type = "directory"
  <2>1. Holds(inode, content, ibits, d, pos[1], pos[2], At(d, pos))
    BY <1>3 DEF Holds, At, Position, Directories
  <2>2. pos[1] = 1 /\ pos[2] \in {1, 2} /\ At(d, pos).type = "directory"
    BY <1>1, <1>3, <2>1 DEF Heads
  <2>. QED BY <2>2 DEF IsHead
<1>4. Ownership(inode, dbits, ibits)
  BY <1>1, OwnershipIs
<1>5. ASSUME NEW i \in ibits
      PROVE  /\ Range(Blocks(inode[i])) = Range(inode[i].blocks) \cup Range(inode[i].ptrs)
             /\ Range(inode[i].blocks) \cap Range(inode[i].ptrs) = {}
  <2>1. inode[i].blocks \in Seq(Block) /\ inode[i].ptrs \in Seq(Block)
    BY <1>1 DEF INodes
  <2>2. IsInjective(inode[i].blocks \o inode[i].ptrs)
    BY <1>4 DEF Ownership, Blocks
  <2>. QED BY <2>1, <2>2, ConcatInjective, RangeConcatenation DEF Blocks
<1>6. ASSUME NEW i \in ibits, NEW x \in Range(inode[i].ptrs)
      PROVE  x \in dbits \ Content
  <2>1. x \in Range(Blocks(inode[i])) /\ x \in dbits
    BY <1>4, <1>5 DEF Ownership
  <2>2. ASSUME NEW j \in ibits, x \in Range(inode[j].blocks) PROVE FALSE
    <3>1. x \in Range(Blocks(inode[j]))
      BY <1>5, <2>2
    <3>2. i = j
      BY <1>4, <2>1, <3>1 DEF Ownership
    <3>. QED BY <1>5, <2>2, <3>2
  <2>. QED BY <2>1, <2>2 DEF Content
<1>7. \A i \in ibits : \A k \in DOMAIN inode[i].ptrs : inode[i].ptrs[k] \in Range(inode[i].ptrs)
  BY DEF Range
<1>8. ASSUME NEW d \in Directories, NEW pos \in Position(d), IsNamed(At(d, pos)),
             At(d, pos).type = "symlink"
      PROVE  inode[At(d, pos).ino].type = "symlink"
  <2>1. Holds(inode, content, ibits, d, pos[1], pos[2], At(d, pos))
    BY <1>8 DEF Holds, At, Position, Directories, IsNamed
  <2>. QED BY <1>1, <1>8, <2>1 DEF Heads
<1>. QED BY <1>2, <1>3, <1>6, <1>7, <1>8 DEF DotsInHead, PointersApart, SymlinksLead

(* As long as nobody deletes a file that is open, or uses a file as the     *)
(* parent of a path, a file system that check_integrity() finds nothing     *)
(* wrong with is sound in every reachable state: also after a create that   *)
(* was refused, after links to symbolic links, and after a rename that left *)
(* a directory with two entries of the wrong type.  No block has two        *)
(* owners, every name has the type of the inode it leads to, nothing        *)
(* allocated is lost and the counters are right.                            *)
THEOREM CheckerCorrect ==
  ASSUME Risky \cap {"delete_open", "file_parent"} = {}
  PROVE  Spec => []CheckerSound
<1>1. Init => DInv
  BY InitInv, InitHeads DEF DInv
<1>2. DInv /\ [Next]_vars => DInv'
  BY NextHeads
<1>3. DInv => CheckerSound
  BY ReliesOn, CheckerVerdict DEF DInv, IInv
<1>. QED BY <1>1, <1>2, <1>3, PTL DEF Spec
=============================================================================
