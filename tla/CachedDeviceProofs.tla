------------------------- MODULE CachedDeviceProofs -------------------------
(***************************************************************************)
(* Theorems about CachedDevice for every set of addresses, every capacity   *)
(* of at least 2 and every device, failing or not.  The recency list is not *)
(* assumed to be intact: none of these results depends on which block is    *)
(* evicted, so they also hold for the larger caches whose list breaks.      *)
(* The last part is about the list itself, in a cache of 2.                 *)
(***************************************************************************)
EXTENDS CachedDevice, FiniteSetTheorems, TLAPS

USE DeviceAssumption

(* Two caches over the same addresses hold the same blocks: only their      *)
(* links differ.                                                            *)
SameBlocks(c, e) == \A a \in DOMAIN e : c[a].data = e[a].data /\ c[a].dirty = e[a].dirty

(* c is e with other links.                                                 *)
Relinked(c, e) == c \in [DOMAIN e -> CachedBlock] /\ SameBlocks(c, e)

-----------------------------------------------------------------------------
(* Lemmas about the operators of the cache.                                 *)

(* Storing a link in one entry changes nothing but that link.               *)
LEMMA LinkStored ==
  ASSUME NEW D, NEW c \in [D -> CachedBlock], NEW x \in D, NEW l \in Link
  PROVE  /\ Relinked([c EXCEPT ![x].more_recent = l], c)
         /\ Relinked([c EXCEPT ![x].less_recent = l], c)
  BY DEF CachedBlock, Link, Relinked, SameBlocks

(* Relinking is transitive.                                                 *)
LEMMA RelinkedTwice ==
  ASSUME NEW D, NEW e \in [D -> CachedBlock], NEW c, NEW d, Relinked(c, e), Relinked(d, c)
  PROVE  Relinked(d, e)
  BY DEF Relinked, SameBlocks

(* The hit half of read_block and write_block only moves links.             *)
LEMMA TouchedRelinks ==
  ASSUME TypeOK, NEW b \in Cached, HitLinksValid(b)
  PROVE  Relinked(Touched(b), cache)
<1>. DEFINE e  == cache[b]
            c1 == [cache EXCEPT ![e.more_recent].less_recent = e.less_recent]
            c2 == [Unlinked(b) EXCEPT ![mru].more_recent = b]
            c3 == [c2 EXCEPT ![b].more_recent = NoBlock]
<1>1. cache \in [Cached -> CachedBlock] /\ Relinked(cache, cache)
  BY DEF TypeOK, Relinked, SameBlocks, Cached
<1>2. e.more_recent \in Link /\ e.less_recent \in Link /\ mru \in Cached /\ b \in Link /\ NoBlock \in Link
  BY DEF TypeOK, CachedBlock, HitLinksValid, Link
<1>3. Relinked(Unlinked(b), cache)
  <2>1. CASE e.more_recent = NoBlock
    BY <1>1, <2>1 DEF Unlinked
  <2>2. CASE e.more_recent # NoBlock
    <3>1. e.more_recent \in Cached /\ (e.less_recent # NoBlock => e.less_recent \in Cached)
      BY <2>2 DEF HitLinksValid
    <3>2. Relinked(c1, cache)
      BY <1>1, <1>2, <3>1, LinkStored DEF Cached
    <3>3. e.less_recent # NoBlock =>
            Relinked([c1 EXCEPT ![e.less_recent].more_recent = e.more_recent], c1)
      <4>1. c1 \in [Cached -> CachedBlock]
        BY <3>2 DEF Relinked, Cached
      <4>. QED BY <4>1, <1>2, <3>1, LinkStored
    <3>4. e.less_recent # NoBlock =>
            Relinked([c1 EXCEPT ![e.less_recent].more_recent = e.more_recent], cache)
      BY <3>2, <3>3, <1>1, RelinkedTwice
    <3>5. Unlinked(b) = IF e.less_recent = NoBlock THEN c1
                        ELSE [c1 EXCEPT ![e.less_recent].more_recent = e.more_recent]
      BY <2>2 DEF Unlinked
    <3>. QED BY <3>2, <3>4, <3>5
  <2>. QED BY <2>1, <2>2
<1>4. Relinked(c2, cache)
  <2>1. Unlinked(b) \in [Cached -> CachedBlock]
    BY <1>3 DEF Relinked, Cached
  <2>2. Relinked(c2, Unlinked(b))
    BY <2>1, <1>2, LinkStored
  <2>. QED BY <1>1, <1>3, <2>2, RelinkedTwice
<1>5. Relinked(c3, cache)
  <2>1. c2 \in [Cached -> CachedBlock]
    BY <1>4 DEF Relinked, Cached
  <2>2. Relinked(c3, c2)
    BY <2>1, <1>2, LinkStored
  <2>. QED BY <1>1, <1>4, <2>2, RelinkedTwice
<1>6. Relinked([c3 EXCEPT ![b].less_recent = mru], cache)
  <2>1. c3 \in [Cached -> CachedBlock]
    BY <1>5 DEF Relinked, Cached
  <2>2. Relinked([c3 EXCEPT ![b].less_recent = mru], c3) 
    BY <2>1, <1>2, LinkStored DEF TypeOK
  <2>. QED BY <1>1, <1>5, <2>2, RelinkedTwice
<1>. QED BY <1>6 DEF Touched

(* miss_update only moves links.                                            *)
LEMMA MissRelinks ==
  ASSUME TypeOK, NEW b \in Addr, MissLinksValid
  PROVE  Relinked(MissCache(b), cache)
<1>1. cache \in [Cached -> CachedBlock] /\ Relinked(cache, cache) /\ b \in Link
  BY DEF TypeOK, Relinked, SameBlocks, Cached, Link
<1>2. mru # NoBlock => Relinked([cache EXCEPT ![mru].more_recent = b], cache)
  BY <1>1, LinkStored DEF MissLinksValid
<1>. QED BY <1>1, <1>2 DEF MissCache

(* What insert() does to the cache when there is room: b is added.          *)
LEMMA InsertFreeCache ==
  ASSUME TypeOK, NEW b \in Addr, b \notin Cached, NEW entry \in CachedBlock,
         InsertFree(b, entry)
  PROVE  /\ cache' \in [Cached \cup {b} -> CachedBlock]
         /\ cache'[b] = entry
         /\ SameBlocks(cache', cache)
<1>1. Relinked(MissCache(b), cache)
  BY MissRelinks DEF InsertFree
<1>2. cache' = [a \in Cached \cup {b} |-> IF a = b THEN entry ELSE MissCache(b)[a]]
  BY DEF InsertFree
<1>3. cache'[b] = entry /\ \A a \in Cached : cache'[a] = MissCache(b)[a]
  BY <1>2
<1>. QED BY <1>1, <1>2, <1>3 DEF Relinked, SameBlocks, Cached

(* And when it is full: the lru gives way to b.                             *)
LEMMA InsertEvictCache ==
  ASSUME TypeOK, NEW b \in Addr, b \notin Cached, NEW entry \in CachedBlock,
         InsertEvict(b, entry)
  PROVE  /\ MissLru(b) \in Cached
         /\ lru' \in Cached
         /\ cache' \in [(Cached \ {MissLru(b)}) \cup {b} -> CachedBlock]
         /\ cache'[b] = entry
         /\ \A a \in Cached \ {MissLru(b)} : /\ cache'[a].data = cache[a].data
                                            /\ cache'[a].dirty = cache[a].dirty
<1>. DEFINE c    == MissCache(b)
            old  == MissLru(b)
            next == c[old].more_recent
            c2   == [c EXCEPT ![next].less_recent = NoBlock]
            keep == (Cached \ {old}) \cup {b}
<1>1. Relinked(c, cache)
  BY MissRelinks DEF InsertEvict
<1>2. old \in Cached /\ next \in Cached /\ lru' = next
  BY DEF InsertEvict
<1>3. cache' = [a \in keep |-> IF a = b THEN entry ELSE c2[a]]
  BY DEF InsertEvict
<1>4. Relinked(c2, cache)
  <2>1. c \in [Cached -> CachedBlock] /\ NoBlock \in Link /\ cache \in [Cached -> CachedBlock]
    BY <1>1 DEF Relinked, Cached, Link, TypeOK
  <2>2. Relinked(c2, c)
    BY <2>1, <1>2, LinkStored
  <2>. QED BY <1>1, <2>1, <2>2, RelinkedTwice
<1>. HIDE DEF c2, c, old, next
<1>5. cache'[b] = entry /\ \A a \in Cached \ {old} : cache'[a] = c2[a]
  BY <1>3
<1>6. cache' \in [keep -> CachedBlock]
  BY <1>3, <1>4 DEF Relinked, Cached
<1>7. \A a \in Cached \ {old} : cache'[a].data = cache[a].data /\ cache'[a].dirty = cache[a].dirty
  BY <1>4, <1>5 DEF Relinked, SameBlocks, Cached
<1>. QED BY <1>2, <1>5, <1>6, <1>7 DEF old

(* The entries read_block and write_block insert.                           *)
LEMMA EntryType ==
  ASSUME TypeOK, NEW d \in Data, NEW f \in BOOLEAN
  PROVE  Entry(d, f) \in CachedBlock /\ Entry(d, f).data = d /\ Entry(d, f).dirty = f
  BY DEF Entry, CachedBlock, TypeOK, Link

(* Marking blocks clean keeps the cache a cache, and the blocks' data.      *)
LEMMA CleanedBlocks ==
  ASSUME TypeOK, NEW W \in SUBSET Dirty
  PROVE  /\ FlushedDisk(W) \in [Addr -> Data]
         /\ Cleaned(W) \in [Cached -> CachedBlock]
         /\ \A a \in Cached : /\ Cleaned(W)[a].data = cache[a].data
                             /\ Cleaned(W)[a].dirty = (cache[a].dirty /\ a \notin W)
<1>1. \A a \in Cached : cache[a] \in CachedBlock
  BY DEF TypeOK
<1>2. FlushedDisk(W) \in [Addr -> Data]
  BY <1>1 DEF FlushedDisk, Dirty, TypeOK, CachedBlock
<1>3. \A a \in Cached : /\ [cache[a] EXCEPT !.dirty = FALSE] \in CachedBlock
                       /\ [cache[a] EXCEPT !.dirty = FALSE].data = cache[a].data
                       /\ [cache[a] EXCEPT !.dirty = FALSE].dirty = FALSE
  BY <1>1 DEF CachedBlock
<1>4. Cleaned(W) \in [Cached -> CachedBlock]
  BY <1>1, <1>3 DEF Cleaned
<1>5. \A a \in Cached : Cleaned(W)[a] = IF a \in W THEN [cache[a] EXCEPT !.dirty = FALSE]
                                         ELSE cache[a]
  BY DEF Cleaned
<1>6. \A a \in Cached : cache[a].dirty \in BOOLEAN
  BY <1>1 DEF CachedBlock
<1>. QED BY <1>2, <1>3, <1>4, <1>5, <1>6

(* A failing write leaves a well-formed device.                             *)
LEMMA FailedWriteType ==
  ASSUME NEW b \in Addr, NEW from \in [Addr -> Data], FailedWrite(b, from)
  PROVE  /\ disk' \in [Addr -> Data]
         /\ \A a \in Addr \ {b} : disk'[a] = from[a]
  BY DEF FailedWrite

(* The history variable stays a relation on addresses.                      *)
LEMMA AccessedType ==
  ASSUME NEW b \in Addr, NEW keep \in SUBSET Addr
  PROVE  Accessed(b, keep) \subseteq Addr \X Addr
  BY DEF Accessed

-----------------------------------------------------------------------------
(* Type correctness, by action.  The effect of each action on the links is  *)
(* hidden behind the lemmas above.                                          *)

(* The hit half keeps the types: it only moves links and rewrites one       *)
(* block.                                                                   *)
LEMMA HitType ==
  ASSUME TypeOK, NEW b \in Cached, HitLinksValid(b), HitUpdate(b),
         cache' \in [Cached -> CachedBlock]
  PROVE  TypeOK'
<1>1. Cached' = Cached /\ Cached \subseteq Addr /\ b \in Addr
  BY DEF TypeOK, Cached
<1>2. cache[b].more_recent \in Link
  BY DEF TypeOK, CachedBlock
<1>3. lru' \in Link /\ mru' \in Link
  BY <1>1, <1>2 DEF HitUpdate, HitLru, TypeOK, Link
<1>4. older' \subseteq Addr \X Addr
  BY <1>1, AccessedType DEF HitUpdate
<1>. QED BY <1>1, <1>3, <1>4 DEF TypeOK, HitUpdate

(* So does insert(), whether it finds room or evicts.                       *)
LEMMA InsertType ==
  ASSUME TypeOK, NEW b \in Addr, b \notin Cached, NEW entry \in CachedBlock,
         InsertFree(b, entry) \/ InsertEvict(b, entry)
  PROVE  TypeOK'
<1>1. CASE InsertFree(b, entry)
  <2>1. Cached' = Cached \cup {b} /\ Cached' \subseteq Addr /\ cache' \in [Cached' -> CachedBlock]
    BY <1>1, InsertFreeCache DEF Cached, TypeOK
  <2>2. older' \subseteq Addr \X Addr
    <3>1. older' = Accessed(b, Cached \cup {b})
      BY <1>1 DEF InsertFree
    <3>. QED BY <2>1, <3>1, AccessedType
  <2>3. lru' \in Link /\ mru' \in Link /\ cached_count' \in Nat
    BY <1>1 DEF InsertFree, MissLru, TypeOK, Link
  <2>. QED BY <1>1, <2>1, <2>2, <2>3 DEF TypeOK, InsertFree
<1>2. CASE InsertEvict(b, entry)
  <2>. DEFINE keep == (Cached \ {MissLru(b)}) \cup {b}
  <2>1. Cached' = keep /\ Cached' \subseteq Addr /\ cache' \in [Cached' -> CachedBlock]
    BY <1>2, InsertEvictCache DEF Cached, TypeOK
  <2>2. older' \subseteq Addr \X Addr
    <3>1. older' = Accessed(b, keep)
      BY <1>2 DEF InsertEvict
    <3>. QED BY <2>1, <3>1, AccessedType
  <2>3. lru' \in Link /\ mru' \in Link
    BY <1>2, InsertEvictCache DEF InsertEvict, TypeOK, Link
  <2>4. disk' \in [Addr -> Data]
    <3>1. MissLru(b) \in Cached /\ disk' = EvictedTo(MissLru(b))
      BY <1>2 DEF InsertEvict
    <3>. QED BY <3>1 DEF EvictedTo, TypeOK, CachedBlock
  <2>. QED BY <1>2, <2>1, <2>2, <2>3, <2>4 DEF TypeOK, InsertEvict
<1>. QED BY <1>1, <1>2

(* So does an insertion that stops at a failed write-back.                  *)
LEMMA InsertFailedType ==
  ASSUME TypeOK, NEW b \in Addr, NEW op, InsertFailed(b, op)
  PROVE  TypeOK'
<1>1. Relinked(cache', cache)
  BY MissRelinks DEF InsertFailed
<1>2. Cached' = Cached /\ cache' \in [Cached -> CachedBlock]
  BY <1>1 DEF Relinked, Cached
<1>3. disk' \in [Addr -> Data]
  <2>1. MissLru(b) \in Cached /\ FailedWrite(MissLru(b), disk)
    BY DEF InsertFailed
  <2>. QED BY <2>1, FailedWriteType DEF TypeOK
<1>4. lru' \in Link /\ mru' \in Link
  BY DEF InsertFailed, TypeOK, Link
<1>. QED BY <1>2, <1>3, <1>4 DEF TypeOK, InsertFailed

(* So does a failed unwrap: what a panic leaves behind is still a cache     *)
(* that drop can flush.                                                     *)
LEMMA PanicType ==
  ASSUME TypeOK, NEW b \in Addr, HitPanics(b) \/ InsertPanics(b)
  PROVE  TypeOK'
<1>1. disk' \in [Addr -> Data]
  <2>1. CASE HitPanics(b)
    BY <2>1 DEF HitPanics, TypeOK
  <2>2. CASE InsertPanics(b)
    <3>1. MissLru(b) \in Cached => EvictedTo(MissLru(b)) \in [Addr -> Data]
      BY DEF EvictedTo, TypeOK, CachedBlock
    <3>. QED BY <2>2, <3>1 DEF InsertPanics, TypeOK
  <2>. QED BY <2>1, <2>2
<1>2. Panics
  BY DEF HitPanics, InsertPanics
<1>. QED BY <1>1, <1>2 DEF Panics, TypeOK, Cached

(* So do flush and drop, complete or stopped half-way.                      *)
LEMMA WriteBackType ==
  ASSUME TypeOK, NEW op, WriteBackAll(op)
  PROVE  /\ disk' \in [Addr -> Data]
         /\ cache' \in [Cached -> CachedBlock]
<1>1. CASE disk' = FlushedDisk(Dirty) /\ cache' = Cleaned(Dirty)
  BY <1>1, CleanedBlocks
<1>2. ASSUME NEW f \in Dirty, NEW W \in SUBSET (Dirty \ {f}),
             FailedWrite(f, FlushedDisk(W)), cache' = Cleaned(W)
      PROVE  disk' \in [Addr -> Data] /\ cache' \in [Cached -> CachedBlock]
  <2>1. W \in SUBSET Dirty /\ f \in Addr
    BY DEF Dirty, TypeOK
  <2>. QED BY <2>1, <1>2, CleanedBlocks, FailedWriteType
<1>. QED BY <1>1, <1>2 DEF WriteBackAll

(* Every outcome of read_block and write_block keeps the types.             *)
LEMMA ReadWriteType ==
  ASSUME TypeOK, NEW b \in Addr, read_block(b) \/ \E d \in Data : write_block(b, d)
  PROVE  TypeOK'
<1>1. CASE ReadHit(b)
  <2>1. cache' \in [Cached -> CachedBlock]
    BY <1>1, TouchedRelinks DEF ReadHit, Relinked, Cached
  <2>. QED BY <1>1, <2>1, HitType DEF ReadHit
<1>2. ASSUME NEW d \in Data, WriteHit(b, d) PROVE TypeOK'
  <2>1. Touched(b) \in [Cached -> CachedBlock]
    BY <1>2, TouchedRelinks DEF WriteHit, Relinked, Cached
  <2>2. Written(b, d) \in [Cached -> CachedBlock]
    BY <2>1, <1>2 DEF Written, CachedBlock, WriteHit
  <2>. QED BY <1>2, <2>2, HitType DEF WriteHit
<1>3. CASE ReadMiss(b)
  <2>1. disk[b] \in Data
    BY DEF TypeOK
  <2>2. Entry(disk[b], FALSE) \in CachedBlock
    BY <2>1, EntryType
  <2>. QED BY <1>3, <2>2, InsertType, InsertFailedType, PanicType DEF ReadMiss
<1>4. ASSUME NEW d \in Data, WriteMiss(b, d) PROVE TypeOK'
  <2>1. Entry(d, TRUE) \in CachedBlock
    BY EntryType
  <2>. QED BY <1>4, <2>1, InsertType, InsertFailedType, PanicType DEF WriteMiss
<1>5. CASE ReadFailed(b)
  BY <1>5 DEF ReadFailed, TypeOK, Cached
<1>6. CASE HitPanics(b)
  BY <1>6, PanicType
<1>. QED BY <1>1, <1>2, <1>3, <1>4, <1>5, <1>6 DEF read_block, write_block

(* The empty cache of new() is well formed.                                 *)
LEMMA TypeInit == Init => TypeOK
  BY DEF Init, TypeOK, Cached, Link, CachedBlock

(* Every step of the cache keeps the types.                                 *)
LEMMA TypeStep == TypeOK /\ [Next]_vars => TypeOK'
<1>. SUFFICES ASSUME TypeOK, [Next]_vars PROVE TypeOK'
  OBVIOUS
<1>1. CASE \E b \in Addr : read_block(b) \/ \E d \in Data : write_block(b, d)
  BY <1>1, ReadWriteType
<1>2. CASE flush
  <2>1. disk' \in [Addr -> Data] /\ cache' \in [Cached -> CachedBlock]
    BY <1>2, WriteBackType DEF flush
  <2>. QED BY <1>2, <2>1 DEF flush, TypeOK, Cached
<1>3. CASE drop
  <2>1. disk' \in [Addr -> Data] /\ cache' \in [Cached -> CachedBlock]
    BY <1>3, WriteBackType DEF drop
  <2>. QED BY <1>3, <2>1 DEF drop, TypeOK, Cached
<1>4. CASE save
  BY <1>4 DEF save, TypeOK, Cached
<1>5. ASSUME NEW n \in Sizes, resize(n) PROVE TypeOK'
  BY <1>5 DEF resize, TypeOK, Cached
<1>6. CASE Restart
  <2>0. \A b \in Addr : b + 1 \in Nat
    BY DeviceAssumption
  <2>1. Sizes \cup {Count} \cup {b + 1 : b \in Addr} \subseteq Nat
    BY <2>0, DeviceAssumption, Zenon
  <2>2. FileCounts \subseteq {count} \cup (Sizes \cup {Count} \cup {b + 1 : b \in Addr})
    BY Zenon DEF FileCounts
  <2>3. FileCounts \subseteq Nat
    BY <2>1, <2>2 DEF TypeOK
  <2>. QED BY <1>6, <2>3 DEF Restart, NewCache, TypeOK, Cached, Link
<1>7. CASE UNCHANGED vars
  BY <1>7 DEF vars, TypeOK, Cached
<1>. QED BY <1>1, <1>2, <1>3, <1>4, <1>5, <1>6, <1>7 DEF Next

(* CachedDevice never links to an address outside the device's range of     *)
(* addresses and never holds a malformed entry, on any device and with any  *)
(* sequence of calls, failures, panics, resizes and restarts.               *)
THEOREM TypeCorrect == Spec => []TypeOK
  BY TypeInit, TypeStep, PTL DEF Spec

-----------------------------------------------------------------------------
(* Coherence, by action.                                                    *)

(* The cached addresses can be counted.                                     *)
LEMMA CachedFinite ==
  ASSUME TypeOK PROVE IsFiniteSet(Cached) /\ Cardinality(Cached) \in Nat
  BY FS_Subset, FS_CardinalityType DEF TypeOK

(* A read hit keeps the cache coherent: data and dirty bits stay.           *)
LEMMA ReadHitCoherent ==
  ASSUME TypeOK, Coherent, NEW b \in Cached, ReadHit(b)
  PROVE  Coherent'
<1>1. Cached' = Cached /\ SameBlocks(cache', cache)
  BY TouchedRelinks DEF ReadHit, Relinked, Cached
<1>2. disk' = disk /\ cached_count' = cached_count
  BY DEF ReadHit, HitUpdate
<1>. QED BY <1>1, <1>2 DEF Coherent, SameBlocks, Cached

(* A write hit changes the block written, which becomes dirty, and no       *)
(* other.                                                                   *)
LEMMA WriteHitBlocks ==
  ASSUME TypeOK, NEW b \in Cached, NEW d \in Data, WriteHit(b, d)
  PROVE  /\ cache' \in [Cached -> CachedBlock]
         /\ cache'[b].data = d /\ cache'[b].dirty = TRUE
         /\ \A a \in Cached \ {b} : cache'[a].data = cache[a].data /\ cache'[a].dirty = cache[a].dirty
<1>. DEFINE t == Touched(b)
<1>1. t \in [Cached -> CachedBlock] /\ SameBlocks(t, cache)
  BY TouchedRelinks DEF WriteHit, Relinked, Cached
<1>2. cache' = [t EXCEPT ![b].data = d, ![b].dirty = TRUE]
  BY DEF WriteHit, Written
<1>. HIDE DEF t
<1>3. cache' \in [Cached -> CachedBlock] /\ cache'[b].data = d /\ cache'[b].dirty = TRUE
  BY <1>1, <1>2 DEF CachedBlock
<1>4. \A a \in Cached \ {b} : cache'[a] = t[a]
  BY <1>1, <1>2
<1>. QED BY <1>1, <1>3, <1>4 DEF SameBlocks, Cached

(* So it keeps the cache coherent.                                          *)
LEMMA WriteHitCoherent ==
  ASSUME TypeOK, Coherent, NEW b \in Cached, NEW d \in Data, WriteHit(b, d)
  PROVE  Coherent'
<1>1. disk' = disk /\ cached_count' = cached_count
  BY DEF WriteHit, HitUpdate
<1>2. Cached' = Cached
  BY WriteHitBlocks DEF Cached
<1>. QED BY <1>1, <1>2, WriteHitBlocks DEF Coherent

(* A new entry, clean or dirty, keeps the cache coherent if it is dirty or  *)
(* holds what the device holds.                                             *)
LEMMA InsertCoherent ==
  ASSUME TypeOK, Coherent, NEW b \in Addr, b \notin Cached, NEW entry \in CachedBlock,
         entry.dirty \/ entry.data = disk[b],
         InsertFree(b, entry) \/ InsertEvict(b, entry)
  PROVE  Coherent'
<1>. IsFiniteSet(Cached) /\ Cardinality(Cached) \in Nat
  BY CachedFinite
<1>1. CASE InsertFree(b, entry)
  <2>1. cached_count' = cached_count + 1 /\ cached_count < Size /\ disk' = disk
    BY <1>1 DEF InsertFree
  <2>2. Cached' = Cached \cup {b} /\ cache'[b] = entry /\ SameBlocks(cache', cache)
    BY <1>1, InsertFreeCache DEF Cached
  <2>3. Cardinality(Cached') = Cardinality(Cached) + 1
    BY <2>2, FS_AddElement
  <2>4. cached_count' = Cardinality(Cached') /\ cached_count' <= Size
    BY <2>1, <2>3 DEF Coherent
  <2>5. \A a \in Cached' : ~cache'[a].dirty => cache'[a].data = disk'[a]
    BY <2>1, <2>2 DEF Coherent, SameBlocks, Cached
  <2>. QED BY <2>4, <2>5 DEF Coherent
<1>2. CASE InsertEvict(b, entry)
  <2>. DEFINE old == MissLru(b)
  <2>1. old \in Cached /\ Cached' = (Cached \ {old}) \cup {b} /\ cache'[b] = entry
        /\ \A a \in Cached \ {old} : cache'[a].data = cache[a].data /\ cache'[a].dirty = cache[a].dirty
    BY <1>2, InsertEvictCache DEF Cached
  <2>2. cached_count' = cached_count /\ disk' = EvictedTo(old)
    BY <1>2 DEF InsertEvict
  <2>3. \A a \in Addr \ {old} : disk'[a] = disk[a]
    BY <2>2 DEF EvictedTo, TypeOK
  <2>. HIDE DEF old
  <2>4. Cardinality(Cached') = Cardinality(Cached)
    <3>1. Cardinality(Cached \ {old}) = Cardinality(Cached) - 1 /\ IsFiniteSet(Cached \ {old})
      BY <2>1, FS_RemoveElement
    <3>2. Cardinality((Cached \ {old}) \cup {b}) = Cardinality(Cached \ {old}) + 1
      BY <3>1, FS_AddElement
    <3>. QED BY <2>1, <3>1, <3>2
  <2>5. cached_count' = Cardinality(Cached') /\ cached_count' <= Size
    BY <2>2, <2>4 DEF Coherent
  <2>6. \A a \in Cached' : ~cache'[a].dirty => cache'[a].data = disk'[a]
    <3>1. Cached \subseteq Addr
      BY DEF TypeOK
    <3>. QED BY <2>1, <2>3, <3>1 DEF Coherent
  <2>. QED BY <2>5, <2>6 DEF Coherent
<1>. QED BY <1>1, <1>2

(* A failed eviction damages at most the device copy of a dirty block.      *)
LEMMA InsertFailedCoherent ==
  ASSUME TypeOK, Coherent, NEW b \in Addr, NEW op, InsertFailed(b, op)
  PROVE  Coherent'
<1>1. Cached' = Cached /\ SameBlocks(cache', cache) /\ cached_count' = cached_count
  BY MissRelinks DEF InsertFailed, Relinked, Cached
<1>2. MissLru(b) \in Cached /\ cache[MissLru(b)].dirty
      /\ \A a \in Addr \ {MissLru(b)} : disk'[a] = disk[a]
  <2>1. MissLru(b) \in Cached /\ cache[MissLru(b)].dirty /\ FailedWrite(MissLru(b), disk)
    BY DEF InsertFailed
  <2>. QED BY <2>1, FailedWriteType DEF TypeOK
<1>. QED BY <1>1, <1>2 DEF Coherent, SameBlocks, TypeOK, Cached

(* A panic may come after the write-back of the lru, and changes nothing    *)
(* else.                                                                    *)
LEMMA PanicCoherent ==
  ASSUME TypeOK, Coherent, NEW b \in Addr, HitPanics(b) \/ InsertPanics(b)
  PROVE  Coherent'
<1>1. cache' = cache /\ Cached' = Cached /\ cached_count' = cached_count
  BY DEF HitPanics, InsertPanics, Panics, Cached
<1>2. \A a \in Cached : disk'[a] = disk[a] \/ disk'[a] = cache[a].data
  <2>1. CASE HitPanics(b)
    BY <2>1 DEF HitPanics
  <2>2. CASE InsertPanics(b)
    <3>1. disk' = disk \/ (MissLru(b) \in Cached /\ disk' = EvictedTo(MissLru(b)))
      BY <2>2 DEF InsertPanics
    <3>. QED BY <3>1 DEF EvictedTo, TypeOK
  <2>. QED BY <2>1, <2>2
<1>. QED BY <1>1, <1>2 DEF Coherent

(* flush and drop mark a block clean only once the device holds its data;   *)
(* the block a failure spoils stays dirty.                                  *)
LEMMA WriteBackCoherent ==
  ASSUME TypeOK, Coherent, NEW op, WriteBackAll(op), UNCHANGED cached_count
  PROVE  Coherent'
<1>0. Cached \subseteq Addr
  BY DEF TypeOK
<1>1. ASSUME NEW W \in SUBSET Dirty, cache' = Cleaned(W),
             \A a \in Cached : (cache[a].dirty /\ a \notin W) \/ disk'[a] = FlushedDisk(W)[a]
      PROVE  Coherent'
  <2>1. Cached' = Cached
    BY <1>1, CleanedBlocks DEF Cached
  <2>2. \A a \in Cached : FlushedDisk(W)[a] = IF a \in W THEN cache[a].data ELSE disk[a]
    BY <1>0 DEF FlushedDisk
  <2>3. \A a \in Cached : /\ cache'[a].data = cache[a].data
                         /\ cache'[a].dirty = (cache[a].dirty /\ a \notin W)
    BY <1>1, CleanedBlocks
  <2>4. ASSUME NEW a \in Cached, ~cache'[a].dirty PROVE cache'[a].data = disk'[a]
    <3>1. ~(cache[a].dirty /\ a \notin W)
      BY <2>3, <2>4
    <3>2. disk'[a] = IF a \in W THEN cache[a].data ELSE disk[a]
      BY <1>1, <2>2, <3>1
    <3>3. a \notin W => cache[a].data = disk[a]
      BY <3>1 DEF Coherent
    <3>. QED BY <2>3, <3>2, <3>3
  <2>. QED BY <2>1, <2>4 DEF Coherent
<1>2. CASE disk' = FlushedDisk(Dirty) /\ cache' = Cleaned(Dirty)
  BY <1>1, <1>2
<1>3. ASSUME NEW f \in Dirty, NEW W \in SUBSET (Dirty \ {f}),
             FailedWrite(f, FlushedDisk(W)), cache' = Cleaned(W)
      PROVE  Coherent'
  <2>1. W \in SUBSET Dirty /\ f \in Addr /\ cache[f].dirty /\ f \notin W
    BY <1>0 DEF Dirty
  <2>2. \A a \in Addr \ {f} : disk'[a] = FlushedDisk(W)[a]
    <3>1. FlushedDisk(W) \in [Addr -> Data]
      BY <2>1, CleanedBlocks
    <3>. QED BY <2>1, <1>3, <3>1, FailedWriteType
  <2>. QED BY <1>0, <1>1, <1>3, <2>1, <2>2
<1>. QED BY <1>2, <1>3 DEF WriteBackAll

(* The empty cache of new() is coherent.                                    *)
LEMMA CoherentInit == Init => Coherent
  BY FS_EmptySet DEF Init, Coherent, Cached

(* No resize cuts off an address in use.                                    *)
NothingCut == \A n \in Sizes, b \in Addr : b < n

(* Such a resize changes no block.                                          *)
LEMMA ResizeKeeps ==
  ASSUME NothingCut, TypeOK, NEW n \in Sizes, resize(n)
  PROVE  /\ disk' = disk /\ cache' = cache /\ cached_count' = cached_count
         /\ \E done \in BOOLEAN : res' = [op |-> "resize", ok |-> done]
<1>1. disk' = [a \in Addr |-> IF a < n THEN disk[a] ELSE Zero] \/ disk' = disk
  BY DEF resize
<1>2. [a \in Addr |-> IF a < n THEN disk[a] ELSE Zero] = disk
  BY DEF NothingCut, TypeOK
<1>. QED BY <1>1, <1>2 DEF resize, Fails

(* Every step keeps the cache coherent, as long as no resize cuts off an    *)
(* address in use.                                                          *)
LEMMA CoherentStep ==
  ASSUME NothingCut PROVE TypeOK /\ Coherent /\ [Next]_vars => Coherent'
<1>. SUFFICES ASSUME TypeOK, Coherent, [Next]_vars PROVE Coherent'
  OBVIOUS
<1>1. ASSUME NEW b \in Addr, read_block(b) PROVE Coherent'
  <2>1. CASE ReadHit(b)
    BY <2>1, ReadHitCoherent DEF ReadHit
  <2>2. CASE HitPanics(b)
    BY <2>2, PanicCoherent
  <2>3. CASE ReadMiss(b)
    <3>1. disk[b] \in Data
      BY DEF TypeOK
    <3>2. Entry(disk[b], FALSE) \in CachedBlock /\ Entry(disk[b], FALSE).data = disk[b]
      BY <3>1, EntryType
    <3>. QED BY <2>3, <3>2, InsertCoherent, InsertFailedCoherent, PanicCoherent DEF ReadMiss
  <2>4. CASE ReadFailed(b)
    BY <2>4 DEF ReadFailed, Coherent, Cached
  <2>. QED BY <1>1, <2>1, <2>2, <2>3, <2>4 DEF read_block
<1>2. ASSUME NEW b \in Addr, NEW d \in Data, write_block(b, d) PROVE Coherent'
  <2>1. CASE WriteHit(b, d)
    BY <2>1, WriteHitCoherent DEF WriteHit
  <2>2. CASE HitPanics(b)
    BY <2>2, PanicCoherent
  <2>3. CASE WriteMiss(b, d)
    <3>1. Entry(d, TRUE) \in CachedBlock /\ Entry(d, TRUE).dirty
      BY EntryType
    <3>. QED BY <2>3, <3>1, InsertCoherent, InsertFailedCoherent, PanicCoherent DEF WriteMiss
  <2>. QED BY <1>2, <2>1, <2>2, <2>3 DEF write_block
<1>3. CASE flush
  BY <1>3, WriteBackCoherent DEF flush
<1>4. CASE drop
  BY <1>4, WriteBackCoherent DEF drop
<1>5. CASE save
  BY <1>5 DEF save, Coherent, Cached
<1>6. CASE Restart
  <2>1. Cached' = {} /\ cached_count' = 0
    BY <1>6 DEF Restart, NewCache, Cached
  <2>. QED BY <2>1, FS_EmptySet DEF Coherent
<1>7. CASE UNCHANGED vars
  BY <1>7 DEF vars, Coherent, Cached
<1>8. ASSUME NEW n \in Sizes, resize(n) PROVE Coherent'
  BY <1>8, ResizeKeeps DEF Coherent, Cached
<1>. QED BY <1>1, <1>2, <1>3, <1>4, <1>5, <1>6, <1>7, <1>8 DEF Next

(* As long as the device only grows under the cache (the file system never  *)
(* resizes it), a clean cached block is the block of the device, whatever   *)
(* fails and whatever panics, and the cache never outgrows its capacity.    *)
THEOREM CoherentAlways ==
  ASSUME NothingCut PROVE Spec => []Coherent
  BY TypeInit, TypeStep, CoherentInit, CoherentStep, PTL DEF Spec

-----------------------------------------------------------------------------
(* Where a dirty block may go in a step.                                    *)
Safe(b) == \/ res'.op = "new"
           \/ b \in DOMAIN cache' /\ cache'[b].dirty
           \/ disk'[b] = cache[b].data

(* An insertion loses no dirty block: the one it evicts is written back     *)
(* first.                                                                   *)
LEMMA InsertSafe ==
  ASSUME TypeOK, NEW b \in Addr, b \notin Cached, NEW entry \in CachedBlock,
         InsertFree(b, entry) \/ InsertEvict(b, entry), NEW a \in Dirty
  PROVE  Safe(a)
<1>0. a \in Cached /\ a \in Addr /\ cache[a].dirty
  BY DEF Dirty, TypeOK
<1>1. CASE InsertFree(b, entry)
  BY <1>0, <1>1, InsertFreeCache DEF Safe, SameBlocks, Cached
<1>2. CASE InsertEvict(b, entry)
  <2>1. CASE a = MissLru(b)
    <3>1. disk' = [disk EXCEPT ![a] = cache[a].data]
      BY <1>0, <1>2, <2>1 DEF InsertEvict, EvictedTo
    <3>. QED BY <1>0, <3>1 DEF Safe, TypeOK
  <2>2. CASE a # MissLru(b)
    BY <1>0, <1>2, <2>2, InsertEvictCache DEF Safe
  <2>. QED BY <2>1, <2>2
<1>. QED BY <1>1, <1>2

(* Nor do flush and drop.                                                   *)
LEMMA WriteBackSafe ==
  ASSUME TypeOK, NEW op, WriteBackAll(op), NEW a \in Dirty
  PROVE  Safe(a)
<1>0. a \in Cached /\ a \in Addr /\ cache[a].dirty
  BY DEF Dirty, TypeOK
<1>1. CASE disk' = FlushedDisk(Dirty)
  BY <1>0, <1>1 DEF FlushedDisk, Safe
<1>2. ASSUME NEW f \in Dirty, NEW W \in SUBSET (Dirty \ {f}),
             FailedWrite(f, FlushedDisk(W)), cache' = Cleaned(W)
      PROVE  Safe(a)
  <2>1. W \in SUBSET Dirty /\ f \in Addr
    BY DEF Dirty, TypeOK
  <2>2. CASE a \in W
    <3>1. FlushedDisk(W) \in [Addr -> Data] /\ a # f
      BY <2>1, <2>2, CleanedBlocks
    <3>2. disk'[a] = FlushedDisk(W)[a]
      BY <1>0, <1>2, <2>1, <3>1, FailedWriteType
    <3>. QED BY <1>0, <2>2, <3>2 DEF FlushedDisk, Safe
  <2>3. CASE a \notin W
    <3>1. cache' \in [Cached -> CachedBlock] /\ cache'[a].dirty = (cache[a].dirty /\ a \notin W)
      BY <1>0, <1>2, <2>1, CleanedBlocks
    <3>. QED BY <1>0, <2>3, <3>1 DEF Safe
  <2>. QED BY <2>2, <2>3
<1>. QED BY <1>1, <1>2 DEF WriteBackAll

(* Nor does any outcome of read_block and write_block.                      *)
LEMMA ReadWriteSafe ==
  ASSUME TypeOK, NEW b \in Addr, read_block(b) \/ \E d \in Data : write_block(b, d),
         NEW a \in Dirty
  PROVE  Safe(a)
<1>0. a \in Cached /\ cache[a].dirty
  BY DEF Dirty
<1>1. CASE ReadHit(b)
  <2>1. Relinked(cache', cache)
    BY <1>1, TouchedRelinks DEF ReadHit
  <2>. QED BY <1>0, <2>1 DEF Safe, Relinked, SameBlocks, Cached
<1>2. ASSUME NEW d \in Data, WriteHit(b, d) PROVE Safe(a)
  <2>1. b \in Cached
    BY <1>2 DEF WriteHit
  <2>. QED BY <1>0, <1>2, <2>1, WriteHitBlocks DEF Safe
<1>3. ASSUME NEW op, InsertFailed(b, op) PROVE Safe(a)
  <2>1. Relinked(cache', cache)
    BY <1>3, MissRelinks DEF InsertFailed
  <2>. QED BY <1>0, <2>1 DEF Safe, Relinked, SameBlocks, Cached
<1>4. CASE HitPanics(b) \/ InsertPanics(b) \/ ReadFailed(b)
  BY <1>0, <1>4 DEF Safe, HitPanics, InsertPanics, Panics, ReadFailed, Cached
<1>5. CASE ReadMiss(b)
  <2>1. disk[b] \in Data
    BY DEF TypeOK
  <2>2. Entry(disk[b], FALSE) \in CachedBlock
    BY <2>1, EntryType
  <2>. QED BY <1>3, <1>4, <1>5, <2>2, InsertSafe DEF ReadMiss
<1>6. ASSUME NEW d \in Data, WriteMiss(b, d) PROVE Safe(a)
  <2>1. Entry(d, TRUE) \in CachedBlock
    BY EntryType
  <2>. QED BY <1>3, <1>4, <1>6, <2>1, InsertSafe DEF WriteMiss
<1>. QED BY <1>1, <1>2, <1>4, <1>5, <1>6 DEF read_block, write_block

(* Nor does any step but a restart.                                         *)
LEMMA DirtyStep ==
  ASSUME TypeOK, Next, NEW a \in Dirty PROVE Safe(a)
<1>0. a \in Cached /\ cache[a].dirty
  BY DEF Dirty
<1>1. CASE \E b \in Addr : read_block(b) \/ \E d \in Data : write_block(b, d)
  BY <1>1, ReadWriteSafe
<1>2. CASE flush \/ drop
  BY <1>2, WriteBackSafe DEF flush, drop
<1>3. CASE save \/ \E n \in Sizes : resize(n)
  BY <1>0, <1>3 DEF save, resize, Safe, Cached
<1>4. CASE Restart
  BY <1>4 DEF Restart, NewCache, Safe
<1>. QED BY <1>1, <1>2, <1>3, <1>4 DEF Next

(* No call, failing or not, on a device of any size, drops an acknowledged  *)
(* write: a dirty block stays dirty in the cache until its data is on the   *)
(* device, and only a restart forgets it.                                   *)
THEOREM DirtyNeverLost == Spec => DirtyNotLost
<1>1. TypeOK /\ [Next]_vars =>
        [\A b \in Dirty : \/ res'.op = "new"
                          \/ b \in DOMAIN cache' /\ cache'[b].dirty
                          \/ disk'[b] = cache[b].data]_vars
  BY DirtyStep DEF Safe
<1>. QED BY <1>1, TypeCorrect, PTL DEF Spec, DirtyNotLost

-----------------------------------------------------------------------------
(* The cache implements the write-back store.  The argument: an action      *)
(* moves data between the cache and the device without changing what is     *)
(* Visible, except where the caller asked for it; Coherent is needed where  *)
(* a clean block is forgotten (eviction) or skipped (flush).                *)

HIDE DeviceAssumption

(* What the callers see is a contents of a device.                          *)
LEMMA VisibleType ==
  ASSUME TypeOK
  PROVE  /\ Visible \in [Addr -> Data]
         /\ \A a \in Addr : Visible[a] = IF a \in Cached THEN cache[a].data ELSE disk[a]
<1>1. \A a \in Cached : cache[a].data \in Data
  BY DEF TypeOK, CachedBlock
<1>. QED BY <1>1 DEF Visible, TypeOK

(* Writing a set of blocks back, pointwise; writing none back is no change. *)
LEMMA WrittenBackBlocks ==
  ASSUME TypeOK, NEW W \in SUBSET Addr
  PROVE  /\ DOMAIN Store!WrittenBack(W) = Addr
         /\ \A a \in Addr : Store!WrittenBack(W)[a] = IF a \in W THEN Visible[a] ELSE disk[a]
  BY DEF Store!WrittenBack

(* The special case of no block.                                            *)
LEMMA NothingWrittenBack ==
  ASSUME TypeOK PROVE Store!WrittenBack({}) = disk
  BY DEF Store!WrittenBack, TypeOK

(* If the cache keeps its addresses and their data, and the device the      *)
(* blocks that are not cached, then the callers see no change.              *)
LEMMA SameVisible ==
  ASSUME TypeOK, TypeOK', Cached' = Cached,
         \A a \in Cached : cache'[a].data = cache[a].data,
         \A a \in Addr \ Cached : disk'[a] = disk[a]
  PROVE  Visible' = Visible
  BY DEF Visible, TypeOK

(* What the write-back of an evicted block does to the device.              *)
LEMMA EvictionWritesBack ==
  ASSUME TypeOK, NEW old \in Cached
  PROVE  \E W \in SUBSET {old} : EvictedTo(old) = Store!WrittenBack(W)
<1>1. CASE cache[old].dirty
  <2>1. \A a \in Addr : EvictedTo(old)[a] = Store!WrittenBack({old})[a]
    BY <1>1, WrittenBackBlocks, VisibleType DEF EvictedTo, TypeOK
  <2>2. EvictedTo(old) \in [Addr -> Data] /\ DOMAIN Store!WrittenBack({old}) = Addr
    BY WrittenBackBlocks DEF EvictedTo, TypeOK, CachedBlock
  <2>3. EvictedTo(old) = Store!WrittenBack({old})
    BY <2>1, <2>2 DEF Store!WrittenBack
  <2>. QED BY <2>3
<1>2. CASE ~cache[old].dirty
  BY <1>2, NothingWrittenBack DEF EvictedTo
<1>. QED BY <1>1, <1>2

(* A hit is a read or a write of the store that writes nothing back.        *)
LEMMA HitRefines ==
  ASSUME TypeOK, TypeOK', NEW b \in Addr
  PROVE  /\ ReadHit(b) => Store!Read(b)
         /\ \A d \in Data : WriteHit(b, d) => Store!Write(b, d)
<1>1. ASSUME disk' = disk PROVE Store!WriteBack
  BY <1>1, NothingWrittenBack DEF Store!WriteBack
<1>2. ASSUME ReadHit(b) PROVE Store!Read(b)
  <2>1. Cached' = Cached /\ SameBlocks(cache', cache) /\ disk' = disk
    BY <1>2, TouchedRelinks DEF ReadHit, HitUpdate, Relinked, Cached
  <2>2. Visible' = Visible
    BY <2>1, SameVisible DEF SameBlocks, Cached
  <2>3. Visible[b] = cache[b].data
    BY <1>2, VisibleType DEF ReadHit
  <2>. QED BY <1>1, <1>2, <2>1, <2>2, <2>3 DEF ReadHit, ReadDone, Store!Read
<1>3. ASSUME NEW d \in Data, WriteHit(b, d) PROVE Store!Write(b, d)
  <2>0. b \in Cached
    BY <1>3 DEF WriteHit
  <2>1. Cached' = Cached /\ disk' = disk
    BY <1>3, <2>0, WriteHitBlocks DEF WriteHit, HitUpdate, Cached
  <2>2. \A a \in Cached : cache'[a].data = IF a = b THEN d ELSE cache[a].data
    BY <1>3, <2>0, WriteHitBlocks
  <2>3. Visible' = [Visible EXCEPT ![b] = d]
    BY <2>0, <2>1, <2>2 DEF Visible, TypeOK
  <2>. QED BY <1>1, <1>3, <2>1, <2>3 DEF WriteHit, WriteDone, Store!Write
<1>. QED BY <1>2, <1>3

(* A miss: with or without an eviction, the inserted data becomes visible   *)
(* and nothing else changes for the callers.                                *)
LEMMA InsertRefines ==
  ASSUME TypeOK, TypeOK', Coherent, NEW b \in Addr, b \notin Cached,
         NEW entry \in CachedBlock, InsertFree(b, entry) \/ InsertEvict(b, entry)
  PROVE  Store!WriteBack /\ Visible' = [Visible EXCEPT ![b] = entry.data]
<1>0. Cached \subseteq Addr
  BY DEF TypeOK
<1>1. CASE InsertFree(b, entry)
  <2>1. disk' = disk
    BY <1>1 DEF InsertFree
  <2>2. Cached' = Cached \cup {b} /\ cache'[b] = entry /\ SameBlocks(cache', cache)
    BY <1>1, InsertFreeCache DEF Cached
  <2>3. Visible' = [Visible EXCEPT ![b] = entry.data]
    BY <2>1, <2>2 DEF Visible, SameBlocks, Cached
  <2>. QED BY <2>1, <2>3, NothingWrittenBack DEF Store!WriteBack
<1>2. CASE InsertEvict(b, entry)
  <2>. DEFINE old == MissLru(b)
  <2>1. old \in Cached /\ Cached' = (Cached \ {old}) \cup {b} /\ cache'[b] = entry
        /\ \A a \in Cached \ {old} : cache'[a].data = cache[a].data
    BY <1>2, InsertEvictCache DEF Cached
  <2>2. disk' = EvictedTo(old)
    BY <1>2 DEF InsertEvict
  <2>3. Store!WriteBack
    <3>1. PICK W \in SUBSET {old} : EvictedTo(old) = Store!WrittenBack(W)
      BY <2>1, EvictionWritesBack
    <3>2. W \in SUBSET Addr
      BY <1>0, <2>1
    <3>. QED BY <2>2, <3>1, <3>2 DEF Store!WriteBack
  <2>4. /\ \A a \in Addr \ {old} : disk'[a] = disk[a]
        /\ disk'[old] = cache[old].data
    BY <1>0, <2>1, <2>2 DEF EvictedTo, TypeOK, Coherent
  <2>. HIDE DEF old
  <2>5. \A a \in Addr : Visible'[a] = IF a = b THEN entry.data ELSE Visible[a]
    BY <1>0, <2>1, <2>4 DEF Visible
  <2>6. DOMAIN Visible' = Addr /\ DOMAIN Visible = Addr
    BY DEF Visible
  <2>7. Visible' = [a \in Addr |-> Visible'[a]]
    BY DEF Visible
  <2>8. [Visible EXCEPT ![b] = entry.data] = [a \in Addr |-> IF a = b THEN entry.data ELSE Visible[a]]
    BY <2>6
  <2>. QED BY <2>3, <2>5, <2>7, <2>8
<1>. QED BY <1>1, <1>2

(* A failed eviction is a failed operation of the store: the callers see no *)
(* change.                                                                  *)
LEMMA InsertFailedRefines ==
  ASSUME TypeOK, TypeOK', NEW b \in Addr, NEW op \in {"read", "write"}, InsertFailed(b, op)
  PROVE  Store!Fail(op)
<1>. DEFINE old == MissLru(b)
<1>1. Cached' = Cached /\ SameBlocks(cache', cache)
  BY MissRelinks DEF InsertFailed, Relinked, Cached
<1>2. old \in Cached /\ FailedWrite(old, disk) /\ res' = [op |-> op, ok |-> FALSE]
  BY DEF InsertFailed, Fails
<1>3. old \in Addr /\ disk \in [Addr -> Data]
  BY <1>2 DEF TypeOK
<1>4. Visible' = Visible
  <2>1. \A a \in Addr \ {old} : disk'[a] = disk[a]
    BY <1>2, <1>3, FailedWriteType
  <2>. QED BY <1>1, <1>2, <2>1, SameVisible DEF SameBlocks, Cached
<1>5. Store!FailedWriteBack
  <2>1. disk' = disk \/ \E d \in Data : disk' = [disk EXCEPT ![old] = d]
    BY <1>2 DEF FailedWrite
  <2>. QED BY <1>3, <2>1, NothingWrittenBack DEF Store!FailedWriteBack
<1>. QED BY <1>2, <1>4, <1>5 DEF Store!Fail

(* So is a panic.                                                           *)
LEMMA PanicRefines ==
  ASSUME TypeOK, TypeOK', NEW b \in Addr, HitPanics(b) \/ InsertPanics(b)
  PROVE  Store!Fail("panic")
<1>1. cache' = cache /\ Cached' = Cached /\ res' = [op |-> "panic", ok |-> FALSE]
  BY DEF HitPanics, InsertPanics, Panics, Fails, Cached
<1>2. disk' = disk \/ (MissLru(b) \in Cached /\ disk' = EvictedTo(MissLru(b)))
  BY DEF HitPanics, InsertPanics
<1>3. Visible' = Visible
  <2>1. \A a \in Addr \ Cached : disk'[a] = disk[a]
    BY <1>2 DEF EvictedTo, TypeOK
  <2>. QED BY <1>1, <2>1, SameVisible
<1>4. Store!FailedWriteBack
  <2>1. CASE disk' = disk
    BY <2>1, NothingWrittenBack DEF Store!FailedWriteBack
  <2>2. CASE MissLru(b) \in Cached /\ disk' = EvictedTo(MissLru(b))
    <3>1. PICK W \in SUBSET {MissLru(b)} : disk' = Store!WrittenBack(W)
      BY <2>2, EvictionWritesBack
    <3>2. W \in SUBSET Addr
      BY <2>2 DEF TypeOK
    <3>. QED BY <3>1, <3>2 DEF Store!FailedWriteBack
  <2>. QED BY <1>2, <2>1, <2>2
<1>. QED BY <1>1, <1>3, <1>4 DEF Store!Fail

(* flush and drop: a walk that ends well makes the device what the callers  *)
(* see (Coherent covers the blocks it skips); one that stops has written a  *)
(* set of blocks and spoiled at most one other.                             *)
LEMMA WriteBackRefines ==
  ASSUME TypeOK, TypeOK', Coherent, NEW op, WriteBackAll(op)
  PROVE  Store!Sync(op) \/ Store!Fail(op)
<1>0. Cached \subseteq Addr /\ Dirty \subseteq Cached /\ disk' \in [Addr -> Data]
  BY DEF TypeOK, Dirty
<1>1. ASSUME NEW W \in SUBSET Dirty, cache' = Cleaned(W),
             \A a \in Addr \ Cached : disk'[a] = disk[a]
      PROVE  Visible' = Visible
  <2>1. Cached' = Cached /\ \A a \in Cached : cache'[a].data = cache[a].data
    BY <1>1, CleanedBlocks DEF Cached
  <2>. QED BY <1>1, <2>1, SameVisible
<1>2. ASSUME NEW W \in SUBSET Dirty
      PROVE  /\ FlushedDisk(W) = Store!WrittenBack(W)
             /\ \A a \in Addr \ Cached : FlushedDisk(W)[a] = disk[a]
  <2>1. \A a \in W : Visible[a] = cache[a].data
    BY <1>0, VisibleType
  <2>. QED BY <1>0, <2>1 DEF FlushedDisk, Store!WrittenBack
<1>3. ASSUME disk' = FlushedDisk(Dirty), cache' = Cleaned(Dirty), res' = [op |-> op, ok |-> TRUE]
      PROVE  Store!Sync(op)
  <2>1. Visible' = Visible
    BY <1>1, <1>2, <1>3
  <2>2. \A a \in Addr : disk'[a] = Visible[a]
    BY <1>0, <1>3, VisibleType DEF FlushedDisk, Dirty, Coherent
  <2>3. disk' = Visible
    BY <1>0, <2>2, VisibleType
  <2>. QED BY <1>3, <2>1, <2>3 DEF Store!Sync
<1>4. ASSUME NEW f \in Dirty, NEW W \in SUBSET (Dirty \ {f}),
             FailedWrite(f, FlushedDisk(W)), cache' = Cleaned(W), Fails(op)
      PROVE  Store!Fail(op)
  <2>1. W \in SUBSET Dirty /\ W \in SUBSET Addr /\ f \in Addr /\ f \in Cached /\ f \notin W
    BY <1>0
  <2>2. FlushedDisk(W) = Store!WrittenBack(W) /\ FlushedDisk(W) \in [Addr -> Data]
    BY <1>2, <2>1, CleanedBlocks
  <2>3. \A a \in Addr \ {f} : disk'[a] = FlushedDisk(W)[a]
    BY <1>4, <2>1, <2>2, FailedWriteType
  <2>4. Visible' = Visible
    <3>1. \A a \in Addr \ Cached : disk'[a] = disk[a]
      BY <1>2, <2>1, <2>3
    <3>. QED BY <1>1, <1>4, <2>1, <3>1
  <2>5. disk' = FlushedDisk(W) \/ \E d \in Data : disk' = [FlushedDisk(W) EXCEPT ![f] = d]
    BY <1>4 DEF FailedWrite
  <2>6. Store!FailedWriteBack
    BY <2>1, <2>2, <2>5 DEF Store!FailedWriteBack
  <2>. QED BY <1>4, <2>4, <2>6 DEF Store!Fail, Fails
<1>. QED BY <1>3, <1>4 DEF WriteBackAll

(* A new cache shows exactly what the device holds.                         *)
LEMMA InitRefines == Init => Store!Init
<1>. SUFFICES ASSUME Init PROVE Store!Init
  OBVIOUS
<1>1. Visible = [a \in Addr |-> disk[a]]
  BY DEF Init, Visible, Cached
<1>2. disk \in [Addr -> Data] /\ res = [op |-> "new", ok |-> TRUE]
  BY DEF Init
<1>3. Visible = disk
  BY <1>1, <1>2
<1>. QED BY <1>2, <1>3 DEF Store!Init

(* Every step of the cache is a step of the store, or invisible.            *)
LEMMA StepRefines ==
  ASSUME NothingCut, TypeOK, TypeOK', Coherent, [Next]_vars
  PROVE  [Store!Next]_(Store!vars)
<1>1. ASSUME NEW b \in Addr, read_block(b) PROVE Store!Next
  <2>1. CASE ReadHit(b)
    BY <2>1, HitRefines DEF Store!Next
  <2>2. CASE HitPanics(b)
    BY <2>2, PanicRefines DEF Store!Next
  <2>3. CASE ReadMiss(b)
    <3>1. Entry(disk[b], FALSE) \in CachedBlock /\ Entry(disk[b], FALSE).data = disk[b]
      <4>1. disk[b] \in Data
        BY DEF TypeOK
      <4>. QED BY <4>1, EntryType
    <3>2. CASE (InsertFree(b, Entry(disk[b], FALSE)) \/ InsertEvict(b, Entry(disk[b], FALSE)))
               /\ ReadDone(b, disk[b])
      <4>1. Visible[b] = disk[b] /\ Visible \in [Addr -> Data]
        BY <2>3, VisibleType DEF ReadMiss
      <4>2. Store!WriteBack /\ Visible' = [Visible EXCEPT ![b] = disk[b]]
        BY <2>3, <3>1, <3>2, InsertRefines DEF ReadMiss
      <4>3. Visible' = Visible
        BY <4>1, <4>2
      <4>4. Store!Read(b)
        BY <3>2, <4>1, <4>2, <4>3 DEF Store!Read, ReadDone
      <4>. QED BY <4>4 DEF Store!Next
    <3>3. CASE InsertFailed(b, "read")
      BY <3>3, InsertFailedRefines DEF Store!Next
    <3>4. CASE InsertPanics(b)
      BY <3>4, PanicRefines DEF Store!Next
    <3>. QED BY <2>3, <3>2, <3>3, <3>4 DEF ReadMiss
  <2>4. CASE ReadFailed(b)
    <3>1. disk' = disk /\ cache' = cache /\ res' = [op |-> "read", ok |-> FALSE]
      BY <2>4 DEF ReadFailed, Fails
    <3>2. Store!Fail("read")
      BY <3>1, NothingWrittenBack DEF Store!Fail, Store!FailedWriteBack, Visible, Cached
    <3>. QED BY <3>2 DEF Store!Next
  <2>. QED BY <1>1, <2>1, <2>2, <2>3, <2>4 DEF read_block
<1>2. ASSUME NEW b \in Addr, NEW d \in Data, write_block(b, d) PROVE Store!Next
  <2>1. CASE WriteHit(b, d)
    BY <2>1, HitRefines DEF Store!Next
  <2>2. CASE HitPanics(b)
    BY <2>2, PanicRefines DEF Store!Next
  <2>3. CASE WriteMiss(b, d)
    <3>1. Entry(d, TRUE) \in CachedBlock /\ Entry(d, TRUE).data = d
      BY EntryType
    <3>2. CASE (InsertFree(b, Entry(d, TRUE)) \/ InsertEvict(b, Entry(d, TRUE))) /\ WriteDone(b)
      <4>1. Store!WriteBack /\ Visible' = [Visible EXCEPT ![b] = d]
        BY <2>3, <3>1, <3>2, InsertRefines DEF WriteMiss
      <4>2. Store!Write(b, d)
        BY <3>2, <4>1 DEF Store!Write, WriteDone
      <4>. QED BY <4>2 DEF Store!Next
    <3>3. CASE InsertFailed(b, "write")
      BY <3>3, InsertFailedRefines DEF Store!Next
    <3>4. CASE InsertPanics(b)
      BY <3>4, PanicRefines DEF Store!Next
    <3>. QED BY <2>3, <3>2, <3>3, <3>4 DEF WriteMiss
  <2>. QED BY <1>2, <2>1, <2>2, <2>3 DEF write_block
<1>3. CASE flush
  BY <1>3, WriteBackRefines DEF flush, Store!Next
<1>4. CASE drop
  BY <1>4, WriteBackRefines DEF drop, Store!Next
<1>5. CASE save
  BY <1>5 DEF save, Store!Next, Store!Save, Visible, Cached
<1>6. CASE Restart
  <2>1. Cached' = {} /\ disk' = disk /\ res' = [op |-> "new", ok |-> TRUE]
    BY <1>6 DEF Restart, NewCache, Cached
  <2>2. Visible' = disk
    BY <2>1 DEF Visible, TypeOK
  <2>. QED BY <2>1, <2>2 DEF Store!Next, Store!Restart
<1>7. CASE UNCHANGED vars
  BY <1>7 DEF vars, Store!vars, Visible, Cached
<1>8. ASSUME NEW n \in Sizes, resize(n) PROVE Store!Next
  <2>1. PICK done \in BOOLEAN : res' = [op |-> "resize", ok |-> done]
    BY <1>8, ResizeKeeps
  <2>2. disk' = disk /\ Visible' = Visible
    BY <1>8, ResizeKeeps DEF Visible, Cached
  <2>. QED BY <2>1, <2>2 DEF Store!Next, Store!Resize
<1>. QED BY <1>1, <1>2, <1>3, <1>4, <1>5, <1>6, <1>7, <1>8 DEF Next

(* Through evictions, write-backs that fail half-way, panics of the         *)
(* bookkeeping and restarts, a read returns the last value written, a       *)
(* successful flush or drop leaves exactly the visible blocks on the        *)
(* device, and a restart brings back exactly what the device holds.         *)
THEOREM CacheImplementsStore ==
  ASSUME NothingCut PROVE Spec => ImplementsStore
<1>1. TypeOK /\ TypeOK' /\ Coherent /\ [Next]_vars => [Store!Next]_(Store!vars)
  BY StepRefines
<1>. QED BY <1>1, InitRefines, TypeCorrect, CoherentAlways, PTL
         DEF Spec, ImplementsStore, Store!Spec

-----------------------------------------------------------------------------
(* The recency list at the capacity of 2, which new() raises smaller ones   *)
(* to, over a device that does not fail: the one case in which the links    *)
(* keep their meaning.  (Module CachedDevice has the run that shows how a   *)
(* cache of 3 loses them.)                                                  *)

(* The capacity is 2, every address is and stays on the device, and no      *)
(* access to it fails.                                                      *)
Reliable == /\ Size = 2 /\ NothingCut /\ MayFail = FALSE
            /\ \A b \in Addr : b < Count

(* The list of a cache of at most two entries.  less_recent may point to    *)
(* either entry, even to its own: the hit half leaves it so.                *)
Ordered ==
  \/ Cached = {} /\ lru = NoBlock /\ mru = NoBlock
  \/ /\ lru \in Cached /\ mru \in Cached /\ Cached = {lru, mru}
     /\ cache[mru].more_recent = NoBlock
     /\ \A a \in Cached : cache[a].less_recent \in Cached \cup {NoBlock}
     /\ lru # mru => cache[lru].more_recent = mru /\ <<lru, mru>> \in older
     /\ \A a \in Addr : <<a, a>> \notin older

(* The inductive invariant.                                                 *)
RInv == /\ TypeOK /\ Coherent
        /\ \A b \in Addr : InRange(b)
        /\ status # "panicked"
        /\ status = "live" => Ordered

-----------------------------------------------------------------------------
(* What storing a link does to each link.                                   *)
LEMMA MoreStored ==
  ASSUME NEW D, NEW c \in [D -> CachedBlock], NEW x \in D, NEW l \in Link
  PROVE  LET d == [c EXCEPT ![x].more_recent = l]
         IN  /\ d \in [D -> CachedBlock]
             /\ d[x].more_recent = l /\ d[x].less_recent = c[x].less_recent
             /\ \A a \in D \ {x} : d[a] = c[a]
  BY DEF CachedBlock, Link

(* The same for the other link.                                             *)
LEMMA LessStored ==
  ASSUME NEW D, NEW c \in [D -> CachedBlock], NEW x \in D, NEW l \in Link
  PROVE  LET d == [c EXCEPT ![x].less_recent = l]
         IN  /\ d \in [D -> CachedBlock]
             /\ d[x].less_recent = l /\ d[x].more_recent = c[x].more_recent
             /\ \A a \in D \ {x} : d[a] = c[a]
  BY DEF CachedBlock, Link

(* A hit: the links it needs are there, and b becomes the last of the list, *)
(* after the other entry if there is one.                                   *)
LEMMA HitOrders ==
  ASSUME TypeOK, Ordered, NEW b \in Cached
  PROVE  /\ HitLinksValid(b)
         /\ Touched(b)[b].more_recent = NoBlock
         /\ \A a \in Cached : Touched(b)[a].less_recent \in Cached \cup {NoBlock}
         /\ \A a \in Cached \ {b} : Touched(b)[a].more_recent = b
         /\ HitLru(b) \in Cached /\ Cached = {HitLru(b), b}
<1>. DEFINE e  == cache[b]
            u  == Unlinked(b)
            c1 == [cache EXCEPT ![mru].less_recent = e.less_recent]
            c2 == [u EXCEPT ![mru].more_recent = b]
            c3 == [c2 EXCEPT ![b].more_recent = NoBlock]
            c4 == [c3 EXCEPT ![b].less_recent = mru]
<1>1. /\ lru \in Cached /\ mru \in Cached /\ Cached = {lru, mru}
      /\ cache[mru].more_recent = NoBlock
      /\ \A a \in Cached : cache[a].less_recent \in Cached \cup {NoBlock}
      /\ lru # mru => cache[lru].more_recent = mru
      /\ cache \in [Cached -> CachedBlock] /\ Cached \subseteq Addr
  BY DEF Ordered, TypeOK
<1>2. b = mru \/ (b = lru /\ lru # mru)
  BY <1>1
<1>3. /\ mru # NoBlock /\ mru \in Link /\ b \in Link /\ NoBlock \in Link
      /\ \A a \in Cached : cache[a].less_recent \in Link
  <2>1. NoBlock \notin Cached /\ Cached \subseteq Link /\ NoBlock \in Link
    BY <1>1, DeviceAssumption DEF Link
  <2>2. mru \in Cached /\ \A a \in Cached : cache[a].less_recent \in Cached \cup {NoBlock}
    BY <1>1
  <2>. QED BY <2>1, <2>2
<1>4. HitLinksValid(b)
  BY <1>1, <1>2 DEF HitLinksValid
<1>5. HitLru(b) \in Cached /\ Cached = {HitLru(b), b}
  BY <1>1, <1>2, <1>3 DEF HitLru
<1>6. /\ u \in [Cached -> CachedBlock]
      /\ b = mru => u = cache
      /\ \A a \in Cached : u[a].less_recent \in Cached \cup {NoBlock}
  <2>1. CASE b = mru
    <3>1. u = cache
      BY <1>1, <2>1 DEF Unlinked
    <3>. QED BY <1>1, <3>1
  <2>2. CASE b # mru
    <3>1. e.more_recent = mru
      BY <1>1, <1>2, <2>2
    <3>2. c1 \in [Cached -> CachedBlock] /\ c1[mru].less_recent = e.less_recent
          /\ \A a \in Cached \ {mru} : c1[a] = cache[a]
      BY <1>1, <1>3, LessStored
    <3>3. \A a \in Cached : c1[a].less_recent \in Cached \cup {NoBlock}
      BY <1>1, <3>2
    <3>4. CASE e.less_recent = NoBlock
      <4>1. u = c1
        BY <1>3, <3>1, <3>4 DEF Unlinked
      <4>. QED BY <2>2, <3>2, <3>3, <4>1
    <3>5. CASE e.less_recent # NoBlock
      <4>. DEFINE l == e.less_recent
                  d == [c1 EXCEPT ![l].more_recent = mru]
      <4>1. u = d
        BY <1>3, <3>1, <3>5 DEF Unlinked
      <4>2. l \in Cached
        BY <1>1, <3>5
      <4>. HIDE DEF c1, l, u
      <4>3. /\ d \in [Cached -> CachedBlock] /\ d[l].less_recent = c1[l].less_recent
            /\ \A a \in Cached \ {l} : d[a] = c1[a]
        BY <1>3, <3>2, <4>2, MoreStored
      <4>. QED BY <2>2, <3>3, <4>1, <4>2, <4>3
    <3>. QED BY <3>4, <3>5
  <2>. QED BY <2>1, <2>2
<1>. HIDE DEF u
<1>7. /\ c2 \in [Cached -> CachedBlock]
      /\ c2[mru].more_recent = b /\ c2[mru].less_recent = u[mru].less_recent
      /\ \A a \in Cached \ {mru} : c2[a] = u[a]
  BY <1>1, <1>3, <1>6, MoreStored
<1>. HIDE DEF c2
<1>8. /\ c3 \in [Cached -> CachedBlock]
      /\ c3[b].more_recent = NoBlock
      /\ \A a \in Cached \ {b} : c3[a] = c2[a]
  BY <1>3, <1>7, MoreStored
<1>. HIDE DEF c3
<1>9. /\ c4[b].more_recent = NoBlock /\ c4[b].less_recent = mru
      /\ \A a \in Cached \ {b} : c4[a] = c2[a]
  BY <1>3, <1>8, LessStored
<1>10. Touched(b) = c4
  <2>1. c4 = [c2 EXCEPT ![b].more_recent = NoBlock, ![b].less_recent = mru]
    BY DEF c3
  <2>. QED BY <2>1 DEF Touched, c2, u
<1>. HIDE DEF c4
<1>11. ASSUME NEW a \in Cached \ {b}
       PROVE  /\ Touched(b)[a].more_recent = b
              /\ Touched(b)[a].less_recent \in Cached \cup {NoBlock}
  <2>1. Touched(b)[a] = c2[a]
    BY <1>9, <1>10
  <2>2. CASE a = mru
    BY <1>6, <1>7, <2>1, <2>2
  <2>3. CASE a # mru
    <3>1. a = lru /\ b = mru /\ lru # mru
      BY <1>1, <1>2, <2>3
    <3>. QED BY <1>1, <1>6, <1>7, <2>1, <3>1
  <2>. QED BY <2>2, <2>3
<1>12. Touched(b)[b].more_recent = NoBlock /\ Touched(b)[b].less_recent = mru
  BY <1>9, <1>10
<1>. QED BY <1>1, <1>4, <1>5, <1>11, <1>12

(* The size of a set that is written as a pair.                             *)
LEMMA PairSize ==
  ASSUME NEW x, NEW y PROVE Cardinality({x, y}) = IF x = y THEN 1 ELSE 2
<1>1. IsFiniteSet({x}) /\ Cardinality({x}) = 1
  BY FS_Singleton
<1>2. {x, y} = {x} \cup {y}
  OBVIOUS
<1>. QED BY <1>1, <1>2, FS_AddElement

(* The history after an access: the others come before b, and nothing       *)
(* before itself.                                                           *)
LEMMA AccessOrders ==
  ASSUME NEW b \in Addr, NEW keep \in SUBSET Addr, \A a \in Addr : <<a, a>> \notin older
  PROVE  /\ \A a \in keep \ {b} : <<a, b>> \in Accessed(b, keep)
         /\ \A a \in Addr : <<a, a>> \notin Accessed(b, keep)
  BY DEF Accessed

(* A hit, read or written, keeps the list.                                  *)
LEMMA HitKept ==
  ASSUME TypeOK, Ordered, NEW b \in Cached, HitUpdate(b),
         DOMAIN cache' = Cached,
         \A a \in Cached : /\ cache'[a].more_recent = Touched(b)[a].more_recent
                           /\ cache'[a].less_recent = Touched(b)[a].less_recent
  PROVE  Ordered'
<1>1. /\ lru' = HitLru(b) /\ mru' = b /\ older' = Accessed(b, Cached)
      /\ Cached' = Cached /\ Cached \in SUBSET Addr /\ b \in Addr
  BY DEF HitUpdate, Cached, TypeOK
<1>2. \A a \in Addr : <<a, a>> \notin older
  BY DEF Ordered
<1>3. /\ \A a \in Cached \ {b} : <<a, b>> \in older'
      /\ \A a \in Addr : <<a, a>> \notin older'
  BY <1>1, <1>2, AccessOrders
<1>4. /\ cache'[b].more_recent = NoBlock
      /\ \A a \in Cached : cache'[a].less_recent \in Cached \cup {NoBlock}
      /\ \A a \in Cached \ {b} : cache'[a].more_recent = b
      /\ lru' \in Cached /\ Cached = {lru', b}
  BY <1>1, HitOrders
<1>. QED BY <1>1, <1>3, <1>4 DEF Ordered

(* A miss with a free place: b is the only entry, or the last of two.       *)
LEMMA InsertFreeKept ==
  ASSUME TypeOK, Coherent, Ordered, Size = 2, NEW b \in Addr, b \notin Cached,
         NEW d \in Data, NEW dirty \in BOOLEAN, InsertFree(b, Entry(d, dirty))
  PROVE  Ordered'
<1>. DEFINE entry == Entry(d, dirty)
<1>1. /\ cache' = [a \in Cached \cup {b} |-> IF a = b THEN entry ELSE MissCache(b)[a]]
      /\ lru' = MissLru(b) /\ mru' = b
      /\ older' = Accessed(b, Cached \cup {b}) /\ cached_count < Size
      /\ Cached' = Cached \cup {b}
  BY DEF InsertFree, Cached
<1>2. entry.more_recent = NoBlock /\ entry.less_recent = mru
  BY DEF Entry
<1>. HIDE DEF entry
<1>3. CASE Cached = {}
  <2>1. lru = NoBlock /\ mru = NoBlock /\ lru' = b
    BY <1>1, <1>3 DEF Ordered, MissLru
  <2>2. cache'[b] = entry /\ Cached' = {b}
    BY <1>1, <1>3
  <2>3. \A a \in Addr : <<a, a>> \notin older'
    BY <1>1, <1>3 DEF Accessed
  <2>. QED BY <1>1, <1>2, <2>1, <2>2, <2>3 DEF Ordered
<1>4. CASE Cached # {}
  <2>1. /\ lru \in Cached /\ mru \in Cached /\ Cached = {lru, mru}
        /\ \A a \in Cached : cache[a].less_recent \in Cached \cup {NoBlock}
        /\ \A a \in Addr : <<a, a>> \notin older
    BY <1>4 DEF Ordered
  <2>2. lru = mru
    <3>1. cached_count = Cardinality({lru, mru}) /\ cached_count < 2
      BY <1>1, <2>1 DEF Coherent
    <3>2. Cardinality({lru, mru}) = IF lru = mru THEN 1 ELSE 2
      BY PairSize
    <3>. QED BY <3>1, <3>2
  <2>3. Cached = {mru} /\ Cached' = {mru, b} /\ mru # b /\ Cached \subseteq Addr /\ mru # NoBlock
    BY <1>1, <2>1, <2>2, DeviceAssumption DEF TypeOK
  <2>4. MissCache(b) = [cache EXCEPT ![mru].more_recent = b] /\ lru' = mru
    BY <1>1, <2>2, <2>3 DEF MissCache, MissLru
  <2>5. MissCache(b)[mru].more_recent = b /\ MissCache(b)[mru].less_recent = cache[mru].less_recent
    <3>1. cache \in [Cached -> CachedBlock] /\ b \in Link
      BY DEF TypeOK, Link
    <3>. QED BY <2>1, <2>4, <3>1, MoreStored
  <2>6. cache'[b] = entry /\ cache'[mru] = MissCache(b)[mru]
    BY <1>1, <2>3
  <2>7. <<mru, b>> \in older' /\ \A a \in Addr : <<a, a>> \notin older'
    <3>1. {mru, b} \in SUBSET Addr
      BY <2>3
    <3>. QED BY <1>1, <2>1, <2>3, <3>1, AccessOrders
  <2>. QED BY <1>1, <1>2, <2>1, <2>3, <2>4, <2>5, <2>6, <2>7 DEF Ordered
<1>. QED BY <1>3, <1>4

(* A miss on a full cache: the lru is one of two, and the other one becomes *)
(* the lru.                                                                 *)
LEMMA FullPair ==
  ASSUME TypeOK, Coherent, Ordered, Size = 2, cached_count >= Size
  PROVE  /\ lru # mru /\ Cached = {lru, mru} /\ mru # NoBlock /\ lru \in Cached /\ mru \in Cached
         /\ \A b \in Addr \ Cached : /\ MissLinksValid /\ MissLru(b) = lru
                                     /\ MissCache(b) \in [Cached -> CachedBlock]
                                     /\ MissCache(b)[lru].more_recent = mru
                                     /\ MissCache(b)[mru].more_recent = b
<1>1. Cached # {}
  BY FS_EmptySet DEF Coherent
<1>2. /\ lru \in Cached /\ mru \in Cached /\ Cached = {lru, mru}
      /\ lru # mru => cache[lru].more_recent = mru
  BY <1>1 DEF Ordered
<1>3. lru # mru
  <2>1. Cardinality({lru, mru}) >= 2
    BY <1>2 DEF Coherent
  <2>2. Cardinality({lru, mru}) = IF lru = mru THEN 1 ELSE 2
    BY PairSize
  <2>. QED BY <2>1, <2>2
<1>4. mru # NoBlock /\ cache \in [Cached -> CachedBlock]
  BY <1>2, DeviceAssumption DEF TypeOK
<1>5. ASSUME NEW b \in Addr \ Cached
      PROVE  /\ MissLinksValid /\ MissLru(b) = lru
             /\ MissCache(b) \in [Cached -> CachedBlock]
             /\ MissCache(b)[lru].more_recent = mru
             /\ MissCache(b)[mru].more_recent = b
  <2>1. MissLinksValid /\ MissLru(b) = lru /\ MissCache(b) = [cache EXCEPT ![mru].more_recent = b]
    BY <1>2, <1>4 DEF MissLinksValid, MissLru, MissCache
  <2>2. b \in Link
    BY DEF Link
  <2>3. /\ MissCache(b) \in [Cached -> CachedBlock]
        /\ MissCache(b)[mru].more_recent = b
        /\ \A a \in Cached \ {mru} : MissCache(b)[a] = cache[a]
    BY <1>2, <1>4, <2>1, <2>2, MoreStored
  <2>. QED BY <1>2, <1>3, <2>1, <2>3
<1>. QED BY <1>2, <1>3, <1>4, <1>5

(* That miss keeps the list, and the block it evicts is the oldest.         *)
LEMMA InsertEvictKept ==
  ASSUME TypeOK, Coherent, Ordered, Size = 2, NEW b \in Addr, b \notin Cached,
         NEW d \in Data, NEW dirty \in BOOLEAN, InsertEvict(b, Entry(d, dirty))
  PROVE  Ordered' /\ \A x \in Cached \ DOMAIN cache' : \A a \in Cached \ {x} : <<x, a>> \in older
<1>. DEFINE entry == Entry(d, dirty)
            c     == MissCache(b)
            c2    == [c EXCEPT ![mru].less_recent = NoBlock]
            keep  == {mru, b}
<1>1. /\ lru # mru /\ Cached = {lru, mru} /\ mru # NoBlock /\ MissLru(b) = lru
      /\ lru \in Cached /\ mru \in Cached
      /\ c \in [Cached -> CachedBlock] /\ c[lru].more_recent = mru /\ c[mru].more_recent = b
  BY FullPair DEF InsertEvict
<1>2. (Cached \ {lru}) \cup {b} = keep
  BY <1>1
<1>3. /\ cache' = [a \in keep |-> IF a = b THEN entry ELSE c2[a]]
      /\ lru' = mru /\ mru' = b
      /\ older' = Accessed(b, keep)
  BY <1>1, <1>2 DEF InsertEvict
<1>4. entry.more_recent = NoBlock /\ entry.less_recent = mru
  BY DEF Entry
<1>5. /\ b # mru /\ mru \in Addr /\ keep \in SUBSET Addr /\ <<lru, mru>> \in older
      /\ \A a \in Addr : <<a, a>> \notin older
  BY <1>1 DEF Ordered, TypeOK
<1>6. c2[mru].less_recent = NoBlock /\ c2[mru].more_recent = b
  <2>1. NoBlock \in Link
    BY DEF Link
  <2>. HIDE DEF c
  <2>. QED BY <1>1, <2>1, LessStored
<1>. HIDE DEF entry, c, c2
<1>7. cache'[b] = entry /\ cache'[mru] = c2[mru] /\ Cached' = keep
  BY <1>3, <1>5 DEF Cached
<1>8. <<mru, b>> \in older' /\ \A a \in Addr : <<a, a>> \notin older'
  <2>1. mru \in keep \ {b}
    BY <1>5
  <2>. HIDE DEF keep
  <2>. QED BY <1>3, <1>5, <2>1, AccessOrders
<1>9. Ordered'
  BY <1>3, <1>4, <1>5, <1>6, <1>7, <1>8 DEF Ordered
<1>10. \A x \in Cached \ DOMAIN cache' : \A a \in Cached \ {x} : <<x, a>> \in older
  BY <1>1, <1>5, <1>7 DEF Cached
<1>. QED BY <1>9, <1>10

(* Neither the write-back of the lru nor an unwrap fails.                   *)
LEMMA NothingFails ==
  ASSUME Reliable, RInv, status = "live", NEW b \in Addr
  PROVE  /\ \A op : ~InsertFailed(b, op)
         /\ b \notin Cached => ~InsertPanics(b)
         /\ ~HitPanics(b)
         /\ ~ReadFailed(b)
<1>1. \A a \in Addr : InRange(a)
  BY DEF Reliable, RInv, InRange
<1>2. Size = 2 /\ MayFail = FALSE /\ TypeOK /\ Coherent /\ Ordered
  BY DEF Reliable, RInv
<1>3. ASSUME NEW op, InsertFailed(b, op) PROVE FALSE
  <2>1. MissLru(b) \in Addr /\ FailedWrite(MissLru(b), disk)
    BY <1>2, <1>3 DEF InsertFailed, TypeOK
  <2>. QED BY <1>1, <1>2, <2>1 DEF FailedWrite
<1>4. ASSUME b \notin Cached, InsertPanics(b) PROVE FALSE
  <2>1. MissLinksValid
    BY <1>2 DEF Ordered, MissLinksValid
  <2>2. cached_count >= Size
    BY <1>4, <2>1 DEF InsertPanics
  <2>3. /\ MissLru(b) = lru /\ lru \in Cached /\ mru \in Cached
        /\ MissCache(b)[lru].more_recent = mru
    BY <1>2, <1>4, <2>2, FullPair
  <2>. QED BY <1>4, <2>1, <2>3 DEF InsertPanics
<1>5. ~HitPanics(b)
  BY <1>2, HitOrders DEF HitPanics
<1>6. ~ReadFailed(b)
  BY <1>1, <1>2 DEF ReadFailed
<1>. QED BY <1>3, <1>4, <1>5, <1>6

-----------------------------------------------------------------------------
(* What the list promises in a step: only a restart and the insertion into  *)
(* a full cache remove a block, and that is the oldest.                     *)
Oldest == \A x \in Cached \ DOMAIN cache' :
            \/ res'.op = "new"
            \/ \A a \in Cached \ {x} : <<x, a>> \in older

(* read_block and write_block keep the list.                                *)
LEMMA ReadWriteOrders ==
  ASSUME Reliable, RInv, status = "live", NEW b \in Addr,
         read_block(b) \/ \E d \in Data : write_block(b, d)
  PROVE  Ordered' /\ status' = "live" /\ count' = count /\ Oldest
<1>1. Size = 2 /\ TypeOK /\ Coherent /\ Ordered
  BY DEF Reliable, RInv
<1>2. CASE ReadHit(b)
  <2>1. b \in Cached /\ HitUpdate(b) /\ cache' = Touched(b)
    BY <1>2 DEF ReadHit
  <2>2. DOMAIN cache' = Cached
    <3>1. Relinked(cache', cache)
      BY <1>1, <1>2, <2>1, TouchedRelinks DEF ReadHit
    <3>. QED BY <3>1 DEF Relinked, Cached
  <2>. QED BY <1>1, <2>1, <2>2, HitKept DEF HitUpdate, Oldest
<1>3. ASSUME NEW d \in Data, WriteHit(b, d)
      PROVE  Ordered' /\ status' = "live" /\ count' = count /\ Oldest
  <2>1. b \in Cached /\ HitUpdate(b) /\ cache' = Written(b, d) /\ HitLinksValid(b)
    BY <1>3 DEF WriteHit
  <2>2. Touched(b) \in [Cached -> CachedBlock]
    BY <1>1, <2>1, TouchedRelinks DEF Relinked, Cached
  <2>3. /\ DOMAIN cache' = Cached
        /\ \A a \in Cached : /\ cache'[a].more_recent = Touched(b)[a].more_recent
                              /\ cache'[a].less_recent = Touched(b)[a].less_recent
    BY <2>1, <2>2 DEF Written, CachedBlock
  <2>. QED BY <1>1, <2>1, <2>3, HitKept DEF HitUpdate, Oldest
<1>4. ASSUME NEW d \in Data, NEW dirty \in BOOLEAN, b \notin Cached,
             InsertFree(b, Entry(d, dirty)) \/ InsertEvict(b, Entry(d, dirty))
      PROVE  Ordered' /\ status' = "live" /\ count' = count /\ Oldest
  <2>1. status' = "live" /\ count' = count
    BY <1>4 DEF InsertFree, InsertEvict
  <2>2. CASE InsertFree(b, Entry(d, dirty))
    <3>1. Cached \subseteq DOMAIN cache'
      BY <2>2 DEF InsertFree
    <3>. QED BY <1>1, <1>4, <2>1, <2>2, <3>1, InsertFreeKept DEF Oldest
  <2>3. CASE InsertEvict(b, Entry(d, dirty))
    BY <1>1, <1>4, <2>1, <2>3, InsertEvictKept DEF Oldest
  <2>. QED BY <1>4, <2>2, <2>3
<1>5. CASE ReadMiss(b)
  <2>1. disk[b] \in Data /\ b \notin Cached
    BY <1>1, <1>5 DEF TypeOK, ReadMiss
  <2>2. InsertFree(b, Entry(disk[b], FALSE)) \/ InsertEvict(b, Entry(disk[b], FALSE))
    BY <1>5, <2>1, NothingFails DEF ReadMiss
  <2>. QED BY <1>4, <2>1, <2>2
<1>6. ASSUME NEW d \in Data, WriteMiss(b, d)
      PROVE  Ordered' /\ status' = "live" /\ count' = count /\ Oldest
  <2>1. b \notin Cached
    BY <1>6 DEF WriteMiss
  <2>2. InsertFree(b, Entry(d, TRUE)) \/ InsertEvict(b, Entry(d, TRUE))
    BY <1>6, <2>1, NothingFails DEF WriteMiss
  <2>. QED BY <1>4, <2>1, <2>2
<1>. QED BY <1>2, <1>3, <1>5, <1>6, NothingFails DEF read_block, write_block

(* flush and drop leave the links alone.                                    *)
LEMMA WriteBackOrders ==
  ASSUME RInv, NEW op, WriteBackAll(op), lru' = lru, mru' = mru, older' = older
  PROVE  (Ordered => Ordered') /\ Oldest
<1>1. cache \in [Cached -> CachedBlock]
  BY DEF RInv, TypeOK
<1>2. PICK W : cache' = Cleaned(W)
  BY DEF WriteBackAll
<1>3. /\ DOMAIN cache' = Cached
      /\ \A a \in Cached : /\ cache'[a].more_recent = cache[a].more_recent
                            /\ cache'[a].less_recent = cache[a].less_recent
  BY <1>1, <1>2 DEF Cleaned, CachedBlock
<1>4. Cached' = Cached
  BY <1>3 DEF Cached
<1>. QED BY <1>3, <1>4 DEF Ordered, Oldest

(* Every step keeps the invariant, and evicts the oldest if it evicts.      *)
LEMMA RecencyStep ==
  ASSUME Reliable, RInv, [Next]_vars
  PROVE  RInv' /\ (Oldest \/ UNCHANGED vars)
<1>1. TypeOK' /\ Coherent'
  <2>1. NothingCut /\ TypeOK /\ Coherent
    BY DEF Reliable, RInv
  <2>. QED BY <2>1, TypeStep, CoherentStep
<1>2. ASSUME NEW b \in Addr, status = "live", read_block(b) \/ \E d \in Data : write_block(b, d)
      PROVE  RInv' /\ Oldest
  BY <1>1, <1>2, ReadWriteOrders DEF RInv, InRange
<1>3. CASE status = "live" /\ flush
  BY <1>1, <1>3, WriteBackOrders DEF flush, RInv, InRange
<1>4. CASE drop
  BY <1>1, <1>4, WriteBackOrders DEF drop, RInv, InRange
<1>5. CASE status = "live" /\ save
  BY <1>1, <1>5 DEF save, RInv, InRange, Ordered, Cached, Oldest
<1>6. CASE Restart
  <2>1. Cached' = {} /\ lru' = NoBlock /\ mru' = NoBlock /\ status' = "live" /\ count' = count
        /\ res'.op = "new"
    BY <1>6 DEF Restart, FileCounts, Reliable, NewCache, Cached
  <2>. QED BY <1>1, <2>1 DEF RInv, InRange, Ordered, Oldest
<1>7. CASE UNCHANGED vars
  BY <1>1, <1>7 DEF vars, RInv, InRange, Ordered, Cached
<1>8. ASSUME NEW n \in Sizes, status = "live", resize(n) PROVE RInv' /\ Oldest
  <2>1. /\ cache' = cache /\ lru' = lru /\ mru' = mru /\ older' = older
        /\ status' = status /\ count' = n
    BY <1>8 DEF resize
  <2>2. (\A b \in Addr : InRange(b))'
    BY <2>1 DEF Reliable, NothingCut, InRange
  <2>. QED BY <1>1, <2>1, <2>2 DEF RInv, Ordered, Cached, Oldest
<1>. QED BY <1>2, <1>3, <1>4, <1>5, <1>6, <1>7, <1>8 DEF Next

(* The empty cache of new().                                                *)
LEMMA RecencyInit ==
  ASSUME Reliable PROVE Init => RInv
  BY TypeInit, CoherentInit DEF Init, RInv, Ordered, Cached, Reliable, InRange

(* At the capacity of 2, over a device that serves every block, the links   *)
(* are the order of the accesses, ...                                       *)
THEOREM RecencyKept ==
  ASSUME Reliable PROVE Spec => []RecencyList
<1>1. RInv => RecencyList
  <2>. SUFFICES ASSUME RInv, status = "live", Cached # {} PROVE RecencyList
    BY DEF RecencyList
  <2>1. /\ lru \in Cached /\ mru \in Cached /\ Cached = {lru, mru}
        /\ cache[mru].more_recent = NoBlock
        /\ lru # mru => cache[lru].more_recent = mru /\ <<lru, mru>> \in older
        /\ \A a \in Addr : <<a, a>> \notin older
        /\ Cached \subseteq Addr
    BY DEF RInv, Ordered, TypeOK
  <2>. QED BY <2>1 DEF RecencyList
<1>. QED BY <1>1, RecencyInit, RecencyStep, PTL DEF Spec

(* ... no unwrap of the bookkeeping fails, ...                              *)
THEOREM NeverPanics ==
  ASSUME Reliable PROVE Spec => []NoPanic
<1>1. RInv => NoPanic
  BY DEF RInv, NoPanic
<1>. QED BY <1>1, RecencyInit, RecencyStep, PTL DEF Spec

(* ... and the block that insert() replaces is the least recently used one. *)
THEOREM OldestEvicted ==
  ASSUME Reliable PROVE Spec => EvictsOldest
<1>1. RInv /\ [Next]_vars =>
        [\A b \in Cached \ DOMAIN cache' :
            \/ res'.op = "new"
            \/ \A a \in Cached \ {b} : <<b, a>> \in older]_vars
  BY RecencyStep DEF Oldest
<1>. QED BY <1>1, RecencyInit, RecencyStep, PTL DEF Spec, EvictsOldest
=============================================================================
