---------------------------- MODULE CachedDevice ----------------------------
(***************************************************************************)
(* device/cached_device.rs: an LRU write-back cache over a BlockDevice,     *)
(* together with the device below it (device/memory_device.rs and           *)
(* device/file_device.rs, which differ only in whether an in-range access   *)
(* can fail).  The recency list is threaded through the entries, as in the  *)
(* code: more_recent and less_recent hold addresses, and following one      *)
(* that is not cached is the panic of an unwrap on None.                    *)
(***************************************************************************)
EXTENDS Integers, FiniteSets

CONSTANTS Addr,      \* block addresses the callers use (u32)
          Data,      \* contents of a block, abstracted
          Zero,      \* the contents of a fresh block
          Size,      \* cache capacity, after the max(2) of new()
          Count,     \* number of blocks of the device when it is opened
          Sizes,     \* sizes resize() is called with; {} when it never is
          MayFail,   \* whether the device can fail on an in-range block
          NoBlock    \* INVALID_ADDRESS

ASSUME DeviceAssumption ==
  /\ Addr \subseteq Nat
  /\ IsFiniteSet(Addr)
  /\ Zero \in Data
  /\ Size \in Nat /\ Size >= 2
  /\ Count \in Nat
  /\ Sizes \subseteq Nat
  /\ MayFail \in BOOLEAN
  /\ NoBlock \notin Addr

VARIABLES disk,        \* blocks of the underlying device; Zero past its end
          count,       \* its block_count()
          cache,       \* address -> CachedBlock, for the cached addresses
          cached_count,
          lru, mru,
          status,      \* "live", "panicked" (only drop follows), "dropped"
          res,         \* last operation and its outcome
          older        \* history: <<a, b>> if a was last accessed before b, both cached

vars == <<disk, count, cache, cached_count, lru, mru, status, res, older>>

Link == Addr \cup {NoBlock}
CachedBlock == [data : Data, dirty : BOOLEAN, more_recent : Link, less_recent : Link]

Cached == DOMAIN cache
InRange(b) == b < count
Dirty == {b \in Cached : cache[b].dirty}

(* CachedDevice::new over an open device, which keeps its contents.         *)
NewCache == /\ cache' = [b \in {} |-> Zero]
            /\ cached_count' = 0
            /\ lru' = NoBlock /\ mru' = NoBlock
            /\ status' = "live"
            /\ res' = [op |-> "new", ok |-> TRUE]
            /\ older' = {}

Init == /\ disk \in [Addr -> Data]
        /\ \A b \in Addr : b >= Count => disk[b] = Zero
        /\ count = Count
        /\ cache = [b \in {} |-> Zero]
        /\ cached_count = 0
        /\ lru = NoBlock /\ mru = NoBlock
        /\ status = "live"
        /\ res = [op |-> "new", ok |-> TRUE]
        /\ older = {}

-----------------------------------------------------------------------------
(* The device below.  A write that fails out of range changes nothing; one  *)
(* that fails in range (write_all of FileDevice) may leave anything in the  *)
(* block it was writing.                                                    *)
FailedWrite(b, from) ==
  IF InRange(b) THEN /\ MayFail
                     /\ \E d \in Data : disk' = [from EXCEPT ![b] = d]
                ELSE disk' = from

(* A step that ends in an error or in a panic.                              *)
Fails(op) == res' = [op |-> op, ok |-> FALSE]
Panics == /\ status' = "panicked"
          /\ Fails("panic")
          \* the links of a panicked cache are never followed again: drop
          \* looks at keys, data and dirty only
          /\ UNCHANGED <<count, cache, cached_count, lru, mru, older>>

(* History: b is now the most recently accessed of the blocks in keep.      *)
Accessed(b, keep) == {p \in older : p \in (keep \ {b}) \X (keep \ {b})}
                       \cup ((keep \ {b}) \X {b})

-----------------------------------------------------------------------------
(* The hit half of read_block and write_block.  Each unwrap of the code is  *)
(* a conjunct: the entry's neighbours (both only when it has a more recent  *)
(* one) and the mru must be cached.                                         *)
HitLinksValid(b) ==
  LET e == cache[b] IN
  /\ e.more_recent # NoBlock =>
       /\ e.more_recent \in Cached
       /\ e.less_recent # NoBlock => e.less_recent \in Cached
  /\ mru \in Cached

(* Unlinks b from its neighbours; nothing happens when b is the mru.        *)
Unlinked(b) ==
  LET e  == cache[b]
      c1 == [cache EXCEPT ![e.more_recent].less_recent = e.less_recent]
  IN  IF e.more_recent = NoBlock THEN cache
      ELSE IF e.less_recent = NoBlock THEN c1
      ELSE [c1 EXCEPT ![e.less_recent].more_recent = e.more_recent]

(* mutant of Touched: the new mru keeps its old more_recent                 *)
TouchedKeepsLink(b) == [Unlinked(b) EXCEPT ![mru].more_recent = b, ![b].less_recent = mru]

(* Relinks b after the mru - after itself when b is the mru.                *)
Touched(b) ==
  LET c2 == [Unlinked(b) EXCEPT ![mru].more_recent = b]
  IN  [c2 EXCEPT ![b].more_recent = NoBlock, ![b].less_recent = mru]

(* The lru after a hit: the next one, unless b is the only entry.           *)
HitLru(b) == IF lru = b /\ cache[b].more_recent # NoBlock
               THEN cache[b].more_recent ELSE lru

HitUpdate(b) == /\ lru' = HitLru(b)
                /\ mru' = b
                /\ older' = Accessed(b, Cached)
                /\ UNCHANGED <<disk, count, cached_count, status>>

(* mutant of MissCache: the old mru does not learn of the new block         *)
MissCacheUnlinked(b) == cache

(* miss_update: the mru (which must be cached) points to the new block.     *)
MissLinksValid == mru # NoBlock => mru \in Cached
MissCache(b) == IF mru = NoBlock THEN cache ELSE [cache EXCEPT ![mru].more_recent = b]
MissLru(b)   == IF mru = NoBlock THEN b ELSE lru

(* insert() when the cache is not full.                                     *)
InsertFree(b, entry) ==
  /\ cached_count < Size
  /\ MissLinksValid
  /\ cache' = [a \in Cached \cup {b} |-> IF a = b THEN entry ELSE MissCache(b)[a]]
  /\ cached_count' = cached_count + 1
  /\ lru' = MissLru(b) /\ mru' = b
  /\ older' = Accessed(b, Cached \cup {b})
  /\ UNCHANGED <<disk, count, status>>

(* mutant of EvictedTo: the dirty bit of the lru is not looked at           *)
EvictedToNowhere(old) == disk

(* The device after the write-back of the lru, done only if it is dirty.    *)
EvictedTo(old) == IF cache[old].dirty THEN [disk EXCEPT ![old] = cache[old].data] ELSE disk

(* insert() when it is full: the lru is written back if dirty and replaced; *)
(* its more_recent, the new lru, must be cached.                            *)
InsertEvict(b, entry) ==
  LET c     == MissCache(b)
      old   == MissLru(b)
      next  == c[old].more_recent
      c2    == [c EXCEPT ![next].less_recent = NoBlock]
      keep  == (Cached \ {old}) \cup {b}
  IN  /\ cached_count >= Size
      /\ MissLinksValid
      /\ old \in Cached
      /\ next \in Cached
      /\ cache[old].dirty => InRange(old)
      /\ disk' = EvictedTo(old)
      /\ cache' = [a \in keep |-> IF a = b THEN entry ELSE c2[a]]
      /\ lru' = next /\ mru' = b
      /\ older' = Accessed(b, keep)
      /\ UNCHANGED <<count, cached_count, status>>

(* The write-back of the lru fails and insert returns early: the new block  *)
(* is not cached, but miss_update has already made it the mru.              *)
InsertFailed(b, op) ==
  LET old == MissLru(b) IN
  /\ cached_count >= Size
  /\ MissLinksValid
  /\ old \in Cached
  /\ cache[old].dirty
  /\ FailedWrite(old, disk)
  /\ cache' = MissCache(b)
  /\ lru' = old /\ mru' = b
  /\ Fails(op)
  /\ UNCHANGED <<count, cached_count, status, older>>

(* An unwrap of miss_update or insert fails; the write-back of the lru      *)
(* comes before the last of them.                                           *)
InsertPanics(b) ==
  LET c     == MissCache(b)
      old   == MissLru(b)
      found == MissLinksValid /\ old \in Cached    \* the lru of insert
  IN  /\ ~MissLinksValid \/ cached_count >= Size
      /\ found => /\ c[old].more_recent \notin Cached
                  /\ cache[old].dirty => InRange(old)
      /\ disk' = IF found THEN EvictedTo(old) ELSE disk
      /\ Panics

Entry(d, isDirty) == [data |-> d, dirty |-> isDirty,
                      more_recent |-> NoBlock, less_recent |-> mru]

-----------------------------------------------------------------------------
ReadDone(b, d) == res' = [op |-> "read", ok |-> TRUE, block |-> b, data |-> d]
WriteDone(b)   == res' = [op |-> "write", ok |-> TRUE, block |-> b]

(* mutant of ReadHit: a hit does not count as a use                         *)
ReadHitUnused(b) == /\ b \in Cached
                    /\ older' = Accessed(b, Cached)
                    /\ UNCHANGED <<disk, count, cache, cached_count, lru, mru, status>>
                    /\ ReadDone(b, cache[b].data)

ReadHit(b) == /\ b \in Cached /\ HitLinksValid(b)
              /\ HitUpdate(b)
              /\ cache' = Touched(b)
              /\ ReadDone(b, cache[b].data)

ReadMiss(b) == /\ b \notin Cached /\ InRange(b)
               /\ \/ /\ InsertFree(b, Entry(disk[b], FALSE))
                     /\ ReadDone(b, disk[b])
                  \/ /\ InsertEvict(b, Entry(disk[b], FALSE))
                     /\ ReadDone(b, disk[b])
                  \/ InsertFailed(b, "read")
                  \/ InsertPanics(b)

(* device.read_block(..)? fails before anything is touched.                 *)
ReadFailed(b) == /\ b \notin Cached
                 /\ InRange(b) => MayFail
                 /\ Fails("read")
                 /\ UNCHANGED <<disk, count, cache, cached_count, lru, mru, status, older>>

(* mutant of Written: a hit does not mark the block dirty                   *)
WrittenClean(b, d) == [Touched(b) EXCEPT ![b].data = d]
Written(b, d) == [Touched(b) EXCEPT ![b].data = d, ![b].dirty = TRUE]

WriteHit(b, d) == /\ b \in Cached /\ HitLinksValid(b)
                  /\ HitUpdate(b)
                  /\ cache' = Written(b, d)
                  /\ WriteDone(b)

(* No range check: an address past the end is cached like any other.        *)
WriteMiss(b, d) == /\ b \notin Cached
                   /\ \/ InsertFree(b, Entry(d, TRUE)) /\ WriteDone(b)
                      \/ InsertEvict(b, Entry(d, TRUE)) /\ WriteDone(b)
                      \/ InsertFailed(b, "write")
                      \/ InsertPanics(b)

HitPanics(b) == /\ b \in Cached /\ ~HitLinksValid(b)
                /\ UNCHANGED disk
                /\ Panics

read_block(b) == ReadHit(b) \/ HitPanics(b) \/ ReadMiss(b) \/ ReadFailed(b)
write_block(b, d) == WriteHit(b, d) \/ HitPanics(b) \/ WriteMiss(b, d)

-----------------------------------------------------------------------------
(* mutant of Cleaned: every block is marked clean, written or not           *)
CleanedAll(W) == [a \in Cached |-> [cache[a] EXCEPT !.dirty = FALSE]]

(* disk and cache after the blocks of W have been written back and marked   *)
(* clean.                                                                   *)
FlushedDisk(W) == [a \in Addr |-> IF a \in W THEN cache[a].data ELSE disk[a]]
Cleaned(W) == [a \in Cached |-> IF a \in W THEN [cache[a] EXCEPT !.dirty = FALSE]
                                            ELSE cache[a]]

(* flush(): the HashMap is walked in an arbitrary order and the first       *)
(* failing block ends the walk, so any set of dirty blocks may come before. *)
WriteBackAll(op) ==
  \/ /\ \A b \in Dirty : InRange(b)
     /\ disk' = FlushedDisk(Dirty)
     /\ cache' = Cleaned(Dirty)
     /\ res' = [op |-> op, ok |-> TRUE]
  \/ \E f \in Dirty : \E W \in SUBSET (Dirty \ {f}) :
       /\ \A b \in W : InRange(b)
       /\ FailedWrite(f, FlushedDisk(W))
       /\ cache' = Cleaned(W)
       /\ Fails(op)

flush == /\ WriteBackAll("flush")
         /\ UNCHANGED <<count, cached_count, lru, mru, status, older>>

(* Drop flushes and swallows the outcome; a panic unwinds into it too.      *)
drop == /\ WriteBackAll("drop")
        /\ status' = "dropped"
        /\ UNCHANGED <<count, cached_count, lru, mru, older>>

(* save() exports the blocks of the device without looking at the cache.    *)
save == /\ res' = [op |-> "save", ok |-> TRUE, image |-> disk]
        /\ UNCHANGED <<disk, count, cache, cached_count, lru, mru, status, older>>

(* resize() goes straight to the device: blocks past n are dropped, new     *)
(* ones are zero, the cache keeps what it has.  FileDevice takes the new    *)
(* size before set_len, which may fail.                                     *)
resize(n) == /\ count' = n
             /\ \/ /\ disk' = [a \in Addr |-> IF a < n THEN disk[a] ELSE Zero]
                   /\ res' = [op |-> "resize", ok |-> TRUE]
                \/ /\ MayFail
                   /\ Fails("resize")
                   /\ UNCHANGED disk
             /\ UNCHANGED <<cache, cached_count, lru, mru, status, older>>

(* FileDevice::from_file counts the blocks of the file it opens.  That is   *)
(* the count kept so far, unless an earlier set_len failed: then the file   *)
(* has the length of an older size, or of a write since that extended it.   *)
FileCounts == {count} \cup (IF MayFail /\ Sizes # {}
                              THEN Sizes \cup {Count} \cup {b + 1 : b \in Addr} ELSE {})

(* The process dies at any point, or ends after drop, whose failed write-   *)
(* back the code swallows; the device is opened again under an empty cache. *)
Restart == NewCache /\ count' \in FileCounts /\ UNCHANGED disk

Next == \/ /\ status = "live"
           /\ \/ \E b \in Addr : read_block(b)
              \/ \E b \in Addr, d \in Data : write_block(b, d)
              \/ flush
              \/ save
              \/ \E n \in Sizes : resize(n)
        \/ status # "dropped" /\ drop
        \/ Restart

Spec == Init /\ [][Next]_vars

-----------------------------------------------------------------------------
TypeOK == /\ disk \in [Addr -> Data]
          /\ count \in Nat
          /\ Cached \subseteq Addr
          /\ cache \in [Cached -> CachedBlock]
          /\ cached_count \in Nat
          /\ lru \in Link /\ mru \in Link
          /\ status \in {"live", "panicked", "dropped"}
          /\ older \subseteq Addr \X Addr

(* A clean cached block agrees with the device (a read may be served from   *)
(* it, and eviction may forget it), and cached_count, which alone decides   *)
(* when to evict, is the number of entries and never exceeds the capacity.  *)
Coherent == /\ \A b \in Cached : ~cache[b].dirty => cache[b].data = disk[b]
            /\ cached_count = Cardinality(Cached)
            /\ cached_count <= Size

(* Writes acknowledged but not yet on the device leave the cache only by    *)
(* reaching the device - also when the device fails or is resized - unless  *)
(* the process itself restarts.                                             *)
DirtyNotLost ==
  [][\A b \in Dirty : \/ res'.op = "new"
                      \/ b \in DOMAIN cache' /\ cache'[b].dirty
                      \/ disk'[b] = cache[b].data]_vars

(* The block insert() replaces is the one whose last access is the oldest:  *)
(* "least recently used" is what the links claim to record.                 *)
EvictsOldest ==
  [][\A b \in Cached \ DOMAIN cache' :
        \/ res'.op = "new"
        \/ \A a \in Cached \ {b} : <<b, a>> \in older]_vars

(* Following more_recent from the lru visits every cached block in the      *)
(* order of its last access and ends at the mru.                            *)
RecencyList ==
  status = "live" /\ Cached # {} =>
    /\ lru \in Cached /\ mru \in Cached
    /\ \A a \in Cached :
         /\ a # lru => <<lru, a>> \in older
         /\ IF a = mru
              THEN cache[a].more_recent = NoBlock
              ELSE /\ <<a, cache[a].more_recent>> \in older
                   /\ \A b \in Cached : <<a, b>> \in older /\ b # cache[a].more_recent
                                          => <<cache[a].more_recent, b>> \in older

(* No unwrap of the cache's own bookkeeping fails.                          *)
NoPanic == status # "panicked"

-----------------------------------------------------------------------------
(* What the callers see: the cached copy when there is one.                 *)
Visible == [b \in Addr |-> IF b \in Cached THEN cache[b].data ELSE disk[b]]

Store == INSTANCE WriteBackStore WITH store <- Visible, persistent <- disk

(* The cache implements the write-back store, whatever the capacity, with a *)
(* failing device and with the broken recency list of larger caches.        *)
ImplementsStore == Store!Spec
=============================================================================
