------------------------------- MODULE FileIO -------------------------------
(***************************************************************************)
(* formats/v1/format.rs: the calls on open files (read, write, seek,        *)
(* truncate) and the FUSE handlers over them (read, write, setattr), with   *)
(* the blocks they allocate (bitmap_allocator.rs) and the pointer blocks    *)
(* they thread them through (inode_handler.rs, module INodeBlocks).  The    *)
(* files exist already; module FormatV1 has their names.  Timestamps and    *)
(* permissions are left out.                                                *)
(***************************************************************************)
EXTENDS INodeBlocks, FiniteSets

CONSTANTS Files, Handles,      \* regular files; identifiers of open files
          ND,                  \* data blocks; block 0 is the root directory's
          ByteBits, BlockBits, \* geometry of the bitmap
          MapBlocks,           \* its blocks
          BlockSize,           \* BLOCK_SIZE
          IndexMod,            \* 2^32: block indices of a file are u32
          Values,              \* bytes that callers write
          Seeks,               \* offsets callers seek to
          Lens,                \* lengths of their buffers
          Cuts                 \* sizes of truncate and setattr

ASSUME FileAssumption ==
  /\ ND \in Nat \ {0} /\ BlockSize \in Nat \ {0} /\ IndexMod \in Nat \ {0}
  /\ ByteBits \in Nat \ {0} /\ BlockBits \in Nat \ {0} /\ BlockBits % ByteBits = 0
  /\ MapBlocks \in Nat /\ ND <= MapBlocks * BlockBits     \* LayoutFits
  /\ Values \subseteq Nat \ {0}
  /\ Seeks \subseteq Nat /\ Lens \subseteq Nat \ {0} /\ Cuts \subseteq Nat

VARIABLES bits, last,  \* data bitmap and its allocator's last_alloc
          free,        \* superblock.free_data
          inode,       \* file -> block pointers and size
          data, tab,   \* contents of the blocks: bytes, or addresses
          handle,      \* open_files: handle -> set of its file and offset, {} when closed
          answer,      \* of the last read or write
          short        \* history: a write got fewer blocks than it asked for,
                       \* or more than the inode can take

vars == <<bits, last, free, inode, data, tab, handle, answer, short>>

DMap == INSTANCE BitmapAllocator WITH MaxIndex <- ND

Block == 0 .. ND - 1
InBlock == 0 .. BlockSize - 1
Failed == <<-1>>

Init == /\ bits = {0} /\ last = 0 /\ free = ND - 1
        /\ inode = [f \in Files |-> EmptyINode]
        /\ data = [b \in Block |-> [k \in InBlock |-> 0]]
        /\ tab = [b \in Block |-> [k \in 0 .. Indirect - 1 |-> 0]]
        /\ handle = [h \in Handles |-> {}]
        /\ answer = <<>>
        /\ short = FALSE

storage == <<bits, last, free, data, tab, short>>

MovedTo(h, f, at) == handle' = [handle EXCEPT ![h] = {[file |-> f, offset |-> at]}]

-----------------------------------------------------------------------------
open_file(h, f) == /\ handle[h] = {}
                   /\ MovedTo(h, f, 0) /\ answer' = <<>>
                   /\ UNCHANGED <<storage, inode>>

close_file(h) == /\ handle[h] # {}
                 /\ handle' = [handle EXCEPT ![h] = {}] /\ answer' = <<>>
                 /\ UNCHANGED <<storage, inode>>

(* seek: SeekFrom::Start, End and Current, the last two not below zero.     *)
seek(h, o, x) == /\ MovedTo(h, o.file, x) /\ answer' = <<>>
                 /\ UNCHANGED <<storage, inode>>
seek_end(h, o, x) == seek(h, o, Max({0, inode[o.file].size + x}))
seek_current(h, o, x) == seek(h, o, Max({0, o.offset + x}))

(* Where the byte at an offset is, counted in bytes of the block sequence:  *)
(* the block index is cut to 32 bits.                                       *)
BlockIndex(at) == (at \div BlockSize) % IndexMod
Start(at) == (BlockIndex(at) * BlockSize) + (at % BlockSize)

ByteAt(ino, t, d, p) == d[get_block(ino, t, p \div BlockSize)][p % BlockSize]

(* mutant of ReadLength: the end of the file is not looked at               *)
ReadLengthToBlock(ino, at, n) == Max({0, Min({n, ino.blocks * BlockSize - at})})
(* The bytes the loop of read copies: to the end of the buffer or the file. *)
ReadLength(ino, at, n) == Max({0, Min({n, ino.size - at})})

(* read() at an offset, with its check of the inode.                        *)
ReadAt(h, f, at, n) ==
  LET ino == inode[f]
      len == ReadLength(ino, at, n)
      ok  == ino.blocks * BlockSize >= ino.size
  IN  /\ answer' = IF ok THEN [k \in 1 .. len |-> ByteAt(ino, tab, data, Start(at) + k - 1)]
                   ELSE Failed
      /\ MovedTo(h, f, IF ok THEN at + len ELSE at)
      /\ UNCHANGED <<storage, inode>>

-----------------------------------------------------------------------------
(* "zero all new blocks": for the pointer tables too these are zeros, but a *)
(* data block is never read as one.                                         *)
Zeroed(d, blocks) ==
  [b \in Block |-> IF b \in Range(blocks) THEN [k \in InBlock |-> 0] ELSE d[b]]

(* The loop of write over the blocks the inode has, and the new size: that  *)
(* is the offset after the loop even when the loop stored nothing.          *)
Stored(h, f, at, n, v, ino, t, d) ==
  LET start == Start(at)
      w     == Max({0, Min({n, ino.blocks * BlockSize - start})})
      hit   == {<<get_block(ino, t, p \div BlockSize), p % BlockSize>> :
                  p \in start .. start + w - 1}
  IN  /\ data' = [b \in Block |-> [k \in InBlock |-> IF <<b, k>> \in hit THEN v ELSE d[b][k]]]
      /\ tab' = t
      /\ inode' = [inode EXCEPT ![f] = [ino EXCEPT !.size = Max({@, at + w})]]
      /\ answer' = <<w>>
      /\ MovedTo(h, f, at + w)

WriteFails(h, f, at) == answer' = Failed /\ MovedTo(h, f, at)

ToAlloc(ino, at, n) == BlockIndex(at + n - 1) - ino.blocks + 1

(* blocks_necessary_to_grow_n for all the blocks asked for; when there are  *)
(* fewer, what the data does not need of them stays allocated all the same. *)
Pointers(ino, want) == MetadataToGrow(ino.blocks, want)

(* mutant of Returned: the pointer blocks are not given back                *)
NotReturned(b, meta) == b
(* deallocate of the pointer blocks when no data block is left.             *)
Returned(b, meta) == DMap!deallocate(b, meta)

(* write() of n bytes v at an offset.                                       *)
WriteAt(h, f, at, n, v) ==
  LET ino   == inode[f]
      want  == ToAlloc(ino, at, n)
      m     == Pointers(ino, want)
      meta  == DMap!find_free(bits, last, m)
      bits1 == DMap!allocate(bits, meta)
      last1 == DMap!last_alloc(last, meta)
      new   == DMap!find_free(bits1, last1, want)
      grown == add_blocks(ino, tab, new, meta)
  IN  \/ /\ want <= 0
         /\ Stored(h, f, at, n, v, ino, tab, data)
         /\ UNCHANGED <<bits, last, free, short>>
      \/ /\ want > 0 /\ Len(meta) < m
         /\ WriteFails(h, f, at)
         /\ UNCHANGED <<storage, inode>>
      \/ /\ want > 0 /\ Len(meta) = m /\ new = <<>>
         /\ bits' = Returned(bits1, meta) /\ last' = last1
         /\ WriteFails(h, f, at)
         /\ UNCHANGED <<free, data, tab, short, inode>>
      \/ /\ want > 0 /\ Len(meta) = m /\ new # <<>>
         /\ bits' = DMap!allocate(bits1, new) /\ last' = DMap!last_alloc(last1, new)
         /\ IF Addable(ino, new, meta)
              THEN /\ free' = free - (Len(new) + m)
                   /\ short' = (short \/ Len(new) < want)
                   /\ Stored(h, f, at, n, v, grown.ino, grown.tab, Zeroed(data, new))
              ELSE /\ data' = Zeroed(data, new) /\ short' = TRUE
                   /\ WriteFails(h, f, at)
                   /\ UNCHANGED <<free, tab, inode>>

-----------------------------------------------------------------------------
read(h, o, n)     == ReadAt(h, o.file, o.offset, n)
write(h, o, n, v) == WriteAt(h, o.file, o.offset, n, v)

(* The FUSE read and write: seek from the start, then the call.             *)
fuse_read(h, o, at, n)     == ReadAt(h, o.file, at, n)
fuse_write(h, o, at, n, v) == WriteAt(h, o.file, at, n, v)

SetSize(f, s) == /\ inode' = [inode EXCEPT ![f].size = s] /\ answer' = <<>>
                 /\ UNCHANGED <<storage, handle>>

truncate(o, s) == s < inode[o.file].size /\ SetSize(o.file, s)

(* The FUSE setattr of a size: larger ones too, without any allocation.     *)
setattr(f, s) == SetSize(f, s)

Next == \/ \E h \in Handles :
             \/ \E f \in Files : open_file(h, f)
             \/ close_file(h)
             \/ \E o \in handle[h] :
                  \/ \E x \in Seeks : seek(h, o, x) \/ seek_current(h, o, -x)
                  \/ seek_end(h, o, -1)
                  \/ \E n \in Lens : read(h, o, n)
                  \/ \E n \in Lens, v \in Values : write(h, o, n, v)
                  \/ \E at \in Seeks, n \in Lens : fuse_read(h, o, at, n)
                  \/ \E at \in Seeks, n \in Lens, v \in Values : fuse_write(h, o, at, n, v)
                  \/ \E s \in Cuts : truncate(o, s)
        \/ \E f \in Files, s \in Cuts : setattr(f, s)

Spec == Init /\ [][Next]_vars

-----------------------------------------------------------------------------
(* Every place that refers to a data block: the direct and indirect         *)
(* addresses of a file, and its pointer blocks.                             *)
DataBlocks(f) == {get_block(inode[f], tab, k) : k \in 0 .. inode[f].blocks - 1}
OwnedBlocks(f) == DataBlocks(f) \cup PointerBlocks(inode[f], tab)

(* Every address written by add_blocks, through any number of levels and    *)
(* any history of growth, leads to a block of that file alone: no address   *)
(* is lost, repeated, shared or used both as data and as a pointer block.   *)
PointersExact ==
  \A f \in Files :
    /\ Cardinality(OwnedBlocks(f)) = inode[f].blocks + MetadataBlocks(inode[f].blocks)
    /\ OwnedBlocks(f) \subseteq bits
    /\ \A g \in Files \ {f} : OwnedBlocks(f) \cap OwnedBlocks(g) = {}

(* Storage is lost, or free_space() overstated, only after a write that     *)
(* found too little room or hit the size limit of an inode: the pointer     *)
(* blocks for the rest of it are kept.  Every other failing write gives     *)
(* back all it took.                                                        *)
StorageAccounted ==
  ~short => /\ bits = {0} \cup UNION {OwnedBlocks(f) : f \in Files}
            /\ free = ND - Cardinality(bits)

(* Files are interchangeable.                                               *)
Symmetry == Permutations(Files)

(* What the calls show of the state: the bytes that have storage, the rest  *)
(* as zeros, and the offset of each open handle.                            *)
MaxBytes == MaxBlocks * BlockSize
Contents == [f \in Files |-> [p \in 0 .. MaxBytes - 1 |->
               IF p \div BlockSize < inode[f].blocks
                 THEN ByteAt(inode[f], tab, data, p) ELSE 0]]
SizeOf   == [f \in Files |-> inode[f].size]
Storage  == [f \in Files |-> inode[f].blocks * BlockSize]
Cursors  == [h \in Handles |-> {<<o.file, o.offset>> : o \in handle[h]}]

Flat == INSTANCE FlatFile
          WITH File <- Files, Handle <- Handles, Byte <- Values, Limit <- MaxBytes,
               Offset <- 0 .. Max(Seeks \cup Cuts) + MaxBytes,
               Goal <- Seeks, Length <- Lens,
               bytes <- Contents, size <- SizeOf, backed <- Storage, cursor <- Cursors

(* The block structure implements the flat array of bytes: a call through   *)
(* one handle reads and changes exactly the bytes it names, growth keeps    *)
(* what is within the file, and a read fails only when the size exceeds the *)
(* storage.                                                                 *)
ImplementsFlatFile == Flat!Spec

(* "Holes created by seeking past EOF are physically allocated and contain  *)
(* zero bytes until written": where a write raises the size, the bytes      *)
(* between the old end and those it wrote are zero.                         *)
HolesZero ==
  [][\A f \in Files :
       SizeOf'[f] > SizeOf[f] /\ answer' # <<>> =>
         \A p \in SizeOf[f] .. SizeOf'[f] - answer'[1] - 1 :
           p < Storage'[f] => Contents'[f][p] = 0]_vars
=============================================================================
