------------------------------ MODULE FormatV1 ------------------------------
(***************************************************************************)
(* formats/v1/format.rs: the operations that change the name space and the  *)
(* allocation of inodes and data blocks, with what they use of              *)
(* bitmap_allocator.rs, inode_handler.rs and directory_handler.rs, and the  *)
(* FUSE handlers that are compositions of them (link, rename).  Calls are   *)
(* serialised, so an action is a whole call.  A call that returns an error  *)
(* and changes nothing is a stuttering step and is not written down.        *)
(*                                                                          *)
(* Directory records have one length here (module DirectoryBlock has the    *)
(* variable ones): a directory block is EntriesPerBlock slots.  File bytes, *)
(* sizes and timestamps are left out.                                       *)
(***************************************************************************)
EXTENDS INodeBlocks, FiniteSets

CONSTANTS NI, ND,              \* inodes; data blocks
          ByteBits, BlockBits, \* geometry of the bitmaps
          IMapBlocks, DMapBlocks, \* blocks of the two bitmaps
          EntriesPerBlock,     \* directory entries that fit in a block
          Names,               \* file names
          PaddedNames,         \* those of them that are exactly 64 bytes long
          Handles,             \* identifiers of open files (u32), a bound
          MaxGrow,             \* blocks one write may add, a bound
          U32,                 \* 2^32: the counters wrap (a release build)
          Risky                \* calls the code leaves to the caller to avoid

ASSUME FormatAssumption ==
  /\ NI \in Nat \ {0} /\ ND \in Nat \ {0}
  /\ ByteBits \in Nat \ {0} /\ BlockBits \in Nat \ {0} /\ BlockBits % ByteBits = 0
  /\ IMapBlocks \in Nat /\ NI <= IMapBlocks * BlockBits   \* LayoutFits and, up to
  /\ DMapBlocks \in Nat /\ ND <= DMapBlocks * BlockBits   \* 2 MiB, InodeBitmapCovers
  /\ EntriesPerBlock \in Nat /\ EntriesPerBlock >= 2
  /\ PaddedNames \subseteq Names /\ Names \cap {".", ".."} = {}
  /\ MaxGrow \in Nat
  /\ U32 \in Nat /\ U32 > NI /\ U32 > ND
  /\ Risky \subseteq {"reuse_name", "file_parent", "delete_open", "link_symlink",
                      "rename_directory", "rename_symlink"}

VARIABLES ibits, ilast,  \* inode bitmap and its allocator's last_alloc
          dbits, dlast,  \* data bitmap and its allocator's last_alloc
          sb,            \* cached free counts of the mounted superblock
          saved,         \* the superblock on the device
          inode,         \* inode table, stale contents of free slots included
          content,       \* data block -> its slots, where it is a directory block
          open           \* open_files: handle -> inode index, or NoInode

alloc == <<ibits, ilast, dbits, dlast, sb, saved>>
vars == <<ibits, ilast, dbits, dlast, sb, saved, inode, content, open>>

IMap == INSTANCE BitmapAllocator WITH MaxIndex <- NI, MapBlocks <- IMapBlocks
DMap == INSTANCE BitmapAllocator WITH MaxIndex <- ND, MapBlocks <- DMapBlocks

Inode == 0 .. NI - 1
Block == 0 .. ND - 1
Root  == 0
NoInode == -1                              \* INVALID_ADDRESS
Types == {"file", "directory", "symlink"}

Slot == 1 .. EntriesPerBlock
Free == [name |-> ".", ino |-> NoInode, type |-> "file"]
Entry(name, i, type) == [name |-> name, ino |-> i, type |-> type]

(* Directory::new *)
NewDirectory(i, parent) ==
  [s \in Slot |-> IF s = 1 THEN Entry(".", i, "directory")
                  ELSE IF s = 2 THEN Entry("..", parent, "directory") ELSE Free]

(* mutant of NewInode: the link of its first entry is not counted           *)
NewInodeUnlinked(type, blocks) ==
  [type |-> type, links |-> 0, blocks |-> blocks, ptrs |-> <<>>]

(* INode::empty with its blocks; ptrs are its indirect and double indirect  *)
(* pointer blocks.                                                          *)
NewInode(type, blocks) == [type |-> type, links |-> 1, blocks |-> blocks, ptrs |-> <<>>]

(* format() followed by mount(): an empty root directory.                   *)
Init == /\ ibits = {Root} /\ ilast = 0
        /\ dbits = {0} /\ dlast = 0
        /\ sb = [free_inodes |-> NI - 1, free_data |-> ND - 1]
        /\ saved = sb
        /\ inode = [i \in Inode |->
                      IF i = Root THEN NewInode("directory", <<0>>)
                      ELSE [NewInode("file", <<>>) EXCEPT !.links = 0]]
        /\ content = [b \in Block |-> IF b = 0 THEN NewDirectory(Root, Root)
                                      ELSE [s \in Slot |-> Free]]
        /\ open = [h \in Handles |-> NoInode]

-----------------------------------------------------------------------------
(* Directory blocks: directory_handler.rs                                   *)

Position(p) == (1 .. Len(inode[p].blocks)) \X Slot
At(p, pos)  == content[inode[p].blocks[pos[1]]][pos[2]]
Earlier(x, y) == x[1] < y[1] \/ (x[1] = y[1] /\ x[2] < y[2])
First(P) == CHOOSE x \in P : \A y \in P : y = x \/ Earlier(x, y)

(* Positions iterate() visits that hold an entry of that name, or no entry. *)
Find(p, name) == {pos \in Position(p) : At(p, pos).ino # NoInode /\ At(p, pos).name = name}
Fit(p) == {pos \in Position(p) : At(p, pos).ino = NoInode}

(* Neither of the names every directory has.                                *)
IsNamed(e) == e.ino # NoInode /\ e.name \notin {".", ".."}
(* mutant of Empty: only the first block is looked at                       *)
EmptyFirstBlock(p) == \A pos \in Position(p) : pos[1] = 1 => ~IsNamed(At(p, pos))
Empty(p) == \A pos \in Position(p) : ~IsNamed(At(p, pos))

(* find_entry in create, create_child and the hard links: the name it looks *)
(* for is the whole 64-byte buffer, which only equals a name of that length.*)
Collides(p, name) == name \in PaddedNames /\ Find(p, name) # {}

(* add_entry_here in the first free region, or add_entry_grow in block eb.  *)
Added(p, e, eb) ==
  IF Fit(p) # {}
    THEN LET pos == First(Fit(p)) IN [content EXCEPT ![inode[p].blocks[pos[1]]][pos[2]] = e]
    ELSE [content EXCEPT ![eb] = [s \in Slot |-> IF s = 1 THEN e ELSE Free]]

(* mutant of Freed: the record is left in place                             *)
NotFreed(c, p, pos) == c
(* free_region *)
Freed(c, p, pos) == [c EXCEPT ![inode[p].blocks[pos[1]]][pos[2]] = Free]

-----------------------------------------------------------------------------
(* Pointer blocks: inode_handler.rs                                         *)

blocks_necessary_to_grow_n(i, n) == MetadataToGrow(Len(inode[i].blocks), n)

(* add_block and add_blocks: data is appended, and as many pointer blocks   *)
(* as it needs are taken from the front of the pool.                        *)
Grown(i, data, pool) ==
  [inode[i] EXCEPT !.blocks = @ \o data,
                   !.ptrs = @ \o SubSeq(pool, 1, blocks_necessary_to_grow_n(i, Len(data)))]

TooBig(i, n) == Len(inode[i].blocks) + n > MaxBlocks

-----------------------------------------------------------------------------
(* FormatV1::allocate                                                       *)

Inodes(n) == IMap!find_free(ibits, ilast, n)
(* mutant of Data: the bit of the last allocation is taken for a clear one  *)
DataLastReused(n) == DMap!find_free(dbits \ {dlast}, dlast, n)
Data(n)   == DMap!find_free(dbits, dlast, n)

Allocated(ni, nd) ==
  LET is == Inodes(ni)
      bs == Data(nd)
  IN  /\ sb.free_inodes >= ni /\ sb.free_data >= nd
      /\ Len(is) = ni /\ Len(bs) = nd
      /\ ibits' = IMap!allocate(ibits, is) /\ ilast' = IMap!last_alloc(ilast, is)
      /\ dbits' = DMap!allocate(dbits, bs) /\ dlast' = DMap!last_alloc(dlast, bs)
      /\ sb' = [free_inodes |-> sb.free_inodes - ni, free_data |-> sb.free_data - nd]
      /\ saved' = sb'

(* StorageFull although the cached counts promised enough: the counts are   *)
(* "corrected" in memory to what the search returned.                       *)
InodesFull(nd) ==
  /\ sb.free_inodes >= 1 /\ sb.free_data >= nd
  /\ Inodes(1) = <<>>
  /\ sb' = [sb EXCEPT !.free_inodes = 0]
  /\ UNCHANGED <<ibits, ilast, dbits, dlast, saved, inode, content, open>>
DataFull(ni, nd) ==
  /\ sb.free_inodes >= ni /\ sb.free_data >= nd
  /\ Len(Inodes(ni)) = ni /\ Len(Data(nd)) < nd
  /\ sb' = [sb EXCEPT !.free_data = Len(Data(nd))]
  /\ UNCHANGED <<ibits, ilast, dbits, dlast, saved, inode, content, open>>

(* Data blocks to add one entry to p.                                       *)
EntryBlocks(p) == IF Fit(p) # {} THEN 0 ELSE 1 + blocks_necessary_to_grow_n(p, 1)

(* The directory inode p after an entry was added, given the blocks         *)
(* allocated for that: the entry block first, then the pool.                *)
Parent(p, blocks) == IF Fit(p) # {} THEN inode[p]
                     ELSE Grown(p, <<blocks[1]>>, Tail(blocks))
EntryBlock(blocks) == IF blocks = <<>> THEN 0 ELSE blocks[1]

(* Directories a call can name as the parent.  The path operations do not   *)
(* look at the type of what the parent path resolves to (only an empty file *)
(* is considered: bytes of a file are not parsed as records here).          *)
Directories == {d \in ibits : inode[d].type = "directory"}
Parents == Directories \cup {p \in ibits : /\ "file_parent" \in Risky
                                           /\ inode[p].type = "file" /\ inode[p].blocks = <<>>}

Available(p, name) == /\ ~Collides(p, name)
                      /\ Find(p, name) = {} \/ "reuse_name" \in Risky

-----------------------------------------------------------------------------
(* What create and create_child have in common, from the search for room in *)
(* the directory on; the new file is opened as the handles of H.            *)
Create(p, name, type, H) ==
  LET own    == IF type = "file" THEN 0 ELSE 1
      nd     == own + EntryBlocks(p)
      blocks == Data(nd)
      i      == Inodes(1)[1]
      extra  == SubSeq(blocks, own + 1, nd)        \* for the entry of the parent
      fresh  == NewInode(type, SubSeq(blocks, 1, own))
      added  == Added(p, Entry(name, i, type), EntryBlock(extra))
      filled(c) == IF type = "directory" THEN [c EXCEPT ![blocks[1]] = NewDirectory(i, p)] ELSE c
  IN  /\ Available(p, name)
      /\ \/ /\ Fit(p) # {} \/ ~TooBig(p, 1)
            /\ Allocated(1, nd)
            /\ inode' = [inode EXCEPT ![i] = fresh, ![p] = Parent(p, extra)]
            /\ content' = filled(added)
            /\ open' = [h \in Handles |-> IF h \in H THEN i ELSE open[h]]
         \/ /\ Fit(p) = {} /\ TooBig(p, 1)          \* add_block(..)? of the parent fails
            /\ Allocated(1, nd)
            /\ inode' = [inode EXCEPT ![i] = fresh]
            /\ content' = filled(content)
            /\ UNCHANGED open
         \/ InodesFull(nd)
         \/ DataFull(1, nd)

(* create_file, create_directory, create_symlink: create by path.           *)
create(p, name, type) == p \in Parents /\ Create(p, name, type, {})

(* create_child, which checks that the parent is a directory, and the FUSE  *)
(* handlers that call it; the last one also opens the file it has created.  *)
create_child(p, name, type, H) == p \in Directories /\ Create(p, name, type, H)
mknod(p, name) == create_child(p, name, "file", {})
mkdir(p, name) == create_child(p, name, "directory", {})
symlink(p, name) == create_child(p, name, "symlink", {})
create_open(p, name, h) == open[h] = NoInode /\ create_child(p, name, "file", {h})

(* Some entry names i, so a caller can know of it.                          *)
Linked(i) == \E d \in Directories : \E pos \in Position(d) :
               IsNamed(At(d, pos)) /\ At(d, pos).ino = i

(* A hard link fails after or in allocate().                                *)
HardlinkFails(p) ==
  \/ /\ Fit(p) = {} /\ TooBig(p, 1)
     /\ Allocated(0, EntryBlocks(p))
     /\ UNCHANGED <<inode, content, open>>
  \/ DataFull(0, EntryBlocks(p))

(* What create_hardlink and create_child_hardlink have in common: the entry *)
(* is typed as a file, whatever i is.                                       *)
Hardlink(i, p, name) ==
  LET nd == EntryBlocks(p) IN
  /\ Available(p, name)
  /\ \/ /\ Fit(p) # {} \/ ~TooBig(p, 1)
        /\ Allocated(0, nd)
        /\ content' = Added(p, Entry(name, i, "file"), EntryBlock(Data(nd)))
        /\ inode' = [inode EXCEPT ![i].links = @ + 1, ![p] = Parent(p, Data(nd))]
        /\ UNCHANGED open
     \/ HardlinkFails(p)

(* The copy of p is read before i is written and is written after it.       *)
create_hardlink(i, p, name) == /\ i \in ibits /\ inode[i].type = "file"
                               /\ p \in Parents
                               /\ Linked(i)
                               /\ Hardlink(i, p, name)

(* The FUSE link refuses directories only.                                  *)
link(i, p, name) == /\ i \in ibits
                    /\ \/ inode[i].type = "file"
                       \/ inode[i].type = "symlink" /\ "link_symlink" \in Risky
                    /\ p \in Directories
                    /\ Linked(i)
                    /\ Hardlink(i, p, name)

(* The blocks a deletion releases: the content blocks, not the pointers.    *)
ToDealloc(i) == inode[i].blocks

(* mutant of LastLink: the counter is compared with zero                    *)
NoLinkLeft(i) == inode[i].links = 0
LastLink(i) == inode[i].links <= 1

(* What delete and delete_child have in common, once the entry is found.    *)
Delete(p, pos) ==
  LET i == At(p, pos).ino IN
  /\ inode[i].type = "directory" => Empty(i)
  /\ "delete_open" \in Risky \/ ~LastLink(i) \/ \A h \in Handles : open[h] # i
  /\ IF LastLink(i)
       THEN /\ dbits' = DMap!deallocate(dbits, ToDealloc(i))
            /\ ibits' = IMap!deallocate(ibits, <<i>>)
            /\ sb' = [free_inodes |-> (sb.free_inodes + 1) % U32,
                      free_data   |-> (sb.free_data + Len(ToDealloc(i))) % U32]
            /\ saved' = sb'
            /\ UNCHANGED inode
       ELSE /\ inode' = [inode EXCEPT ![i].links = @ - 1]
            /\ UNCHANGED <<dbits, ibits, sb, saved>>
  /\ content' = Freed(content, p, pos)
  /\ UNCHANGED <<ilast, dlast, open>>

delete(p, name) == /\ p \in Directories /\ Find(p, name) # {}
                   /\ Delete(p, First(Find(p, name)))

(* delete_child with the type the caller demands, as the FUSE unlink and    *)
(* rmdir do; no handler removes a symbolic link.                            *)
delete_child(p, name, type) ==
  /\ p \in Directories /\ Find(p, name) # {}
  /\ inode[At(p, First(Find(p, name))).ino].type = type
  /\ Delete(p, First(Find(p, name)))
unlink(p, name) == delete_child(p, name, "file")
rmdir(p, name)  == delete_child(p, name, "directory")

(* The directories in the tree under i, i included: the kernel never asks   *)
(* to move a directory there.                                               *)
Below(i) ==
  LET children(S) == {d \in ibits : \E p \in S : \E pos \in Position(p) :
                                      IsNamed(At(p, pos)) /\ At(p, pos).ino = d}
      down[n \in 0 .. NI] == IF n = 0 THEN {i} ELSE down[n - 1] \cup children(down[n - 1])
  IN  down[NI]

(* The FUSE rename: a hard link under the new name (typed as a file), then  *)
(* delete_child of the old one, which refuses a directory that is not       *)
(* empty.  The kernel asks for it only if the new name is vacant, and never *)
(* moves a directory below itself.                                          *)
rename(p, name, q, newname) ==
  LET pos   == First(Find(p, name))
      i     == At(p, pos).ino
      nd    == EntryBlocks(q)
      added == Added(q, Entry(newname, i, "file"), EntryBlock(Data(nd)))
  IN  /\ p \in Directories /\ Find(p, name) # {}
      /\ q \in Directories /\ Find(q, newname) = {}
      /\ ~Collides(q, newname)
      /\ inode[i].type = "directory" => "rename_directory" \in Risky /\ q \notin {i} \cup Below(i)
      /\ inode[i].type = "symlink" => "rename_symlink" \in Risky
      /\ \/ HardlinkFails(q)
         \/ /\ Fit(q) # {} \/ ~TooBig(q, 1)
            /\ Allocated(0, nd)
            /\ inode[i].type = "directory" /\ ~Empty(i)
            /\ content' = added
            /\ inode' = [inode EXCEPT ![i].links = @ + 1, ![q] = Parent(q, Data(nd))]
            /\ UNCHANGED open
         \/ /\ Fit(q) # {} \/ ~TooBig(q, 1)
            /\ Allocated(0, nd)
            /\ inode[i].type = "directory" => Empty(i)
            /\ content' = Freed(added, p, pos)
            /\ inode' = [inode EXCEPT ![q] = Parent(q, Data(nd))]
            /\ UNCHANGED open

-----------------------------------------------------------------------------
(* open_file and open_file_from_inode; close_file.                          *)
open_file(h, i) == /\ open[h] = NoInode
                   /\ i \in ibits /\ inode[i].type = "file" /\ Linked(i)
                   /\ open' = [open EXCEPT ![h] = i]
                   /\ UNCHANGED <<alloc, inode, content>>

close_file(h) == /\ open[h] # NoInode
                 /\ open' = [open EXCEPT ![h] = NoInode]
                 /\ UNCHANGED <<alloc, inode, content>>

(* mutant of Minus: the counter is not a u32                                *)
MinusSigned(x, y) == x - y
Minus(x, y) == (x - y) % U32

(* mutant of WriteCost: the pointer blocks are forgotten                    *)
DataCost(data, m) == Len(data)
WriteCost(data, m) == Len(data) + m

(* write() past the allocated blocks, by n of them.  The pointer blocks are *)
(* allocated before the data blocks; less data than asked for is accepted   *)
(* if there is some, and the pointer blocks are then all kept.              *)
write(h, n) ==
  LET i     == open[h]
      m     == blocks_necessary_to_grow_n(i, n)
      meta  == Data(m)
      bits1 == DMap!allocate(dbits, meta)
      last1 == DMap!last_alloc(dlast, meta)
      data  == DMap!find_free(bits1, last1, n)
  IN  /\ i # NoInode
      /\ Len(meta) = m
      /\ \/ /\ data = <<>>
            /\ dbits' = DMap!deallocate(bits1, meta) /\ dlast' = last1
            /\ UNCHANGED <<sb, saved, inode>>
         \/ /\ data # <<>>
            /\ dbits' = DMap!allocate(bits1, data) /\ dlast' = DMap!last_alloc(last1, data)
            /\ \/ /\ TooBig(i, Len(data))            \* add_blocks(..)? fails
                  /\ UNCHANGED <<sb, saved, inode>>
               \/ /\ ~TooBig(i, Len(data))
                  /\ inode' = [inode EXCEPT ![i] = Grown(i, data, meta)]
                  /\ sb' = [sb EXCEPT !.free_data = Minus(@, WriteCost(data, m))]
                  /\ saved' = sb'
      /\ UNCHANGED <<ibits, ilast, content, open>>

(* The file system is unmounted (the device keeps its blocks) and mounted.  *)
mount == /\ ilast' = 0 /\ dlast' = 0
         /\ sb' = saved
         /\ open' = [h \in Handles |-> NoInode]
         /\ UNCHANGED <<ibits, dbits, saved, inode, content>>

Next == \/ \E p \in Parents, name \in Names :
             \/ \E type \in Types : create(p, name, type)
             \/ mknod(p, name)
             \/ mkdir(p, name)
             \/ symlink(p, name)
             \/ \E h \in Handles : create_open(p, name, h)
             \/ \E i \in ibits : create_hardlink(i, p, name) \/ link(i, p, name)
             \/ delete(p, name)
             \/ unlink(p, name)
             \/ rmdir(p, name)
             \/ \E q \in Directories, newname \in Names : rename(p, name, q, newname)
        \/ \E h \in Handles :
             \/ \E i \in ibits : open_file(h, i)
             \/ close_file(h)
             \/ \E n \in 1 .. MaxGrow : write(h, n)
        \/ mount

Spec == Init /\ [][Next]_vars

-----------------------------------------------------------------------------
SlotContent == [name : Names \cup {".", ".."}, ino : Inode \cup {NoInode}, type : Types]
Counts == [free_inodes : 0 .. U32 - 1, free_data : 0 .. U32 - 1]

TypeOK == /\ ibits \subseteq Inode /\ ilast \in Inode
          /\ dbits \subseteq Block /\ dlast \in Block
          /\ sb \in Counts /\ saved \in Counts
          /\ inode \in [Inode -> [type : Types, links : Nat,
                                  blocks : Seq(Block), ptrs : Seq(Block)]]
          /\ content \in [Block -> [Slot -> SlotContent]]
          /\ open \in [Handles -> Inode \cup {NoInode}]

Owned(i) == inode[i].blocks \o inode[i].ptrs

(* A data block belongs to one place of one allocated inode, as content or  *)
(* as a pointer block, and its bit is set: no operation, failing or not,    *)
(* hands out a block in use or releases one.                                *)
BlockOwnership ==
  \A i \in ibits : \A k \in DOMAIN Owned(i) :
    /\ Owned(i)[k] \in dbits
    /\ \A j \in ibits : \A l \in DOMAIN Owned(j) :
         Owned(i)[k] = Owned(j)[l] => i = j /\ k = l

(* The named entries that refer to i.                                       *)
Refs(i) ==
  UNION {{<<d, pos>> : pos \in {x \in Position(d) : IsNamed(At(d, x)) /\ At(d, x).ino = i}}
         : d \in Directories}

(* "Allocated records reference a valid allocated inode, and their          *)
(* file_type agrees with that inode's type."                                *)
EntriesValid ==
  \A d \in Directories : \A pos \in Position(d) :
    LET e == At(d, pos) IN
    e.ino # NoInode => e.ino \in ibits /\ e.type = inode[e.ino].type

(* The link counter, which alone decides when delete() releases the inode,  *)
(* is the number of entries that name it.                                   *)
LinksExact == \A i \in ibits \ {Root} : Refs(i) # {} => inode[i].links = Cardinality(Refs(i))

(* Every allocated inode is named: nothing is lost for ever.                *)
NoOrphans == \A i \in ibits \ {Root} : Refs(i) # {}

(* The cached free counts, in memory and on the device, are the numbers of  *)
(* clear bits; write() subtracts from them without looking.                 *)
CountersExact ==
  LET exact == [free_inodes |-> NI - IMap!count_allocated(ibits),
                free_data   |-> ND - DMap!count_allocated(dbits)]
  IN  sb = exact /\ saved = exact

-----------------------------------------------------------------------------
NS == INSTANCE Namespace
        WITH Node <- Inode, Name <- Names,
             kind <- [i \in Inode |-> IF i \in ibits THEN inode[i].type ELSE "none"],
             links <- {<<r[1], At(r[1], r[2]).name, At(r[1], r[2]).ino>> :
                         r \in UNION {Refs(i) : i \in Inode}}

(* The operations implement the abstract name space: each one adds, removes *)
(* or moves one link, and a node disappears exactly with its last link.     *)
ImplementsNamespace == NS!Spec
=============================================================================
