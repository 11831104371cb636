--------------------------- MODULE DirectoryBlock ---------------------------
(***************************************************************************)
(* formats/v1/directory.rs and directory_handler.rs: the variable-length    *)
(* records of one directory.  A block is what its bytes say: a record       *)
(* header where serialize() put one and zeros elsewhere, read back by       *)
(* following record_len from the start of the block.  Lengths and offsets   *)
(* are in units of 4 bytes, the alignment of every record.                  *)
(***************************************************************************)
EXTENDS Integers, Sequences

CONSTANTS BlockLen,              \* BLOCK_SIZE / 4
          Short, Long,           \* names of two lengths
          ShortBytes, LongBytes, \* their name_len
          MaxBlocks              \* blocks of the directory, a bound

ASSUME DirectoryAssumption ==
  /\ BlockLen \in Nat
  /\ ShortBytes \in 1 .. 64 /\ LongBytes \in 1 .. 64
  /\ Short \cap Long = {}
  /\ (Short \cup Long) \cap {".", "..", "free", "zeros"} = {}
  /\ MaxBlocks \in Nat \ {0}

VARIABLE blocks   \* the blocks of the directory, in the order of its inode

Names == Short \cup Long
Offset == 0 .. BlockLen - 1

(* DirEntry::min_record_len and min_free_size.                              *)
min_record_len(bytes) == (9 + bytes + 3) \div 4
min_free_size == (6 + 3) \div 4

(* DirEntry::new, DirEntry::free, and the zero bytes of no header at all,   *)
(* which parse as a record of length 0 that is not free.                    *)
Entry(name, bytes) == [name |-> name, len |-> min_record_len(bytes)]
NameLen(name) == IF name \in Short THEN ShortBytes ELSE LongBytes
FreeRegion(size) == [name |-> "free", len |-> IF size > min_free_size THEN size ELSE min_free_size]
Zeros == [name |-> "zeros", len |-> 0]
EmptyBlock == [o \in Offset |-> Zeros]

(* serialize: the header, and zeros to the end of the record.               *)
Serialized(blk, rec, at) ==
  [o \in Offset |-> IF o = at THEN rec
                    ELSE IF at < o /\ o < at + rec.len THEN Zeros ELSE blk[o]]

(* Directory::new, written by write_directory_with_inode.                   *)
NewDirectory ==
  LET dot == Entry(".", 1)
      dotdot == Entry("..", 2)
      free == FreeRegion(BlockLen - dot.len - dotdot.len)
  IN  Serialized(Serialized(Serialized(EmptyBlock, dot, 0), dotdot, dot.len),
                 free, dot.len + dotdot.len)

Init == blocks = <<NewDirectory>>

-----------------------------------------------------------------------------
(* iterate() over one block: it fails at a record that is cut short by the  *)
(* end of the buffer (deserialize reads 9 bytes and panics), that overfills *)
(* the block or that has length 0.                                          *)
Bad(blk, o) == \/ 4 * o + 9 > 4 * BlockLen
               \/ o + blk[o].len > BlockLen
               \/ blk[o].len = 0

(* The offsets it visits, the bad one included.                             *)
Visited(blk) ==
  LET from[o \in 0 .. BlockLen] ==
        IF o = BlockLen THEN {}
        ELSE {o} \cup IF Bad(blk, o) THEN {} ELSE from[o + blk[o].len]
  IN  from[0]

BadBlock(blk) == \E o \in Visited(blk) : Bad(blk, o)

(* All the positions of the directory in the order of iterate(), up to and  *)
(* without the first bad one.                                               *)
Readable ==
  UNION {{<<k, o>> : o \in {o \in Visited(blocks[k]) : ~Bad(blocks[k], o)}} :
           k \in {k \in DOMAIN blocks : \A j \in 1 .. k - 1 : ~BadBlock(blocks[j])}}
Rec(pos) == blocks[pos[1]][pos[2]]
First(P) == CHOOSE x \in P : \A y \in P : x[1] < y[1] \/ (x[1] = y[1] /\ x[2] <= y[2])

(* The positions find_entry can return; the names readdir and lookup know.  *)
Find(name) == {pos \in Readable : Rec(pos).name = name}
Listed == {Rec(pos).name : pos \in Readable} \cap Names
AllReadable == \A k \in DOMAIN blocks : ~BadBlock(blocks[k])

-----------------------------------------------------------------------------
(* mutant of BigEnough: the remainder is not looked at                      *)
FitsEntry(size, len) == size >= len

(* can_fit *)
BigEnough(size, len) == size >= len + min_free_size \/ size = len
Fit(len) == {pos \in Readable : Rec(pos).name = "free" /\ BigEnough(Rec(pos).len, len)}

(* add_entry_here: a header for the remainder only if it is longer than the *)
(* shortest free region.                                                    *)
add_entry_here(e, pos) ==
  LET rest == Rec(pos).len - e.len
      blk  == blocks[pos[1]]
      moved == IF rest > min_free_size
                 THEN Serialized(blk, FreeRegion(rest), pos[2] + e.len) ELSE blk
  IN  [blocks EXCEPT ![pos[1]] = Serialized(moved, e, pos[2])]

(* add_entry_grow: the entry opens a new block.                             *)
add_entry_grow(e) ==
  Append(blocks, Serialized(Serialized(EmptyBlock, e, 0),
                            FreeRegion(BlockLen - e.len), e.len))

(* The directory half of create and link: both walks must reach the end or  *)
(* a fit.  That the name is new is up to the caller (see FormatV1).         *)
add(name) ==
  LET e == Entry(name, NameLen(name)) IN
  /\ name \notin Listed
  /\ AllReadable
  /\ \/ /\ Fit(e.len) # {}
        /\ blocks' = add_entry_here(e, First(Fit(e.len)))
     \/ /\ Fit(e.len) = {}
        /\ Len(blocks) < MaxBlocks
        /\ blocks' = add_entry_grow(e)

(* mutants of Preceding: any record before the freed one is merged, or none *)
PrecedingAny(blk, at) == {o \in Visited(blk) : o + blk[o].len = at}
PrecedingNone(blk, at) == {}

(* The free region that ends, and the one that starts, at an offset.        *)
Preceding(blk, at) == {o \in Visited(blk) : o + blk[o].len = at /\ blk[o].name = "free"}
Following(blk, at) == {o \in {at} \cap Offset : blk[o].name = "free"}

(* free_region: merged with the free regions on both sides.                 *)
free_region(pos) ==
  LET blk  == blocks[pos[1]]
      next == pos[2] + Rec(pos).len
      start == IF Preceding(blk, pos[2]) = {} THEN pos[2]
               ELSE CHOOSE o \in Preceding(blk, pos[2]) : TRUE
      end  == IF Following(blk, next) = {} THEN next ELSE next + blk[next].len
  IN  [blocks EXCEPT ![pos[1]] = Serialized(blk, FreeRegion(end - start), start)]

(* The directory half of delete.  Parsing the record after the freed one    *)
(* panics if it is cut short by the end of the buffer.                      *)
remove(name) ==
  LET pos  == First(Find(name))
      next == pos[2] + Rec(pos).len
  IN  /\ name \in Listed
      /\ next \in Offset => 4 * next + 9 <= 4 * BlockLen
      /\ blocks' = free_region(pos)

Next == \E name \in Names : add(name) \/ remove(name)

Spec == Init /\ [][Next]_blocks

-----------------------------------------------------------------------------
(* "Every record_len is non-zero", "A record never extends past byte 256"   *)
(* and "The sum of record lengths is exactly 256": every block can be read  *)
(* to its end after any history of insertions and removals.                 *)
Tiles == AllReadable

(* can_fit relies on it: "deletion behavior guarantees that there will not  *)
(* be two contiguous free regions".                                         *)
NoAdjacentFree ==
  \A k \in DOMAIN blocks : \A o, next \in Visited(blocks[k]) :
    next = o + blocks[k][o].len => "free" # blocks[k][o].name \/ "free" # blocks[k][next].name

(* The records that hold names, with their places.                          *)
Held == {<<pos, Rec(pos)>> : pos \in {pos \in Readable : Rec(pos).name \in Names}}

(* An operation on one name never loses, moves or duplicates another:       *)
(* splitting and merging regions stays clear of the records around them.    *)
OthersKept ==
  [][LET before == Held
         after  == Held'
     IN  \E name \in Names : {r \in before : r[2].name # name} = {r \in after : r[2].name # name}]_blocks
=============================================================================
