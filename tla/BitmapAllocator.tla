-------------------------- MODULE BitmapAllocator ---------------------------
(***************************************************************************)
(* formats/v1/bitmap_allocator.rs as operators on the state of one          *)
(* allocator: bits, the set of indices whose bit is set, and last, the      *)
(* index of the last allocation.  The allocators of inodes and of data      *)
(* blocks are two instances of this module.                                 *)
(***************************************************************************)
EXTENDS Integers, FiniteSets

CONSTANTS ByteBits,   \* bits of a bitmap byte (8)
          BlockBits,  \* bits of a bitmap block (2048), a multiple of ByteBits
          MapBlocks,  \* blocks of the bitmap: the size of the allocator
          MaxIndex    \* 1 past the highest index that may be returned

Index == 0 .. MaxIndex - 1

(* The indices that have a bit in the bitmap.                               *)
Mapped == {i \in Index : i < MapBlocks * BlockBits}

StartOfByte(i)  == i - (i % ByteBits)
StartOfBlock(i) == i - (i % BlockBits)

(* The two loops of find_free: from the byte of the last allocation to the  *)
(* end, then the bitmap blocks before the one that holds it.  The bytes of  *)
(* that block before the start byte are in neither.                         *)
FirstPass(last)  == {i \in Mapped : i >= StartOfByte(last)}
SecondPass(last) == {i \in Index : i < StartOfBlock(last)}

Searched(bits, last) == (FirstPass(last) \cup SecondPass(last)) \ bits

SearchedBefore(last, i, j) ==
  LET second(x) == x < StartOfByte(last)
  IN  IF second(i) = second(j) THEN i < j ELSE second(j)

(* find_free: the first num indices found, in the order of the search.      *)
find_free(bits, last, num) ==
  LET found == IF num = 0 THEN {} ELSE Searched(bits, last)
      len   == IF num <= Cardinality(found) THEN num ELSE Cardinality(found)
  IN  [k \in 1 .. len |->
         CHOOSE i \in found :
           Cardinality({j \in found : SearchedBefore(last, j, i)}) = k - 1]

(* allocate and deallocate (modify() sets or clears each bit).              *)
allocate(bits, seq) == bits \cup {seq[k] : k \in DOMAIN seq}
last_alloc(last, seq) == IF DOMAIN seq = {} THEN last ELSE seq[Cardinality(DOMAIN seq)]
deallocate(bits, seq) == bits \ {seq[k] : k \in DOMAIN seq}

(* is_allocated lets the index one past the end through.                    *)
is_allocated(bits, i) == i <= MaxIndex /\ i \in bits

(* count_allocated ignores the bits past the region.                        *)
count_allocated(bits) == Cardinality(bits \cap Mapped)
=============================================================================
