---------------------------- MODULE FormatLayout ----------------------------
(***************************************************************************)
(* formats/v1/format.rs, format(), and superblock.rs, Superblock::new: the  *)
(* regions of a device of n blocks of 256 bytes.  The sizes are u32; the    *)
(* device's size in bytes is computed as one and wraps in a release build   *)
(* (a debug build panics), from Wraps blocks (4 GiB) on.                    *)
(***************************************************************************)
EXTENDS Integers, TLAPS

BlockSize == 256
BitsPerBlock == 2048
InodesPerBlock == 2            \* inodes_per_block: of 96 bytes each
InodeDensity == 1024           \* FormatV1::INODE_DENSITY
U32 == 4294967296
Wraps == 16777216

div_ceil(x, k) == (x + k - 1) \div k

(* format *)
inode_count(n) == div_ceil((BlockSize * n) % U32, InodeDensity)
inode_table_blocks(n) == div_ceil(inode_count(n), InodesPerBlock)
inode_bitmap_blocks(n) == div_ceil(inode_table_blocks(n), BitsPerBlock)
block_bitmap_blocks(n) == div_ceil(n, BitsPerBlock)

(* Superblock::new *)
inode_bitmap_start == 1
block_bitmap_start(n) == inode_bitmap_start + inode_bitmap_blocks(n)
inode_table_start(n) == block_bitmap_start(n) + block_bitmap_blocks(n)
data_start(n) == inode_table_start(n) + inode_table_blocks(n)
free_inodes(n) == inode_table_blocks(n) * InodesPerBlock
free_data(n) == n - data_start(n)

(* format: the blocks its two loops clear, each from one past the start of  *)
(* the bitmap to one past its end; then it writes the first block of each.  *)
Cleared(n) ==
  inode_bitmap_start + 1 .. inode_bitmap_start + inode_bitmap_blocks(n)
  \cup block_bitmap_start(n) + 1 .. block_bitmap_start(n) + block_bitmap_blocks(n)
RootBits(n) == {inode_bitmap_start, block_bitmap_start(n)}

-----------------------------------------------------------------------------
(* The region sizes without the wrap.                                       *)
LEMMA Sizes ==
  ASSUME NEW n \in Nat, 1 <= n, n < Wraps
  PROVE  /\ inode_table_blocks(n) = (n + 7) \div 8
         /\ inode_bitmap_blocks(n) = ((n + 7) \div 8 + 2047) \div 2048
         /\ block_bitmap_blocks(n) = (n + 2047) \div 2048
         /\ inode_table_blocks(n) \in Nat /\ inode_bitmap_blocks(n) \in Nat
         /\ block_bitmap_blocks(n) \in Nat
<1>1. (256 * n) % 4294967296 = 256 * n
  BY DEF Wraps
<1>2. inode_count(n) = (n + 3) \div 4
  BY <1>1 DEF inode_count, div_ceil, BlockSize, U32, InodeDensity
<1>3. inode_table_blocks(n) = (n + 7) \div 8
  BY <1>2 DEF inode_table_blocks, div_ceil, InodesPerBlock
<1> QED BY <1>3 DEF inode_bitmap_blocks, block_bitmap_blocks, div_ceil, BitsPerBlock

(* Every device from 5 blocks to 4 GiB has room behind its metadata for the *)
(* root directory at least, and its data bitmap has a bit for every block   *)
(* of the data region: the subtraction in Superblock::new cannot wrap.      *)
THEOREM LayoutFits ==
  ASSUME NEW n \in Nat, 5 <= n, n < Wraps
  PROVE  /\ data_start(n) < n
         /\ free_data(n) <= BitsPerBlock * block_bitmap_blocks(n)
<1>1. /\ inode_table_blocks(n) = (n + 7) \div 8
      /\ inode_bitmap_blocks(n) = ((n + 7) \div 8 + 2047) \div 2048
      /\ block_bitmap_blocks(n) = (n + 2047) \div 2048
  BY Sizes
<1>2. data_start(n) = 1 + ((n + 7) \div 8 + 2047) \div 2048
                        + (n + 2047) \div 2048 + (n + 7) \div 8
  BY <1>1 DEF data_start, inode_table_start, block_bitmap_start, inode_bitmap_start
<1>3. data_start(n) < n
  BY <1>2
<1>4. data_start(n) >= 0 /\ data_start(n) \in Int
  BY <1>2
<1> QED BY <1>1, <1>3, <1>4 DEF free_data, BitsPerBlock

(* On devices of up to 8192 blocks (2 MiB) every slot of the inode table    *)
(* has a bit in the inode bitmap.                                           *)
THEOREM InodeBitmapCovers ==
  ASSUME NEW n \in Nat, 1 <= n, n <= 8192
  PROVE  free_inodes(n) <= BitsPerBlock * inode_bitmap_blocks(n)
<1>1. n < Wraps
  BY DEF Wraps
<1>2. /\ inode_table_blocks(n) = (n + 7) \div 8
      /\ inode_bitmap_blocks(n) = ((n + 7) \div 8 + 2047) \div 2048
  BY <1>1, Sizes
<1> QED BY <1>2 DEF free_inodes, InodesPerBlock, BitsPerBlock

(* On every larger one it has not: the bitmap is sized from the number of   *)
(* table blocks instead of inodes, so the last slots can never be           *)
(* allocated although free_inodes counts them, and is_allocated() of such a *)
(* slot looks at a bit of the data bitmap.                                  *)
THEOREM InodeBitmapShort ==
  ASSUME NEW n \in Nat, 8192 < n, n < Wraps
  PROVE  free_inodes(n) > BitsPerBlock * inode_bitmap_blocks(n)
<1>1. /\ inode_table_blocks(n) = (n + 7) \div 8
      /\ inode_bitmap_blocks(n) = ((n + 7) \div 8 + 2047) \div 2048
  BY Sizes
<1> QED BY <1>1 DEF free_inodes, InodesPerBlock, BitsPerBlock

(* format() leaves no bit of an earlier file system behind: its loops start *)
(* and end one block late, and together with the blocks of the root's bits  *)
(* they still write every bitmap block, and beyond the bitmaps only the     *)
(* first block of the inode table.                                          *)
THEOREM BitmapsWritten ==
  ASSUME NEW n \in Nat, 1 <= n, n < Wraps
  PROVE  Cleared(n) \cup RootBits(n) = inode_bitmap_start .. inode_table_start(n)
<1>1. /\ inode_bitmap_blocks(n) \in Nat /\ inode_bitmap_blocks(n) >= 1
      /\ block_bitmap_blocks(n) \in Nat /\ block_bitmap_blocks(n) >= 1
  BY Sizes
<1> QED BY <1>1 DEF Cleared, RootBits, inode_bitmap_start, block_bitmap_start, inode_table_start
=============================================================================
