---------------------------- MODULE INodeBlocks -----------------------------
(***************************************************************************)
(* formats/v1/inode_handler.rs: how an inode finds its data blocks, through *)
(* direct addresses, one indirect block and one double indirect block.  The *)
(* operators take the inode and tab, the contents of the blocks read as     *)
(* tables of addresses; a zeroed block is a table of zeros.                 *)
(***************************************************************************)
EXTENDS Integers, Sequences, SequencesExt

CONSTANTS Direct, Indirect,    \* INode::DIRECT_COUNT, INDIRECT_COUNT
          MaxBlocks            \* INode::MAX_BLOCKS

ASSUME PointerAssumption ==
  /\ Direct \in Nat \ {0} /\ Indirect \in Nat \ {0} /\ MaxBlocks \in Nat \ {0}
  /\ MaxBlocks <= Direct + Indirect + Indirect * Indirect

Invalid == -1                  \* INVALID_ADDRESS

(* The size and the addresses INode::empty starts with.                     *)
EmptyINode == [size |-> 0, blocks |-> 0, direct |-> [k \in 0 .. Direct - 1 |-> Invalid],
               indirect |-> Invalid, double |-> Invalid]

(* blocks_necessary_to_grow_n for an inode of so many blocks.               *)
MetadataBlocks(n) ==
  IF n <= Direct THEN 0
  ELSE IF n <= Direct + Indirect THEN 1
  ELSE 2 + (n - Direct - Indirect + Indirect - 1) \div Indirect
MetadataToGrow(blocks, n) == MetadataBlocks(blocks + n) - MetadataBlocks(blocks)

-----------------------------------------------------------------------------
(* A state of the loop of add_blocks: the inode, the tables and pool_index. *)

write_indirect(st, block, pool, index) ==
  LET fresh    == index = 0
      indirect == IF fresh THEN pool[st.used + 1] ELSE st.ino.indirect
  IN  [ino  |-> [st.ino EXCEPT !.indirect = indirect],
       tab  |-> [st.tab EXCEPT ![indirect][index] = block],
       used |-> IF fresh THEN st.used + 1 ELSE st.used]

(* mutant: the slot in the double indirect block is not advanced            *)
write_double_first_slot(st, block, pool, index) ==
  LET slot     == index % Indirect
      used     == IF index = 0 THEN st.used + 1 ELSE st.used
      double   == IF index = 0 THEN pool[used] ELSE st.ino.double
      indirect == IF slot = 0 THEN pool[used + 1] ELSE st.tab[double][0]
  IN  [ino  |-> [st.ino EXCEPT !.double = double],
       tab  |-> [st.tab EXCEPT ![indirect][slot] = block, ![double][0] = indirect],
       used |-> IF slot = 0 THEN used + 1 ELSE used]

(* The double indirect block is written after the indirect one, and only    *)
(* when that one is new.                                                    *)
write_double_indirect(st, block, pool, index) ==
  LET slot     == index % Indirect
      which    == index \div Indirect
      used     == IF index = 0 THEN st.used + 1 ELSE st.used
      double   == IF index = 0 THEN pool[used] ELSE st.ino.double
      indirect == IF slot = 0 THEN pool[used + 1] ELSE st.tab[double][which]
      written  == [st.tab EXCEPT ![indirect][slot] = block]
  IN  [ino  |-> [st.ino EXCEPT !.double = double],
       tab  |-> IF slot = 0 THEN [written EXCEPT ![double][which] = indirect] ELSE written,
       used |-> IF slot = 0 THEN used + 1 ELSE used]

(* One round of the loop, which is also add_block.                          *)
add_block(st, block, pool) ==
  LET index == st.ino.blocks
      placed ==
        IF index < Direct THEN [st EXCEPT !.ino.direct[index] = block]
        ELSE IF index < Direct + Indirect THEN write_indirect(st, block, pool, index - Direct)
        ELSE write_double_indirect(st, block, pool, index - Direct - Indirect)
  IN  [placed EXCEPT !.ino.blocks = @ + 1]

(* The checks of add_blocks, made before it changes anything.               *)
Addable(ino, data, pool) == /\ ino.blocks + Len(data) <= MaxBlocks
                            /\ Len(pool) >= MetadataToGrow(ino.blocks, Len(data))

add_blocks(ino, tab, data, pool) ==
  LET after[k \in 0 .. Len(data)] ==
        IF k = 0 THEN [ino |-> ino, tab |-> tab, used |-> 0]
        ELSE add_block(after[k - 1], data[k], pool)
  IN  after[Len(data)]

-----------------------------------------------------------------------------
(* get_block for index < blocks, with resolve_indirect and resolve_double.  *)
get_block(ino, tab, index) ==
  LET i1 == index - Direct
      i2 == i1 - Indirect
  IN  IF index < Direct THEN ino.direct[index]
      ELSE IF i1 < Indirect THEN tab[ino.indirect][i1]
      ELSE tab[tab[ino.double][i2 \div Indirect]][i2 % Indirect]

(* The pointer blocks an inode uses.                                        *)
PointerBlocks(ino, tab) ==
  LET over == ino.blocks - Direct - Indirect
  IN  (IF ino.blocks > Direct THEN {ino.indirect} ELSE {}) \cup
      (IF over > 0 THEN {ino.double} \cup
                        {tab[ino.double][k] : k \in 0 .. (over - 1) \div Indirect}
       ELSE {})
=============================================================================
