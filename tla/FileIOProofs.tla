---------------------------- MODULE FileIOProofs ----------------------------
(***************************************************************************)
(* Theorems about FileIO for every geometry, every number of files and      *)
(* handles and every history of calls: what add_blocks builds (one round of *)
(* the loop, then all of them), that no block is ever reached twice, and    *)
(* that the block structure implements the flat array of bytes.             *)
(* What all rounds do together is shown by least counterexample: of the     *)
(* rounds after which it fails, the first one.                              *)
(***************************************************************************)
EXTENDS FileIO, FiniteSetTheorems, SequenceTheorems, WellFoundedInduction, TLAPS

DProofs == INSTANCE BitmapAllocatorProofs WITH MaxIndex <- ND

-----------------------------------------------------------------------------
(* Quotients and remainders                                                 *)

LEMMA DivMod ==
  ASSUME NEW n \in Nat \ {0}, NEW i \in Nat
  PROVE  i \div n \in Nat /\ i % n \in 0 .. n - 1
OBVIOUS

(* The order of numbers is that of quotients and then of remainders.        *)
LEMMA DivOrder ==
  ASSUME NEW n \in Nat \ {0}, NEW i \in Nat, NEW k \in Nat, k < i
  PROVE  \/ k \div n < i \div n
         \/ k \div n = i \div n /\ k % n < i % n
OBVIOUS

(* The number before.                                                       *)
LEMMA DivPred ==
  ASSUME NEW n \in Nat \ {0}, NEW i \in Nat \ {0}
  PROVE  (i - 1) \div n = IF i % n = 0 THEN (i \div n) - 1 ELSE i \div n
OBVIOUS

(* Rounding up.                                                             *)
LEMMA DivCeil ==
  ASSUME NEW n \in Nat \ {0}, NEW i \in Nat \ {0}
  PROVE  (i + n - 1) \div n = ((i - 1) \div n) + 1
OBVIOUS

LEMMA DivSquare ==
  ASSUME NEW n \in Nat \ {0}, NEW i \in Nat, i < n * n
  PROVE  i \div n < n
OBVIOUS

-----------------------------------------------------------------------------
(* The pointer blocks that one more data block takes                        *)

GrowsBy(n) ==
  IF n < Direct THEN 0
  ELSE IF n < Direct + Indirect THEN IF n = Direct THEN 1 ELSE 0
  ELSE IF n = Direct + Indirect THEN 2
  ELSE IF (n - Direct - Indirect) % Indirect = 0 THEN 1 ELSE 0

LEMMA MetaStep ==
  ASSUME NEW n \in Nat
  PROVE  /\ MetadataBlocks(n) \in Nat /\ GrowsBy(n) \in 0 .. 2
         /\ MetadataBlocks(n + 1) = MetadataBlocks(n) + GrowsBy(n)
<1>0. Direct \in Nat \ {0} /\ Indirect \in Nat \ {0}
  BY PointerAssumption
<1>1. CASE n < Direct + Indirect
  BY <1>0, <1>1 DEF MetadataBlocks, GrowsBy
<1>2. CASE n >= Direct + Indirect
  <2>. DEFINE i == n - Direct - Indirect
  <2>1. i \in Nat /\ n = Direct + Indirect + i
    BY <1>0, <1>2
  <2>2. i \div Indirect \in Nat /\ i % Indirect \in 0 .. Indirect - 1
    BY <1>0, <2>1, DivMod
  <2>3. MetadataBlocks(n + 1) = 3 + (i \div Indirect)
    <3>1. ((i + 1) + Indirect - 1) \div Indirect = (i \div Indirect) + 1
      <4>1. i + 1 \in Nat \ {0} /\ (i + 1) - 1 = i
        BY <2>1
      <4>. HIDE DEF i
      <4>. QED BY <1>0, <4>1, DivCeil
    <3>2. n + 1 > Direct + Indirect /\ (n + 1) - Direct - Indirect = i + 1
      BY <1>0, <2>1
    <3>. QED BY <1>0, <2>2, <3>1, <3>2 DEF MetadataBlocks
  <2>4. CASE i = 0
    <3>1. n = Direct + Indirect /\ ~(n < Direct + Indirect) /\ ~(n < Direct)
      BY <1>0, <2>1, <2>4
    <3>2. MetadataBlocks(n) = 1 /\ GrowsBy(n) = 2
      BY <1>0, <3>1 DEF MetadataBlocks, GrowsBy
    <3>3. 0 \div Indirect = 0
      BY <1>0
    <3>. QED BY <2>3, <2>4, <3>2, <3>3
  <2>5. CASE i # 0
    <3>1. (i + Indirect - 1) \div Indirect = ((i - 1) \div Indirect) + 1
      BY <1>0, <2>1, <2>5, DivCeil
    <3>2. (i - 1) \div Indirect = IF i % Indirect = 0 THEN (i \div Indirect) - 1 ELSE i \div Indirect
      BY <1>0, <2>1, <2>5, DivPred
    <3>3. n > Direct + Indirect /\ n # Direct + Indirect /\ ~(n < Direct) /\ ~(n <= Direct)
      BY <1>0, <2>1, <2>5
    <3>4. MetadataBlocks(n) = 2 + (((i - 1) \div Indirect) + 1)
      BY <1>0, <3>1, <3>3 DEF MetadataBlocks
    <3>5. GrowsBy(n) = IF i % Indirect = 0 THEN 1 ELSE 0
      BY <1>0, <3>3 DEF GrowsBy
    <3>6. (i - 1) \div Indirect \in Nat
      BY <1>0, <2>1, <2>5, DivMod
    <3>. HIDE DEF i
    <3>. QED BY <2>2, <2>3, <3>2, <3>4, <3>5, <3>6
  <2>. QED BY <2>4, <2>5
<1>. QED BY <1>0, <1>1, <1>2

LEMMA MetaMono ==
  ASSUME NEW a \in Nat, NEW b \in Nat, a <= b
  PROVE  MetadataBlocks(a) <= MetadataBlocks(b)
<1>0. Direct \in Nat \ {0} /\ Indirect \in Nat \ {0}
  BY PointerAssumption
<1>1. CASE b <= Direct + Indirect
  BY <1>0, <1>1 DEF MetadataBlocks
<1>2. CASE b > Direct + Indirect
  <2>. DEFINE y == b - Direct - Indirect + Indirect - 1
  <2>1. y \in Nat /\ y >= Indirect
    BY <1>0, <1>2
  <2>2. y \div Indirect \in Nat
    BY <1>0, <2>1, DivMod
  <2>3. MetadataBlocks(b) = 2 + (y \div Indirect)
    BY <1>0, <1>2 DEF MetadataBlocks
  <2>4. CASE a <= Direct + Indirect
    BY <1>0, <2>2, <2>3, <2>4 DEF MetadataBlocks
  <2>5. CASE a > Direct + Indirect
    <3>. DEFINE x == a - Direct - Indirect + Indirect - 1
    <3>1. x \in Nat /\ x <= y
      BY <1>0, <2>5
    <3>2. MetadataBlocks(a) = 2 + (x \div Indirect)
      BY <1>0, <2>5 DEF MetadataBlocks
    <3>3. x \div Indirect \in Nat
      BY <1>0, <3>1, DivMod
    <3>. HIDE DEF x, y
    <3>4. x \div Indirect <= y \div Indirect
      <4>1. CASE x = y
        BY <2>2, <3>3, <4>1
      <4>2. CASE x # y
        BY <1>0, <2>1, <2>2, <3>1, <3>3, <4>2, DivOrder
      <4>. QED BY <4>1, <4>2
    <3>. QED BY <2>2, <2>3, <3>2, <3>3, <3>4
  <2>. QED BY <1>0, <2>4, <2>5
<1>. QED BY <1>0, <1>1, <1>2

-----------------------------------------------------------------------------
(* One round of add_blocks                                                  *)

INodes == [size : Nat, blocks : Nat, direct : [0 .. Direct - 1 -> Int],
           indirect : Int, double : Int]
Tables == [Block -> [0 .. Indirect - 1 -> Int]]
States == [ino : INodes, tab : Tables, used : Nat]

(* The place of the last indirect block in the double indirect one.         *)
LastSlot(ino) == (ino.blocks - Direct - Indirect - 1) \div Indirect

(* The pointer blocks of an inode are different blocks.                     *)
Apart(ino, t) ==
  /\ ino.blocks > Direct => ino.indirect \in Block
  /\ ino.blocks > Direct + Indirect =>
       /\ ino.double \in Block /\ ino.double # ino.indirect
       /\ \A j \in 0 .. LastSlot(ino) :
            /\ t[ino.double][j] \in Block
            /\ t[ino.double][j] # ino.indirect /\ t[ino.double][j] # ino.double
            /\ \A i \in 0 .. LastSlot(ino) : i # j => t[ino.double][i] # t[ino.double][j]

(* State b is state a with one more data block, for which it took pointer   *)
(* blocks; what was reached before is reached as before.                    *)
Extends(a, b, block, taken) ==
  /\ b \in States
  /\ b.ino.blocks = a.ino.blocks + 1 /\ b.ino.size = a.ino.size
  /\ \A k \in 0 .. a.ino.blocks - 1 : get_block(b.ino, b.tab, k) = get_block(a.ino, a.tab, k)
  /\ get_block(b.ino, b.tab, a.ino.blocks) = block
  /\ PointerBlocks(b.ino, b.tab) = PointerBlocks(a.ino, a.tab) \cup taken
  /\ Apart(b.ino, b.tab)
  /\ \A x \in Block \ (PointerBlocks(a.ino, a.tab) \cup taken) : b.tab[x] = a.tab[x]

(* Writing one address.                                                     *)
Put(t, p, k, b) == [t EXCEPT ![p][k] = b]

Wrote(t, t2, p, k, b) ==
  /\ t2 \in Tables /\ t2[p][k] = b
  /\ \A j \in 0 .. Indirect - 1 : j # k => t2[p][j] = t[p][j]
  /\ \A x \in Block : x # p => t2[x] = t[x]

LEMMA PutIs ==
  ASSUME NEW t \in Tables, NEW p \in Block, NEW k \in 0 .. Indirect - 1, NEW b \in Int
  PROVE  Wrote(t, Put(t, p, k, b), p, k, b)
<1>. DEFINE row == [t[p] EXCEPT ![k] = b]
<1>1. t[p] \in [0 .. Indirect - 1 -> Int]
  BY DEF Tables
<1>2. /\ row \in [0 .. Indirect - 1 -> Int] /\ row[k] = b
      /\ \A j \in 0 .. Indirect - 1 : j # k => row[j] = t[p][j]
  BY <1>1
<1>3. Put(t, p, k, b) = [t EXCEPT ![p] = row]
  BY DEF Put
<1>. HIDE DEF row
<1>4. /\ [t EXCEPT ![p] = row] \in Tables /\ [t EXCEPT ![p] = row][p] = row
      /\ \A x \in Block : x # p => [t EXCEPT ![p] = row][x] = t[x]
  BY <1>2 DEF Tables
<1>. QED BY <1>2, <1>3, <1>4 DEF Wrote

(* The inode after a round, which writes one of its addresses at most.      *)
WithDirect(ino, x, n)   == [ino EXCEPT !.direct = x, !.blocks = n]
WithIndirect(ino, x, n) == [ino EXCEPT !.indirect = x, !.blocks = n]
WithDouble(ino, x, n)   == [ino EXCEPT !.double = x, !.blocks = n]

LEMMA INodeIs ==
  ASSUME NEW ino \in INodes
  PROVE  /\ ino.size \in Nat /\ ino.blocks \in Nat /\ ino.direct \in [0 .. Direct - 1 -> Int]
         /\ ino.indirect \in Int /\ ino.double \in Int
BY DEF INodes

LEMMA WithDirectIs ==
  ASSUME NEW ino \in INodes, NEW x \in [0 .. Direct - 1 -> Int], NEW n \in Nat
  PROVE  /\ WithDirect(ino, x, n) \in INodes
         /\ WithDirect(ino, x, n).size = ino.size
         /\ WithDirect(ino, x, n).blocks = n
         /\ WithDirect(ino, x, n).direct = x
         /\ WithDirect(ino, x, n).indirect = ino.indirect
         /\ WithDirect(ino, x, n).double = ino.double
BY DEF INodes, WithDirect

LEMMA WithIndirectIs ==
  ASSUME NEW ino \in INodes, NEW x \in Int, NEW n \in Nat
  PROVE  /\ WithIndirect(ino, x, n) \in INodes
         /\ WithIndirect(ino, x, n).size = ino.size
         /\ WithIndirect(ino, x, n).blocks = n
         /\ WithIndirect(ino, x, n).direct = ino.direct
         /\ WithIndirect(ino, x, n).indirect = x
         /\ WithIndirect(ino, x, n).double = ino.double
BY DEF INodes, WithIndirect

LEMMA WithDoubleIs ==
  ASSUME NEW ino \in INodes, NEW x \in Int, NEW n \in Nat
  PROVE  /\ WithDouble(ino, x, n) \in INodes
         /\ WithDouble(ino, x, n).size = ino.size
         /\ WithDouble(ino, x, n).blocks = n
         /\ WithDouble(ino, x, n).direct = ino.direct
         /\ WithDouble(ino, x, n).indirect = ino.indirect
         /\ WithDouble(ino, x, n).double = x
BY DEF INodes, WithDouble

State(ino, t, u) == [ino |-> ino, tab |-> t, used |-> u]

LEMMA StateIs ==
  /\ \A st \in States : st.ino \in INodes /\ st.tab \in Tables /\ st.used \in Nat
                        /\ st = State(st.ino, st.tab, st.used)
  /\ \A ino, t, u : /\ State(ino, t, u).ino = ino /\ State(ino, t, u).tab = t
                    /\ State(ino, t, u).used = u
  /\ \A ino \in INodes, t \in Tables, u \in Nat : State(ino, t, u) \in States
BY DEF States, State

(* The three forms of a round.                                              *)
LEMMA RoundIs ==
  ASSUME NEW st \in States, NEW block, NEW pool
  PROVE  LET n == st.ino.blocks
             i == n - Direct
             p == IF i = 0 THEN pool[st.used + 1] ELSE st.ino.indirect
             m == n - Direct - Indirect
             u == IF m = 0 THEN st.used + 1 ELSE st.used
             d == IF m = 0 THEN pool[u] ELSE st.ino.double
             j == m \div Indirect
             q == IF m % Indirect = 0 THEN pool[u + 1] ELSE st.tab[d][j]
         IN  /\ n < Direct =>
                  add_block(st, block, pool) =
                    State(WithDirect(st.ino, [st.ino.direct EXCEPT ![n] = block], n + 1), st.tab, st.used)
             /\ ~(n < Direct) /\ n < Direct + Indirect =>
                  add_block(st, block, pool) =
                    State(WithIndirect(st.ino, p, n + 1), Put(st.tab, p, i, block),
                          IF i = 0 THEN st.used + 1 ELSE st.used)
             /\ ~(n < Direct) /\ ~(n < Direct + Indirect) =>
                  add_block(st, block, pool) =
                    State(WithDouble(st.ino, d, n + 1),
                          IF m % Indirect = 0 THEN Put(Put(st.tab, q, m % Indirect, block), d, j, q)
                          ELSE Put(st.tab, q, m % Indirect, block),
                          IF m % Indirect = 0 THEN u + 1 ELSE u)
<1>. DEFINE n == st.ino.blocks
            i == n - Direct
            p == IF i = 0 THEN pool[st.used + 1] ELSE st.ino.indirect
            m == n - Direct - Indirect
            u == IF m = 0 THEN st.used + 1 ELSE st.used
            d == IF m = 0 THEN pool[u] ELSE st.ino.double
            j == m \div Indirect
            q == IF m % Indirect = 0 THEN pool[u + 1] ELSE st.tab[d][j]
            B(s) == [s EXCEPT !.ino.blocks = @ + 1]
<1>1. \A ino, t, x : B(State(ino, t, x)) = State([ino EXCEPT !.blocks = @ + 1], t, x)
  BY DEF State
<1>2. st.ino \in INodes /\ st = State(st.ino, st.tab, st.used)
  BY StateIs
<1>3. \A x : [[st.ino EXCEPT !.direct = x] EXCEPT !.blocks = @ + 1] = WithDirect(st.ino, x, n + 1)
  BY <1>2 DEF INodes, WithDirect
<1>4. \A x : [[st.ino EXCEPT !.indirect = x] EXCEPT !.blocks = @ + 1] = WithIndirect(st.ino, x, n + 1)
  BY <1>2 DEF INodes, WithIndirect
<1>5. \A x : [[st.ino EXCEPT !.double = x] EXCEPT !.blocks = @ + 1] = WithDouble(st.ino, x, n + 1)
  BY <1>2 DEF INodes, WithDouble
<1>6. ASSUME n < Direct
      PROVE  add_block(st, block, pool) =
               State(WithDirect(st.ino, [st.ino.direct EXCEPT ![n] = block], n + 1), st.tab, st.used)
  <2>. DEFINE d2 == [st.ino.direct EXCEPT ![n] = block]
  <2>1. add_block(st, block, pool) = B([st EXCEPT !.ino.direct[n] = block])
    BY <1>6 DEF add_block
  <2>2. [st EXCEPT !.ino.direct[n] = block] = [st EXCEPT !.ino = [st.ino EXCEPT !.direct = d2]]
    OBVIOUS
  <2>. HIDE DEF d2, B, n
  <2>3. [st EXCEPT !.ino = [st.ino EXCEPT !.direct = d2]] =
          State([st.ino EXCEPT !.direct = d2], st.tab, st.used)
    BY DEF State, States
  <2>4. add_block(st, block, pool) = B(State([st.ino EXCEPT !.direct = d2], st.tab, st.used))
    BY <2>1, <2>2, <2>3
  <2>5. add_block(st, block, pool) =
          State([[st.ino EXCEPT !.direct = d2] EXCEPT !.blocks = @ + 1], st.tab, st.used)
    BY <1>1, <2>4
  <2>. QED BY <1>3, <2>5 DEF d2
<1>7. ASSUME ~(n < Direct), n < Direct + Indirect
      PROVE  add_block(st, block, pool) =
               State(WithIndirect(st.ino, p, n + 1), Put(st.tab, p, i, block),
                     IF i = 0 THEN st.used + 1 ELSE st.used)
  <2>1. add_block(st, block, pool) = B(write_indirect(st, block, pool, i))
    BY <1>7 DEF add_block
  <2>2. write_indirect(st, block, pool, i) =
          State([st.ino EXCEPT !.indirect = p], Put(st.tab, p, i, block),
                IF i = 0 THEN st.used + 1 ELSE st.used)
    BY DEF write_indirect, Put, State
  <2>. HIDE DEF B, n, i, p
  <2>3. add_block(st, block, pool) =
          State([[st.ino EXCEPT !.indirect = p] EXCEPT !.blocks = @ + 1],
                Put(st.tab, p, i, block), IF i = 0 THEN st.used + 1 ELSE st.used)
    BY <1>1, <2>1, <2>2
  <2>. QED BY <1>4, <2>3
<1>8. ASSUME ~(n < Direct), ~(n < Direct + Indirect)
      PROVE  add_block(st, block, pool) =
               State(WithDouble(st.ino, d, n + 1),
                     IF m % Indirect = 0 THEN Put(Put(st.tab, q, m % Indirect, block), d, j, q)
                     ELSE Put(st.tab, q, m % Indirect, block),
                     IF m % Indirect = 0 THEN u + 1 ELSE u)
  <2>. DEFINE t2 == IF m % Indirect = 0 THEN Put(Put(st.tab, q, m % Indirect, block), d, j, q)
                    ELSE Put(st.tab, q, m % Indirect, block)
              u2 == IF m % Indirect = 0 THEN u + 1 ELSE u
  <2>1. add_block(st, block, pool) = B(write_double_indirect(st, block, pool, m))
    BY <1>8 DEF add_block
  <2>2. write_double_indirect(st, block, pool, m) = State([st.ino EXCEPT !.double = d], t2, u2)
    BY Zenon DEF write_double_indirect, Put, State
  <2>. HIDE DEF B, n, d, t2, u2
  <2>3. add_block(st, block, pool) =
          State([[st.ino EXCEPT !.double = d] EXCEPT !.blocks = @ + 1], t2, u2)
    BY <1>1, <2>1, <2>2
  <2>. QED BY <1>5, <2>3 DEF t2, u2
<1>. QED BY <1>6, <1>7, <1>8

(* A direct address.                                                        *)
LEMMA DirectAdded ==
  ASSUME NEW st \in States, NEW block \in Block, NEW pool, st.ino.blocks < Direct
  PROVE  /\ Extends(st, add_block(st, block, pool), block, {})
         /\ add_block(st, block, pool).used = st.used
<1>. DEFINE n == st.ino.blocks
            st2 == add_block(st, block, pool)
<1>0. Direct \in Nat \ {0} /\ Indirect \in Nat \ {0} /\ n \in Nat /\ Block \subseteq Int
  BY PointerAssumption DEF Block, States, INodes
<1>1. /\ st.ino \in INodes /\ st.tab \in Tables /\ st.used \in Nat
      /\ st.ino.direct \in [0 .. Direct - 1 -> Int]
  BY StateIs, INodeIs
<1>. DEFINE d2 == [st.ino.direct EXCEPT ![n] = block]
            ino2 == WithDirect(st.ino, d2, n + 1)
<1>2. /\ st2.ino.direct = d2 /\ st2.ino.blocks = n + 1
      /\ st2.ino.size = st.ino.size /\ st2.tab = st.tab /\ st2.used = st.used
      /\ st2.ino.indirect = st.ino.indirect /\ st2.ino.double = st.ino.double
      /\ st2 \in States
  <2>1. d2 \in [0 .. Direct - 1 -> Int] /\ n + 1 \in Nat
    BY <1>0, <1>1
  <2>2. st2 = State(ino2, st.tab, st.used)
    BY RoundIs
  <2>. HIDE DEF d2, st2, n
  <2>3. /\ ino2 \in INodes /\ ino2.direct = d2 /\ ino2.blocks = n + 1
        /\ ino2.size = st.ino.size /\ ino2.indirect = st.ino.indirect /\ ino2.double = st.ino.double
    BY <1>1, <2>1, WithDirectIs
  <2>. HIDE DEF ino2
  <2>4. st2.ino = ino2 /\ st2.tab = st.tab /\ st2.used = st.used /\ st2 \in States
    BY <1>1, <2>2, <2>3, StateIs
  <2>. QED BY <2>3, <2>4
<1>. HIDE DEF st2
<1>3. \A k \in 0 .. n - 1 : get_block(st2.ino, st2.tab, k) = get_block(st.ino, st.tab, k)
  <2>1. \A k \in 0 .. n - 1 : k < Direct /\ d2[k] = st.ino.direct[k]
    <3>1. \A k \in 0 .. Direct - 1 : k # n => d2[k] = st.ino.direct[k]
      BY <1>1
    <3>2. n \in Nat /\ n < Direct /\ Direct \in Nat
      BY <1>0, <1>1
    <3>. HIDE DEF d2, n
    <3>3. \A k \in 0 .. n - 1 : k < Direct /\ k \in 0 .. Direct - 1 /\ k # n
      BY <3>2
    <3>. QED BY <3>1, <3>3
  <2>. HIDE DEF d2
  <2>. QED BY <1>2, <2>1 DEF get_block
<1>4. get_block(st2.ino, st2.tab, n) = block
  <2>1. d2[n] = block
    BY <1>0, <1>1
  <2>. HIDE DEF d2
  <2>. QED BY <1>2, <2>1 DEF get_block
<1>5. PointerBlocks(st2.ino, st2.tab) = {} /\ PointerBlocks(st.ino, st.tab) = {}
  <2>1. ~(n > Direct) /\ ~(n + 1 > Direct) /\ ~(n - Direct - Indirect > 0)
        /\ ~((n + 1) - Direct - Indirect > 0)
    BY <1>0
  <2>. QED BY <1>2, <2>1 DEF PointerBlocks
<1>6. Apart(st2.ino, st2.tab)
  <2>1. ~(n + 1 > Direct) /\ ~(n + 1 > Direct + Indirect)
    BY <1>0
  <2>. QED BY <1>2, <2>1 DEF Apart
<1>. QED BY <1>2, <1>3, <1>4, <1>5, <1>6 DEF Extends, st2

(* An address in the indirect block, which is new for the first one.        *)
LEMMA IndirectAdded ==
  ASSUME NEW st \in States, NEW block \in Block, NEW pool, Apart(st.ino, st.tab),
         st.ino.blocks >= Direct, st.ino.blocks < Direct + Indirect,
         st.ino.blocks = Direct => pool[st.used + 1] \in Block
  PROVE  /\ Extends(st, add_block(st, block, pool), block,
                    IF st.ino.blocks = Direct THEN {pool[st.used + 1]} ELSE {})
         /\ add_block(st, block, pool).used = st.used + GrowsBy(st.ino.blocks)
<1>. DEFINE n == st.ino.blocks
            i == n - Direct
            p == IF i = 0 THEN pool[st.used + 1] ELSE st.ino.indirect
            st2 == add_block(st, block, pool)
<1>0. Direct \in Nat \ {0} /\ Indirect \in Nat \ {0} /\ n \in Nat /\ Block \subseteq Int
  BY PointerAssumption DEF Block, States, INodes
<1>1. i \in 0 .. Indirect - 1 /\ p \in Block /\ n = Direct + i
  BY <1>0 DEF Apart
<1>2. /\ st.ino \in INodes /\ st.tab \in Tables /\ st.used \in Nat
  BY DEF States
<1>. DEFINE ino2 == WithIndirect(st.ino, p, n + 1)
            tab2 == Put(st.tab, p, i, block)
            used2 == IF i = 0 THEN st.used + 1 ELSE st.used
<1>3. /\ st2.ino.direct = st.ino.direct /\ st2.ino.blocks = n + 1
      /\ st2.ino.size = st.ino.size /\ st2.ino.indirect = p /\ st2.ino.double = st.ino.double
      /\ st2.used = used2 /\ st2.tab = tab2 /\ st2 \in States
  <2>1. ~(n < Direct) /\ n < Direct + Indirect
    BY <1>0
  <2>2. st2 = State(ino2, tab2, used2)
    BY <2>1, RoundIs
  <2>3. used2 \in Nat /\ n + 1 \in Nat
    BY <1>0, <1>2
  <2>. HIDE DEF st2, used2, p, n, i
  <2>4. p \in Int /\ block \in Int
    BY <1>0, <1>1
  <2>5. tab2 \in Tables
    BY <1>0, <1>1, <1>2, <2>4, PutIs DEF Wrote
  <2>. HIDE DEF tab2
  <2>6. /\ ino2 \in INodes /\ ino2.direct = st.ino.direct /\ ino2.blocks = n + 1
        /\ ino2.size = st.ino.size /\ ino2.indirect = p /\ ino2.double = st.ino.double
    BY <1>2, <2>3, <2>4, WithIndirectIs
  <2>. HIDE DEF ino2
  <2>7. st2.ino = ino2 /\ st2.tab = tab2 /\ st2.used = used2 /\ st2 \in States
    BY <2>2, <2>3, <2>5, <2>6, StateIs
  <2>. QED BY <2>6, <2>7
<1>. HIDE DEF st2, p, tab2
<1>4. /\ st2.tab[p][i] = block /\ \A j \in 0 .. i - 1 : st2.tab[p][j] = st.tab[p][j]
      /\ \A x \in Block : x # p => st2.tab[x] = st.tab[x]
  <2>1. \A j \in 0 .. i - 1 : j \in 0 .. Indirect - 1 /\ j # i
    BY <1>0, <1>1
  <2>2. st2.tab = Put(st.tab, p, i, block) /\ block \in Int
    BY <1>0, <1>3 DEF tab2
  <2>. HIDE DEF i
  <2>3. /\ st2.tab[p][i] = block
        /\ \A j \in 0 .. Indirect - 1 : j # i => st2.tab[p][j] = st.tab[p][j]
        /\ \A x \in Block : x # p => st2.tab[x] = st.tab[x]
    <3>1. /\ tab2[p][i] = block
          /\ \A j \in 0 .. Indirect - 1 : j # i => tab2[p][j] = st.tab[p][j]
          /\ \A x \in Block : x # p => tab2[x] = st.tab[x]
      <4>1. Wrote(st.tab, tab2, p, i, block)
        BY <1>1, <1>2, <2>2, PutIs DEF tab2
      <4>. QED BY <4>1 DEF Wrote
    <3>2. st2.tab = tab2
      BY <1>3
    <3>. QED BY <3>1, <3>2
  <2>. QED BY <2>1, <2>3
<1>5. \A k \in 0 .. n - 1 : get_block(st2.ino, st2.tab, k) = get_block(st.ino, st.tab, k)
  <2>. SUFFICES ASSUME NEW k \in 0 .. n - 1
                PROVE  get_block(st2.ino, st2.tab, k) = get_block(st.ino, st.tab, k)
    OBVIOUS
  <2>1. CASE k < Direct
    BY <1>3, <2>1 DEF get_block
  <2>2. CASE ~(k < Direct)
    <3>1. k - Direct \in 0 .. i - 1 /\ k - Direct < Indirect /\ i # 0
      BY <1>0, <1>1, <2>2
    <3>2. p = st.ino.indirect
      BY <3>1 DEF p
    <3>. QED BY <1>3, <1>4, <2>2, <3>1, <3>2 DEF get_block
  <2>. QED BY <2>1, <2>2
<1>6. get_block(st2.ino, st2.tab, n) = block
  BY <1>0, <1>1, <1>3, <1>4 DEF get_block
<1>7. /\ PointerBlocks(st2.ino, st2.tab) = {p}
      /\ PointerBlocks(st.ino, st.tab) = IF i = 0 THEN {} ELSE {p}
  <2>1. /\ n + 1 > Direct /\ ~((n + 1) - Direct - Indirect > 0) /\ ~(n - Direct - Indirect > 0)
        /\ (n > Direct <=> i # 0)
    BY <1>0, <1>1
  <2>. QED BY <1>3, <2>1 DEF PointerBlocks, p
<1>8. Apart(st2.ino, st2.tab)
  <2>1. ~(n + 1 > Direct + Indirect)
    BY <1>0
  <2>. QED BY <1>1, <1>3, <2>1 DEF Apart
<1>9. i = 0 <=> n = Direct
  BY <1>0
<1>10. GrowsBy(n) = IF i = 0 THEN 1 ELSE 0
  BY <1>0, <1>9 DEF GrowsBy
<1>11. (i = 0 => p = pool[st.used + 1]) /\ st.used \in Nat
  BY DEF p, States
<1>12. st2.used = st.used + GrowsBy(n)
  BY <1>3, <1>10, <1>11
<1>13. Extends(st, st2, block, IF n = Direct THEN {p} ELSE {})
  BY <1>3, <1>4, <1>5, <1>6, <1>7, <1>8, <1>9 DEF Extends
<1>. QED BY <1>9, <1>11, <1>12, <1>13 DEF st2

(* What writing an address through the double indirect block d does: it is   *)
(* at place s of the indirect block q, which is at place j of d.            *)
Threaded(ino, t, t2, d, q, j, s, block) ==
  /\ t2 \in Tables /\ d \in Block /\ q \in Block /\ d # q
  /\ ino.indirect \in Block /\ ino.indirect # d /\ ino.indirect # q
  /\ t2[d][j] = q /\ \A i \in 0 .. Indirect - 1 : i # j => t2[d][i] = t[d][i]
  /\ t2[q][s] = block /\ \A i \in 0 .. Indirect - 1 : i # s => t2[q][i] = t[q][i]
  /\ \A x \in Block : x # d /\ x # q => t2[x] = t[x]

(* The indirect blocks that d holds before.                                 *)
OldSlots(m) == IF m = 0 THEN {} ELSE 0 .. (m - 1) \div Indirect

LEMMA OldSlotsAre ==
  ASSUME NEW m \in Nat, m < Indirect * Indirect
  PROVE  /\ m \div Indirect \in 0 .. Indirect - 1 /\ m % Indirect \in 0 .. Indirect - 1
         /\ 0 .. m \div Indirect \subseteq 0 .. Indirect - 1
         /\ OldSlots(m) \subseteq 0 .. m \div Indirect
         /\ OldSlots(m) \cup {m \div Indirect} = 0 .. m \div Indirect
         /\ m % Indirect = 0 <=> m \div Indirect \notin OldSlots(m)
         /\ \A k \in 0 .. m - 1 :
              /\ k \div Indirect \in OldSlots(m) /\ k % Indirect \in 0 .. Indirect - 1
              /\ k \div Indirect = m \div Indirect => k % Indirect # m % Indirect
<1>. DEFINE j == m \div Indirect
<1>0. Indirect \in Nat \ {0}
  BY PointerAssumption
<1>1. j \in Nat /\ m % Indirect \in 0 .. Indirect - 1
  BY <1>0, DivMod
<1>2. j < Indirect
  BY <1>0, DivSquare
<1>3. CASE m = 0
  <2>1. j = 0 /\ m % Indirect = 0
    BY <1>0, <1>3
  <2>. HIDE DEF j
  <2>. QED BY <1>0, <1>1, <1>2, <1>3, <2>1 DEF OldSlots, j
<1>4. CASE m # 0
  <2>1. (m - 1) \div Indirect = IF m % Indirect = 0 THEN j - 1 ELSE j
    BY <1>0, <1>4, DivPred
  <2>2. OldSlots(m) = 0 .. (m - 1) \div Indirect
    BY <1>4 DEF OldSlots
  <2>3. ASSUME NEW k \in 0 .. m - 1
        PROVE  /\ k \div Indirect \in OldSlots(m) /\ k % Indirect \in 0 .. Indirect - 1
               /\ k \div Indirect = j => k % Indirect # m % Indirect
    <3>1. k \in Nat /\ k < m
      OBVIOUS
    <3>2. k \div Indirect \in Nat /\ k % Indirect \in 0 .. Indirect - 1
      BY <1>0, <3>1, DivMod
    <3>3. \/ k \div Indirect < j
          \/ k \div Indirect = j /\ k % Indirect < m % Indirect
      BY <1>0, <3>1, DivOrder
    <3>. HIDE DEF j
    <3>. QED BY <1>0, <1>1, <2>1, <2>2, <3>2, <3>3
  <2>4. /\ OldSlots(m) \subseteq 0 .. j /\ OldSlots(m) \cup {j} = 0 .. j
        /\ m % Indirect = 0 <=> j \notin OldSlots(m)
    <3>. HIDE DEF j
    <3>1. CASE m % Indirect = 0
      BY <1>1, <2>1, <2>2, <3>1
    <3>2. CASE m % Indirect # 0
      BY <1>1, <2>1, <2>2, <3>2
    <3>. QED BY <3>1, <3>2
  <2>5. 0 .. j \subseteq 0 .. Indirect - 1
    <3>. HIDE DEF j
    <3>. QED BY <1>0, <1>1, <1>2
  <2>. QED BY <1>0, <1>1, <1>2, <2>3, <2>4, <2>5
<1>. QED BY <1>3, <1>4

Threading(a, b, block, d, q, taken, m) ==
  /\ a.ino.blocks = Direct + Indirect + m /\ m < Indirect * Indirect
  /\ b.ino.blocks = a.ino.blocks + 1 /\ b.ino.size = a.ino.size /\ b.ino.direct = a.ino.direct
  /\ b.ino.indirect = a.ino.indirect /\ b.ino.double = d
  /\ Threaded(a.ino, a.tab, b.tab, d, q, m \div Indirect, m % Indirect, block)
  /\ m # 0 => d = a.ino.double
  /\ m % Indirect # 0 => q = a.tab[d][m \div Indirect]
  /\ \A i \in OldSlots(m) :
       /\ a.tab[d][i] \in Block /\ a.tab[d][i] # d /\ a.tab[d][i] # a.ino.indirect
       /\ i # m \div Indirect => a.tab[d][i] # q
       /\ \A k \in OldSlots(m) : i # k => a.tab[d][i] # a.tab[d][k]
  /\ taken = (IF m = 0 THEN {d} ELSE {}) \cup (IF m % Indirect = 0 THEN {q} ELSE {})

(* The state after such a write.                                            *)
LEMMA ThreadedExtends ==
  ASSUME NEW a \in States, NEW b \in States, NEW block, NEW d, NEW q, NEW taken, NEW m \in Nat,
         Threading(a, b, block, d, q, taken, m)
  PROVE  Extends(a, b, block, taken)
<1>. DEFINE n == a.ino.blocks
            j == m \div Indirect
            s == m % Indirect
            old == OldSlots(m)
<1>. USE DEF Threading
<1>0. Direct \in Nat \ {0} /\ Indirect \in Nat \ {0} /\ n \in Nat
  BY PointerAssumption, StateIs, INodeIs
<1>1. /\ j \in 0 .. Indirect - 1 /\ s \in 0 .. Indirect - 1
      /\ 0 .. j \subseteq 0 .. Indirect - 1 /\ old \subseteq 0 .. j /\ old \cup {j} = 0 .. j
      /\ s = 0 <=> j \notin old
      /\ \A k \in 0 .. m - 1 : /\ k \div Indirect \in old /\ k % Indirect \in 0 .. Indirect - 1
                               /\ k \div Indirect = j => k % Indirect # s
  BY OldSlotsAre
<1>2. Threaded(a.ino, a.tab, b.tab, d, q, j, s, block)
  OBVIOUS
<1>3. /\ m # 0 => d = a.ino.double
      /\ s # 0 => q = a.tab[d][j]
      /\ \A i \in old : /\ a.tab[d][i] \in Block /\ a.tab[d][i] # d
                        /\ a.tab[d][i] # a.ino.indirect
                        /\ i # j => a.tab[d][i] # q
                        /\ \A k \in old : i # k => a.tab[d][i] # a.tab[d][k]
      /\ taken = (IF m = 0 THEN {d} ELSE {}) \cup (IF s = 0 THEN {q} ELSE {})
  OBVIOUS
<1>4. (m = 0 => old = {}) /\ (m # 0 => old = 0 .. (m - 1) \div Indirect)
  BY DEF OldSlots
<1>5. m \div Indirect = j /\ m % Indirect = s /\ (m = 0 => s = 0)
  BY <1>0
<1>. HIDE DEF j, s, old
<1>6. \A i \in old : b.tab[d][i] = a.tab[d][i]
  BY <1>1, <1>2, <1>3 DEF Threaded
<1>7. ASSUME NEW k \in 0 .. n - 1
      PROVE  get_block(b.ino, b.tab, k) = get_block(a.ino, a.tab, k)
  <2>1. CASE k < Direct
    BY <2>1 DEF get_block
  <2>2. CASE ~(k < Direct) /\ k - Direct < Indirect
    BY <1>2, <2>2 DEF get_block, Threaded
  <2>3. CASE ~(k < Direct) /\ ~(k - Direct < Indirect)
    <3>. DEFINE r == k - Direct - Indirect
                x == a.tab[d][r \div Indirect]
                y == r % Indirect
    <3>1. r \in 0 .. m - 1 /\ m # 0
      BY <1>0, <2>3
    <3>2. r \div Indirect \in old /\ y \in 0 .. Indirect - 1 /\ (r \div Indirect = j => y # s)
      BY <1>1, <3>1
    <3>3. /\ get_block(b.ino, b.tab, k) = b.tab[b.tab[d][r \div Indirect]][y]
          /\ get_block(a.ino, a.tab, k) = a.tab[x][y]
      BY <1>3, <2>3, <3>1 DEF get_block
    <3>4. b.tab[d][r \div Indirect] = x /\ x \in Block /\ x # d
      BY <1>3, <1>6, <3>2
    <3>5. CASE r \div Indirect = j
      <4>1. s # 0
        BY <1>1, <3>2, <3>5
      <4>2. x = q /\ y # s
        BY <1>3, <3>2, <3>5, <4>1
      <4>. HIDE DEF x, y, r
      <4>. QED BY <1>2, <3>2, <3>3, <3>4, <4>2 DEF Threaded
    <3>6. CASE r \div Indirect # j
      <4>1. x # q
        BY <1>3, <3>2, <3>6
      <4>. HIDE DEF x, y, r
      <4>. QED BY <1>2, <3>3, <3>4, <4>1 DEF Threaded
    <3>. QED BY <3>5, <3>6
  <2>. QED BY <2>1, <2>2, <2>3
<1>8. get_block(b.ino, b.tab, n) = block
  <2>1. ~(n < Direct) /\ ~(n - Direct < Indirect) /\ n - Direct - Indirect = m
    <3>1. n = Direct + Indirect + m
      OBVIOUS
    <3>. HIDE DEF n
    <3>. QED BY <1>0, <3>1
  <2>2. get_block(b.ino, b.tab, n) = b.tab[b.tab[d][j]][s]
    BY <1>5, <2>1 DEF get_block
  <2>. QED BY <1>2, <2>2 DEF Threaded
<1>9. {b.tab[d][k] : k \in 0 .. j} = {a.tab[d][k] : k \in old} \cup {q}
  BY <1>1, <1>2, <1>6 DEF Threaded
<1>10. PointerBlocks(b.ino, b.tab) = {a.ino.indirect} \cup {d} \cup {b.tab[d][k] : k \in 0 .. j}
  <2>1. n + 1 > Direct /\ (n + 1) - Direct - Indirect > 0 /\ (n + 1) - Direct - Indirect - 1 = m
    BY <1>0
  <2>. QED BY <1>5, <2>1 DEF PointerBlocks
<1>11. PointerBlocks(a.ino, a.tab) =
         {a.ino.indirect} \cup IF m = 0 THEN {} ELSE {d} \cup {a.tab[d][k] : k \in old}
  <2>1. n > Direct /\ n - Direct - Indirect = m /\ (m > 0 <=> m # 0)
    BY <1>0
  <2>. QED BY <1>3, <1>4, <2>1 DEF PointerBlocks
<1>12. PointerBlocks(b.ino, b.tab) = PointerBlocks(a.ino, a.tab) \cup taken
  <2>1. CASE m = 0
    BY <1>3, <1>4, <1>5, <1>9, <1>10, <1>11, <2>1
  <2>2. CASE m # 0 /\ s = 0
    BY <1>3, <1>9, <1>10, <1>11, <2>2
  <2>3. CASE m # 0 /\ s # 0
    <3>1. q \in {a.tab[d][k] : k \in old}
      BY <1>1, <1>3, <2>3
    <3>. QED BY <1>3, <1>9, <1>10, <1>11, <2>3, <3>1
  <2>. QED BY <2>1, <2>2, <2>3
<1>13. Apart(b.ino, b.tab)
  <2>1. LastSlot(b.ino) = j
    <3>1. (n + 1) - Direct - Indirect - 1 = m
      BY <1>0
    <3>. QED BY <1>5, <3>1 DEF LastSlot
  <2>2. ASSUME NEW i \in 0 .. j
        PROVE  /\ b.tab[d][i] \in Block /\ b.tab[d][i] # a.ino.indirect /\ b.tab[d][i] # d
               /\ \A k \in 0 .. j : k # i => b.tab[d][k] # b.tab[d][i]
    <3>1. i = j \/ i \in old
      BY <1>1
    <3>2. \A k \in 0 .. j : k = j \/ k \in old
      BY <1>1
    <3>3. b.tab[d][j] = q /\ q \in Block /\ q # a.ino.indirect /\ q # d
      BY <1>2 DEF Threaded
    <3>. QED BY <1>3, <1>6, <3>1, <3>2, <3>3
  <2>3. d \in Block /\ a.ino.indirect \in Block /\ d # a.ino.indirect
    BY <1>2 DEF Threaded
  <2>. QED BY <2>1, <2>2, <2>3 DEF Apart
<1>14. \A x \in Block \ (PointerBlocks(a.ino, a.tab) \cup taken) : b.tab[x] = a.tab[x]
  <2>1. {d, q} \subseteq PointerBlocks(b.ino, b.tab)
    BY <1>9, <1>10
  <2>. QED BY <1>2, <1>12, <2>1 DEF Threaded
<1>. QED BY <1>7, <1>8, <1>12, <1>13, <1>14 DEF Extends

(* The pointer blocks a round takes from the pool, and that they are new.   *)
Taken(st, pool) == {pool[st.used + k] : k \in 1 .. GrowsBy(st.ino.blocks)}
Fresh(st, pool) ==
  /\ \A k \in 1 .. GrowsBy(st.ino.blocks) :
       pool[st.used + k] \in Block /\ pool[st.used + k] \notin PointerBlocks(st.ino, st.tab)
  /\ GrowsBy(st.ino.blocks) = 2 => pool[st.used + 1] # pool[st.used + 2]

(* An address through the double indirect block.  That block is new for the *)
(* first one, and the indirect block for the first one in it.               *)
LEMMA DoubleAdded ==
  ASSUME NEW st \in States, NEW block \in Block, NEW pool, Apart(st.ino, st.tab),
         NEW m \in Nat, st.ino.blocks = Direct + Indirect + m, m < Indirect * Indirect,
         Fresh(st, pool)
  PROVE  /\ Extends(st, add_block(st, block, pool), block, Taken(st, pool))
         /\ add_block(st, block, pool).used = st.used + GrowsBy(st.ino.blocks)
<1>. DEFINE n == st.ino.blocks
            j == m \div Indirect
            s == m % Indirect
            u == IF m = 0 THEN st.used + 1 ELSE st.used
            d == IF m = 0 THEN pool[u] ELSE st.ino.double
            q == IF s = 0 THEN pool[u + 1] ELSE st.tab[d][j]
            t1 == Put(st.tab, q, s, block)
            t2 == IF s = 0 THEN Put(t1, d, j, q) ELSE t1
            u2 == IF s = 0 THEN u + 1 ELSE u
            st2 == add_block(st, block, pool)
            ino2 == WithDouble(st.ino, d, n + 1)
            old == OldSlots(m)
<1>0. /\ Direct \in Nat \ {0} /\ Indirect \in Nat \ {0} /\ Block \subseteq Int
      /\ st.ino \in INodes /\ st.tab \in Tables /\ st.used \in Nat /\ n \in Nat
  BY PointerAssumption, StateIs, INodeIs DEF Block
<1>1. /\ j \in 0 .. Indirect - 1 /\ s \in 0 .. Indirect - 1 /\ old \subseteq 0 .. Indirect - 1
      /\ s = 0 <=> j \notin old
  BY OldSlotsAre
<1>2. m = 0 => s = 0
  BY <1>0
<1>3. st2 = State(ino2, t2, u2)
  <2>1. ~(n < Direct) /\ ~(n < Direct + Indirect)
    <3>1. n = Direct + Indirect + m
      OBVIOUS
    <3>. HIDE DEF n
    <3>. QED BY <1>0, <3>1
  <2>2. n - Direct - Indirect = m
    <3>1. n = Direct + Indirect + m
      OBVIOUS
    <3>. HIDE DEF n
    <3>. QED BY <1>0, <3>1
  <2>3. LET x == n - Direct - Indirect
            v == IF x = 0 THEN st.used + 1 ELSE st.used
            e == IF x = 0 THEN pool[v] ELSE st.ino.double
            y == x \div Indirect
            z == IF x % Indirect = 0 THEN pool[v + 1] ELSE st.tab[e][y]
        IN  st2 = State(WithDouble(st.ino, e, n + 1),
                        IF x % Indirect = 0 THEN Put(Put(st.tab, z, x % Indirect, block), e, y, z)
                        ELSE Put(st.tab, z, x % Indirect, block),
                        IF x % Indirect = 0 THEN v + 1 ELSE v)
    BY <2>1, RoundIs
  <2>. HIDE DEF n, st2
  <2>. QED BY <2>2, <2>3
<1>4. /\ GrowsBy(n) = IF m = 0 THEN 2 ELSE IF s = 0 THEN 1 ELSE 0
      /\ PointerBlocks(st.ino, st.tab) =
           {st.ino.indirect} \cup
             IF m = 0 THEN {} ELSE {st.ino.double} \cup {st.tab[st.ino.double][k] : k \in old}
      /\ st.ino.indirect \in Block
      /\ m # 0 => /\ st.ino.double \in Block /\ st.ino.double # st.ino.indirect
                  /\ \A i \in old :
                       /\ st.tab[st.ino.double][i] \in Block
                       /\ st.tab[st.ino.double][i] # st.ino.indirect
                       /\ st.tab[st.ino.double][i] # st.ino.double
                       /\ \A k \in old : i # k =>
                            st.tab[st.ino.double][i] # st.tab[st.ino.double][k]
  <2>1. /\ n > Direct /\ ~(n < Direct) /\ ~(n < Direct + Indirect) /\ n - Direct - Indirect = m
        /\ (n > Direct + Indirect <=> m # 0) /\ (n = Direct + Indirect <=> m = 0)
        /\ (m > 0 <=> m # 0)
    <3>1. n = Direct + Indirect + m
      OBVIOUS
    <3>. HIDE DEF n
    <3>. QED BY <1>0, <3>1
  <2>2. m # 0 => old = 0 .. (m - 1) \div Indirect /\ LastSlot(st.ino) = (m - 1) \div Indirect
    BY <2>1 DEF OldSlots, LastSlot
  <2>. HIDE DEF old, s, j
  <2>3. GrowsBy(n) = IF m = 0 THEN 2 ELSE IF s = 0 THEN 1 ELSE 0
    BY <2>1 DEF GrowsBy, s
  <2>4. PointerBlocks(st.ino, st.tab) =
           {st.ino.indirect} \cup
             IF m = 0 THEN {} ELSE {st.ino.double} \cup {st.tab[st.ino.double][k] : k \in old}
    BY <2>1, <2>2 DEF PointerBlocks
  <2>. QED BY <2>1, <2>2, <2>3, <2>4 DEF Apart
<1>5. (m = 0 => st.used + 1 + 1 = st.used + 2) /\ (m # 0 => st.used + 1 = st.used + 1)
  BY <1>0
<1>6. /\ m = 0 => /\ d = pool[st.used + 1] /\ q = pool[st.used + 2] /\ u2 = st.used + 2
      /\ m # 0 => d = st.ino.double
      /\ m # 0 /\ s = 0 => q = pool[st.used + 1] /\ u2 = st.used + 1
      /\ m # 0 /\ s # 0 => q = st.tab[st.ino.double][j] /\ u2 = st.used
  BY <1>0, <1>2, <1>5
<1>. HIDE DEF n, j, s, old, u, d, q, u2
<1>7. /\ d \in Block /\ q \in Block /\ d # q /\ st.ino.indirect # d /\ st.ino.indirect # q
      /\ m # 0 => \A i \in old : i # j => st.tab[d][i] # q
      /\ Taken(st, pool) = (IF m = 0 THEN {d} ELSE {}) \cup (IF s = 0 THEN {q} ELSE {})
      /\ u2 = st.used + GrowsBy(n)
  <2>1. CASE m = 0
    <3>1. GrowsBy(n) = 2 /\ s = 0
      BY <1>2, <1>4, <2>1
    <3>2. 1 .. 2 = {1, 2}
      OBVIOUS
    <3>. QED BY <1>4, <1>6, <2>1, <3>1, <3>2 DEF Fresh, Taken, n
  <2>2. CASE m # 0 /\ s = 0
    <3>1. GrowsBy(n) = 1
      BY <1>4, <2>2
    <3>2. 1 .. 1 = {1}
      OBVIOUS
    <3>. QED BY <1>4, <1>6, <2>2, <3>1, <3>2 DEF Fresh, Taken, n
  <2>3. CASE m # 0 /\ s # 0
    <3>1. GrowsBy(n) = 0
      BY <1>4, <2>3
    <3>2. 1 .. 0 = {} /\ st.used + 0 = st.used
      BY <1>0
    <3>3. j \in old
      BY <1>1, <2>3
    <3>4. Taken(st, pool) = {} /\ u2 = st.used + GrowsBy(n)
      BY <1>6, <2>3, <3>1, <3>2 DEF Taken, n
    <3>. QED BY <1>4, <1>6, <2>3, <3>3, <3>4
  <2>. QED BY <2>1, <2>2, <2>3
<1>8. block \in Int /\ q \in Int /\ d \in Int /\ u2 \in Nat /\ n + 1 \in Nat
  <2>1. GrowsBy(n) \in 0 .. 2
    BY <1>0, MetaStep
  <2>2. block \in Int /\ q \in Int /\ d \in Int
    BY <1>0, <1>7
  <2>3. u2 = st.used + GrowsBy(n) /\ st.used \in Nat /\ n \in Nat
    BY <1>0, <1>7
  <2>4. u2 \in Nat /\ n + 1 \in Nat
    BY <2>1, <2>3
  <2>. QED BY <2>2, <2>4
<1>9. /\ t1 \in Tables /\ t1[q][s] = block
      /\ \A i \in 0 .. Indirect - 1 : i # s => t1[q][i] = st.tab[q][i]
      /\ \A x \in Block : x # q => t1[x] = st.tab[x]
  <2>1. st.tab \in Tables /\ q \in Block /\ s \in 0 .. Indirect - 1 /\ block \in Int
    BY <1>0, <1>1, <1>7, <1>8
  <2>. HIDE DEF t1
  <2>2. Wrote(st.tab, t1, q, s, block)
    BY <2>1, PutIs DEF t1
  <2>. QED BY <2>2 DEF Wrote
<1>. HIDE DEF t1
<1>10. Threaded(st.ino, st.tab, t2, d, q, j, s, block)
  <2>1. CASE s = 0
    <3>. DEFINE t3 == Put(t1, d, j, q)
    <3>1. /\ t3 \in Tables /\ t3[d][j] = q
          /\ \A i \in 0 .. Indirect - 1 : i # j => t3[d][i] = t1[d][i]
          /\ \A x \in Block : x # d => t3[x] = t1[x]
      <4>1. t1 \in Tables /\ d \in Block /\ j \in 0 .. Indirect - 1 /\ q \in Int
        BY <1>1, <1>7, <1>8, <1>9
      <4>2. Wrote(t1, t3, d, j, q)
        BY <4>1, PutIs
      <4>. HIDE DEF t3
      <4>. QED BY <4>2 DEF Wrote
    <3>2. t2 = t3
      BY <2>1
    <3>. HIDE DEF t3, t2
    <3>3. t1[d] = st.tab[d] /\ t3[q] = t1[q]
      BY <1>7, <1>9, <3>1
    <3>. QED BY <1>4, <1>7, <1>9, <3>1, <3>2, <3>3 DEF Threaded
  <2>2. CASE s # 0
    <3>1. t2 = t1 /\ m # 0 /\ t1[d] = st.tab[d]
      BY <1>2, <1>7, <1>9, <2>2
    <3>2. q = st.tab[d][j]
      BY <1>6, <2>2, <3>1
    <3>. HIDE DEF t2
    <3>. QED BY <1>4, <1>7, <1>9, <3>1, <3>2 DEF Threaded
  <2>. QED BY <2>1, <2>2
<1>11. t2 \in Tables
  BY <1>10 DEF Threaded
<1>12. /\ ino2 \in INodes /\ ino2.direct = st.ino.direct /\ ino2.blocks = n + 1
       /\ ino2.size = st.ino.size /\ ino2.indirect = st.ino.indirect /\ ino2.double = d
  BY <1>0, <1>8, WithDoubleIs
<1>. HIDE DEF st2, ino2, t2
<1>13. st2.ino = ino2 /\ st2.tab = t2 /\ st2.used = u2 /\ st2 \in States
  BY <1>3, <1>8, <1>11, <1>12, StateIs
<1>14. \A i \in old :
          /\ st.tab[d][i] \in Block /\ st.tab[d][i] # d /\ st.tab[d][i] # st.ino.indirect
          /\ i # j => st.tab[d][i] # q
          /\ \A k \in old : i # k => st.tab[d][i] # st.tab[d][k]
  <2>1. CASE m = 0
    BY <2>1 DEF old, OldSlots
  <2>2. CASE m # 0
    BY <1>4, <1>6, <1>7, <2>2
  <2>. QED BY <2>1, <2>2
<1>15. (m # 0 => d = st.ino.double) /\ (s # 0 => q = st.tab[d][j])
  BY <1>2, <1>6
<1>16. Extends(st, st2, block, Taken(st, pool))
  <2>1. /\ st2.ino.blocks = st.ino.blocks + 1 /\ st2.ino.size = st.ino.size
        /\ st2.ino.direct = st.ino.direct /\ st2.ino.indirect = st.ino.indirect
        /\ st2.ino.double = d
        /\ Threaded(st.ino, st.tab, st2.tab, d, q, m \div Indirect, m % Indirect, block)
    BY <1>10, <1>12, <1>13 DEF n, j, s
  <2>2. \A i \in OldSlots(m) :
          /\ st.tab[d][i] \in Block /\ st.tab[d][i] # d /\ st.tab[d][i] # st.ino.indirect
          /\ i # m \div Indirect => st.tab[d][i] # q
          /\ \A k \in OldSlots(m) : i # k => st.tab[d][i] # st.tab[d][k]
    BY <1>14 DEF old, j
  <2>3. /\ m # 0 => d = st.ino.double
        /\ m % Indirect # 0 => q = st.tab[d][m \div Indirect]
        /\ Taken(st, pool) = (IF m = 0 THEN {d} ELSE {}) \cup (IF m % Indirect = 0 THEN {q} ELSE {})
    BY <1>7, <1>15 DEF j, s
  <2>4. st2 \in States
    BY <1>13
  <2>5. Threading(st, st2, block, d, q, Taken(st, pool), m)
    BY <2>1, <2>2, <2>3 DEF Threading
  <2>. QED BY <2>4, <2>5, ThreadedExtends
<1>. QED BY <1>7, <1>13, <1>16 DEF n, st2

(* Every round of add_blocks.                                               *)
LEMMA RoundAdds ==
  ASSUME NEW st \in States, NEW block \in Block, NEW pool, Apart(st.ino, st.tab),
         st.ino.blocks < MaxBlocks, Fresh(st, pool)
  PROVE  /\ Extends(st, add_block(st, block, pool), block, Taken(st, pool))
         /\ add_block(st, block, pool).used = st.used + GrowsBy(st.ino.blocks)
<1>. DEFINE n == st.ino.blocks
<1>0. /\ Direct \in Nat \ {0} /\ Indirect \in Nat \ {0} /\ MaxBlocks \in Nat
      /\ MaxBlocks <= Direct + Indirect + Indirect * Indirect
      /\ st.used \in Nat /\ n \in Nat /\ n < MaxBlocks
  BY PointerAssumption, StateIs, INodeIs
<1>1. CASE n < Direct
  <2>1. GrowsBy(n) = 0
    BY <1>1 DEF GrowsBy
  <2>2. 1 .. 0 = {} /\ st.used + 0 = st.used
    BY <1>0
  <2>3. Taken(st, pool) = {}
    BY <2>1, <2>2 DEF Taken
  <2>. QED BY <1>1, <2>1, <2>2, <2>3, DirectAdded
<1>2. CASE n >= Direct /\ n < Direct + Indirect
  <2>. DEFINE t == IF n = Direct THEN {pool[st.used + 1]} ELSE {}
  <2>1. GrowsBy(n) = IF n = Direct THEN 1 ELSE 0
    <3>. HIDE DEF n
    <3>. QED BY <1>0, <1>2 DEF GrowsBy
  <2>2. 1 .. 0 = {} /\ 1 .. 1 = {1}
    OBVIOUS
  <2>3. Taken(st, pool) = t
    BY <2>1, <2>2 DEF Taken
  <2>4. n = Direct => pool[st.used + 1] \in Block
    BY <2>1, <2>2 DEF Fresh
  <2>5. /\ Extends(st, add_block(st, block, pool), block, t)
        /\ add_block(st, block, pool).used = st.used + GrowsBy(n)
    BY <1>2, <2>4, IndirectAdded
  <2>. QED BY <2>3, <2>5
<1>3. CASE ~(n < Direct + Indirect)
  <2>. DEFINE m == n - Direct - Indirect
  <2>1. m \in Nat /\ n = Direct + Indirect + m
    <3>. HIDE DEF n
    <3>. QED BY <1>0, <1>3
  <2>2. m < Indirect * Indirect
    <3>. DEFINE sq == Indirect * Indirect
    <3>1. sq \in Nat /\ MaxBlocks <= Direct + Indirect + sq
      BY <1>0
    <3>. HIDE DEF sq, n
    <3>2. m < sq
      BY <1>0, <1>3, <3>1
    <3>. QED BY <3>2 DEF sq
  <2>. HIDE DEF m
  <2>. QED BY <2>1, <2>2, DoubleAdded
<1>. QED BY <1>0, <1>1, <1>2, <1>3

-----------------------------------------------------------------------------
(* add_blocks                                                               *)

(* A set of naturals that is not empty has a least element.                 *)
LEMMA Least ==
  ASSUME NEW T \in SUBSET Nat, T # {}
  PROVE  \E x \in T : \A y \in T : x <= y
<1>. DEFINE R == OpToRel(<, Nat)
<1>1. IsWellFoundedOn(R, Nat)
  BY NatLessThanWellFounded
<1>2. \A x, y \in Nat : <<y, x>> \in R <=> y < x
  BY DEF OpToRel
<1>. HIDE DEF R
<1>3. PICK x \in T : \A y \in T : ~ (<<y, x>> \in R)
  BY <1>1, WFMin
<1>4. \A y \in T : ~(y < x)
  BY <1>2, <1>3
<1>. QED BY <1>4

(* What add_blocks is given: an inode, and pointer blocks that are new.     *)
Growing(ino, t, blocks, pool) ==
  /\ ino \in INodes /\ t \in Tables /\ Apart(ino, t)
  /\ blocks \in Seq(Block) /\ pool \in Seq(Block) /\ IsInjective(pool)
  /\ \A k \in DOMAIN pool : pool[k] \notin PointerBlocks(ino, t)
  /\ Addable(ino, blocks, pool)

(* The state after k rounds.                                                *)
After(ino, t, blocks, pool, k, st) ==
  /\ st \in States /\ st.ino.blocks = ino.blocks + k /\ st.ino.size = ino.size
  /\ st.used = MetadataToGrow(ino.blocks, k)
  /\ Apart(st.ino, st.tab)
  /\ \A x \in 0 .. ino.blocks - 1 : get_block(st.ino, st.tab, x) = get_block(ino, t, x)
  /\ \A x \in 1 .. k : get_block(st.ino, st.tab, ino.blocks + x - 1) = blocks[x]
  /\ PointerBlocks(st.ino, st.tab) = PointerBlocks(ino, t) \cup {pool[x] : x \in 1 .. st.used}
  /\ \A x \in Block \ PointerBlocks(st.ino, st.tab) : st.tab[x] = t[x]

LEMMA AfterNone ==
  ASSUME NEW ino, NEW t, NEW blocks, NEW pool, Growing(ino, t, blocks, pool)
  PROVE  After(ino, t, blocks, pool, 0, State(ino, t, 0))
<1>1. /\ ino \in INodes /\ t \in Tables /\ Apart(ino, t) /\ ino.blocks \in Nat
  BY INodeIs DEF Growing
<1>2. State(ino, t, 0) \in States /\ State(ino, t, 0).ino = ino /\ State(ino, t, 0).tab = t
      /\ State(ino, t, 0).used = 0
  BY <1>1, StateIs
<1>3. MetadataBlocks(ino.blocks) \in Nat /\ ino.blocks + 0 = ino.blocks
  BY <1>1, MetaStep
<1>4. MetadataToGrow(ino.blocks, 0) = 0 /\ 1 .. 0 = {}
  BY <1>3 DEF MetadataToGrow
<1>. QED BY <1>1, <1>2, <1>3, <1>4 DEF After

LEMMA AfterMore ==
  ASSUME NEW ino, NEW t, NEW blocks, NEW pool, Growing(ino, t, blocks, pool),
         NEW k \in Nat, k < Len(blocks), NEW st, After(ino, t, blocks, pool, k, st)
  PROVE  After(ino, t, blocks, pool, k + 1, add_block(st, blocks[k + 1], pool))
<1>. DEFINE n0 == ino.blocks
            n == st.ino.blocks
            g == GrowsBy(n)
            b == blocks[k + 1]
            st2 == add_block(st, b, pool)
            old == PointerBlocks(ino, t)
            P == PointerBlocks(st.ino, st.tab)
<1>1. /\ ino \in INodes /\ n0 \in Nat /\ Len(blocks) \in Nat /\ Len(pool) \in Nat
      /\ DOMAIN pool = 1 .. Len(pool) /\ b \in Block /\ MaxBlocks \in Nat
      /\ \A x \in DOMAIN pool : pool[x] \in Block
  <2>1. ino \in INodes /\ blocks \in Seq(Block) /\ pool \in Seq(Block)
    BY DEF Growing
  <2>2. Len(blocks) \in Nat /\ k + 1 \in DOMAIN blocks
    BY <2>1
  <2>. QED BY <2>1, <2>2, INodeIs, PointerAssumption
<1>2. n0 + Len(blocks) <= MaxBlocks /\ Len(pool) >= MetadataBlocks(n0 + Len(blocks)) - MetadataBlocks(n0)
  BY DEF Growing, Addable, MetadataToGrow
<1>3. /\ st \in States /\ n = n0 + k /\ st.used = MetadataBlocks(n0 + k) - MetadataBlocks(n0)
      /\ st.used \in Nat
  BY StateIs DEF After, MetadataToGrow
<1>4. /\ MetadataBlocks(n) \in Nat /\ MetadataBlocks(n0) \in Nat /\ g \in 0 .. 2
      /\ MetadataBlocks(n + 1) = MetadataBlocks(n) + g
      /\ MetadataBlocks(n + 1) <= MetadataBlocks(n0 + Len(blocks))
      /\ MetadataBlocks(n0 + Len(blocks)) \in Nat
  <2>1. n \in Nat /\ n0 + Len(blocks) \in Nat /\ n + 1 \in Nat /\ n + 1 <= n0 + Len(blocks)
    <3>. HIDE DEF n, n0
    <3>. QED BY <1>1, <1>3
  <2>. HIDE DEF n, n0
  <2>. QED BY <1>1, <2>1, MetaStep, MetaMono
<1>5. n < MaxBlocks
  <2>. HIDE DEF n, n0
  <2>. QED BY <1>1, <1>2, <1>3
<1>6. n + 1 = n0 + (k + 1)
  <2>. HIDE DEF n, n0
  <2>. QED BY <1>1, <1>3
<1>7. st.used + g <= Len(pool) /\ st.used + g = MetadataToGrow(n0, k + 1)
  <2>. DEFINE A == MetadataBlocks(n0)
              B == MetadataBlocks(n)
              C == MetadataBlocks(n0 + Len(blocks))
  <2>1. /\ A \in Nat /\ B \in Nat /\ C \in Nat /\ st.used = B - A /\ B + g <= C
        /\ Len(pool) >= C - A
    BY <1>2, <1>3, <1>4
  <2>2. MetadataToGrow(n0, k + 1) = B + g - A
    BY <1>4, <1>6 DEF MetadataToGrow
  <2>. HIDE DEF A, B, C, g, n0, n
  <2>. QED BY <1>1, <1>4, <2>1, <2>2
<1>8. \A x \in 1 .. g : /\ st.used + x \in DOMAIN pool
                         /\ \A y \in 1 .. st.used : y \in DOMAIN pool /\ y # st.used + x
  <2>. DEFINE u == st.used
              L == Len(pool)
  <2>1. g \in Nat /\ u \in Nat /\ L \in Nat /\ u + g <= L
    BY <1>1, <1>3, <1>4, <1>7
  <2>2. DOMAIN pool = 1 .. L
    BY <1>1
  <2>. HIDE DEF g, u, L
  <2>3. \A x \in 1 .. g : /\ u + x \in 1 .. L
                           /\ \A y \in 1 .. u : y \in 1 .. L /\ y # u + x
    BY <2>1
  <2>. QED BY <2>2, <2>3 DEF u
<1>9. P = old \cup {pool[x] : x \in 1 .. st.used} /\ Apart(st.ino, st.tab)
  BY DEF After
<1>10. Fresh(st, pool)
  <2>1. ASSUME NEW x \in 1 .. g
        PROVE  pool[st.used + x] \in Block /\ pool[st.used + x] \notin P
    <3>1. pool[st.used + x] \notin old
      BY <1>8 DEF Growing
    <3>2. \A y \in 1 .. st.used : pool[y] # pool[st.used + x]
      BY <1>8 DEF Growing, IsInjective
    <3>. QED BY <1>1, <1>8, <1>9, <3>1, <3>2
  <2>2. ASSUME g = 2 PROVE pool[st.used + 1] # pool[st.used + 2]
    <3>1. 1 \in 1 .. g /\ 2 \in 1 .. g /\ st.used + 1 # st.used + 2
      BY <1>3, <2>2
    <3>2. st.used + 1 \in DOMAIN pool /\ st.used + 2 \in DOMAIN pool
      BY <1>8, <3>1
    <3>. QED BY <3>1, <3>2 DEF Growing, IsInjective
  <2>. QED BY <2>1, <2>2 DEF Fresh
<1>11. Extends(st, st2, b, Taken(st, pool)) /\ st2.used = st.used + g
  BY <1>1, <1>3, <1>5, <1>9, <1>10, RoundAdds
<1>. HIDE DEF st2, b, P, old
<1>12. st2 \in States /\ st2.ino.blocks = n0 + (k + 1) /\ st2.ino.size = ino.size
       /\ st2.used = MetadataToGrow(n0, k + 1) /\ Apart(st2.ino, st2.tab)
  <2>1. st2.ino.blocks = n + 1 /\ st2.ino.size = st.ino.size /\ st2 \in States
        /\ Apart(st2.ino, st2.tab) /\ st2.used = MetadataToGrow(n0, k + 1)
    BY <1>7, <1>11 DEF Extends
  <2>2. st.ino.size = ino.size
    BY DEF After
  <2>. QED BY <1>6, <2>1, <2>2
<1>13. \A x \in 0 .. n0 - 1 : get_block(st2.ino, st2.tab, x) = get_block(ino, t, x)
  <2>. SUFFICES ASSUME NEW x \in 0 .. n0 - 1
                PROVE  get_block(st2.ino, st2.tab, x) = get_block(ino, t, x)
    OBVIOUS
  <2>1. x \in 0 .. n - 1
    <3>. HIDE DEF n, n0
    <3>. QED BY <1>1, <1>3
  <2>2. get_block(st2.ino, st2.tab, x) = get_block(st.ino, st.tab, x)
    BY <1>11, <2>1 DEF Extends
  <2>3. get_block(st.ino, st.tab, x) = get_block(ino, t, x)
    BY DEF After
  <2>. QED BY <2>2, <2>3
<1>14. \A x \in 1 .. k + 1 : get_block(st2.ino, st2.tab, n0 + x - 1) = blocks[x]
  <2>. SUFFICES ASSUME NEW x \in 1 .. k + 1
                PROVE  get_block(st2.ino, st2.tab, n0 + x - 1) = blocks[x]
    OBVIOUS
  <2>1. CASE x = k + 1
    <3>1. n0 + x - 1 = n
      <4>. HIDE DEF n, n0
      <4>. QED BY <1>1, <1>3, <2>1
    <3>2. get_block(st2.ino, st2.tab, n) = b
      BY <1>11 DEF Extends
    <3>. QED BY <2>1, <3>1, <3>2 DEF b
  <2>2. CASE x # k + 1
    <3>1. x \in 1 .. k /\ n0 + x - 1 \in 0 .. n - 1
      <4>. HIDE DEF n, n0
      <4>. QED BY <1>1, <1>3, <2>2
    <3>2. get_block(st2.ino, st2.tab, n0 + x - 1) = get_block(st.ino, st.tab, n0 + x - 1)
      BY <1>11, <3>1 DEF Extends
    <3>3. get_block(st.ino, st.tab, n0 + x - 1) = blocks[x]
      BY <3>1 DEF After
    <3>. QED BY <3>2, <3>3
  <2>. QED BY <2>1, <2>2
<1>15. PointerBlocks(st2.ino, st2.tab) = P \cup Taken(st, pool)
  BY <1>11 DEF Extends, P
<1>16. {pool[x] : x \in 1 .. st.used} \cup Taken(st, pool) = {pool[x] : x \in 1 .. st2.used}
  <2>1. Taken(st, pool) = {pool[st.used + x] : x \in 1 .. g}
    BY DEF Taken
  <2>2. st2.used = st.used + g
    BY <1>11
  <2>. HIDE DEF g
  <2>3. ASSUME NEW x \in 1 .. st2.used
        PROVE  x \in 1 .. st.used \/ \E y \in 1 .. g : x = st.used + y
    <3>1. x \in 1 .. st.used \/ (x - st.used \in 1 .. g /\ x = st.used + (x - st.used))
      BY <1>3, <1>4, <2>2
    <3>. QED BY <3>1
  <2>4. \A y \in 1 .. g : st.used + y \in 1 .. st2.used
    BY <1>3, <1>4, <2>2
  <2>5. \A x \in 1 .. st.used : x \in 1 .. st2.used
    BY <1>3, <1>4, <2>2
  <2>. HIDE <2>2
  <2>. QED BY <2>1, <2>3, <2>4, <2>5
<1>17. PointerBlocks(st2.ino, st2.tab) = old \cup {pool[x] : x \in 1 .. st2.used}
  BY <1>9, <1>15, <1>16
<1>18. \A x \in Block \ PointerBlocks(st2.ino, st2.tab) : st2.tab[x] = t[x]
  <2>1. \A x \in Block \ (P \cup Taken(st, pool)) : st2.tab[x] = st.tab[x]
    BY <1>11 DEF Extends, P
  <2>2. \A x \in Block \ P : st.tab[x] = t[x]
    BY DEF After, P
  <2>. QED BY <1>15, <2>1, <2>2
<1>. QED BY <1>12, <1>13, <1>14, <1>17, <1>18 DEF After, st2, b, old

(* The rounds exist: a function that has them up to n.                      *)
Rounds(ino, t, blocks, pool, n, f) ==
  /\ f = [k \in 0 .. n |-> IF k = 0 THEN State(ino, t, 0)
                           ELSE add_block(f[k - 1], blocks[k], pool)]

LEMMA RoundsExist ==
  ASSUME NEW ino, NEW t, NEW blocks, NEW pool, NEW n \in Nat
  PROVE  \E f : Rounds(ino, t, blocks, pool, n, f)
<1>. DEFINE R(m, f) == Rounds(ino, t, blocks, pool, m, f)
            T == {m \in Nat : ~\E f : R(m, f)}
<1>1. ASSUME T # {} PROVE FALSE
  <2>1. PICK m \in T : \A y \in T : m <= y
    BY <1>1, Least
  <2>2. m \in Nat /\ ~\E f : R(m, f)
    OBVIOUS
  <2>3. CASE m = 0
    <3>. DEFINE f == [k \in 0 .. 0 |-> State(ino, t, 0)]
    <3>1. f = [k \in 0 .. 0 |-> IF k = 0 THEN State(ino, t, 0)
                               ELSE add_block(f[k - 1], blocks[k], pool)]
      OBVIOUS
    <3>. HIDE DEF f
    <3>2. R(0, f)
      BY <3>1 DEF Rounds
    <3>. QED BY <2>2, <2>3, <3>2
  <2>4. CASE m # 0
    <3>1. m - 1 \in Nat /\ m - 1 \notin T
      BY <2>1, <2>2, <2>4
    <3>2. PICK f : R(m - 1, f)
      BY <3>1
    <3>. DEFINE h(e, k) == IF k = 0 THEN State(ino, t, 0) ELSE add_block(e[k - 1], blocks[k], pool)
                e == [k \in 0 .. m |-> IF k = m THEN h(f, m) ELSE f[k]]
    <3>3. \A k \in 0 .. m - 1 : f[k] = h(f, k)
      BY <3>2 DEF Rounds
    <3>. HIDE DEF R
    <3>4. \A k \in 0 .. m - 1 : e[k] = f[k]
      BY <2>2
    <3>5. \A k \in 0 .. m : k = 0 \/ (k - 1 \in 0 .. m - 1)
      BY <2>2
    <3>6. \A k \in 0 .. m : h(e, k) = h(f, k)
      <4>. HIDE DEF e
      <4>. QED BY <3>4, <3>5
    <3>7. \A k \in 0 .. m : e[k] = h(f, k)
      <4>1. \A k \in 0 .. m : k = m \/ k \in 0 .. m - 1
        BY <2>2
      <4>2. \A k \in 0 .. m : e[k] = IF k = m THEN h(f, m) ELSE f[k]
        OBVIOUS
      <4>. HIDE DEF e, h
      <4>. QED BY <3>3, <4>1, <4>2
    <3>8. e = [k \in 0 .. m |-> e[k]]
      OBVIOUS
    <3>9. e = [k \in 0 .. m |-> h(e, k)]
      <4>. HIDE DEF e, h
      <4>. QED BY <3>6, <3>7, <3>8
    <3>10. R(m, e)
      <4>. HIDE DEF e
      <4>. QED BY <3>9 DEF R, Rounds
    <3>. HIDE DEF e
    <3>. QED BY <2>2, <3>10
  <2>. QED BY <2>3, <2>4
<1>. QED BY <1>1

(* add_blocks is the state after all the rounds.                            *)
LEMMA BlocksAdded ==
  ASSUME NEW ino, NEW t, NEW blocks, NEW pool, Growing(ino, t, blocks, pool)
  PROVE  After(ino, t, blocks, pool, Len(blocks), add_blocks(ino, t, blocks, pool))
<1>. DEFINE n == Len(blocks)
            F == CHOOSE f : f = [k \in 0 .. n |-> IF k = 0 THEN [ino |-> ino, tab |-> t, used |-> 0]
                                                ELSE add_block(f[k - 1], blocks[k], pool)]
<1>0. n \in Nat
  BY DEF Growing
<1>1. add_blocks(ino, t, blocks, pool) = F[n]
  BY DEF add_blocks
<1>2. F = [k \in 0 .. n |-> IF k = 0 THEN State(ino, t, 0)
                           ELSE add_block(F[k - 1], blocks[k], pool)]
  <2>1. PICK f : Rounds(ino, t, blocks, pool, n, f)
    BY <1>0, RoundsExist
  <2>. QED BY <2>1 DEF Rounds, State
<1>. HIDE DEF F
<1>3. /\ F[0] = State(ino, t, 0)
      /\ \A k \in 0 .. n : k # 0 => F[k] = add_block(F[k - 1], blocks[k], pool)
  BY <1>0, <1>2
<1>. DEFINE T == {k \in Nat : k <= n /\ ~After(ino, t, blocks, pool, k, F[k])}
<1>4. ASSUME T # {} PROVE FALSE
  <2>1. PICK k \in T : \A y \in T : k <= y
    BY <1>4, Least
  <2>2. k \in Nat /\ k <= n /\ ~After(ino, t, blocks, pool, k, F[k])
    OBVIOUS
  <2>3. k # 0
    BY <1>3, <2>2, AfterNone
  <2>4. k - 1 \in Nat /\ k - 1 < n /\ k - 1 \notin T /\ (k - 1) + 1 = k /\ k - 1 <= n
    BY <1>0, <2>1, <2>2, <2>3
  <2>5. After(ino, t, blocks, pool, k - 1, F[k - 1])
    BY <2>4
  <2>6. After(ino, t, blocks, pool, (k - 1) + 1, add_block(F[k - 1], blocks[(k - 1) + 1], pool))
    <3>. HIDE DEF T
    <3>. QED BY <2>4, <2>5, AfterMore
  <2>7. F[k] = add_block(F[k - 1], blocks[k], pool)
    BY <1>0, <1>3, <2>2, <2>3
  <2>. QED BY <2>2, <2>4, <2>6, <2>7
<1>. QED BY <1>0, <1>1, <1>4

-----------------------------------------------------------------------------
(* The blocks of one file                                                   *)

Data(ino, t) == {get_block(ino, t, k) : k \in 0 .. ino.blocks - 1}
Owned(ino, t) == Data(ino, t) \cup PointerBlocks(ino, t)

(* No block is reached twice, as data or as a pointer block.                *)
Owns(ino, t) ==
  /\ Apart(ino, t)
  /\ \A k \in 0 .. ino.blocks - 1 :
       /\ get_block(ino, t, k) \in Block /\ get_block(ino, t, k) \notin PointerBlocks(ino, t)
       /\ \A l \in 0 .. ino.blocks - 1 : get_block(ino, t, k) = get_block(ino, t, l) => k = l

LEMMA SequenceSize ==
  ASSUME NEW S, NEW s \in Seq(S), IsInjective(s)
  PROVE  IsFiniteSet(Range(s)) /\ Cardinality(Range(s)) = Len(s)
<1>. DEFINE n == Len(s)
            R == Range(s)
<1>1. n \in Nat /\ DOMAIN s = 1 .. n
  OBVIOUS
<1>2. s \in Surjection(1 .. n, R) /\ s \in Injection(1 .. n, R)
  <2>1. s \in [1 .. n -> R]
    BY <1>1 DEF Range
  <2>. QED BY <1>1, <2>1 DEF Range, Surjection, Injection, IsInjective
<1>. HIDE DEF n, R
<1>3. IsFiniteSet(1 .. n) /\ Cardinality(1 .. n) = n
  BY <1>1, FS_Interval
<1>. QED BY <1>2, <1>3, FS_Surjection DEF n, R

(* So many different values have so many elements.                          *)
LEMMA ImageSize ==
  ASSUME NEW n \in Nat, NEW f, DOMAIN f = 0 .. n - 1,
         \A k, l \in 0 .. n - 1 : f[k] = f[l] => k = l,
         NEW T, T = {f[k] : k \in 0 .. n - 1}
  PROVE  IsFiniteSet(T) /\ Cardinality(T) = n
<1>. DEFINE g == [k \in 0 .. n - 1 |-> f[k]]
<1>1. g \in Surjection(0 .. n - 1, T) /\ g \in Injection(0 .. n - 1, T)
  <2>1. \A k \in 0 .. n - 1 : g[k] = f[k] /\ g[k] \in T
    OBVIOUS
  <2>2. g \in [0 .. n - 1 -> T]
    BY <2>1
  <2>. HIDE DEF g
  <2>3. \A x \in T : \E k \in 0 .. n - 1 : g[k] = x
    BY <2>1
  <2>4. \A k, l \in 0 .. n - 1 : g[k] = g[l] => k = l
    BY <2>1
  <2>. DEFINE S == 0 .. n - 1
  <2>5. /\ g \in [S -> T] /\ \A x \in T : \E k \in S : g[k] = x
        /\ \A k, l \in S : g[k] = g[l] => k = l
    BY <2>2, <2>3, <2>4
  <2>. HIDE DEF S
  <2>6. g \in Surjection(S, T)
    BY <2>5 DEF Surjection
  <2>7. g \in Injection(S, T)
    BY <2>5 DEF Injection, IsInjective
  <2>. QED BY <2>6, <2>7 DEF S
<1>2. IsFiniteSet(0 .. n - 1) /\ Cardinality(0 .. n - 1) = n
  BY FS_Interval
<1>. HIDE DEF g
<1>. QED BY <1>1, <1>2, FS_Surjection

LEMMA DisjointSize ==
  ASSUME NEW A, NEW B, IsFiniteSet(A), IsFiniteSet(B), A \cap B = {}
  PROVE  /\ IsFiniteSet(A \cup B) /\ Cardinality(A \cup B) = Cardinality(A) + Cardinality(B)
         /\ Cardinality(A) \in Nat /\ Cardinality(B) \in Nat
<1>1. Cardinality(A) \in Nat /\ Cardinality(B) \in Nat /\ Cardinality({}) = 0
  BY FS_CardinalityType, FS_EmptySet
<1>2. IsFiniteSet(A \cup B) /\ Cardinality(A \cup B) = Cardinality(A) + Cardinality(B) - Cardinality({})
  BY FS_Union
<1>. QED BY <1>1, <1>2

(* The pointer blocks are as many as blocks_necessary_to_grow_n counts.     *)
LEMMA PointersCounted ==
  ASSUME NEW ino \in INodes, NEW t \in Tables, Apart(ino, t)
  PROVE  /\ IsFiniteSet(PointerBlocks(ino, t))
         /\ Cardinality(PointerBlocks(ino, t)) = MetadataBlocks(ino.blocks)
         /\ PointerBlocks(ino, t) \subseteq Block
<1>. DEFINE n == ino.blocks
            m == n - Direct - Indirect
            P == PointerBlocks(ino, t)
<1>0. Direct \in Nat \ {0} /\ Indirect \in Nat \ {0} /\ n \in Nat
  BY PointerAssumption, INodeIs
<1>1. CASE n <= Direct
  <2>1. ~(n > Direct) /\ ~(m > 0)
    BY <1>0, <1>1
  <2>. QED BY <1>1, <2>1, FS_EmptySet DEF PointerBlocks, MetadataBlocks
<1>2. CASE n > Direct /\ n <= Direct + Indirect
  <2>1. ~(n <= Direct) /\ ~(m > 0)
    BY <1>0, <1>2
  <2>2. P = {ino.indirect} /\ MetadataBlocks(n) = 1
    BY <1>2, <2>1 DEF PointerBlocks, MetadataBlocks
  <2>3. ino.indirect \in Block
    BY <1>2 DEF Apart
  <2>. QED BY <2>2, <2>3, FS_Singleton
<1>3. CASE n > Direct + Indirect
  <2>. DEFINE c == ((m - 1) \div Indirect) + 1
              f == [k \in 0 .. c - 1 |-> t[ino.double][k]]
              S == {f[k] : k \in 0 .. c - 1}
  <2>1. n > Direct /\ ~(n <= Direct) /\ ~(n <= Direct + Indirect) /\ m > 0 /\ m \in Nat \ {0}
    BY <1>0, <1>3
  <2>2. c \in Nat /\ c - 1 = (m - 1) \div Indirect
    <3>1. m - 1 \in Nat
      BY <2>1
    <3>2. (m - 1) \div Indirect \in Nat
      BY <1>0, <3>1, DivMod
    <3>. QED BY <3>2
  <2>3. MetadataBlocks(n) = 2 + c
    <3>. HIDE DEF m
    <3>1. (m + Indirect - 1) \div Indirect = c
      BY <1>0, <2>1, DivCeil
    <3>. QED BY <2>1, <3>1 DEF MetadataBlocks, m
  <2>4. LastSlot(ino) = c - 1
    BY <2>2 DEF LastSlot
  <2>. HIDE DEF c
  <2>5. /\ ino.indirect \in Block /\ ino.double \in Block /\ ino.double # ino.indirect
        /\ \A j \in 0 .. c - 1 :
             /\ f[j] \in Block /\ f[j] # ino.indirect /\ f[j] # ino.double
             /\ \A i \in 0 .. c - 1 : i # j => f[i] # f[j]
    BY <1>3, <2>1, <2>4 DEF Apart
  <2>6. P = {ino.indirect} \cup ({ino.double} \cup S)
    BY <2>1, <2>2 DEF PointerBlocks
  <2>7. DOMAIN f = 0 .. c - 1
    OBVIOUS
  <2>. HIDE DEF f
  <2>8. IsFiniteSet(S) /\ Cardinality(S) = c
    <3>1. \A k, l \in 0 .. c - 1 : f[k] = f[l] => k = l
      BY <2>5
    <3>. QED BY <2>2, <2>7, <3>1, ImageSize
  <2>9. S \subseteq Block /\ ino.double \notin S /\ ino.indirect \notin S
    BY <2>5
  <2>. HIDE DEF S, P
  <2>10. /\ IsFiniteSet(S \cup {ino.double}) /\ Cardinality(S \cup {ino.double}) = c + 1
    BY <2>8, <2>9, FS_AddElement
  <2>. DEFINE S2 == S \cup {ino.double}
  <2>11. ino.indirect \notin S2 /\ P = S2 \cup {ino.indirect}
    BY <2>5, <2>6, <2>9
  <2>. HIDE DEF S2
  <2>12. IsFiniteSet(S2) /\ Cardinality(S2) = c + 1
    BY <2>10 DEF S2
  <2>13. IsFiniteSet(P) /\ Cardinality(P) = (c + 1) + 1
    BY <2>11, <2>12, FS_AddElement
  <2>14. P \subseteq Block
    BY <2>5, <2>6, <2>9
  <2>15. (c + 1) + 1 = 2 + c
    BY <2>2
  <2>. QED BY <2>3, <2>13, <2>14, <2>15 DEF P
<1>. QED BY <1>0, <1>1, <1>2, <1>3

(* The blocks of a file are as many as it has and needs to reach them.      *)
LEMMA OwnedCounted ==
  ASSUME NEW ino \in INodes, NEW t \in Tables, Owns(ino, t)
  PROVE  /\ Cardinality(Owned(ino, t)) = ino.blocks + MetadataBlocks(ino.blocks)
         /\ IsFiniteSet(Owned(ino, t)) /\ Owned(ino, t) \subseteq Block
<1>. DEFINE n == ino.blocks
            f == [k \in 0 .. n - 1 |-> get_block(ino, t, k)]
            D == Data(ino, t)
            P == PointerBlocks(ino, t)
<1>0. n \in Nat
  BY INodeIs
<1>1. DOMAIN f = 0 .. n - 1 /\ D = {f[k] : k \in 0 .. n - 1}
  BY DEF Data
<1>2. \A k, l \in 0 .. n - 1 : f[k] = f[l] => k = l
  BY DEF Owns
<1>3. D \cap P = {} /\ D \subseteq Block
  BY DEF Data, Owns
<1>. HIDE DEF f, D
<1>4. IsFiniteSet(D) /\ Cardinality(D) = n
  BY <1>0, <1>1, <1>2, ImageSize
<1>5. IsFiniteSet(P) /\ Cardinality(P) = MetadataBlocks(n) /\ P \subseteq Block
  BY PointersCounted DEF Owns
<1>. HIDE DEF P
<1>6. IsFiniteSet(D \cup P) /\ Cardinality(D \cup P) = Cardinality(D) + Cardinality(P)
  BY <1>3, <1>4, <1>5, DisjointSize
<1>7. Owned(ino, t) = D \cup P
  BY DEF Owned, D, P
<1>. QED BY <1>3, <1>4, <1>5, <1>6, <1>7

(* The size of a file is not looked at.                                     *)
SamePointers(a, b) == /\ b.blocks = a.blocks /\ b.direct = a.direct
                      /\ b.indirect = a.indirect /\ b.double = a.double

LEMMA SameOwned ==
  ASSUME NEW a, NEW b, NEW t, SamePointers(a, b)
  PROVE  /\ Owned(b, t) = Owned(a, t) /\ (Owns(a, t) => Owns(b, t))
         /\ Data(b, t) = Data(a, t) /\ PointerBlocks(b, t) = PointerBlocks(a, t)
<1>1. \A k : get_block(b, t, k) = get_block(a, t, k)
  BY DEF get_block, SamePointers
<1>2. PointerBlocks(b, t) = PointerBlocks(a, t)
  BY DEF PointerBlocks, SamePointers
<1>3. Apart(a, t) => Apart(b, t)
  BY DEF Apart, LastSlot, SamePointers
<1>4. b.blocks = a.blocks
  BY DEF SamePointers
<1>5. Data(b, t) = Data(a, t)
  BY <1>1, <1>4 DEF Data
<1>. QED BY <1>1, <1>2, <1>3, <1>4, <1>5 DEF Owned, Owns

(* Nor are tables that are not its own.                                     *)
LEMMA SameReached ==
  ASSUME NEW ino \in INodes, NEW t \in Tables, NEW t2 \in Tables, Owns(ino, t),
         ino.blocks <= MaxBlocks, \A x \in PointerBlocks(ino, t) : t2[x] = t[x]
  PROVE  /\ \A k \in 0 .. ino.blocks - 1 : get_block(ino, t2, k) = get_block(ino, t, k)
         /\ Owned(ino, t2) = Owned(ino, t) /\ Owns(ino, t2)
<1>. DEFINE n == ino.blocks
            m == n - Direct - Indirect
            P == PointerBlocks(ino, t)
<1>0. Direct \in Nat \ {0} /\ Indirect \in Nat \ {0} /\ n \in Nat
  BY PointerAssumption, INodeIs
<1>1. /\ n > Direct => ino.indirect \in P
      /\ n > Direct + Indirect => ino.double \in P
  <2>1. m > 0 <=> n > Direct + Indirect
    BY <1>0
  <2>. QED BY <2>1 DEF PointerBlocks
<1>2. n > Direct + Indirect => \A k \in 0 .. (m - 1) \div Indirect : t[ino.double][k] \in P
  <2>1. m > 0 <=> n > Direct + Indirect
    BY <1>0
  <2>. QED BY <2>1 DEF PointerBlocks
<1>3. ASSUME NEW k \in 0 .. n - 1
      PROVE  get_block(ino, t2, k) = get_block(ino, t, k)
  <2>1. CASE k < Direct
    BY <2>1 DEF get_block
  <2>2. CASE ~(k < Direct) /\ k - Direct < Indirect
    <3>1. n > Direct
      BY <1>0, <2>2
    <3>. QED BY <1>1, <2>2, <3>1 DEF get_block
  <2>3. CASE ~(k < Direct) /\ ~(k - Direct < Indirect)
    <3>. DEFINE r == k - Direct - Indirect
                j == r \div Indirect
    <3>1. n > Direct + Indirect /\ r \in Nat /\ m \in Nat \ {0} /\ r <= m - 1 /\ m - 1 \in Nat
      BY <1>0, <2>3
    <3>2. j \in 0 .. (m - 1) \div Indirect
      <4>. HIDE DEF r, m
      <4>1. j \in Nat /\ (m - 1) \div Indirect \in Nat
        BY <1>0, <3>1, DivMod
      <4>2. CASE r = m - 1
        BY <4>1, <4>2
      <4>3. CASE r # m - 1
        <5>1. r < m - 1
          BY <3>1, <4>3
        <5>. DEFINE z == m - 1
        <5>2. z \in Nat /\ r \in Nat /\ r < z /\ j \in Nat /\ z \div Indirect \in Nat
          BY <3>1, <4>1, <5>1
        <5>. HIDE DEF z
        <5>3. \/ r \div Indirect < z \div Indirect
              \/ r \div Indirect = z \div Indirect /\ r % Indirect < z % Indirect
          BY <1>0, <5>2, DivOrder
        <5>4. j \in 0 .. z \div Indirect
          <6>. HIDE DEF j
          <6>1. j < z \div Indirect \/ j = z \div Indirect
            BY <5>3 DEF j
          <6>. QED BY <5>2, <6>1
        <5>. QED BY <5>4 DEF z
      <4>. QED BY <4>2, <4>3
    <3>3. /\ get_block(ino, t2, k) = t2[t2[ino.double][j]][r % Indirect]
          /\ get_block(ino, t, k) = t[t[ino.double][j]][r % Indirect]
      BY <2>3 DEF get_block
    <3>. HIDE DEF j, r, m, P
    <3>4. t2[ino.double] = t[ino.double] /\ t[ino.double][j] \in P
      BY <1>1, <1>2, <3>1, <3>2 DEF P
    <3>. QED BY <3>3, <3>4 DEF P
  <2>. QED BY <2>1, <2>2, <2>3
<1>4. PointerBlocks(ino, t2) = P
  <2>1. CASE n > Direct + Indirect
    <3>1. t2[ino.double] = t[ino.double]
      BY <1>1, <2>1
    <3>. QED BY <3>1 DEF PointerBlocks
  <2>2. CASE ~(n > Direct + Indirect)
    <3>1. ~(m > 0)
      BY <1>0, <2>2
    <3>. QED BY <3>1 DEF PointerBlocks
  <2>. QED BY <2>1, <2>2
<1>5. Data(ino, t2) = Data(ino, t)
  BY <1>3 DEF Data
<1>6. Apart(ino, t2)
  <2>1. Apart(ino, t)
    BY DEF Owns
  <2>2. CASE n > Direct + Indirect
    <3>1. t2[ino.double] = t[ino.double]
      BY <1>1, <2>2
    <3>. QED BY <2>1, <3>1 DEF Apart
  <2>3. CASE ~(n > Direct + Indirect)
    BY <2>1, <2>3 DEF Apart
  <2>. QED BY <2>2, <2>3
<1>. HIDE DEF P
<1>7. Owns(ino, t2)
  BY <1>3, <1>4, <1>6 DEF Owns, P
<1>. QED BY <1>3, <1>4, <1>5, <1>7 DEF Owned, P

(* What a file is after add_blocks.                                         *)
Enlarged(ino, t, new, meta, st) ==
  /\ st.ino \in INodes /\ st.tab \in Tables
  /\ st.ino.blocks = ino.blocks + Len(new) /\ st.ino.blocks <= MaxBlocks
  /\ st.ino.size = ino.size
  /\ Owns(st.ino, st.tab)
  /\ MetadataToGrow(ino.blocks, Len(new)) \in 0 .. Len(meta)
  /\ Owned(st.ino, st.tab) = Owned(ino, t) \cup Range(new) \cup
                               {meta[k] : k \in 1 .. MetadataToGrow(ino.blocks, Len(new))}
  /\ \A x \in Block \ (Owned(ino, t) \cup Range(meta)) : st.tab[x] = t[x]
  /\ \A k \in 0 .. ino.blocks - 1 : get_block(st.ino, st.tab, k) = get_block(ino, t, k)
  /\ \A k \in 1 .. Len(new) : get_block(st.ino, st.tab, ino.blocks + k - 1) = new[k]

LEMMA FileGrown ==
  ASSUME NEW ino \in INodes, NEW t \in Tables, Owns(ino, t),
         NEW B \in SUBSET Block, Owned(ino, t) \subseteq B,
         NEW meta \in Seq(Block \ B), IsInjective(meta),
         NEW new \in Seq(Block \ (B \cup Range(meta))), IsInjective(new), Addable(ino, new, meta)
  PROVE  Enlarged(ino, t, new, meta, add_blocks(ino, t, new, meta))
<1>. DEFINE st == add_blocks(ino, t, new, meta)
            n0 == ino.blocks
            n == st.ino.blocks
            old == PointerBlocks(ino, t)
            u == MetadataToGrow(n0, Len(new))
            taken == {meta[k] : k \in 1 .. u}
            P == PointerBlocks(st.ino, st.tab)
<1>0. /\ n0 \in Nat /\ Len(new) \in Nat /\ Len(meta) \in Nat
      /\ DOMAIN new = 1 .. Len(new) /\ DOMAIN meta = 1 .. Len(meta)
      /\ \A k \in 1 .. Len(new) : new[k] \in Block /\ new[k] \notin B /\ new[k] \notin Range(meta)
      /\ \A k \in 1 .. Len(meta) : meta[k] \in Block /\ meta[k] \notin B /\ meta[k] \in Range(meta)
  BY INodeIs DEF Range
<1>1. old \subseteq B /\ Data(ino, t) \subseteq B
  BY DEF Owned
<1>2. Growing(ino, t, new, meta)
  <2>1. new \in Seq(Block) /\ meta \in Seq(Block)
    BY SeqMonotonic, Zenon
  <2>2. \A k \in DOMAIN meta : meta[k] \notin PointerBlocks(ino, t)
    BY <1>0, <1>1
  <2>. QED BY <2>1, <2>2 DEF Growing, Owns
<1>3. After(ino, t, new, meta, Len(new), st)
  BY <1>2, BlocksAdded
<1>4. n0 + Len(new) <= MaxBlocks /\ u <= Len(meta)
  BY <1>0 DEF Addable, MetadataToGrow
<1>. HIDE DEF st
<1>5. /\ st \in States /\ n = n0 + Len(new) /\ st.ino.size = ino.size /\ st.used = u
      /\ Apart(st.ino, st.tab) /\ P = old \cup taken
      /\ \A k \in 0 .. n0 - 1 : get_block(st.ino, st.tab, k) = get_block(ino, t, k)
      /\ \A k \in 1 .. Len(new) : get_block(st.ino, st.tab, n0 + k - 1) = new[k]
      /\ \A x \in Block \ P : st.tab[x] = t[x]
  BY <1>3 DEF After
<1>6. st.ino \in INodes /\ st.tab \in Tables /\ u \in Nat /\ n \in Nat
  <2>1. st.ino \in INodes /\ st.tab \in Tables /\ u \in Nat
    BY <1>5, StateIs
  <2>. QED BY <2>1, INodeIs
<1>7. u \in 0 .. Len(meta) /\ taken \subseteq Range(meta) /\ taken \cap B = {} /\ taken \subseteq Block
  <2>. HIDE DEF u
  <2>1. \A k \in 1 .. u : k \in 1 .. Len(meta)
    BY <1>0, <1>4, <1>6
  <2>. QED BY <1>0, <1>4, <1>6, <2>1
<1>. HIDE DEF u, taken, P, old, n, n0
<1>8. \A k \in 0 .. n - 1 : k \in 0 .. n0 - 1 \/ \E l \in 1 .. Len(new) : k = n0 + l - 1
  <2>. SUFFICES ASSUME NEW k \in 0 .. n - 1, k \notin 0 .. n0 - 1
                PROVE  \E l \in 1 .. Len(new) : k = n0 + l - 1
    OBVIOUS
  <2>1. k - n0 + 1 \in 1 .. Len(new) /\ k = n0 + (k - n0 + 1) - 1
    BY <1>0, <1>5
  <2>. QED BY <2>1
<1>9. \A l \in 1 .. Len(new) : n0 + l - 1 \in 0 .. n - 1
  BY <1>0, <1>5
<1>10. \A k \in 0 .. n0 - 1 : k \in 0 .. n - 1
  BY <1>0, <1>5
<1>11. \A k \in 0 .. n0 - 1 : /\ get_block(st.ino, st.tab, k) \in Data(ino, t)
                               /\ get_block(st.ino, st.tab, k) \in Block
                               /\ get_block(st.ino, st.tab, k) \notin P
  BY <1>1, <1>5, <1>7 DEF Data, Owns, old, n0
<1>12. \A l \in 1 .. Len(new) : /\ get_block(st.ino, st.tab, n0 + l - 1) \in Block
                                 /\ get_block(st.ino, st.tab, n0 + l - 1) \notin P
                                 /\ get_block(st.ino, st.tab, n0 + l - 1) \notin Data(ino, t)
  BY <1>0, <1>1, <1>5, <1>7
<1>13. ASSUME NEW k \in 0 .. n - 1, NEW l \in 0 .. n - 1,
              get_block(st.ino, st.tab, k) = get_block(st.ino, st.tab, l)
       PROVE  k = l
  <2>1. CASE k \in 0 .. n0 - 1 /\ l \in 0 .. n0 - 1
    <3>1. get_block(ino, t, k) = get_block(ino, t, l)
      BY <1>5, <1>13, <2>1
    <3>. QED BY <2>1, <3>1 DEF Owns, n0
  <2>2. CASE k \in 0 .. n0 - 1 /\ l \notin 0 .. n0 - 1
    BY <1>8, <1>11, <1>12, <1>13, <2>2
  <2>3. CASE k \notin 0 .. n0 - 1 /\ l \in 0 .. n0 - 1
    BY <1>8, <1>11, <1>12, <1>13, <2>3
  <2>4. CASE k \notin 0 .. n0 - 1 /\ l \notin 0 .. n0 - 1
    <3>1. PICK x \in 1 .. Len(new) : k = n0 + x - 1
      BY <1>8, <2>4
    <3>2. PICK y \in 1 .. Len(new) : l = n0 + y - 1
      BY <1>8, <2>4
    <3>3. new[x] = new[y]
      BY <1>5, <1>13, <3>1, <3>2
    <3>4. x = y
      BY <1>0, <3>3 DEF IsInjective
    <3>. QED BY <3>1, <3>2, <3>4
  <2>. QED BY <2>1, <2>2, <2>3, <2>4
<1>14. Owns(st.ino, st.tab)
  <2>1. \A k \in 0 .. n - 1 : /\ get_block(st.ino, st.tab, k) \in Block
                               /\ get_block(st.ino, st.tab, k) \notin P
    BY <1>8, <1>11, <1>12
  <2>. QED BY <1>5, <1>13, <2>1 DEF Owns, n, P
<1>15. Data(st.ino, st.tab) = Data(ino, t) \cup Range(new)
  <2>1. Data(st.ino, st.tab) = {get_block(st.ino, st.tab, k) : k \in 0 .. n - 1}
    BY DEF Data, n
  <2>2. Data(ino, t) = {get_block(st.ino, st.tab, k) : k \in 0 .. n0 - 1}
    BY <1>5 DEF Data, n0
  <2>3. Range(new) = {get_block(st.ino, st.tab, n0 + k - 1) : k \in 1 .. Len(new)}
    BY <1>0, <1>5 DEF Range
  <2>. QED BY <1>8, <1>9, <1>10, <2>1, <2>2, <2>3
<1>16. Owned(st.ino, st.tab) = Owned(ino, t) \cup Range(new) \cup taken
  BY <1>5, <1>15 DEF Owned, P, old
<1>17. \A x \in Block \ (Owned(ino, t) \cup Range(meta)) : st.tab[x] = t[x]
  BY <1>5, <1>7 DEF Owned, old
<1>. QED BY <1>4, <1>5, <1>6, <1>7, <1>14, <1>16, <1>17 DEF Enlarged, st, n, n0, u, taken

-----------------------------------------------------------------------------
(* The blocks of all files                                                  *)

(* Bitmap B covers the blocks of every file, and no two files share one.    *)
Separate(n, t, B) ==
  \A f \in Files : /\ Owns(n[f], t) /\ Owned(n[f], t) \subseteq B
                   /\ \A g \in Files \ {f} : Owned(n[f], t) \cap Owned(n[g], t) = {}
All(n, t) == UNION {Owned(n[f], t) : f \in Files}

Inodes == [Files -> {ino \in INodes : ino.blocks <= MaxBlocks}]

LEMMA OwnedIs == /\ \A f \in Files : OwnedBlocks(f) = Owned(inode[f], tab)
                 /\ UNION {OwnedBlocks(f) : f \in Files} = All(inode, tab)
<1>1. \A f \in Files : OwnedBlocks(f) = Owned(inode[f], tab)
  BY DEF OwnedBlocks, DataBlocks, Owned, Data
<1>. QED BY <1>1 DEF All

(* Setting the size of a file.                                              *)
LEMMA SeparateResized ==
  ASSUME NEW n, NEW t, NEW B, Separate(n, t, B),
         NEW n2, \A f \in Files : SamePointers(n[f], n2[f])
  PROVE  Separate(n2, t, B) /\ All(n2, t) = All(n, t)
<1>1. \A f \in Files : Owned(n2[f], t) = Owned(n[f], t) /\ Owns(n2[f], t)
  BY SameOwned DEF Separate
<1>. QED BY <1>1 DEF Separate, All

(* Growing one file by blocks that were free.                               *)
FreeBlocks(B, meta, new) ==
  /\ meta \in Seq(Block \ B) /\ IsInjective(meta)
  /\ new \in Seq(Block \ (B \cup Range(meta))) /\ IsInjective(new)
Replaced(n, f, ino, n2) == /\ DOMAIN n2 = Files /\ SamePointers(ino, n2[f])
                           /\ \A g \in Files \ {f} : n2[g] = n[g]

GrownApart(n, t, B, f, meta, new, st, n2) ==
  /\ Separate(n2, st.tab, B \cup Range(meta) \cup Range(new))
  /\ All(n2, st.tab) = All(n, t) \cup Range(new) \cup
       {meta[k] : k \in 1 .. MetadataToGrow(n[f].blocks, Len(new))}
  /\ \A g \in Files \ {f} : \A k \in 0 .. n[g].blocks - 1 :
       get_block(n[g], st.tab, k) = get_block(n[g], t, k)

LEMMA SeparateGrown ==
  ASSUME NEW n \in Inodes, NEW t \in Tables, NEW B \in SUBSET Block, Separate(n, t, B),
         NEW f \in Files, NEW meta, NEW new, FreeBlocks(B, meta, new),
         NEW st, Enlarged(n[f], t, new, meta, st),
         NEW n2, Replaced(n, f, st.ino, n2)
  PROVE  GrownApart(n, t, B, f, meta, new, st, n2)
<1>. DEFINE u == MetadataToGrow(n[f].blocks, Len(new))
            taken == {meta[k] : k \in 1 .. u}
            B2 == B \cup Range(meta) \cup Range(new)
<1>1. /\ Range(meta) \subseteq Block \ B /\ Range(new) \subseteq Block \ (B \cup Range(meta))
      /\ DOMAIN meta = 1 .. Len(meta) /\ Len(meta) \in Nat
  BY RangeOfSeq DEF FreeBlocks
<1>2. /\ u \in 0 .. Len(meta) /\ st.tab \in Tables /\ Owns(st.ino, st.tab)
      /\ Owned(st.ino, st.tab) = Owned(n[f], t) \cup Range(new) \cup taken
      /\ \A x \in Block \ (Owned(n[f], t) \cup Range(meta)) : st.tab[x] = t[x]
  BY DEF Enlarged
<1>3. taken \subseteq Range(meta)
  <2>. HIDE DEF u
  <2>1. \A k \in 1 .. u : k \in DOMAIN meta
    BY <1>1, <1>2
  <2>. QED BY <2>1 DEF Range
<1>. HIDE DEF u, taken
<1>4. Owned(n2[f], st.tab) = Owned(n[f], t) \cup Range(new) \cup taken /\ Owns(n2[f], st.tab)
  BY <1>2, SameOwned DEF Replaced
<1>5. ASSUME NEW g \in Files \ {f}
      PROVE  /\ Owned(n2[g], st.tab) = Owned(n[g], t) /\ Owns(n2[g], st.tab)
             /\ \A k \in 0 .. n[g].blocks - 1 : get_block(n[g], st.tab, k) = get_block(n[g], t, k)
  <2>1. n[g] \in INodes /\ n[g].blocks <= MaxBlocks /\ Owns(n[g], t) /\ Owned(n[g], t) \subseteq B
    BY DEF Inodes, Separate
  <2>2. Owned(n[g], t) \cap Owned(n[f], t) = {}
    BY DEF Separate
  <2>3. PointerBlocks(n[g], t) \subseteq Owned(n[g], t)
    BY DEF Owned
  <2>4. \A x \in PointerBlocks(n[g], t) : st.tab[x] = t[x]
    BY <1>1, <1>2, <2>1, <2>2, <2>3
  <2>5. n2[g] = n[g]
    BY DEF Replaced
  <2>. QED BY <1>2, <2>1, <2>4, <2>5, SameReached
<1>6. ASSUME NEW g \in Files
      PROVE  /\ Owns(n2[g], st.tab) /\ Owned(n2[g], st.tab) \subseteq B2
             /\ \A h \in Files \ {g} : Owned(n2[g], st.tab) \cap Owned(n2[h], st.tab) = {}
  <2>1. \A h \in Files : /\ Owned(n[h], t) \subseteq B
                         /\ \A x \in Files \ {h} : Owned(n[h], t) \cap Owned(n[x], t) = {}
    BY DEF Separate
  <2>. QED BY <1>1, <1>3, <1>4, <1>5, <2>1
<1>7. All(n2, st.tab) = All(n, t) \cup Range(new) \cup taken
  BY <1>4, <1>5 DEF All
<1>. QED BY <1>5, <1>6, <1>7 DEF Separate, GrownApart, taken, u

-----------------------------------------------------------------------------
(* The inductive invariant                                                  *)

Places == SUBSET [file : Files, offset : Nat]

Typed == /\ bits \in SUBSET Block /\ last \in Block
         /\ inode \in Inodes /\ tab \in Tables
         /\ handle \in [Handles -> Places]

IInv == Typed /\ Separate(inode, tab, bits) /\ StorageAccounted

Accounted(B, fr, n, t) == B = {0} \cup All(n, t) /\ fr = ND - Cardinality(B)

LEMMA AccountedIs == /\ StorageAccounted <=> (~short => Accounted(bits, free, inode, tab))
                     /\ StorageAccounted' <=> (~short' => Accounted(bits', free', inode', tab'))
<1>1. UNION {OwnedBlocks(f) : f \in Files} = All(inode, tab)
  BY OwnedIs
<1>2. UNION {OwnedBlocks(f)' : f \in Files} = All(inode', tab')
  BY DEF OwnedBlocks, DataBlocks, Owned, Data, All
<1>. QED BY <1>1, <1>2 DEF StorageAccounted, Accounted

LEMMA Pairs ==
  ASSUME NEW a \in Int, NEW b \in Int
  PROVE  /\ Max({a, b}) = IF a >= b THEN a ELSE b
         /\ Min({a, b}) = IF a <= b THEN a ELSE b
<1>1. Max({a, b}) = IF a >= b THEN a ELSE b
  <2>1. \E x \in {a, b} : \A y \in {a, b} : x >= y
    OBVIOUS
  <2>2. Max({a, b}) \in {a, b} /\ \A y \in {a, b} : Max({a, b}) >= y
    BY <2>1 DEF Max
  <2>. QED BY <2>2
<1>2. Min({a, b}) = IF a <= b THEN a ELSE b
  <2>1. \E x \in {a, b} : \A y \in {a, b} : x <= y
    OBVIOUS
  <2>2. Min({a, b}) \in {a, b} /\ \A y \in {a, b} : Min({a, b}) <= y
    BY <2>1 DEF Min
  <2>. QED BY <2>2
<1>. QED BY <1>1, <1>2

Sized(ino, s) == [ino EXCEPT !.size = s]

LEMMA SizedIs ==
  ASSUME NEW ino \in INodes, NEW s \in Nat
  PROVE  /\ Sized(ino, s) \in INodes /\ SamePointers(ino, Sized(ino, s))
         /\ Sized(ino, s).size = s
BY DEF INodes, SamePointers, Sized

(* The inodes n2 are n, and ino with size s for file f.                     *)
WithSize(n, f, ino, s, n2) ==
  /\ n2 \in Inodes /\ SamePointers(ino, n2[f]) /\ DOMAIN n2 = Files
  /\ n2[f].size = s
  /\ \A g \in Files \ {f} : n2[g] = n[g]

LEMMA InodeResized ==
  ASSUME NEW n \in Inodes, NEW f \in Files, NEW ino \in INodes, ino.blocks <= MaxBlocks,
         NEW s \in Nat
  PROVE  WithSize(n, f, ino, s, [n EXCEPT ![f] = Sized(ino, s)])
<1>. DEFINE y == Sized(ino, s)
            n2 == [n EXCEPT ![f] = y]
<1>1. y \in INodes /\ SamePointers(ino, y) /\ y.size = s
  BY SizedIs
<1>. HIDE DEF y
<1>2. y.blocks = ino.blocks
  BY <1>1 DEF SamePointers
<1>3. n2 \in Inodes /\ DOMAIN n2 = Files /\ n2[f] = y /\ \A g \in Files \ {f} : n2[g] = n[g]
  BY <1>1, <1>2 DEF Inodes
<1>. QED BY <1>1, <1>3 DEF WithSize, y

LEMMA Moving ==
  ASSUME Typed, NEW h \in Handles, NEW f \in Files, NEW at \in Nat, MovedTo(h, f, at)
  PROVE  handle' \in [Handles -> Places]
<1>1. {[file |-> f, offset |-> at]} \in Places
  BY DEF Places
<1>. QED BY <1>1 DEF MovedTo, Typed

(* Steps that change no storage, and of the inodes at most sizes.           *)
LEMMA StorageKept ==
  ASSUME IInv, handle' \in [Handles -> Places], inode' \in Inodes,
         \A f \in Files : SamePointers(inode[f], inode'[f]),
         bits' = bits, last' \in Block, free' = free, tab' = tab, short' = short
  PROVE  IInv'
<1>1. Separate(inode', tab, bits) /\ All(inode', tab) = All(inode, tab)
  BY SeparateResized DEF IInv
<1>2. StorageAccounted'
  BY <1>1, AccountedIs DEF IInv, Accounted
<1>. QED BY <1>1, <1>2 DEF IInv, Typed

LEMMA AllSame == \A f \in Files : SamePointers(inode[f], inode[f])
BY DEF SamePointers

-----------------------------------------------------------------------------
(* Allocation                                                               *)

LEMMA Found ==
  ASSUME NEW B, NEW x \in Block, NEW n \in Nat
  PROVE  LET s == DMap!find_free(B, x, n)
         IN  s \in Seq(Block \ B) /\ Len(s) <= n /\ IsInjective(s)
<1>1. ByteBits \in Nat \ {0} /\ BlockBits \in Nat \ {0} /\ ND \in Nat /\ x \in Int
  BY FileAssumption DEF Block
<1>2. DMap!find_free(B, x, n) = DProofs!find_free(B, x, n)
  BY DEF DMap!find_free, DProofs!find_free, DMap!Searched, DProofs!Searched,
         DMap!FirstPass, DProofs!FirstPass, DMap!SecondPass, DProofs!SecondPass,
         DMap!SearchedBefore, DProofs!SearchedBefore, DMap!StartOfByte, DProofs!StartOfByte,
         DMap!StartOfBlock, DProofs!StartOfBlock, DMap!Mapped, DProofs!Mapped, DMap!Index, DProofs!Index,
         DMap!Cardinality, DProofs!Cardinality, DMap!IsFiniteSet, DProofs!IsFiniteSet
<1>3. Block = DProofs!Index
  BY DEF Block, DProofs!Index
<1>. DEFINE g == DProofs!find_free(B, x, n)
<1>4. /\ g \in Seq(DProofs!Index \ B)
      /\ Len(g) <= n
      /\ \A k, l \in DOMAIN g : g[k] = g[l] => k = l
  BY <1>1, DProofs!FindFree
<1>. QED BY <1>2, <1>3, <1>4 DEF IsInjective

LEMMA LastFound ==
  ASSUME NEW x \in Block, NEW S, S \subseteq Block, NEW s \in Seq(S)
  PROVE  DMap!last_alloc(x, s) \in Block
<1>1. DOMAIN s = 1 .. Len(s) /\ Len(s) \in Nat
  OBVIOUS
<1>2. Cardinality(1 .. Len(s)) = Len(s)
  BY <1>1, FS_Interval
<1>3. DMap!Cardinality(1 .. Len(s)) = Cardinality(1 .. Len(s))
  BY DEF Cardinality, DMap!Cardinality, IsFiniteSet, DMap!IsFiniteSet
<1>. QED BY <1>1, <1>2, <1>3 DEF DMap!last_alloc

LEMMA GrowthIsNat ==
  ASSUME NEW n \in Nat, NEW k \in Nat
  PROVE  MetadataToGrow(n, k) \in Nat
<1>1. n + k \in Nat /\ n <= n + k
  OBVIOUS
<1>2. MetadataBlocks(n) \in Nat /\ MetadataBlocks(n + k) \in Nat
  BY <1>1, MetaStep
<1>3. MetadataBlocks(n) <= MetadataBlocks(n + k)
  BY <1>1, MetaMono
<1>. QED BY <1>2, <1>3 DEF MetadataToGrow

-----------------------------------------------------------------------------
(* write                                                                    *)

LEMMA WantIsInt ==
  ASSUME NEW ino \in INodes, NEW at \in Nat, NEW n \in Nat \ {0}
  PROVE  ToAlloc(ino, at, n) \in Int
<1>1. at + n - 1 \in Nat /\ BlockSize \in Nat \ {0} /\ IndexMod \in Nat \ {0}
  BY FileAssumption
<1>2. (at + n - 1) \div BlockSize \in Nat
  BY <1>1, DivMod
<1>3. BlockIndex(at + n - 1) \in Int
  BY <1>1, <1>2, DivMod DEF BlockIndex
<1>4. ino.blocks \in Int
  BY INodeIs
<1>. QED BY <1>3, <1>4 DEF ToAlloc

LEMMA StartIsNat ==
  ASSUME NEW at \in Nat
  PROVE  Start(at) \in Nat
<1>1. BlockSize \in Nat \ {0} /\ IndexMod \in Nat \ {0}
  BY FileAssumption
<1>2. at \div BlockSize \in Nat /\ at % BlockSize \in Nat
  BY <1>1, DivMod
<1>3. BlockIndex(at) \in Nat
  BY <1>1, <1>2, DivMod DEF BlockIndex
<1>. QED BY <1>1, <1>2, <1>3 DEF Start

(* What Stored does to inodes and handles.                                  *)
Written(ino, at, n) == Max({0, Min({n, ino.blocks * BlockSize - Start(at)})})

LEMMA ClippedIsNat ==
  ASSUME NEW n \in Nat, NEW r \in Int
  PROVE  Max({0, Min({n, r})}) \in Nat
<1>. DEFINE x == Min({n, r})
<1>1. x \in Int
  <2>1. n \in Int /\ r \in Int
    OBVIOUS
  <2>2. Min({n, r}) = IF n <= r THEN n ELSE r
    BY <2>1, Pairs
  <2>. QED BY <2>1, <2>2
<1>. HIDE DEF x
<1>2. Max({0, x}) = IF 0 >= x THEN 0 ELSE x
  BY <1>1, Pairs
<1>3. Max({0, x}) \in Nat
  BY <1>1, <1>2
<1>. QED BY <1>3 DEF x

LEMMA WrittenIsNat ==
  ASSUME NEW ino \in INodes, NEW at \in Nat, NEW n \in Nat
  PROVE  Written(ino, at, n) \in Nat
<1>. DEFINE r == ino.blocks * BlockSize - Start(at)
<1>1. r \in Int
  <2>1. Start(at) \in Nat /\ ino.blocks \in Nat /\ BlockSize \in Nat
    BY StartIsNat, INodeIs, FileAssumption
  <2>. QED BY <2>1
<1>. HIDE DEF r
<1>2. Max({0, Min({n, r})}) \in Nat
  BY <1>1, ClippedIsNat
<1>. QED BY <1>2 DEF Written, r

StoredIn(f, at, n, ino, t) ==
  /\ tab' = t /\ inode' \in Inodes /\ SamePointers(ino, inode'[f])
  /\ inode'[f].size = Max({ino.size, at + Written(ino, at, n)})
  /\ \A g \in Files \ {f} : inode'[g] = inode[g]
  /\ handle' \in [Handles -> Places]

LEMMA StoredIs ==
  ASSUME Typed, NEW h \in Handles, NEW f \in Files, NEW at \in Nat, NEW n \in Nat, NEW v,
         NEW ino \in INodes, ino.blocks <= MaxBlocks, NEW t, NEW d,
         Stored(h, f, at, n, v, ino, t, d)
  PROVE  StoredIn(f, at, n, ino, t)
<1>. DEFINE w == Written(ino, at, n)
            s == Max({ino.size, at + w})
<1>1. w \in Nat
  BY WrittenIsNat
<1>2. /\ tab' = t /\ inode' = [inode EXCEPT ![f] = [ino EXCEPT !.size = s]]
      /\ MovedTo(h, f, at + w)
  BY DEF Stored, Written
<1>. HIDE DEF w
<1>3. s \in Nat
  BY <1>1, INodeIs, Pairs
<1>. HIDE DEF s
<1>4. handle' \in [Handles -> Places]
  BY <1>1, <1>2, Moving
<1>5. /\ inode' \in Inodes /\ SamePointers(ino, inode'[f]) /\ inode'[f].size = s
      /\ \A g \in Files \ {f} : inode'[g] = inode[g]
  <2>1. inode \in Inodes
    BY DEF Typed
  <2>2. inode' = [inode EXCEPT ![f] = Sized(ino, s)]
    BY <1>2 DEF Sized
  <2>3. WithSize(inode, f, ino, s, inode')
    BY <1>3, <2>1, <2>2, InodeResized
  <2>. QED BY <2>3 DEF WithSize
<1>. QED BY <1>2, <1>4, <1>5 DEF StoredIn, s, w

(* The blocks a write finds: pointer blocks, then data blocks.              *)
Allocation(want, m, meta, bits1, last1, new) ==
  /\ meta \in Seq(Block \ bits) /\ Len(meta) <= m /\ IsInjective(meta)
  /\ bits1 = bits \cup Range(meta) /\ bits1 \subseteq Block /\ last1 \in Block
  /\ new \in Seq(Block \ (bits \cup Range(meta))) /\ Len(new) <= want /\ IsInjective(new)
  /\ Range(meta) \subseteq Block \ bits /\ Range(new) \subseteq Block \ bits1
  /\ DMap!allocate(bits1, new) = bits \cup Range(meta) \cup Range(new)
  /\ DMap!last_alloc(last1, new) \in Block
  /\ Returned(bits1, meta) = bits

LEMMA WriteAllocates ==
  ASSUME Typed, NEW want \in Nat, NEW m \in Nat
  PROVE  LET meta  == DMap!find_free(bits, last, m)
             bits1 == DMap!allocate(bits, meta)
             last1 == DMap!last_alloc(last, meta)
             new   == DMap!find_free(bits1, last1, want)
         IN  Allocation(want, m, meta, bits1, last1, new)
<1>. DEFINE meta  == DMap!find_free(bits, last, m)
            bits1 == DMap!allocate(bits, meta)
            last1 == DMap!last_alloc(last, meta)
            new   == DMap!find_free(bits1, last1, want)
<1>0. bits \subseteq Block /\ last \in Block
  BY DEF Typed
<1>1. meta \in Seq(Block \ bits) /\ Len(meta) <= m /\ IsInjective(meta)
  BY <1>0, Found
<1>. HIDE DEF meta
<1>2. bits1 = bits \cup Range(meta) /\ Range(meta) \subseteq Block \ bits
  BY <1>1, RangeOfSeq DEF DMap!allocate, Range
<1>3. last1 \in Block
  BY <1>0, <1>1, LastFound
<1>4. Returned(bits1, meta) = bits
  <2>1. Returned(bits1, meta) = bits1 \ Range(meta)
    BY DEF Returned, DMap!deallocate, Range
  <2>. QED BY <1>2, <2>1
<1>. HIDE DEF bits1, last1
<1>5. new \in Seq(Block \ bits1) /\ Len(new) <= want /\ IsInjective(new)
  BY <1>3, Found
<1>. HIDE DEF new
<1>6. Range(new) \subseteq Block \ bits1
  BY <1>5, RangeOfSeq
<1>7. DMap!allocate(bits1, new) = bits \cup Range(meta) \cup Range(new)
  BY <1>2 DEF DMap!allocate, Range
<1>8. DMap!last_alloc(last1, new) \in Block
  BY <1>3, <1>5, LastFound
<1>9. bits1 \subseteq Block
  BY <1>0, <1>2
<1>10. Allocation(want, m, meta, bits1, last1, new)
  BY <1>1, <1>2, <1>3, <1>4, <1>5, <1>6, <1>7, <1>8, <1>9 DEF Allocation
<1>. QED BY <1>10 DEF meta, bits1, last1, new

(* The cases of a write.                                                    *)
WriteGrows(h, f, at, n, v, want, m, meta, new) ==
  LET ino   == inode[f]
      grown == add_blocks(ino, tab, new, meta)
  IN  /\ want \in Nat \ {0} /\ m = MetadataToGrow(ino.blocks, want) /\ m \in Nat
      /\ want = ToAlloc(ino, at, n)
      /\ meta \in Seq(Block \ bits) /\ Len(meta) = m /\ IsInjective(meta)
      /\ new \in Seq(Block \ (bits \cup Range(meta))) /\ Len(new) <= want /\ IsInjective(new)
      /\ new # <<>>
      /\ Range(meta) \subseteq Block \ bits
      /\ Range(new) \subseteq Block \ (bits \cup Range(meta))
      /\ bits' = bits \cup Range(meta) \cup Range(new) /\ last' \in Block
      /\ \/ /\ Addable(ino, new, meta)
            /\ free' = free - (Len(new) + m)
            /\ short' = (short \/ Len(new) < want)
            /\ Stored(h, f, at, n, v, grown.ino, grown.tab, Zeroed(data, new))
         \/ /\ data' = Zeroed(data, new) /\ short' = TRUE
            /\ WriteFails(h, f, at)
            /\ UNCHANGED <<free, tab, inode>>

LEMMA WriteCases ==
  ASSUME Typed, NEW h \in Handles, NEW f \in Files, NEW at \in Nat, NEW n \in Nat \ {0}, NEW v,
         WriteAt(h, f, at, n, v)
  PROVE  \/ /\ Stored(h, f, at, n, v, inode[f], tab, data)
            /\ ToAlloc(inode[f], at, n) <= 0
            /\ UNCHANGED <<bits, last, free, short>>
         \/ /\ WriteFails(h, f, at)
            /\ bits' = bits /\ last' \in Block /\ UNCHANGED <<free, data, tab, short, inode>>
         \/ \E want, m, meta, new : WriteGrows(h, f, at, n, v, want, m, meta, new)
<1>. DEFINE ino   == inode[f]
            want  == ToAlloc(ino, at, n)
            m     == Pointers(ino, want)
            meta  == DMap!find_free(bits, last, m)
            bits1 == DMap!allocate(bits, meta)
            last1 == DMap!last_alloc(last, meta)
            new   == DMap!find_free(bits1, last1, want)
            grown == add_blocks(ino, tab, new, meta)
<1>0. ino \in INodes /\ want \in Int /\ last \in Block /\ ino.blocks \in Nat
  <2>1. ino \in INodes /\ last \in Block
    BY DEF Typed, Inodes
  <2>. QED BY <2>1, WantIsInt, INodeIs
<1>1. \/ /\ want <= 0
         /\ Stored(h, f, at, n, v, ino, tab, data)
         /\ UNCHANGED <<bits, last, free, short>>
      \/ /\ want > 0 /\ Len(meta) < m
         /\ WriteFails(h, f, at)
         /\ UNCHANGED <<storage, inode>>
      \/ /\ want > 0 /\ Len(meta) = m /\ new = <<>>
         /\ bits' = Returned(bits1, meta) /\ last' = last1
         /\ WriteFails(h, f, at)
         /\ UNCHANGED <<free, data, tab, short, inode>>
      \/ /\ want > 0 /\ Len(meta) = m /\ new # <<>>
         /\ bits' = DMap!allocate(bits1, new) /\ last' = DMap!last_alloc(last1, new)
         /\ \/ /\ Addable(ino, new, meta)
               /\ free' = free - (Len(new) + m)
               /\ short' = (short \/ Len(new) < want)
               /\ Stored(h, f, at, n, v, grown.ino, grown.tab, Zeroed(data, new))
            \/ /\ data' = Zeroed(data, new) /\ short' = TRUE
               /\ WriteFails(h, f, at)
               /\ UNCHANGED <<free, tab, inode>>
  BY Zenon DEF WriteAt
<1>2. ASSUME want > 0
      PROVE  m = MetadataToGrow(ino.blocks, want) /\ m \in Nat /\ want \in Nat \ {0}
             /\ Allocation(want, m, meta, bits1, last1, new)
  <2>1. want \in Nat \ {0}
    <3>. HIDE DEF want
    <3>. QED BY <1>0, <1>2
  <2>2. m = MetadataToGrow(ino.blocks, want)
    BY DEF Pointers
  <2>. HIDE DEF ino, want
  <2>3. m \in Nat
    BY <1>0, <2>1, <2>2, GrowthIsNat
  <2>. HIDE DEF m
  <2>4. want \in Nat
    BY <2>1
  <2>5. Allocation(want, m, meta, bits1, last1, new)
    BY <2>3, <2>4, WriteAllocates, Zenon
  <2>. QED BY <2>1, <2>2, <2>3, <2>5
<1>3. CASE want <= 0 /\ Stored(h, f, at, n, v, ino, tab, data) /\ UNCHANGED <<bits, last, free, short>>
  BY <1>3
<1>. HIDE DEF want, m, meta, bits1, last1, new
<1>4. CASE want > 0 /\ Len(meta) < m /\ WriteFails(h, f, at) /\ UNCHANGED <<storage, inode>>
  BY <1>0, <1>4 DEF storage
<1>5. CASE /\ want > 0 /\ Len(meta) = m /\ new = <<>>
           /\ bits' = Returned(bits1, meta) /\ last' = last1
           /\ WriteFails(h, f, at)
           /\ UNCHANGED <<free, data, tab, short, inode>>
  BY <1>2, <1>5 DEF Allocation
<1>6. CASE /\ want > 0 /\ Len(meta) = m /\ new # <<>>
           /\ bits' = DMap!allocate(bits1, new) /\ last' = DMap!last_alloc(last1, new)
           /\ \/ /\ Addable(ino, new, meta)
                 /\ free' = free - (Len(new) + m)
                 /\ short' = (short \/ Len(new) < want)
                 /\ Stored(h, f, at, n, v, grown.ino, grown.tab, Zeroed(data, new))
              \/ /\ data' = Zeroed(data, new) /\ short' = TRUE
                 /\ WriteFails(h, f, at)
                 /\ UNCHANGED <<free, tab, inode>>
  <2>1. /\ m = MetadataToGrow(ino.blocks, want) /\ m \in Nat /\ want \in Nat \ {0}
        /\ Allocation(want, m, meta, bits1, last1, new)
    BY <1>2, <1>6
  <2>2. WriteGrows(h, f, at, n, v, want, m, meta, new)
    BY <1>6, <2>1 DEF WriteGrows, Allocation, want
  <2>. QED BY <2>2
<1>. QED BY <1>1, <1>3, <1>4, <1>5, <1>6

(* Blocks that were free are as many more in the bitmap.                    *)
LEMMA BitsAdded ==
  ASSUME NEW B \in SUBSET Block, NEW a, NEW b, IsInjective(a), IsInjective(b),
         a \in Seq(Block \ B), b \in Seq(Block \ (B \cup Range(a)))
  PROVE  /\ Cardinality(B \cup Range(a) \cup Range(b)) = Cardinality(B) + Len(a) + Len(b)
         /\ Cardinality(B) \in Nat
<1>1. IsFiniteSet(B)
  <2>1. IsFiniteSet(Block)
    BY FS_Interval, FileAssumption DEF Block
  <2>. QED BY <2>1, FS_Subset
<1>2. IsFiniteSet(Range(a)) /\ Cardinality(Range(a)) = Len(a) /\ Range(a) \cap B = {}
  BY SequenceSize, RangeOfSeq
<1>3. IsFiniteSet(Range(b)) /\ Cardinality(Range(b)) = Len(b) /\ Range(b) \cap (B \cup Range(a)) = {}
  BY SequenceSize, RangeOfSeq
<1>. DEFINE B1 == B \cup Range(a)
<1>4. IsFiniteSet(B1) /\ Cardinality(B1) = Cardinality(B) + Len(a) /\ Cardinality(B) \in Nat
  BY <1>1, <1>2, DisjointSize
<1>5. B1 \cap Range(b) = {}
  BY <1>3
<1>. HIDE DEF B1
<1>6. Cardinality(B1 \cup Range(b)) = Cardinality(B1) + Len(b)
  BY <1>3, <1>4, <1>5, DisjointSize
<1>. QED BY <1>4, <1>6 DEF B1

LEMMA GrowthKept ==
  ASSUME IInv, NEW h \in Handles, NEW f \in Files, NEW at \in Nat, NEW n \in Nat \ {0}, NEW v,
         NEW want, NEW m, NEW meta, NEW new, WriteGrows(h, f, at, n, v, want, m, meta, new)
  PROVE  IInv'
<1>. DEFINE ino == inode[f]
            st == add_blocks(ino, tab, new, meta)
            B2 == bits \cup Range(meta) \cup Range(new)
<1>0. /\ bits \in SUBSET Block /\ inode \in Inodes /\ tab \in Tables /\ ino \in INodes
      /\ Separate(inode, tab, bits) /\ Owns(ino, tab) /\ Owned(ino, tab) \subseteq bits
      /\ Typed
  BY DEF IInv, Typed, Inodes, Separate
<1>1. /\ want \in Nat \ {0} /\ m \in Nat /\ m = MetadataToGrow(ino.blocks, want)
      /\ meta \in Seq(Block \ bits) /\ Len(meta) = m /\ IsInjective(meta)
      /\ new \in Seq(Block \ (bits \cup Range(meta))) /\ Len(new) <= want /\ IsInjective(new)
      /\ Range(meta) \subseteq Block \ bits
      /\ Range(new) \subseteq Block \ (bits \cup Range(meta))
      /\ bits' = B2 /\ last' \in Block /\ B2 \subseteq Block
  BY <1>0 DEF WriteGrows
<1>2. CASE /\ data' = Zeroed(data, new) /\ short' = TRUE
           /\ WriteFails(h, f, at)
           /\ UNCHANGED <<free, tab, inode>>
  <2>1. handle' \in [Handles -> Places]
    BY <1>0, <1>2, Moving DEF WriteFails
  <2>2. Separate(inode, tab, B2)
    BY <1>0 DEF Separate
  <2>3. StorageAccounted'
    BY <1>2, AccountedIs
  <2>. HIDE DEF B2
  <2>. QED BY <1>0, <1>1, <1>2, <2>1, <2>2, <2>3 DEF IInv, Typed
<1>3. CASE /\ Addable(ino, new, meta)
           /\ free' = free - (Len(new) + m)
           /\ short' = (short \/ Len(new) < want)
           /\ Stored(h, f, at, n, v, st.ino, st.tab, Zeroed(data, new))
  <2>1. Enlarged(ino, tab, new, meta, st)
    BY <1>0, <1>1, <1>3, FileGrown
  <2>. HIDE DEF st
  <2>2. st.ino \in INodes /\ st.ino.blocks <= MaxBlocks /\ st.tab \in Tables
    BY <2>1 DEF Enlarged
  <2>3. n \in Nat
    OBVIOUS
  <2>4. /\ tab' = st.tab /\ inode' \in Inodes /\ SamePointers(st.ino, inode'[f])
        /\ \A g \in Files \ {f} : inode'[g] = inode[g]
        /\ handle' \in [Handles -> Places]
    <3>1. Stored(h, f, at, n, v, st.ino, st.tab, Zeroed(data, new)) /\ Typed
      BY <1>0, <1>3
    <3>2. StoredIn(f, at, n, st.ino, st.tab)
      BY <2>2, <2>3, <3>1, StoredIs
    <3>. QED BY <3>2 DEF StoredIn
  <2>5. Replaced(inode, f, st.ino, inode') /\ FreeBlocks(bits, meta, new)
    <3>1. DOMAIN inode' = Files
      BY <2>4 DEF Inodes
    <3>. QED BY <1>1, <2>4, <3>1 DEF Replaced, FreeBlocks
  <2>6. /\ Separate(inode', st.tab, B2)
        /\ All(inode', st.tab) = All(inode, tab) \cup Range(new) \cup
             {meta[k] : k \in 1 .. MetadataToGrow(ino.blocks, Len(new))}
    <3>1. GrownApart(inode, tab, bits, f, meta, new, st, inode')
      <4>1. Enlarged(inode[f], tab, new, meta, st)
        BY <2>1
      <4>. HIDE DEF ino, B2
      <4>. QED BY <1>0, <4>1, <2>5, SeparateGrown
    <3>. QED BY <3>1 DEF GrownApart
  <2>7. ASSUME ~short'
        PROVE  Accounted(bits', free', inode', tab')
    <3>1. ~short /\ Len(new) = want
      <4>1. ~(short \/ Len(new) < want)
        <5>1. short' = (short \/ Len(new) < want)
          BY <1>3
        <5>. QED BY <2>7, <5>1, Zenon
      <4>2. Len(new) \in Nat /\ want \in Nat /\ Len(new) <= want
        BY <1>1
      <4>3. ~short /\ ~(Len(new) < want)
        BY <4>1, Zenon
      <4>. QED BY <4>2, <4>3
    <3>2. bits = {0} \cup All(inode, tab) /\ free = ND - Cardinality(bits)
      BY <3>1, AccountedIs DEF IInv, Accounted
    <3>3. {meta[k] : k \in 1 .. MetadataToGrow(ino.blocks, Len(new))} = Range(meta)
      <4>1. MetadataToGrow(ino.blocks, Len(new)) = Len(meta)
        BY <1>1, <3>1
      <4>2. DOMAIN meta = 1 .. Len(meta)
        BY <1>1
      <4>. QED BY <4>1, <4>2 DEF Range
    <3>4. B2 = {0} \cup All(inode', tab')
      BY <2>4, <2>6, <3>2, <3>3
    <3>5. Cardinality(B2) = Cardinality(bits) + Len(meta) + Len(new) /\ Cardinality(bits) \in Nat
      BY <1>0, <1>1, BitsAdded
    <3>. HIDE DEF B2
    <3>6. Len(new) \in Nat /\ Len(meta) \in Nat /\ ND \in Nat
      BY <1>1, FileAssumption
    <3>7. free' = ND - Cardinality(B2)
      BY <1>1, <1>3, <3>2, <3>5, <3>6
    <3>. QED BY <1>1, <3>4, <3>7 DEF Accounted
  <2>8. StorageAccounted'
    BY <2>7, AccountedIs
  <2>. HIDE DEF B2
  <2>. QED BY <1>1, <2>2, <2>4, <2>6, <2>8 DEF IInv, Typed
<1>. QED BY <1>2, <1>3 DEF WriteGrows

LEMMA WriteKept ==
  ASSUME IInv, NEW h \in Handles, NEW f \in Files, NEW at \in Nat, NEW n \in Nat \ {0}, NEW v,
         WriteAt(h, f, at, n, v)
  PROVE  IInv'
<1>0. Typed /\ inode \in Inodes /\ inode[f] \in INodes /\ inode[f].blocks <= MaxBlocks
      /\ last \in Block /\ n \in Nat
  BY DEF IInv, Typed, Inodes
<1>1. CASE Stored(h, f, at, n, v, inode[f], tab, data) /\ UNCHANGED <<bits, last, free, short>>
  <2>1. /\ tab' = tab /\ inode' \in Inodes /\ SamePointers(inode[f], inode'[f])
        /\ \A g \in Files \ {f} : inode'[g] = inode[g]
        /\ handle' \in [Handles -> Places]
    <3>1. StoredIn(f, at, n, inode[f], tab)
      BY <1>0, <1>1, StoredIs
    <3>. QED BY <3>1 DEF StoredIn
  <2>2. \A g \in Files : SamePointers(inode[g], inode'[g])
    BY <2>1, AllSame
  <2>. QED BY <1>0, <1>1, <2>1, <2>2, StorageKept
<1>2. CASE /\ WriteFails(h, f, at)
           /\ bits' = bits /\ last' \in Block /\ UNCHANGED <<free, data, tab, short, inode>>
  <2>1. handle' \in [Handles -> Places]
    BY <1>0, <1>2, Moving DEF WriteFails
  <2>. QED BY <1>0, <1>2, <2>1, AllSame, StorageKept
<1>3. CASE \E want, m, meta, new : WriteGrows(h, f, at, n, v, want, m, meta, new)
  BY <1>3, GrowthKept
<1>. QED BY <1>0, <1>1, <1>2, <1>3, WriteCases

-----------------------------------------------------------------------------
(* The steps                                                                *)

(* Steps of the handles alone.                                              *)
LEMMA StorageSame ==
  ASSUME IInv, UNCHANGED <<storage, inode>>, handle' \in [Handles -> Places]
  PROVE  IInv'
<1>1. UNCHANGED <<bits, last, free, tab, short, inode>>
  BY DEF storage
<1>2. \A f \in Files : SamePointers(inode[f], inode'[f])
  BY <1>1, AllSame
<1>3. inode' \in Inodes /\ last' \in Block
  BY <1>1 DEF IInv, Typed
<1>. QED BY <1>1, <1>2, <1>3, StorageKept

LEMMA SeekKept ==
  ASSUME IInv, NEW h \in Handles, NEW f \in Files, NEW x \in Nat,
         MovedTo(h, f, x), UNCHANGED <<storage, inode>>
  PROVE  IInv'
<1>1. handle' \in [Handles -> Places]
  BY Moving DEF IInv
<1>. QED BY <1>1, StorageSame

LEMMA ReadKept ==
  ASSUME IInv, NEW h \in Handles, NEW f \in Files, NEW at \in Nat, NEW n \in Nat,
         ReadAt(h, f, at, n)
  PROVE  IInv'
<1>. DEFINE len == ReadLength(inode[f], at, n)
            ok == inode[f].blocks * BlockSize >= inode[f].size
<1>1. inode[f].size \in Nat
  BY DEF IInv, Typed, Inodes, INodes
<1>. DEFINE r == inode[f].size - at
<1>2. r \in Int
  BY <1>1
<1>. HIDE DEF r
<1>3. len \in Nat
  <2>1. Max({0, Min({n, r})}) \in Nat
    BY <1>2, ClippedIsNat
  <2>. QED BY <2>1 DEF ReadLength, r
<1>4. MovedTo(h, f, IF ok THEN at + len ELSE at) /\ UNCHANGED <<storage, inode>>
  BY DEF ReadAt
<1>. HIDE DEF len, ok
<1>5. (IF ok THEN at + len ELSE at) \in Nat
  BY <1>3
<1>. QED BY <1>4, <1>5, SeekKept

LEMMA CutKept ==
  ASSUME IInv, NEW f \in Files, NEW s \in Nat, SetSize(f, s)
  PROVE  IInv'
<1>1. /\ Typed /\ inode \in Inodes /\ inode[f] \in INodes /\ inode[f].blocks <= MaxBlocks
      /\ last \in Block /\ handle \in [Handles -> Places]
  BY DEF IInv, Typed, Inodes
<1>2. /\ inode' = [inode EXCEPT ![f] = Sized(inode[f], s)]
      /\ UNCHANGED <<bits, last, free, tab, short, handle>>
  BY DEF SetSize, Sized, storage
<1>3. WithSize(inode, f, inode[f], s, inode')
  BY <1>1, <1>2, InodeResized
<1>4. inode' \in Inodes /\ \A g \in Files : SamePointers(inode[g], inode'[g])
  BY <1>3, AllSame DEF WithSize
<1>. QED BY <1>1, <1>2, <1>4, StorageKept

LEMMA Starts == Init => IInv
<1>. SUFFICES ASSUME Init PROVE IInv
  OBVIOUS
<1>0. 0 \in Block /\ MaxBlocks \in Nat /\ Direct \in Nat /\ Indirect \in Nat /\ ND \in Nat
  BY FileAssumption, PointerAssumption DEF Block
<1>1. EmptyINode \in INodes /\ EmptyINode.blocks = 0
  BY DEF EmptyINode, INodes, Invalid
<1>2. inode \in Inodes /\ \A f \in Files : inode[f] = EmptyINode
  BY <1>0, <1>1 DEF Init, Inodes
<1>3. Typed
  <2>1. bits \in SUBSET Block /\ last \in Block
    BY <1>0 DEF Init
  <2>2. tab \in Tables
    BY DEF Init, Tables
  <2>3. handle \in [Handles -> Places]
    BY DEF Init, Places
  <2>. QED BY <1>2, <2>1, <2>2, <2>3 DEF Typed
<1>4. \A f \in Files : Owned(inode[f], tab) = {} /\ Owns(inode[f], tab)
  <2>. SUFFICES ASSUME NEW f \in Files PROVE Owned(inode[f], tab) = {} /\ Owns(inode[f], tab)
    OBVIOUS
  <2>1. inode[f].blocks = 0
    BY <1>1, <1>2
  <2>2. PointerBlocks(inode[f], tab) = {}
    BY <1>0, <2>1 DEF PointerBlocks
  <2>3. 0 .. inode[f].blocks - 1 = {}
    BY <2>1
  <2>4. Data(inode[f], tab) = {}
    BY <2>3 DEF Data
  <2>5. Apart(inode[f], tab)
    BY <1>0, <2>1 DEF Apart
  <2>. QED BY <2>2, <2>3, <2>4, <2>5 DEF Owned, Owns
<1>5. Separate(inode, tab, bits)
  BY <1>4 DEF Separate
<1>6. All(inode, tab) = {}
  BY <1>4 DEF All
<1>7. Accounted(bits, free, inode, tab)
  <2>1. Cardinality({0}) = 1
    BY FS_Singleton
  <2>. QED BY <1>6, <2>1 DEF Init, Accounted
<1>. QED BY <1>3, <1>5, <1>7, AccountedIs DEF IInv

LEMMA Steps == IInv /\ [Next]_vars => IInv'
<1>. SUFFICES ASSUME IInv, [Next]_vars PROVE IInv'
  OBVIOUS
<1>0. Seeks \subseteq Nat /\ Lens \subseteq Nat \ {0} /\ Cuts \subseteq Nat
  BY FileAssumption
<1>1. \A h \in Handles : \A o \in handle[h] : o.file \in Files /\ o.offset \in Nat
  BY DEF IInv, Typed, Places
<1>2. CASE UNCHANGED vars
  <2>1. UNCHANGED <<storage, inode>> /\ handle' \in [Handles -> Places]
    BY <1>2 DEF vars, storage, IInv, Typed
  <2>. QED BY <2>1, StorageSame
<1>3. ASSUME NEW h \in Handles, NEW f \in Files, open_file(h, f) PROVE IInv'
  BY <1>3, SeekKept DEF open_file
<1>4. ASSUME NEW h \in Handles, close_file(h) PROVE IInv'
  <2>1. handle' \in [Handles -> Places]
    BY <1>4 DEF close_file, IInv, Typed, Places
  <2>. QED BY <1>4, <2>1, StorageSame DEF close_file
<1>5. ASSUME NEW h \in Handles, NEW o \in handle[h], NEW x \in Seeks, seek(h, o, x) PROVE IInv'
  BY <1>0, <1>1, <1>5, SeekKept DEF seek
<1>6. ASSUME NEW h \in Handles, NEW o \in handle[h], NEW x \in Seeks, seek_current(h, o, -x)
      PROVE  IInv'
  <2>1. Max({0, o.offset + -x}) \in Nat
    BY <1>0, <1>1, Pairs
  <2>. QED BY <1>1, <1>6, <2>1, SeekKept DEF seek, seek_current
<1>7. ASSUME NEW h \in Handles, NEW o \in handle[h], seek_end(h, o, -1) PROVE IInv'
  <2>1. inode[o.file].size \in Nat
    BY <1>1 DEF IInv, Typed, Inodes, INodes
  <2>2. Max({0, inode[o.file].size + -1}) \in Nat
    BY <2>1, Pairs
  <2>. QED BY <1>1, <1>7, <2>2, SeekKept DEF seek, seek_end
<1>8. ASSUME NEW h \in Handles, NEW o \in handle[h], NEW n \in Lens,
             read(h, o, n) \/ \E at \in Seeks : fuse_read(h, o, at, n)
      PROVE  IInv'
  <2>1. n \in Nat /\ o.file \in Files /\ o.offset \in Nat
    BY <1>0, <1>1
  <2>2. PICK at \in Nat : ReadAt(h, o.file, at, n)
    BY <1>0, <1>8, <2>1 DEF read, fuse_read
  <2>. QED BY <2>1, <2>2, ReadKept
<1>9. ASSUME NEW h \in Handles, NEW o \in handle[h], NEW n \in Lens, NEW v \in Values,
             write(h, o, n, v) \/ \E at \in Seeks : fuse_write(h, o, at, n, v)
      PROVE  IInv'
  <2>1. n \in Nat \ {0} /\ o.file \in Files /\ o.offset \in Nat
    BY <1>0, <1>1
  <2>2. PICK at \in Nat : WriteAt(h, o.file, at, n, v)
    BY <1>0, <1>9, <2>1 DEF write, fuse_write
  <2>. QED BY <2>1, <2>2, WriteKept
<1>10. ASSUME NEW h \in Handles, NEW o \in handle[h], NEW s \in Cuts, truncate(o, s) PROVE IInv'
  BY <1>0, <1>1, <1>10, CutKept DEF truncate
<1>11. ASSUME NEW f \in Files, NEW s \in Cuts, setattr(f, s) PROVE IInv'
  BY <1>0, <1>11, CutKept DEF setattr
<1>. QED BY <1>2, <1>3, <1>4, <1>5, <1>6, <1>7, <1>8, <1>9, <1>10, <1>11, Zenon DEF Next

(* The three facts hold in every state.                                     *)
LEMMA Invariance == Spec => []IInv
<1>. QED BY Starts, Steps, PTL DEF Spec

(* However a file has grown, by whatever writes through whatever handles,   *)
(* add_blocks has threaded its blocks without losing, repeating or sharing  *)
(* an address: as many blocks are reached as the inode counts, with the     *)
(* pointer blocks MetadataBlocks gives for them, all of them are allocated, *)
(* and none belongs to two files.                                           *)
THEOREM PointersAlwaysExact == Spec => []PointersExact
<1>1. IInv => PointersExact
  <2>. SUFFICES ASSUME IInv, NEW f \in Files
       PROVE  /\ Cardinality(OwnedBlocks(f)) = inode[f].blocks + MetadataBlocks(inode[f].blocks)
              /\ OwnedBlocks(f) \subseteq bits
              /\ \A g \in Files \ {f} : OwnedBlocks(f) \cap OwnedBlocks(g) = {}
    BY DEF PointersExact
  <2>1. inode[f] \in INodes /\ inode[f].blocks <= MaxBlocks /\ tab \in Tables
    BY DEF IInv, Typed, Inodes
  <2>2. Owns(inode[f], tab)
    BY DEF IInv, Separate
  <2>3. Cardinality(Owned(inode[f], tab)) = inode[f].blocks + MetadataBlocks(inode[f].blocks)
    BY <2>1, <2>2, OwnedCounted
  <2>. QED BY <2>3, OwnedIs DEF IInv, Separate
<1>. QED BY <1>1, Invariance, PTL

(* Until a write finds too little room or reaches the size limit of an      *)
(* inode, the data bitmap holds the blocks of the files and the root's and  *)
(* no other, and free_space() reports exactly the rest: the write that      *)
(* grows a file takes no pointer block it does not use, and one that fails  *)
(* gives back what it took.                                                 *)
THEOREM StorageAlwaysAccounted == Spec => []StorageAccounted
<1>1. IInv => StorageAccounted
  BY DEF IInv
<1>. QED BY <1>1, Invariance, PTL

-----------------------------------------------------------------------------
(* The flat array of bytes                                                  *)

(* No offset a caller gives reaches the 2^32 blocks past which the code     *)
(* cuts the block index, and no inode can hold so many blocks.              *)
Addressable == /\ MaxBlocks < IndexMod /\ Seeks # {}
               /\ \A x \in Seeks \cup Cuts : x < IndexMod * BlockSize

LEMMA DivBound ==
  ASSUME NEW n \in Nat \ {0}, NEW i \in Nat, NEW b \in Nat
  PROVE  i \div n < b <=> i < b * n
OBVIOUS

LEMMA DivUnique ==
  ASSUME NEW n \in Nat \ {0}, NEW i \in Nat, NEW k \in Nat,
         i \div n = k \div n, i % n = k % n
  PROVE  i = k
OBVIOUS

LEMMA StartIs ==
  ASSUME NEW at \in Nat, at < IndexMod * BlockSize
  PROVE  Start(at) = at
<1>1. IndexMod \in Nat \ {0} /\ BlockSize \in Nat \ {0}
  BY FileAssumption
<1>. DEFINE j == at \div BlockSize
<1>2. j < IndexMod
  BY <1>1, DivBound
<1>3. j \in Nat /\ (j * BlockSize) + (at % BlockSize) = at
  BY <1>1
<1>. HIDE DEF j
<1>4. j % IndexMod = j
  BY <1>1, <1>2, <1>3
<1>. QED BY <1>3, <1>4 DEF Start, BlockIndex, j

(* A bounded set of numbers has a largest one.                              *)
LEMMA MaxOfBounded ==
  ASSUME NEW S \in SUBSET Nat, S # {}, NEW b \in Nat, \A x \in S : x < b
  PROVE  Max(S) \in S /\ \A x \in S : Max(S) >= x
<1>. DEFINE U == {c \in Nat : \A x \in S : x <= c}
<1>1. U # {} /\ U \in SUBSET Nat
  OBVIOUS
<1>. HIDE DEF U
<1>2. PICK c \in U : \A e \in U : c <= e
  BY <1>1, Least
<1>. USE DEF U
<1>3. c \in S
  <2>1. PICK x \in S : TRUE
    OBVIOUS
  <2>2. x \in Nat /\ x <= c /\ c \in Nat
    BY <2>1
  <2>3. CASE c = 0
    BY <2>1, <2>2, <2>3
  <2>4. CASE c > 0 /\ c \notin S
    <3>1. \A y \in S : y <= c - 1
      BY <2>2, <2>4
    <3>2. c - 1 \in U
      BY <2>2, <2>4, <3>1
    <3>. QED BY <1>2, <2>2, <3>2
  <2>. QED BY <2>2, <2>3, <2>4
<1>4. \E x \in S : \A y \in S : x >= y
  BY <1>3
<1>. QED BY <1>4 DEF Max

(* The offsets and sizes that calls reach.                                  *)
Near == {x \in Nat : x < IndexMod * BlockSize /\ x \in 0 .. Max(Seeks \cup Cuts) + MaxBytes}

LEMMA NearIs ==
  ASSUME Addressable
  PROVE  /\ Seeks \subseteq Near /\ Cuts \subseteq Near
         /\ \A x \in Nat : x <= MaxBytes => x \in Near
         /\ \A x \in Near : \A y \in Nat : y <= x => y \in Near
<1>1. /\ MaxBlocks \in Nat /\ IndexMod \in Nat /\ BlockSize \in Nat \ {0} /\ MaxBlocks < IndexMod
      /\ Seeks \cup Cuts \subseteq Nat /\ Seeks # {}
  BY FileAssumption, PointerAssumption DEF Addressable
<1>. DEFINE M == Max(Seeks \cup Cuts)
            top == IndexMod * BlockSize
<1>2. top \in Nat /\ MaxBytes \in Nat /\ MaxBytes < top
  BY <1>1 DEF MaxBytes
<1>3. \A x \in Seeks \cup Cuts : x < top
  BY DEF Addressable
<1>. HIDE DEF top
<1>4. M \in Nat /\ \A x \in Seeks \cup Cuts : M >= x
  BY <1>1, <1>2, <1>3, MaxOfBounded
<1>. HIDE DEF M
<1>5. Near = {x \in Nat : x < top /\ x \in 0 .. M + MaxBytes}
  BY DEF Near, M, top
<1>6. Seeks \cup Cuts \subseteq Near
  BY <1>1, <1>2, <1>3, <1>4, <1>5
<1>7. \A x \in Nat : x <= MaxBytes => x \in Near
  BY <1>2, <1>4, <1>5
<1>8. \A x \in Near : \A y \in Nat : y <= x => y \in Near
  BY <1>2, <1>4, <1>5
<1>. QED BY <1>6, <1>7, <1>8

(* The bytes of the files, from inodes n, tables t and contents d.          *)
BytesOf(ino, t, d) == [p \in 0 .. MaxBytes - 1 |->
                         IF p \div BlockSize < ino.blocks THEN ByteAt(ino, t, d, p) ELSE 0]
Bytes(n, t, d) == [f \in Files |-> BytesOf(n[f], t, d)]

LEMMA ContentsAre ==
  /\ Contents = Bytes(inode, tab, data)
  /\ Contents' = Bytes(inode', tab', data')
BY DEF Contents, Bytes, BytesOf, ByteAt

(* Positions: of a block of the file, and of a byte in it.                  *)
LEMMA PositionIs ==
  ASSUME NEW p \in 0 .. MaxBytes - 1
  PROVE  /\ p \in Nat /\ p \div BlockSize \in Nat /\ p % BlockSize \in InBlock
         /\ \A b \in Nat : p \div BlockSize < b <=> p < b * BlockSize
<1>1. p \in Nat /\ BlockSize \in Nat \ {0}
  BY FileAssumption, PointerAssumption DEF MaxBytes
<1>. QED BY <1>1, DivMod, DivBound DEF InBlock

(* Bytes that are reached through the same blocks are the same when these   *)
(* blocks are.                                                              *)
LEMMA BytesSame ==
  ASSUME NEW i1, NEW i2, NEW t1, NEW t2, NEW d1, NEW d2, i1.blocks \in Nat, i2.blocks = i1.blocks,
         \A k \in 0 .. i1.blocks - 1 :
           /\ get_block(i2, t2, k) = get_block(i1, t1, k)
           /\ d2[get_block(i1, t1, k)] = d1[get_block(i1, t1, k)]
  PROVE  BytesOf(i2, t2, d2) = BytesOf(i1, t1, d1)
<1>1. ASSUME NEW p \in 0 .. MaxBytes - 1, p \div BlockSize < i1.blocks
      PROVE  ByteAt(i2, t2, d2, p) = ByteAt(i1, t1, d1, p)
  <2>1. p \div BlockSize \in 0 .. i1.blocks - 1
    BY <1>1, PositionIs
  <2>. QED BY <2>1 DEF ByteAt
<1>. QED BY <1>1 DEF BytesOf

LEMMA SameGet ==
  ASSUME NEW a, NEW b, NEW t, SamePointers(a, b), NEW k
  PROVE  get_block(b, t, k) = get_block(a, t, k)
BY DEF SamePointers, get_block

(* Setting a size.                                                          *)
LEMMA BytesResized ==
  ASSUME NEW n \in Inodes, NEW n2, \A f \in Files : SamePointers(n[f], n2[f]), NEW t, NEW d
  PROVE  Bytes(n2, t, d) = Bytes(n, t, d)
<1>1. ASSUME NEW f \in Files PROVE BytesOf(n2[f], t, d) = BytesOf(n[f], t, d)
  <2>1. n[f].blocks \in Nat /\ n2[f].blocks = n[f].blocks
    BY DEF Inodes, INodes, SamePointers
  <2>2. \A k : get_block(n2[f], t, k) = get_block(n[f], t, k)
    BY SameGet
  <2>. QED BY <2>1, <2>2, BytesSame
<1>. QED BY <1>1 DEF Bytes

(* Zeroing blocks that no file has.                                         *)
LEMMA BytesCleared ==
  ASSUME NEW n \in Inodes, NEW t, NEW B, Separate(n, t, B), NEW d,
         NEW new, Range(new) \cap B = {}
  PROVE  Bytes(n, t, Zeroed(d, new)) = Bytes(n, t, d)
<1>1. ASSUME NEW f \in Files PROVE BytesOf(n[f], t, Zeroed(d, new)) = BytesOf(n[f], t, d)
  <2>1. n[f].blocks \in Nat
    BY DEF Inodes, INodes
  <2>2. \A k \in 0 .. n[f].blocks - 1 : get_block(n[f], t, k) \in Block \ Range(new)
    BY DEF Separate, Owns, Owned, Data
  <2>3. \A b \in Block \ Range(new) : Zeroed(d, new)[b] = d[b]
    BY DEF Zeroed
  <2>. QED BY <2>1, <2>2, <2>3, BytesSame
<1>. QED BY <1>1 DEF Bytes

(* Growing a file by zeroed blocks.                                         *)
KeepsBytes(n, t, d, n2, t2, d2) == Bytes(n2, t2, d2) = Bytes(n, t, d)

LEMMA BytesGrown ==
  ASSUME NEW n \in Inodes, NEW t \in Tables, NEW B \in SUBSET Block, Separate(n, t, B),
         NEW f \in Files, NEW meta, NEW new, FreeBlocks(B, meta, new),
         NEW st, Enlarged(n[f], t, new, meta, st),
         NEW n2, Replaced(n, f, st.ino, n2), NEW d
  PROVE  KeepsBytes(n, t, d, n2, st.tab, Zeroed(d, new))
<1>. DEFINE z == Zeroed(d, new)
<1>1. GrownApart(n, t, B, f, meta, new, st, n2)
  BY SeparateGrown
<1>2. Range(new) \subseteq Block \ B /\ DOMAIN new = 1 .. Len(new) /\ Len(new) \in Nat
  BY RangeOfSeq DEF FreeBlocks
<1>3. \A b \in Block : z[b] = IF b \in Range(new) THEN [k \in InBlock |-> 0] ELSE d[b]
  BY DEF Zeroed
<1>. HIDE DEF z
<1>4. \A g \in Files : /\ n[g].blocks \in Nat
                       /\ \A k \in 0 .. n[g].blocks - 1 : get_block(n[g], t, k) \in Block \ Range(new)
  BY <1>2 DEF Inodes, INodes, Separate, Owns, Owned, Data
<1>5. ASSUME NEW g \in Files \ {f} PROVE BytesOf(n2[g], st.tab, z) = BytesOf(n[g], t, d)
  <2>1. n2[g] = n[g]
    BY DEF Replaced
  <2>2. \A k \in 0 .. n[g].blocks - 1 : /\ get_block(n[g], st.tab, k) = get_block(n[g], t, k)
                                        /\ z[get_block(n[g], t, k)] = d[get_block(n[g], t, k)]
    BY <1>1, <1>3, <1>4 DEF GrownApart
  <2>. QED BY <1>4, <2>1, <2>2, BytesSame
<1>6. BytesOf(n2[f], st.tab, z) = BytesOf(n[f], t, d)
  <2>. DEFINE ino == n[f]
  <2>1. /\ n2[f].blocks = ino.blocks + Len(new)
        /\ \A k \in 0 .. ino.blocks - 1 : get_block(st.ino, st.tab, k) = get_block(ino, t, k)
        /\ \A k \in 1 .. Len(new) : get_block(st.ino, st.tab, ino.blocks + k - 1) = new[k]
    BY DEF Enlarged, Replaced, SamePointers
  <2>2. \A k : get_block(n2[f], st.tab, k) = get_block(st.ino, st.tab, k)
    BY SameGet DEF Replaced
  <2>3. ino.blocks \in Nat /\ \A k \in 0 .. ino.blocks - 1 : get_block(ino, t, k) \in Block \ Range(new)
    BY <1>4
  <2>. HIDE DEF ino
  <2>4. ASSUME NEW p \in 0 .. MaxBytes - 1
        PROVE  (IF p \div BlockSize < n2[f].blocks THEN ByteAt(n2[f], st.tab, z, p) ELSE 0) =
               (IF p \div BlockSize < ino.blocks THEN ByteAt(ino, t, d, p) ELSE 0)
    <3>. DEFINE k == p \div BlockSize
    <3>1. k \in Nat /\ p % BlockSize \in InBlock
      BY PositionIs
    <3>. HIDE DEF k
    <3>2. CASE k < ino.blocks
      <4>1. k \in 0 .. ino.blocks - 1 /\ k < n2[f].blocks
        BY <1>2, <2>1, <2>3, <3>1, <3>2
      <4>2. /\ get_block(n2[f], st.tab, k) = get_block(ino, t, k)
            /\ z[get_block(ino, t, k)] = d[get_block(ino, t, k)]
        BY <1>3, <2>1, <2>2, <2>3, <4>1
      <4>3. ByteAt(n2[f], st.tab, z, p) = ByteAt(ino, t, d, p)
        BY <4>2 DEF ByteAt, k
      <4>. QED BY <3>2, <4>1, <4>3 DEF k
    <3>3. CASE ~(k < ino.blocks) /\ k < n2[f].blocks
      <4>. DEFINE j == k - ino.blocks + 1
      <4>1. j \in 1 .. Len(new) /\ ino.blocks + j - 1 = k
        BY <1>2, <2>1, <2>3, <3>1, <3>3
      <4>. HIDE DEF j
      <4>2. get_block(n2[f], st.tab, k) = new[j] /\ new[j] \in Range(new)
        BY <1>2, <2>1, <2>2, <4>1 DEF Range
      <4>3. z[new[j]][p % BlockSize] = 0
        BY <1>2, <1>3, <3>1, <4>2
      <4>4. ByteAt(n2[f], st.tab, z, p) = 0
        BY <4>2, <4>3 DEF ByteAt, k
      <4>. QED BY <3>3, <4>4 DEF k
    <3>4. CASE ~(k < n2[f].blocks) /\ ~(k < ino.blocks)
      BY <3>4 DEF k
    <3>. QED BY <3>2, <3>3, <3>4
  <2>. QED BY <2>4 DEF BytesOf, ino
<1>. QED BY <1>5, <1>6 DEF Bytes, KeepsBytes, z

(* The loop of write: it reaches the bytes of the range and no other.       *)
Hit(ino, t, at, w) == {<<get_block(ino, t, p \div BlockSize), p % BlockSize>> : p \in at .. at + w - 1}
Painted(d, hit, v) ==
  [b \in Block |-> [k \in InBlock |-> IF <<b, k>> \in hit THEN v ELSE d[b][k]]]
Over(s, at, w, v) == [p \in 0 .. MaxBytes - 1 |-> IF at <= p /\ p < at + w THEN v ELSE s[p]]

Paints(n, t, f, at, w, d, v) ==
  Bytes(n, t, Painted(d, Hit(n[f], t, at, w), v)) =
    [Bytes(n, t, d) EXCEPT ![f] = Over(Bytes(n, t, d)[f], at, w, v)]

LEMMA BytesPainted ==
  ASSUME NEW n \in Inodes, NEW t, NEW B, Separate(n, t, B), NEW f \in Files,
         NEW at \in Nat, NEW w \in Nat, w # 0 => at + w <= n[f].blocks * BlockSize,
         NEW d, NEW v
  PROVE  Paints(n, t, f, at, w, d, v)
<1>. DEFINE hit == Hit(n[f], t, at, w)
            d2 == Painted(d, hit, v)
<1>1. \A g \in Files : /\ n[g].blocks \in Nat
                       /\ \A k \in 0 .. n[g].blocks - 1 : get_block(n[g], t, k) \in Block
                       /\ \A k, l \in 0 .. n[g].blocks - 1 :
                            get_block(n[g], t, k) = get_block(n[g], t, l) => k = l
  BY DEF Inodes, INodes, Separate, Owns
<1>2. \A g \in Files \ {f} : \A k \in 0 .. n[g].blocks - 1 : \A l \in 0 .. n[f].blocks - 1 :
        get_block(n[g], t, k) # get_block(n[f], t, l)
  BY DEF Separate, Owned, Data
<1>3. BlockSize \in Nat \ {0}
  BY FileAssumption
<1>4. \A q \in at .. at + w - 1 : q \in Nat /\ q \div BlockSize \in 0 .. n[f].blocks - 1
  <2>. SUFFICES ASSUME NEW q \in at .. at + w - 1
       PROVE  q \in Nat /\ q \div BlockSize \in 0 .. n[f].blocks - 1
    OBVIOUS
  <2>1. q \in Nat /\ w # 0
    OBVIOUS
  <2>2. q < n[f].blocks * BlockSize
    <3>. DEFINE e == n[f].blocks * BlockSize
    <3>1. e \in Nat /\ at + w <= e
      BY <1>1, <1>3, <2>1
    <3>. HIDE DEF e
    <3>2. q < e
      BY <3>1
    <3>. QED BY <3>2 DEF e
  <2>3. q \div BlockSize < n[f].blocks /\ q \div BlockSize \in Nat
    BY <1>1, <1>3, <2>1, <2>2, DivBound, DivMod
  <2>. QED BY <1>1, <2>1, <2>3
<1>5. ASSUME NEW g \in Files, NEW p \in 0 .. MaxBytes - 1, p \div BlockSize < n[g].blocks
      PROVE  ByteAt(n[g], t, d2, p) =
               IF g = f /\ at <= p /\ p < at + w THEN v ELSE ByteAt(n[g], t, d, p)
  <2>. DEFINE k == p \div BlockSize
              b == get_block(n[g], t, k)
              r == p % BlockSize
  <2>1. k \in 0 .. n[g].blocks - 1 /\ p \in Nat /\ r \in InBlock /\ b \in Block
    BY <1>1, <1>5, PositionIs
  <2>2. <<b, r>> \in hit <=> g = f /\ p \in at .. at + w - 1
    <3>1. ASSUME g = f, p \in at .. at + w - 1 PROVE <<b, r>> \in hit
      BY <3>1 DEF Hit
    <3>2. ASSUME <<b, r>> \in hit PROVE g = f /\ p \in at .. at + w - 1
      <4>1. PICK q \in at .. at + w - 1 : b = get_block(n[f], t, q \div BlockSize) /\ r = q % BlockSize
        BY <3>2 DEF Hit
      <4>2. q \in Nat /\ q \div BlockSize \in 0 .. n[f].blocks - 1
        BY <1>4
      <4>3. g = f
        BY <1>2, <2>1, <4>1, <4>2
      <4>4. k = q \div BlockSize
        BY <1>1, <2>1, <4>1, <4>2, <4>3
      <4>5. p = q
        BY <1>3, <2>1, <4>1, <4>2, <4>4, DivUnique
      <4>. QED BY <4>3, <4>5
    <3>. QED BY <3>1, <3>2
  <2>. HIDE DEF hit, k, b, r
  <2>3. d2[b][r] = IF <<b, r>> \in hit THEN v ELSE d[b][r]
    BY <2>1 DEF Painted
  <2>4. p \in at .. at + w - 1 <=> at <= p /\ p < at + w
    BY <2>1
  <2>5. ByteAt(n[g], t, d2, p) = d2[b][r] /\ ByteAt(n[g], t, d, p) = d[b][r]
    BY DEF ByteAt, b, k, r
  <2>. HIDE DEF d2
  <2>. QED BY <2>2, <2>3, <2>4, <2>5
<1>. HIDE DEF d2
<1>6. ASSUME NEW g \in Files \ {f} PROVE BytesOf(n[g], t, d2) = BytesOf(n[g], t, d)
  BY <1>5 DEF BytesOf
<1>7. BytesOf(n[f], t, d2) = Over(BytesOf(n[f], t, d), at, w, v)
  <2>1. ASSUME NEW p \in 0 .. MaxBytes - 1
        PROVE  (IF p \div BlockSize < n[f].blocks THEN ByteAt(n[f], t, d2, p) ELSE 0) =
               (IF at <= p /\ p < at + w THEN v
                ELSE IF p \div BlockSize < n[f].blocks THEN ByteAt(n[f], t, d, p) ELSE 0)
    <3>1. CASE p \div BlockSize < n[f].blocks
      BY <1>5, <3>1
    <3>2. CASE ~(p \div BlockSize < n[f].blocks)
      <4>1. ~(at <= p /\ p < at + w)
        <5>1. SUFFICES ASSUME at <= p, p < at + w PROVE FALSE
          OBVIOUS
        <5>2. p \in at .. at + w - 1
          BY <5>1
        <5>3. p \div BlockSize \in 0 .. n[f].blocks - 1
          BY <1>4, <5>2
        <5>4. n[f].blocks \in Nat
          BY <1>1
        <5>. QED BY <3>2, <5>3, <5>4
      <4>. QED BY <3>2, <4>1
    <3>. QED BY <3>1, <3>2
  <2>. QED BY <2>1 DEF BytesOf, Over
<1>. QED BY <1>6, <1>7 DEF Bytes, Paints, d2, hit

-----------------------------------------------------------------------------
(* The steps of the flat file                                               *)

Reached == /\ \A f \in Files : inode[f].size \in Near
           /\ \A h \in Handles : \A o \in handle[h] : o.offset \in Near

Offsets == 0 .. Max(Seeks \cup Cuts) + MaxBytes

LEMMA NearOffset == \A x \in Near : x \in Nat /\ x < IndexMod * BlockSize /\ x \in Offsets
BY DEF Near, Offsets

(* The length of a call that stops at e.                                    *)
LEMMA ClippedIs ==
  ASSUME NEW n \in Nat, NEW at \in Nat, NEW e \in Nat
  PROVE  LET w == Max({0, Min({n, e - at})})
         IN  w \in Nat /\ (w # 0 => at + w <= e)
<1>. DEFINE r == e - at
            x == Min({n, r})
<1>1. n \in Int /\ r \in Int
  OBVIOUS
<1>2. x = IF n <= r THEN n ELSE r
  BY <1>1, Pairs
<1>3. x \in Int /\ x <= r
  BY <1>1, <1>2
<1>. HIDE DEF x
<1>4. Max({0, x}) = IF 0 >= x THEN 0 ELSE x
  BY <1>3, Pairs
<1>5. Max({0, x}) \in Nat /\ (Max({0, x}) # 0 => at + Max({0, x}) <= e)
  BY <1>3, <1>4
<1>. QED BY <1>5 DEF x

LEMMA EndIsNear ==
  ASSUME Addressable, NEW n \in Nat, NEW at \in Near, NEW e \in Nat, e \in Near
  PROVE  at + Max({0, Min({n, e - at})}) \in Near
<1>. DEFINE w == Max({0, Min({n, e - at})})
<1>1. at \in Nat
  BY NearOffset
<1>2. w \in Nat /\ (w # 0 => at + w <= e)
  BY <1>1, ClippedIs
<1>. HIDE DEF w
<1>3. at + w \in Near
  BY <1>1, <1>2, NearIs
<1>. QED BY <1>3 DEF w

LEMMA FlatMoved ==
  ASSUME Typed, NEW h \in Handles, NEW f \in Files, NEW at, MovedTo(h, f, at)
  PROVE  /\ Flat!Moved(h, f, at)
         /\ \A g \in Handles : handle'[g] = IF g = h THEN {[file |-> f, offset |-> at]} ELSE handle[g]
<1>1. \A g \in Handles : handle'[g] = IF g = h THEN {[file |-> f, offset |-> at]} ELSE handle[g]
  BY DEF Typed, MovedTo
<1>2. {<<o.file, o.offset>> : o \in {[file |-> f, offset |-> at]}} = {<<f, at>>}
  OBVIOUS
<1>3. Cursors' = [Cursors EXCEPT ![h] = {<<f, at>>}]
  BY <1>1, <1>2 DEF Cursors
<1>. QED BY <1>1, <1>3 DEF Flat!Moved

LEMMA ReachedMoved ==
  ASSUME Typed, Reached, NEW h \in Handles, NEW f \in Files, NEW at \in Near, MovedTo(h, f, at),
         \A g \in Files : inode'[g].size \in Near
  PROVE  Reached'
<1>1. \A g \in Handles : handle'[g] = IF g = h THEN {[file |-> f, offset |-> at]} ELSE handle[g]
  BY FlatMoved
<1>2. ASSUME NEW g \in Handles, NEW o \in handle'[g] PROVE o.offset \in Near
  BY <1>1 DEF Reached
<1>. QED BY <1>2 DEF Reached

LEMMA FlatSame ==
  ASSUME UNCHANGED <<storage, inode>>
  PROVE  Contents' = Contents /\ SizeOf' = SizeOf /\ Storage' = Storage
<1>1. UNCHANGED <<tab, data, inode>>
  BY DEF storage
<1>. QED BY <1>1 DEF Contents, SizeOf, Storage, ByteAt

FInv == IInv /\ Reached

LEMMA FlatMaxMin ==
  ASSUME NEW S
  PROVE  Flat!Max(S) = Max(S) /\ Flat!Min(S) = Min(S)
BY DEF Flat!Max, Max, Flat!Min, Min

LEMMA FlatSeek ==
  ASSUME FInv, NEW h \in Handles, NEW f \in Files, NEW x \in Near, MovedTo(h, f, x),
         answer' = <<>>, UNCHANGED <<storage, inode>>
  PROVE  Reached' /\ Flat!Seek(h, f)
<1>1. Typed /\ Reached
  BY DEF FInv, IInv
<1>2. Flat!Moved(h, f, x)
  BY <1>1, FlatMoved
<1>3. \A g \in Files : inode'[g].size \in Near
  BY <1>1 DEF Reached
<1>4. Reached'
  BY <1>1, <1>3, ReachedMoved
<1>5. x \in 0 .. Max(Seeks \cup Cuts) + MaxBytes
  BY NearOffset DEF Offsets
<1>. QED BY <1>2, <1>4, <1>5, FlatSame DEF Flat!Seek

LEMMA FlatRead ==
  ASSUME Addressable, FInv, NEW h \in Handles, NEW f \in Files, NEW at \in Near, NEW n \in Nat,
         ReadAt(h, f, at, n)
  PROVE  Reached' /\ Flat!Read(h, f, at, n)
<1>. DEFINE ino == inode[f]
            len == Max({0, Min({n, ino.size - at})})
            ok == ino.blocks * BlockSize >= ino.size
            e == ino.blocks * BlockSize
<1>1. /\ Typed /\ Reached /\ at \in Nat /\ at < IndexMod * BlockSize
      /\ ino.size \in Nat /\ ino.size \in Near
      /\ ino.blocks \in Nat /\ ino.blocks <= MaxBlocks
  BY NearOffset DEF FInv, IInv, Typed, Inodes, INodes, Reached
<1>2. len \in Nat /\ (len # 0 => at + len <= ino.size)
  BY <1>1, ClippedIs
<1>3. at + len \in Near
  BY <1>1, EndIsNear
<1>4. e \in Nat /\ e <= MaxBytes /\ MaxBytes \in Nat /\ BlockSize \in Nat \ {0}
  BY <1>1, FileAssumption, PointerAssumption DEF MaxBytes
<1>5. /\ answer' = IF ok THEN [k \in 1 .. len |-> ByteAt(ino, tab, data, Start(at) + k - 1)] ELSE Failed
      /\ MovedTo(h, f, IF ok THEN at + len ELSE at)
      /\ UNCHANGED <<storage, inode>>
  BY DEF ReadAt, ReadLength
<1>6. Start(at) = at
  BY <1>1, StartIs
<1>7. SizeOf[f] = ino.size /\ Storage[f] = e
  BY DEF SizeOf, Storage
<1>. HIDE DEF len
<1>8. ok => \A k \in 1 .. len : ByteAt(ino, tab, data, Start(at) + k - 1) = Contents[f][at + k - 1]
  <2>. SUFFICES ASSUME ok, NEW k \in 1 .. len
       PROVE  ByteAt(ino, tab, data, Start(at) + k - 1) = Contents[f][at + k - 1]
    OBVIOUS
  <2>. DEFINE p == at + k - 1
  <2>1. p \in Nat /\ p < ino.size
    BY <1>1, <1>2
  <2>. HIDE DEF p
  <2>2. p \in 0 .. MaxBytes - 1 /\ p < e
    <3>1. e \in Nat /\ e >= ino.size
      BY <1>4
    <3>. HIDE DEF e, ok
    <3>. QED BY <1>1, <1>4, <2>1, <3>1
  <2>3. p \div BlockSize < ino.blocks
    BY <1>1, <1>4, <2>1, <2>2, DivBound
  <2>4. Contents[f][p] = ByteAt(ino, tab, data, p)
    BY <2>2, <2>3 DEF Contents
  <2>. QED BY <1>6, <2>4 DEF p
<1>9. answer' = IF ok THEN [k \in 1 .. len |-> Contents[f][at + k - 1]] ELSE Failed
  BY <1>5, <1>8
<1>. DEFINE to == IF ok THEN at + len ELSE at
<1>10. to \in Near
  BY <1>3
<1>11. Flat!Moved(h, f, to)
  BY <1>1, <1>5, FlatMoved
<1>12. Reached'
  <2>1. \A g \in Files : inode'[g].size \in Near
    BY <1>1, <1>5 DEF Reached
  <2>. QED BY <1>1, <1>5, <1>10, <2>1, ReachedMoved
<1>13. Contents' = Contents /\ SizeOf' = SizeOf /\ Storage' = Storage
  BY <1>5, FlatSame
<1>14. ok <=> SizeOf[f] <= Storage[f]
  BY <1>1, <1>4, <1>7
<1>15. len = Max({0, Min({n, SizeOf[f] - at})})
  BY <1>7 DEF len
<1>16. len = Flat!Max({0, Flat!Min({n, SizeOf[f] - at})})
  BY <1>15, FlatMaxMin
<1>17. Failed = Flat!Failed
  BY DEF Failed, Flat!Failed
<1>. HIDE DEF ok, e, ino
<1>18. Flat!Read(h, f, at, n)
  <2>1. Flat!Moved(h, f, IF SizeOf[f] <= Storage[f] THEN at + len ELSE at)
    BY <1>11, <1>14
  <2>2. answer' = IF SizeOf[f] <= Storage[f] THEN [k \in 1 .. len |-> Contents[f][at + k - 1]]
                  ELSE Flat!Failed
    BY <1>9, <1>14, <1>17
  <2>. QED BY <1>13, <1>16, <2>1, <2>2 DEF Flat!Read
<1>. QED BY <1>12, <1>18

(* The loop of write, over an inode that has grown or not.                  *)
LEMMA FlatWrite ==
  ASSUME Addressable, FInv, NEW h \in Handles, NEW f \in Files, NEW at \in Near, NEW n \in Nat, NEW v,
         NEW ino \in INodes, ino.blocks <= MaxBlocks, inode[f].blocks <= ino.blocks,
         ino.size = inode[f].size, NEW t, NEW d, Stored(h, f, at, n, v, ino, t, d),
         Separate(inode', t, bits'), Bytes(inode', t, d) = Contents
  PROVE  Reached' /\ Flat!Write(h, f, at, n, v)
<1>. DEFINE e == ino.blocks * BlockSize
            w == Max({0, Min({n, e - at})})
<1>1. /\ Typed /\ Reached /\ at \in Nat /\ at < IndexMod * BlockSize
      /\ inode[f].blocks \in Nat /\ inode[f].size \in Near /\ inode[f].size \in Nat
      /\ ino.blocks \in Nat /\ BlockSize \in Nat \ {0} /\ MaxBlocks \in Nat
  BY NearOffset, INodeIs, FileAssumption, PointerAssumption
     DEF FInv, IInv, Typed, Inodes, INodes, Reached
<1>2. Start(at) = at
  BY <1>1, StartIs
<1>3. e \in Nat /\ e <= MaxBytes /\ inode[f].blocks * BlockSize <= e /\ MaxBytes \in Nat
      /\ inode[f].blocks * BlockSize \in Nat
  BY <1>1 DEF MaxBytes
<1>4. Written(ino, at, n) = w
  BY <1>2 DEF Written
<1>5. w \in Nat /\ (w # 0 => at + w <= e)
  BY <1>1, <1>3, ClippedIs
<1>6. e \in Near /\ at + w \in Near
  <2>1. e \in Near
    BY <1>3, NearIs
  <2>. QED BY <1>3, <2>1, EndIsNear
<1>7. /\ data' = Painted(d, Hit(ino, t, at, w), v) /\ tab' = t
      /\ answer' = <<w>> /\ MovedTo(h, f, at + w)
  BY <1>2, <1>4 DEF Stored, Written, Painted, Hit
<1>8. /\ inode' \in Inodes /\ SamePointers(ino, inode'[f])
      /\ inode'[f].size = Max({inode[f].size, at + w})
      /\ \A g \in Files \ {f} : inode'[g] = inode[g]
  <2>1. StoredIn(f, at, n, ino, t)
    BY <1>1, StoredIs
  <2>. QED BY <1>4, <2>1 DEF StoredIn
<1>. HIDE DEF w, e
<1>9. inode'[f].size \in Near
  <2>1. at + w \in Nat
    BY <1>1, <1>5
  <2>2. inode'[f].size = IF inode[f].size >= at + w THEN inode[f].size ELSE at + w
    BY <1>1, <1>8, <2>1, Pairs
  <2>. QED BY <1>1, <1>6, <2>2
<1>10. Reached'
  <2>1. \A g \in Files : inode'[g].size \in Near
    BY <1>1, <1>8, <1>9 DEF Reached
  <2>. QED BY <1>1, <1>6, <1>7, <2>1, ReachedMoved
<1>11. inode'[f].blocks = ino.blocks
  BY <1>8 DEF SamePointers
<1>12. /\ Storage' = [Storage EXCEPT ![f] = e] /\ e \in Storage[f] .. MaxBytes
       /\ Storage'[f] = e
  <2>1. \A g \in Files \ {f} : inode'[g].blocks = inode[g].blocks
    BY <1>8
  <2>2. Storage' = [Storage EXCEPT ![f] = e] /\ Storage'[f] = e
    BY <1>11, <2>1 DEF Storage, e
  <2>3. Storage[f] = inode[f].blocks * BlockSize
    BY DEF Storage
  <2>. QED BY <1>3, <2>2, <2>3
<1>13. SizeOf' = [SizeOf EXCEPT ![f] = Max({SizeOf[f], at + w})]
  <2>1. SizeOf[f] = inode[f].size
    BY DEF SizeOf
  <2>. QED BY <1>8, <2>1 DEF SizeOf
<1>14. Contents' = [Contents EXCEPT ![f] = Over(Contents[f], at, w, v)]
  <2>1. Hit(ino, t, at, w) = Hit(inode'[f], t, at, w)
    <3>1. \A k : get_block(inode'[f], t, k) = get_block(ino, t, k)
      BY <1>8, SameGet
    <3>. QED BY <3>1 DEF Hit
  <2>2. w # 0 => at + w <= inode'[f].blocks * BlockSize
    BY <1>5, <1>11 DEF e
  <2>3. Bytes(inode', t, Painted(d, Hit(inode'[f], t, at, w), v)) =
          [Bytes(inode', t, d) EXCEPT ![f] = Over(Bytes(inode', t, d)[f], at, w, v)]
    <3>1. Paints(inode', t, f, at, w, d, v)
      BY <1>1, <1>5, <1>8, <2>2, BytesPainted
    <3>. QED BY <3>1 DEF Paints
  <2>4. Contents' = Bytes(inode', tab', data')
    BY ContentsAre
  <2>. QED BY <1>7, <2>1, <2>3, <2>4
<1>15. Flat!Moved(h, f, at + w)
  BY <1>1, <1>7, FlatMoved
<1>16. w = Flat!Max({0, Flat!Min({n, Storage'[f] - at})})
  BY <1>12, FlatMaxMin DEF w
<1>17. SizeOf' = [SizeOf EXCEPT ![f] = Flat!Max({SizeOf[f], at + w})]
  BY <1>13, FlatMaxMin
<1>18. Flat!Write(h, f, at, n, v)
  <2>1. Storage' \in {[Storage EXCEPT ![f] = b] : b \in Storage[f] .. MaxBytes}
    BY <1>12
  <2>2. Contents' = [Contents EXCEPT ![f] = [p \in Flat!Position |->
                       IF at <= p /\ p < at + w THEN v ELSE Flat!Cleared(Contents[f], {})[p]]]
    BY <1>14 DEF Over, Flat!Position, Flat!Cleared
  <2>3. \E Z \in SUBSET {p \in Flat!Position : p >= SizeOf[f]} :
          Contents' = [Contents EXCEPT ![f] = [p \in Flat!Position |->
                        IF at <= p /\ p < at + w THEN v ELSE Flat!Cleared(Contents[f], Z)[p]]]
    BY <2>2
  <2>. QED BY <1>7, <1>15, <1>16, <1>17, <2>1, <2>3 DEF Flat!Write
<1>. QED BY <1>10, <1>18

LEMMA FlatWriteFails ==
  ASSUME FInv, NEW h \in Handles, NEW f \in Files, NEW at \in Near,
         WriteFails(h, f, at), inode' = inode, Contents' = Contents
  PROVE  Reached' /\ Flat!WriteFails(h, f, at)
<1>1. Typed /\ Reached
  BY DEF FInv, IInv
<1>2. answer' = Flat!Failed /\ MovedTo(h, f, at)
  BY DEF WriteFails, Failed, Flat!Failed
<1>3. Reached'
  <2>1. \A g \in Files : inode'[g].size \in Near
    BY <1>1 DEF Reached
  <2>. QED BY <1>1, <1>2, <2>1, ReachedMoved
<1>4. SizeOf' = SizeOf /\ Storage' = Storage
  BY DEF SizeOf, Storage
<1>5. Flat!Moved(h, f, at)
  BY <1>1, <1>2, FlatMoved
<1>. QED BY <1>2, <1>3, <1>4, <1>5 DEF Flat!WriteFails

LEMMA FlatWriteAt ==
  ASSUME Addressable, FInv, IInv', NEW h \in Handles, NEW f \in Files, NEW at \in Near,
         NEW n \in Nat \ {0}, NEW v, WriteAt(h, f, at, n, v)
  PROVE  Reached' /\ (Flat!Write(h, f, at, n, v) \/ Flat!WriteFails(h, f, at))
<1>0. /\ Typed /\ IInv /\ inode \in Inodes /\ tab \in Tables /\ bits \in SUBSET Block
      /\ Separate(inode, tab, bits) /\ Separate(inode', tab', bits')
      /\ inode[f] \in INodes /\ inode[f].blocks <= MaxBlocks /\ inode[f].blocks \in Nat
      /\ Owns(inode[f], tab) /\ Owned(inode[f], tab) \subseteq bits
      /\ at \in Nat /\ n \in Nat
  BY NearOffset DEF FInv, IInv, Typed, Inodes, INodes, Separate
<1>1. Contents = Bytes(inode, tab, data) /\ Contents' = Bytes(inode', tab', data')
  BY ContentsAre
<1>2. CASE Stored(h, f, at, n, v, inode[f], tab, data)
  <2>1. StoredIn(f, at, n, inode[f], tab)
    BY <1>0, <1>2, StoredIs
  <2>2. \A g \in Files : SamePointers(inode[g], inode'[g])
    BY <2>1, AllSame DEF StoredIn
  <2>3. Bytes(inode', tab, data) = Contents
    BY <1>0, <1>1, <2>2, BytesResized
  <2>4. Separate(inode', tab, bits')
    BY <1>0, <2>1 DEF StoredIn
  <2>. QED BY <1>0, <1>2, <2>3, <2>4, FlatWrite
<1>3. CASE WriteFails(h, f, at) /\ UNCHANGED <<free, data, tab, short, inode>>
  <2>1. Contents' = Contents
    BY <1>1, <1>3
  <2>. QED BY <1>3, <2>1, FlatWriteFails
<1>4. ASSUME NEW want, NEW m, NEW meta, NEW new, WriteGrows(h, f, at, n, v, want, m, meta, new)
      PROVE  Reached' /\ (Flat!Write(h, f, at, n, v) \/ Flat!WriteFails(h, f, at))
  <2>. DEFINE st == add_blocks(inode[f], tab, new, meta)
  <2>1. /\ FreeBlocks(bits, meta, new) /\ Range(new) \cap bits = {}
        /\ meta \in Seq(Block \ bits) /\ IsInjective(meta)
        /\ new \in Seq(Block \ (bits \cup Range(meta))) /\ IsInjective(new)
    BY <1>4 DEF WriteGrows, FreeBlocks
  <2>2. CASE /\ Addable(inode[f], new, meta)
             /\ Stored(h, f, at, n, v, st.ino, st.tab, Zeroed(data, new))
    <3>1. Enlarged(inode[f], tab, new, meta, st)
      BY <1>0, <2>1, <2>2, FileGrown
    <3>. HIDE DEF st
    <3>2. /\ st.ino \in INodes /\ st.ino.blocks <= MaxBlocks /\ st.ino.size = inode[f].size
          /\ st.ino.blocks = inode[f].blocks + Len(new) /\ Len(new) \in Nat
      BY <2>1, <3>1 DEF Enlarged
    <3>3. inode[f].blocks <= st.ino.blocks
      <4>. DEFINE a == st.ino.blocks
                  b == inode[f].blocks
                  l == Len(new)
      <4>1. a = b + l /\ b \in Nat /\ l \in Nat
        BY <1>0, <3>2
      <4>. HIDE DEF a, b, l
      <4>2. b <= a
        BY <4>1
      <4>. QED BY <4>2 DEF a, b
    <3>4. StoredIn(f, at, n, st.ino, st.tab)
      BY <1>0, <2>2, <3>2, StoredIs
    <3>5. Replaced(inode, f, st.ino, inode')
      BY <3>4 DEF StoredIn, Replaced, Inodes
    <3>6. Bytes(inode', st.tab, Zeroed(data, new)) = Contents
      <4>1. KeepsBytes(inode, tab, data, inode', st.tab, Zeroed(data, new))
        BY <1>0, <2>1, <3>1, <3>5, BytesGrown
      <4>. QED BY <1>1, <4>1 DEF KeepsBytes
    <3>7. Separate(inode', st.tab, bits')
      BY <1>0, <3>4 DEF StoredIn
    <3>. QED BY <1>0, <2>2, <3>2, <3>3, <3>6, <3>7, FlatWrite
  <2>3. CASE /\ data' = Zeroed(data, new) /\ WriteFails(h, f, at)
             /\ UNCHANGED <<free, tab, inode>>
    <3>1. Contents' = Contents
      BY <1>0, <1>1, <2>1, <2>3, BytesCleared
    <3>. QED BY <2>3, <3>1, FlatWriteFails
  <2>. QED BY <1>4, <2>2, <2>3 DEF WriteGrows
<1>. QED BY <1>0, <1>2, <1>3, <1>4, WriteCases

LEMMA FlatCut ==
  ASSUME Addressable, FInv, NEW f \in Files, NEW s \in Cuts, SetSize(f, s)
  PROVE  Reached' /\ Flat!Resize(f)
<1>1. /\ Typed /\ Reached /\ inode \in Inodes /\ inode[f] \in INodes
      /\ inode[f].blocks <= MaxBlocks /\ s \in Near /\ s \in Nat /\ s \in Offsets
  BY NearIs, NearOffset DEF FInv, IInv, Typed, Inodes
<1>2. /\ inode' = [inode EXCEPT ![f] = Sized(inode[f], s)] /\ answer' = <<>>
      /\ UNCHANGED <<data, tab, handle>>
  BY DEF SetSize, Sized, storage
<1>3. WithSize(inode, f, inode[f], s, inode')
  BY <1>1, <1>2, InodeResized
<1>4. /\ \A g \in Files : SamePointers(inode[g], inode'[g])
      /\ inode'[f].size = s /\ \A g \in Files \ {f} : inode'[g] = inode[g]
  BY <1>3, AllSame DEF WithSize
<1>5. Reached'
  BY <1>1, <1>2, <1>4 DEF Reached
<1>6. Contents' = Contents
  <2>1. Bytes(inode', tab, data) = Bytes(inode, tab, data)
    BY <1>1, <1>4, BytesResized
  <2>2. tab' = tab /\ data' = data
    BY <1>2
  <2>. QED BY <2>1, <2>2, ContentsAre
<1>7. Storage' = Storage
  BY <1>4 DEF Storage, SamePointers
<1>8. Cursors' = Cursors
  BY <1>2 DEF Cursors
<1>9. SizeOf' = [SizeOf EXCEPT ![f] = s]
  BY <1>4 DEF SizeOf
<1>10. Storage' \in {[Storage EXCEPT ![f] = b] :
                       b \in {b \in 0 .. MaxBytes : b >= s \/ b >= Storage[f]}}
  <2>1. Storage[f] \in 0 .. MaxBytes /\ Storage[f] >= Storage[f]
    <3>1. inode[f].blocks \in Nat /\ BlockSize \in Nat /\ MaxBlocks \in Nat
      BY <1>1, FileAssumption, PointerAssumption DEF INodes
    <3>. QED BY <1>1, <3>1 DEF Storage, MaxBytes
  <2>2. Storage' = [Storage EXCEPT ![f] = Storage[f]]
    BY <1>7 DEF Storage
  <2>. QED BY <2>1, <2>2
<1>11. \E Z \in SUBSET {p \in Flat!Position : p >= s \/ p >= SizeOf[f]} :
         Contents' = [Contents EXCEPT ![f] = Flat!Cleared(Contents[f], Z)]
  <2>1. Flat!Cleared(Contents[f], {}) = Contents[f]
    BY DEF Flat!Cleared, Flat!Position, Contents
  <2>2. Contents' = [Contents EXCEPT ![f] = Flat!Cleared(Contents[f], {})]
    BY <1>6, <2>1 DEF Contents
  <2>. QED BY <2>2
<1>. QED BY <1>1, <1>2, <1>5, <1>8, <1>9, <1>10, <1>11 DEF Flat!Resize, Offsets

LEMMA FlatStarts == ASSUME Addressable PROVE Init => FInv /\ Flat!Init
<1>. SUFFICES ASSUME Init PROVE Reached /\ Flat!Init
  BY Starts DEF FInv
<1>1. \A f \in Files : inode[f].blocks = 0 /\ inode[f].size = 0
  BY DEF Init, EmptyINode
<1>2. Reached
  <2>1. 0 \in Near
    <3>1. 0 <= MaxBytes
      BY FileAssumption, PointerAssumption DEF MaxBytes
    <3>. QED BY <3>1, NearIs
  <2>. QED BY <1>1, <2>1 DEF Reached, Init
<1>3. Contents = [f \in Files |-> [p \in 0 .. MaxBytes - 1 |-> 0]]
  <2>1. ASSUME NEW f \in Files, NEW p \in 0 .. MaxBytes - 1
        PROVE  ~(p \div BlockSize < inode[f].blocks)
    BY <1>1, PositionIs
  <2>. QED BY <2>1 DEF Contents
<1>4. SizeOf = [f \in Files |-> 0] /\ Storage = [f \in Files |-> 0]
  <2>1. \A f \in Files : inode[f].blocks * BlockSize = 0
    BY <1>1, FileAssumption
  <2>. QED BY <1>1, <2>1 DEF SizeOf, Storage
<1>5. Cursors = [h \in Handles |-> {}] /\ answer = <<>>
  BY DEF Init, Cursors
<1>. QED BY <1>2, <1>3, <1>4, <1>5 DEF Flat!Init, Flat!Position

LEMMA FlatSteps ==
  ASSUME Addressable
  PROVE  FInv /\ [Next]_vars => FInv' /\ [Flat!Next]_(Flat!vars)
<1>. SUFFICES ASSUME FInv, [Next]_vars PROVE Reached' /\ [Flat!Next]_(Flat!vars)
  BY Steps DEF FInv
<1>0. /\ Typed /\ Reached /\ Lens \subseteq Nat \ {0} /\ IInv'
      /\ Seeks \subseteq Near /\ Seeks \subseteq Nat
  BY Steps, FileAssumption, NearIs DEF FInv, IInv
<1>1. \A h \in Handles : \A o \in handle[h] :
        /\ o.file \in Files /\ o.offset \in Near /\ o.offset \in Nat
        /\ <<o.file, o.offset>> \in Cursors[h]
        /\ \E c \in Cursors[h] : c[1] = o.file
        /\ o.offset \in Flat!At(h, o.file)
        /\ \A at \in Seeks : at \in Flat!At(h, o.file)
  <2>. SUFFICES ASSUME NEW h \in Handles, NEW o \in handle[h]
       PROVE  /\ o.file \in Files /\ o.offset \in Near /\ o.offset \in Nat
              /\ <<o.file, o.offset>> \in Cursors[h]
              /\ \E c \in Cursors[h] : c[1] = o.file
              /\ o.offset \in Flat!At(h, o.file)
              /\ \A at \in Seeks : at \in Flat!At(h, o.file)
    BY Zenon
  <2>1. o.file \in Files /\ o.offset \in Near /\ o.offset \in Nat /\ o.offset \in Offsets
    BY <1>0, NearOffset DEF Typed, Places, Reached
  <2>2. <<o.file, o.offset>> \in Cursors[h]
    BY DEF Cursors
  <2>3. <<o.file, o.offset>>[1] = o.file
    OBVIOUS
  <2>4. \E c \in Cursors[h] : c[1] = o.file
    BY <2>2, <2>3
  <2>. QED BY <2>1, <2>2, <2>4 DEF Flat!At, Offsets
<1>2. CASE UNCHANGED vars
  <2>1. UNCHANGED <<storage, inode, handle, answer>>
    BY <1>2 DEF vars, storage
  <2>2. Reached' /\ Cursors' = Cursors
    BY <1>0, <2>1 DEF Reached, Cursors
  <2>. QED BY <2>1, <2>2, FlatSame DEF Flat!vars
<1>3. ASSUME NEW h \in Handles, NEW f \in Files, open_file(h, f)
      PROVE  Reached' /\ Flat!Next
  <2>1. /\ handle[h] = {} /\ MovedTo(h, f, 0) /\ answer' = <<>> /\ UNCHANGED <<storage, inode>>
    BY <1>3 DEF open_file
  <2>2. 0 \in Near
    <3>1. 0 <= MaxBytes
      BY FileAssumption, PointerAssumption DEF MaxBytes
    <3>. QED BY <3>1, NearIs
  <2>3. Reached' /\ Flat!Moved(h, f, 0)
    BY <1>0, <2>1, <2>2, FlatSeek, FlatMoved
  <2>4. Cursors[h] = {}
    BY <2>1 DEF Cursors
  <2>5. Flat!Open(h, f)
    BY <2>1, <2>3, <2>4, FlatSame DEF Flat!Open
  <2>. QED BY <2>3, <2>5 DEF Flat!Next
<1>4. ASSUME NEW h \in Handles, close_file(h) PROVE Reached' /\ Flat!Next
  <2>1. /\ handle[h] # {} /\ handle' = [handle EXCEPT ![h] = {}] /\ answer' = <<>>
        /\ UNCHANGED <<storage, inode>> /\ handle \in [Handles -> Places]
    BY <1>0, <1>4 DEF close_file, Typed
  <2>2. PICK o \in handle[h] : o.file \in Files
    BY <1>1, <2>1
  <2>3. \A g \in Handles : handle'[g] = IF g = h THEN {} ELSE handle[g]
    BY <2>1
  <2>4. Reached'
    BY <1>0, <2>1, <2>3 DEF Reached
  <2>5. Cursors' = [Cursors EXCEPT ![h] = {}]
    BY <2>3 DEF Cursors
  <2>6. Flat!Close(h)
    BY <2>1, <2>5, FlatSame DEF Flat!Close
  <2>. QED BY <2>2, <2>4, <2>6 DEF Flat!Next
<1>5. ASSUME NEW h \in Handles, NEW o \in handle[h], NEW x \in Near, seek(h, o, x)
      PROVE  Reached' /\ Flat!Next
  <2>1. o.file \in Files /\ \E c \in Cursors[h] : c[1] = o.file
    BY <1>1
  <2>2. Reached' /\ Flat!Seek(h, o.file)
    BY <1>5, <2>1, FlatSeek DEF seek
  <2>. QED BY <2>1, <2>2 DEF Flat!Next
<1>6. ASSUME NEW h \in Handles, NEW o \in handle[h], NEW x \in Seeks, seek_current(h, o, -x)
      PROVE  Reached' /\ Flat!Next
  <2>. DEFINE y == o.offset + -x
  <2>1. o.offset \in Nat /\ o.offset \in Near /\ x \in Nat
    BY <1>0, <1>1
  <2>2. y \in Int /\ y <= o.offset
    BY <2>1
  <2>3. Max({0, y}) = IF 0 >= y THEN 0 ELSE y
    BY <2>2, Pairs
  <2>4. Max({0, y}) \in Nat /\ Max({0, y}) <= o.offset
    BY <2>1, <2>2, <2>3
  <2>5. Max({0, y}) \in Near
    BY <2>1, <2>4, NearIs
  <2>6. seek(h, o, Max({0, y}))
    BY <1>6 DEF seek_current
  <2>. QED BY <1>5, <2>5, <2>6
<1>7. ASSUME NEW h \in Handles, NEW o \in handle[h], seek_end(h, o, -1) PROVE Reached' /\ Flat!Next
  <2>. DEFINE z == inode[o.file].size
              y == z + -1
  <2>1. z \in Nat /\ z \in Near
    BY <1>0, <1>1, NearOffset DEF Reached
  <2>. HIDE DEF z
  <2>2. y \in Int /\ y <= z
    BY <2>1
  <2>3. Max({0, y}) = IF 0 >= y THEN 0 ELSE y
    BY <2>2, Pairs
  <2>4. Max({0, y}) \in Nat /\ Max({0, y}) <= z
    BY <2>1, <2>2, <2>3
  <2>5. Max({0, y}) \in Near
    BY <2>1, <2>4, NearIs
  <2>6. seek(h, o, Max({0, y}))
    BY <1>7 DEF seek_end, z
  <2>. QED BY <1>5, <2>5, <2>6
<1>8. ASSUME NEW h \in Handles, NEW o \in handle[h], NEW n \in Lens,
             read(h, o, n) \/ \E at \in Seeks : fuse_read(h, o, at, n)
      PROVE  Reached' /\ Flat!Next
  <2>1. o.file \in Files /\ n \in Nat
    BY <1>0, <1>1
  <2>2. PICK at \in Near : at \in Flat!At(h, o.file) /\ ReadAt(h, o.file, at, n)
    BY <1>0, <1>1, <1>8 DEF read, fuse_read
  <2>3. Reached' /\ Flat!Read(h, o.file, at, n)
    BY <2>1, <2>2, FlatRead
  <2>4. \E c \in Cursors[h] : c[1] = o.file
    BY <1>1
  <2>. QED BY <2>1, <2>2, <2>3, <2>4 DEF Flat!Next
<1>9. ASSUME NEW h \in Handles, NEW o \in handle[h], NEW n \in Lens, NEW v \in Values,
             write(h, o, n, v) \/ \E at \in Seeks : fuse_write(h, o, at, n, v)
      PROVE  Reached' /\ Flat!Next
  <2>1. o.file \in Files /\ n \in Nat \ {0}
    BY <1>0, <1>1
  <2>2. PICK at \in Near : at \in Flat!At(h, o.file) /\ WriteAt(h, o.file, at, n, v)
    BY <1>0, <1>1, <1>9 DEF write, fuse_write
  <2>3. Reached' /\ (Flat!Write(h, o.file, at, n, v) \/ Flat!WriteFails(h, o.file, at))
    BY <1>0, <2>1, <2>2, FlatWriteAt
  <2>4. \E c \in Cursors[h] : c[1] = o.file
    BY <1>1
  <2>. QED BY <2>1, <2>2, <2>3, <2>4 DEF Flat!Next
<1>10. ASSUME NEW f \in Files, NEW s \in Cuts, SetSize(f, s) PROVE Reached' /\ Flat!Next
  BY <1>10, FlatCut DEF Flat!Next
<1>11. ASSUME NEW h \in Handles, NEW o \in handle[h], NEW s \in Cuts, truncate(o, s)
       PROVE  Reached' /\ Flat!Next
  BY <1>1, <1>10, <1>11 DEF truncate
<1>12. ASSUME NEW f \in Files, NEW s \in Cuts, setattr(f, s) PROVE Reached' /\ Flat!Next
  BY <1>10, <1>12 DEF setattr
<1>13. ASSUME NEW h \in Handles, NEW o \in handle[h], NEW x \in Seeks, seek(h, o, x)
       PROVE  Reached' /\ Flat!Next
  BY <1>0, <1>5, <1>13
<1>14. Next => Reached' /\ Flat!Next
  BY <1>3, <1>4, <1>6, <1>7, <1>8, <1>9, <1>11, <1>12, <1>13, Zenon DEF Next
<1>. QED BY <1>2, <1>14

(* The inode, its pointer blocks and the allocator together implement one   *)
(* array of bytes per file: every read returns the bytes the writes left,   *)
(* zeros where none did, whichever handle or file grew in between; a write  *)
(* changes the bytes of its range and no other.  It is so as long as no     *)
(* offset reaches the 2^32 blocks at which the code cuts the block index.   *)
THEOREM FlatFileImplemented ==
  ASSUME Addressable PROVE Spec => ImplementsFlatFile
<1>1. Init => FInv /\ Flat!Init
  BY FlatStarts
<1>2. FInv /\ [Next]_vars => FInv' /\ [Flat!Next]_(Flat!vars)
  BY FlatSteps
<1>. QED BY <1>1, <1>2, PTL DEF Spec, ImplementsFlatFile, Flat!Spec
=============================================================================
