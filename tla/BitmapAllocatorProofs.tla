----------------------- MODULE BitmapAllocatorProofs ------------------------
(***************************************************************************)
(* What find_free returns, for every size and geometry of the bitmap.  Its  *)
(* model picks the k-th clear bit in the order of the search, so the proofs *)
(* rest on a fact about finite linear orders: there is an element of every  *)
(* rank.                                                                    *)
(***************************************************************************)
EXTENDS BitmapAllocator, Sequences, FiniteSetTheorems, TLAPS

(* R orders S linearly (strictly).                                          *)
Orders(R, S) == /\ \A x \in S : <<x, x>> \notin R
                /\ \A x, y, z \in S : <<x, y>> \in R /\ <<y, z>> \in R => <<x, z>> \in R
                /\ \A x, y \in S : x = y \/ <<x, y>> \in R \/ <<y, x>> \in R

Before(R, S, x) == {y \in S : <<y, x>> \in R}

(* Ranks in a finite linear order are those of an initial part of Nat, and  *)
(* no two elements share one.                                               *)
LEMMA Rank ==
  ASSUME NEW S, IsFiniteSet(S), NEW R, Orders(R, S)
  PROVE  /\ \A x, y \in S : Cardinality(Before(R, S, x)) = Cardinality(Before(R, S, y)) => x = y
         /\ \A k \in 0 .. Cardinality(S) - 1 : \E x \in S : Cardinality(Before(R, S, x)) = k
<1>. DEFINE n == Cardinality(S)
            rank == [x \in S |-> Cardinality(Before(R, S, x))]
<1>0. n \in Nat
  BY FS_CardinalityType
<1>1. \A x \in S : /\ IsFiniteSet(Before(R, S, x))
                   /\ Cardinality(Before(R, S, x)) \in 0 .. n - 1
  <2>. SUFFICES ASSUME NEW x \in S
                PROVE  /\ IsFiniteSet(Before(R, S, x))
                       /\ Cardinality(Before(R, S, x)) \in 0 .. n - 1
    OBVIOUS
  <2>1. Before(R, S, x) \in SUBSET (S \ {x})
    BY DEF Before, Orders
  <2>2. IsFiniteSet(S \ {x}) /\ Cardinality(S \ {x}) = n - 1
    BY FS_RemoveElement
  <2>3. IsFiniteSet(Before(R, S, x)) /\ Cardinality(Before(R, S, x)) <= n - 1
    BY <2>1, <2>2, FS_Subset
  <2>4. Cardinality(Before(R, S, x)) \in Nat
    BY <2>3, FS_CardinalityType
  <2>. QED BY <1>0, <2>3, <2>4
<1>2. \A x, y \in S : <<x, y>> \in R => rank[x] # rank[y]
  <2>. SUFFICES ASSUME NEW x \in S, NEW y \in S, <<x, y>> \in R
                PROVE  Cardinality(Before(R, S, x)) # Cardinality(Before(R, S, y))
    OBVIOUS
  <2>1. Before(R, S, x) \in SUBSET Before(R, S, y)
    BY DEF Before, Orders
  <2>2. x \in Before(R, S, y) /\ x \notin Before(R, S, x)
    BY DEF Before, Orders
  <2>. QED BY <1>1, <2>1, <2>2, FS_Subset
<1>3. rank \in [S -> 0 .. n - 1] /\ \A x, y \in S : rank[x] = rank[y] => x = y
  <2>1. \A x, y \in S : rank[x] = rank[y] => x = y
    BY <1>2 DEF Orders
  <2>. QED BY <1>1, <2>1
<1>4. rank \in Injection(S, 0 .. n - 1)
  BY <1>3 DEF Injection, IsInjective
<1>5. IsFiniteSet(0 .. n - 1) /\ Cardinality(0 .. n - 1) = n
  BY <1>0, FS_Interval
<1>6. rank \in Surjection(S, 0 .. n - 1)
  BY <1>4, <1>5, FS_Injection
<1>. QED BY <1>3, <1>6 DEF Surjection

-----------------------------------------------------------------------------
(* The search looks at indices of the region only, and orders them.         *)
LEMMA SearchOrders ==
  ASSUME ByteBits \in Nat \ {0}, BlockBits \in Nat \ {0}, MaxIndex \in Nat,
         NEW bits, NEW last \in Int
  PROVE  LET found == Searched(bits, last)
         IN  /\ found \subseteq Index \ bits
             /\ IsFiniteSet(found)
             /\ Orders({r \in found \X found : SearchedBefore(last, r[1], r[2])}, found)
<1>. DEFINE found == Searched(bits, last)
            R == {r \in found \X found : SearchedBefore(last, r[1], r[2])}
<1>1. found \in SUBSET Index
  BY DEF Searched, FirstPass, SecondPass, Mapped
<1>2. IsFiniteSet(found)
  <2>1. IsFiniteSet(Index)
    BY FS_Interval DEF Index
  <2>. QED BY <1>1, <2>1, FS_Subset
<1>3. StartOfByte(last) \in Int
  BY DEF StartOfByte
<1>4. \A x, y \in found : <<x, y>> \in R <=> SearchedBefore(last, x, y)
  OBVIOUS
<1>5. Orders(R, found)
  <2>. HIDE DEF R, found
  <2>1. \A x \in found : x \in Int
    BY <1>1 DEF Index
  <2>. QED BY <1>3, <1>4, <2>1 DEF Orders, SearchedBefore
<1>6. found \cap bits = {}
  BY DEF Searched
<1>. QED BY <1>1, <1>2, <1>5, <1>6

(* If f has fewer indices than asked for, it has all that the search meets. *)
Exhausted(f, bits, last, num) ==
  Len(f) < num => \A i \in Searched(bits, last) : \E k \in DOMAIN f : f[k] = i

(* find_free returns clear bits of the region, none twice, and as many as   *)
(* were asked for unless the search meets fewer; then it returns all that   *)
(* the search meets.                                                        *)
THEOREM FindFree ==
  ASSUME ByteBits \in Nat \ {0}, BlockBits \in Nat \ {0}, MaxIndex \in Nat,
         NEW bits, NEW last \in Int, NEW num \in Nat
  PROVE  LET f == find_free(bits, last, num)
         IN  /\ f \in Seq(Index \ bits)
             /\ Len(f) <= num
             /\ \A k, l \in DOMAIN f : f[k] = f[l] => k = l
             /\ Exhausted(f, bits, last, num)
<1>. DEFINE found == IF num = 0 THEN {} ELSE Searched(bits, last)
            len == IF num <= Cardinality(found) THEN num ELSE Cardinality(found)
            R == {r \in found \X found : SearchedBefore(last, r[1], r[2])}
            rank(i) == Cardinality({j \in found : SearchedBefore(last, j, i)})
            f == find_free(bits, last, num)
<1>1. found \subseteq Index \ bits /\ IsFiniteSet(found) /\ Orders(R, found)
  BY SearchOrders, FS_EmptySet DEF Orders
<1>2. Cardinality(found) \in Nat /\ len \in Nat /\ len <= num /\ len <= Cardinality(found)
  BY <1>1, FS_CardinalityType
<1>3. \A i \in found : Before(R, found, i) = {j \in found : SearchedBefore(last, j, i)}
  BY DEF Before
<1>4. /\ \A x, y \in found : rank(x) = rank(y) => x = y
      /\ \A k \in 0 .. Cardinality(found) - 1 : \E x \in found : rank(x) = k
  <2>. HIDE DEF found, R
  <2>1. /\ \A x, y \in found : Cardinality(Before(R, found, x)) = Cardinality(Before(R, found, y)) => x = y
        /\ \A k \in 0 .. Cardinality(found) - 1 : \E x \in found : Cardinality(Before(R, found, x)) = k
    BY <1>1, Rank
  <2>2. \A i \in found : rank(i) = Cardinality(Before(R, found, i))
    BY <1>3
  <2>. HIDE DEF rank
  <2>. QED BY <2>1, <2>2
<1>5. f = [k \in 1 .. len |-> CHOOSE i \in found : rank(i) = k - 1]
  BY DEF find_free
<1>. HIDE DEF found, len, R, f
<1>6. \A k \in 1 .. len : f[k] \in found /\ rank(f[k]) = k - 1
  <2>. SUFFICES ASSUME NEW k \in 1 .. len PROVE f[k] \in found /\ rank(f[k]) = k - 1
    OBVIOUS
  <2>1. k - 1 \in 0 .. Cardinality(found) - 1
    BY <1>2
  <2>2. \E x \in found : rank(x) = k - 1
    BY <1>4, <2>1
  <2>3. f[k] = CHOOSE i \in found : rank(i) = k - 1
    BY <1>5
  <2>. HIDE DEF rank
  <2>. QED BY <2>2, <2>3
<1>7. f \in Seq(Index \ bits) /\ Len(f) = len /\ DOMAIN f = 1 .. len
  <2>1. f \in [1 .. len -> Index \ bits]
    BY <1>1, <1>5, <1>6
  <2>. QED BY <1>2, <2>1
<1>8. \A k, l \in 1 .. len : f[k] = f[l] => k = l
  <2>. HIDE DEF rank
  <2>. QED BY <1>2, <1>6
<1>9. ASSUME len < num PROVE \A i \in Searched(bits, last) : \E k \in 1 .. len : f[k] = i
  <2>1. found = Searched(bits, last) /\ len = Cardinality(found)
    BY <1>2, <1>9 DEF found, len
  <2>2. f \in [1 .. len -> found]
    BY <1>5, <1>6
  <2>3. f \in Injection(1 .. len, found)
    BY <1>8, <2>2 DEF Injection, IsInjective
  <2>4. Cardinality(1 .. len) = len
    BY <1>2, FS_Interval
  <2>5. f \in Surjection(1 .. len, found)
    BY <1>1, <2>1, <2>3, <2>4, FS_Injection
  <2>. QED BY <2>1, <2>5 DEF Surjection
<1>. QED BY <1>2, <1>7, <1>8, <1>9 DEF f, Exhausted
=============================================================================
