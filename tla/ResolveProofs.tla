--------------------------- MODULE ResolveProofs ----------------------------
(***************************************************************************)
(* What resolve() returns names its target, and its recursion implements    *)
(* the textual walk of PathWalk: for every tree, every set of links and     *)
(* targets, and every depth of recursion.                                   *)
(***************************************************************************)
EXTENDS Resolve, SequenceTheorems, WellFoundedInduction, TLAPS

Place == {NoEntry} \cup (Directories \X STRING)
Frames == [rest : Seq(STRING), cur : Nodes, parent : Nodes, at : Place, final : BOOLEAN]

(* The position is the one of the current node's own entry.  Only the       *)
(* innermost activation can promise that: one that is following a link has  *)
(* the position of the link and not yet a node to go with it.               *)
Located(node, parent, at) ==
  \/ at = NoEntry /\ parent = node /\ node \in Directories
  \/ at # NoEntry /\ at[1] = parent /\ find_entry(at[1], at[2]) = node

(* The inductive invariant.                                                 *)
LInv == /\ target \in [Links -> Targets \cup {Empty}]
        /\ stack \in Seq(Frames)
        /\ stack # <<>> => Located(top.cur, top.parent, top.at)
        /\ LocationNamesTarget

(* Only a directory has entries, and an entry is a node.                    *)
LEMMA EntryFound ==
  ASSUME NEW dir, NEW name, find_entry(dir, name) # Missing
  PROVE  dir \in Directories /\ find_entry(dir, name) \in Nodes
<1>1. dir \in Directories
  BY DEF find_entry
<1>2. dir \in Nodes /\ Parent[dir] \in Directories
  BY <1>1, ResolveAssumption DEF Nodes
<1>. QED BY <1>1, <1>2 DEF find_entry, Nodes

(* A stack whose innermost activation is replaced, or that gains one.       *)
LEMMA TopSet ==
  ASSUME NEW S, NEW s \in Seq(S), s # <<>>, NEW x \in S
  PROVE  LET t == [s EXCEPT ![Len(s)] = x]
         IN  t \in Seq(S) /\ t # <<>> /\ Len(t) = Len(s) /\ t[Len(t)] = x
<1>1. Len(s) \in 1 .. Len(s) /\ DOMAIN s = 1 .. Len(s) /\ Len(s) \in Nat
  OBVIOUS
<1>. QED BY <1>1

(* The same for Append.                                                     *)
LEMMA TopAppended ==
  ASSUME NEW S, NEW s \in Seq(S), NEW x \in S
  PROVE  LET t == Append(s, x)
         IN  t \in Seq(S) /\ t # <<>> /\ t[Len(t)] = x
  BY AppendProperties

(* A new activation starts in a directory, with no position.                *)
LEMMA FrameLocated ==
  ASSUME NEW path \in [abs : BOOLEAN, comps : Seq(STRING)], NEW src \in Directories,
         NEW final \in BOOLEAN
  PROVE  LET f == Frame(path, src, final)
         IN  f \in Frames /\ Located(f.cur, f.parent, f.at)
<1>1. src \in Nodes /\ path.comps \in Seq(STRING)
  BY DEF Nodes
<1>. QED BY <1>1 DEF Frame, Frames, Located, Place

(* A call that fails.                                                       *)
LEMMA ErrorKept ==
  ASSUME LInv, Error PROVE LInv'
<1>1. stack' = <<>> /\ result' = Nothing /\ target' = target
  BY DEF Error
<1>2. result'.node = Missing
  BY <1>1 DEF Nothing
<1>3. LocationNamesTarget'
  BY <1>2 DEF LocationNamesTarget
<1>. QED BY <1>1, <1>3 DEF LInv

(* The loop over the components.                                            *)
LEMMA ComponentKept ==
  ASSUME LInv, component PROVE LInv'
<1>. DEFINE name == Head(top.rest)
            node == find_entry(top.cur, name)
            rest == Tail(top.rest)
            here == [top EXCEPT !.rest = rest, !.at = <<top.cur, name>>]
            next == [here EXCEPT !.parent = top.cur, !.cur = node]
            new  == Frame(target[node], Source(target[node], top.cur), TRUE)
<1>1. stack # <<>> /\ top.rest # <<>> /\ stack \in Seq(Frames)
  BY DEF component, LInv
<1>2. top \in Frames
  BY <1>1 DEF top
<1>3. name \in STRING /\ rest \in Seq(STRING)
  BY <1>1, <1>2 DEF Frames
<1>4. \/ Error
      \/ /\ node \in Links /\ target[node] # Empty
         /\ stack' = Append([stack EXCEPT ![Len(stack)] = here], new)
         /\ UNCHANGED <<target, result>>
      \/ /\ node # Missing
         /\ stack' = [stack EXCEPT ![Len(stack)] = next]
         /\ UNCHANGED <<target, result>>
  BY DEF component, Follows, Entered, SetTop
<1>5. ASSUME node # Missing
      PROVE  top.cur \in Directories /\ node \in Nodes /\ here \in Frames /\ next \in Frames
             /\ next.cur = node /\ next.parent = top.cur /\ next.at = <<top.cur, name>>
  <2>1. top.cur \in Directories /\ node \in Nodes
    BY <1>5, EntryFound
  <2>2. <<top.cur, name>> \in Place /\ top.cur \in Nodes
    BY <1>3, <2>1 DEF Place, Nodes
  <2>. HIDE DEF node, name, rest
  <2>3. here \in Frames /\ here.at = <<top.cur, name>>
    BY <1>2, <1>3, <2>2 DEF Frames
  <2>. HIDE DEF here
  <2>4. next \in Frames /\ next.cur = node /\ next.parent = top.cur /\ next.at = here.at
    BY <2>1, <2>2, <2>3 DEF Frames
  <2>. QED BY <2>1, <2>3, <2>4
<1>6. CASE /\ node \in Links /\ target[node] # Empty
           /\ stack' = Append([stack EXCEPT ![Len(stack)] = here], new)
           /\ UNCHANGED <<target, result>>
  <2>1. node # Missing /\ node \in Links
    BY <1>6, ResolveAssumption DEF Nodes
  <2>. HIDE DEF node
  <2>2. target[node] \in [abs : BOOLEAN, comps : Seq(STRING)]
    BY <1>6, <2>1, ResolveAssumption DEF LInv
  <2>3. Source(target[node], top.cur) \in Directories
    BY <1>5, <2>1 DEF Source, Directories
  <2>4. new \in Frames /\ Located(new.cur, new.parent, new.at)
    BY <2>2, <2>3, FrameLocated
  <2>5. here \in Frames
    BY <1>5, <2>1
  <2>. HIDE DEF new, here
  <2>. DEFINE s == [stack EXCEPT ![Len(stack)] = here]
  <2>6. s \in Seq(Frames)
    BY <1>1, <2>5, TopSet
  <2>7. stack' = Append(s, new)
    BY <1>6
  <2>. HIDE DEF s
  <2>8. stack' \in Seq(Frames) /\ stack'[Len(stack')] = new
    BY <2>4, <2>6, <2>7, TopAppended
  <2>9. top' = new
    BY <2>8 DEF top
  <2>. QED BY <1>6, <2>4, <2>8, <2>9 DEF LInv, LocationNamesTarget
<1>7. CASE /\ node # Missing
           /\ stack' = [stack EXCEPT ![Len(stack)] = next]
           /\ UNCHANGED <<target, result>>
  <2>1. Located(next.cur, next.parent, next.at)
    BY <1>5, <1>7 DEF Located, NoEntry
  <2>2. next \in Frames
    BY <1>5, <1>7
  <2>. HIDE DEF next
  <2>3. stack' \in Seq(Frames) /\ stack'[Len(stack')] = next
    BY <1>1, <1>7, <2>2, TopSet
  <2>4. top' = next
    BY <2>3 DEF top
  <2>. QED BY <1>7, <2>1, <2>3, <2>4 DEF LInv, LocationNamesTarget
<1>. QED BY <1>4, <1>6, <1>7, ErrorKept

(* A followed link returns: what it found replaces what the caller had.     *)
LEMMA ReturnKept ==
  ASSUME LInv, return_symlink PROVE LInv'
<1>. DEFINE n == Len(stack)
            caller == Returned(stack[n - 1], top)
            s == SubSeq(stack, 1, n - 2)
<1>1. n > 1 /\ stack \in Seq(Frames) /\ n \in Nat
  BY DEF return_symlink, LInv
<1>2. top \in Frames /\ stack[n - 1] \in Frames /\ Located(top.cur, top.parent, top.at)
  <2>1. n \in 1 .. n /\ n - 1 \in 1 .. n /\ stack # <<>>
    BY <1>1
  <2>. QED BY <1>1, <2>1 DEF top, LInv
<1>3. /\ caller \in Frames
      /\ caller.cur = top.cur /\ caller.parent = top.parent /\ caller.at = top.at
  BY <1>2 DEF Returned, Frames
<1>4. s \in Seq(Frames)
  <2>1. \A k \in 1 .. n - 2 : stack[k] \in Frames
    BY <1>1
  <2>. QED BY <1>1, <2>1, SubSeqProperties
<1>5. \/ Error
      \/ stack' = Append(s, caller) /\ UNCHANGED <<target, result>>
  BY DEF return_symlink
<1>. HIDE DEF s, caller, n
<1>6. CASE stack' = Append(s, caller) /\ UNCHANGED <<target, result>>
  <2>1. stack' \in Seq(Frames) /\ stack'[Len(stack')] = caller
    BY <1>3, <1>4, <1>6, TopAppended
  <2>2. top' = caller
    BY <2>1 DEF top
  <2>. QED BY <1>2, <1>3, <1>6, <2>1, <2>2 DEF LInv, LocationNamesTarget
<1>. QED BY <1>5, <1>6, ErrorKept

(* The call returns what the outermost activation has found.                *)
LEMMA CallReturns ==
  ASSUME LInv, return_call PROVE LInv'
<1>0. stack # <<>>
  BY DEF return_call
<1>1. /\ stack' = <<>>
      /\ result' = [node |-> top.cur, parent |-> top.parent, at |-> top.at, final |-> top.final]
  BY Zenon DEF return_call
<1>2. Located(top.cur, top.parent, top.at)
  BY <1>0 DEF LInv
<1>3. LocationNamesTarget'
  <2>1. /\ result'.node = top.cur /\ result'.parent = top.parent /\ result'.at = top.at
    BY <1>1
  <2>. QED BY <1>2, <2>1 DEF LocationNamesTarget, Located
<1>4. target' \in [Links -> Targets \cup {Empty}]
  BY DEF return_call, LInv
<1>. QED BY <1>1, <1>3, <1>4 DEF LInv

(* Every step keeps the invariant.                                          *)
LEMMA LocatedStep ==
  ASSUME LInv, [Next]_vars PROVE LInv'
<1>1. ASSUME NEW path \in Paths, NEW final \in BOOLEAN, resolve(path, final) PROVE LInv'
  <2>. DEFINE f == Frame(path, Root, final)
  <2>1. stack' = <<f>> /\ result' = Nothing /\ target' = target
    BY <1>1 DEF resolve
  <2>2. f \in Frames /\ Located(f.cur, f.parent, f.at)
    BY ResolveAssumption, FrameLocated DEF Directories
  <2>. HIDE DEF f
  <2>3. stack' \in Seq(Frames) /\ top' = f
    BY <2>1, <2>2 DEF top
  <2>4. LocationNamesTarget'
    BY <2>1 DEF LocationNamesTarget, Nothing
  <2>. QED BY <2>1, <2>2, <2>3, <2>4 DEF LInv
<1>2. CASE UNCHANGED vars
  BY <1>2 DEF vars, LInv, top, LocationNamesTarget
<1>. QED BY <1>1, <1>2, ComponentKept, ReturnKept, CallReturns DEF Next, Running

(* The position resolve() returns with a node is the position of that       *)
(* node's own entry, however many links, relative ones in other directories *)
(* included, led there: delete() frees the record of what it deletes.       *)
THEOREM LocationCorrect == Spec => []LocationNamesTarget
<1>1. Init => LInv
  <2>. SUFFICES ASSUME Init PROVE LInv
    OBVIOUS
  <2>1. target \in [Links -> Targets \cup {Empty}] /\ stack = <<>> /\ result.node = Missing
    BY DEF Init, Nothing
  <2>. QED BY <2>1 DEF LInv, LocationNamesTarget
<1>2. LInv /\ [Next]_vars => LInv'
  BY LocatedStep
<1>3. LInv => LocationNamesTarget
  BY DEF LInv
<1>. QED BY <1>1, <1>2, <1>3, PTL DEF Spec

-----------------------------------------------------------------------------
(* The components still to come                                             *)

(* A set of naturals that is not empty has a least element.                 *)
LEMMA Least ==
  ASSUME NEW T \in SUBSET Nat, T # {}
  PROVE  \E x \in T : \A y \in T : x <= y
<1>. DEFINE R == OpToRel(<, Nat)
<1>1. IsWellFoundedOn(R, Nat)
  BY NatLessThanWellFounded
<1>2. \A x, y \in Nat : <<y, x>> \in R <=> y < x
  BY DEF OpToRel
<1>. HIDE DEF R
<1>3. PICK x \in T : \A y \in T : ~ (<<y, x>> \in R)
  BY <1>1, WFMin
<1>4. \A y \in T : ~(y < x)
  BY <1>2, <1>3
<1>. QED BY <1>4

(* The activations below the innermost one, and the stack put together      *)
(* again with the old or another innermost one.                             *)
Below(s) == SubSeq(s, 1, Len(s) - 1)

LEMMA Split ==
  ASSUME NEW S, NEW s \in Seq(S), s # <<>>
  PROVE  /\ Len(s) \in Nat /\ Len(s) >= 1 /\ s[Len(s)] \in S
         /\ Below(s) \in Seq(S) /\ Len(Below(s)) = Len(s) - 1
         /\ \A k \in 1 .. Len(s) - 1 : Below(s)[k] = s[k]
         /\ s = Append(Below(s), s[Len(s)])
         /\ \A x \in S : [s EXCEPT ![Len(s)] = x] = Append(Below(s), x)
<1>. DEFINE n == Len(s)
            b == Below(s)
<1>1. n \in Nat /\ n >= 1 /\ n \in 1 .. n /\ s[n] \in S /\ \A k \in 1 .. n : s[k] \in S
  OBVIOUS
<1>2. b \in Seq(S) /\ Len(b) = n - 1 /\ \A k \in 1 .. n - 1 : b[k] = s[k]
  <2>1. \A k \in 1 .. n - 1 : s[k] \in S
    BY <1>1
  <2>. DEFINE q == SubSeq(s, 1, n - 1)
  <2>2. /\ q \in Seq(S)
        /\ Len(q) = IF 1 <= n - 1 THEN n - 1 - 1 + 1 ELSE 0
        /\ \A k \in 1 .. n - 1 - 1 + 1 : q[k] = s[1 + k - 1]
    BY <1>1, <2>1, SubSeqProperties
  <2>. HIDE DEF q
  <2>3. Len(q) = n - 1 /\ n - 1 - 1 + 1 = n - 1
    <3>. HIDE DEF n
    <3>1. n - 1 - 1 + 1 = n - 1
      BY <1>1
    <3>2. 1 <= n - 1 \/ n - 1 = 0
      BY <1>1
    <3>. QED BY <2>2, <3>1, <3>2
  <2>4. ASSUME NEW k \in 1 .. n - 1 PROVE q[k] = s[k]
    <3>1. 1 + k - 1 = k /\ q[k] = s[1 + k - 1]
      BY <2>2, <2>3
    <3>. QED BY <3>1
  <2>5. b = q
    BY DEF Below, q
  <2>. QED BY <2>2, <2>3, <2>4, <2>5
<1>. HIDE DEF b
<1>3. ASSUME NEW t \in Seq(S), Len(t) = n, \A k \in 1 .. n - 1 : t[k] = s[k]
      PROVE  t = Append(b, t[n])
  <2>. DEFINE a == Append(b, t[n])
  <2>1. t[n] \in S
    BY <1>1, <1>3
  <2>2. a \in Seq(S) /\ Len(a) = n /\ a[n] = t[n] /\ \A k \in 1 .. n - 1 : a[k] = b[k]
    BY <1>1, <1>2, <2>1, AppendProperties
  <2>3. \A k \in 1 .. n : k = n \/ k \in 1 .. n - 1
    BY <1>1
  <2>. HIDE DEF a
  <2>4. \A k \in 1 .. n : t[k] = a[k]
    BY <1>2, <1>3, <2>2, <2>3
  <2>5. t = a
    BY <1>3, <2>2, <2>4, SeqEqual
  <2>. QED BY <2>5 DEF a
<1>4. s = Append(b, s[n])
  BY <1>3
<1>5. ASSUME NEW x \in S PROVE [s EXCEPT ![n] = x] = Append(b, x)
  <2>. DEFINE t == [s EXCEPT ![n] = x]
  <2>1. t \in Seq(S) /\ Len(t) = n /\ t[n] = x /\ \A k \in 1 .. n - 1 : t[k] = s[k]
    BY <1>1, ExceptSeq
  <2>. HIDE DEF t
  <2>2. t = Append(b, t[n])
    BY <1>3, <2>1
  <2>. QED BY <2>1, <2>2 DEF t
<1>. QED BY <1>1, <1>2, <1>4, <1>5 DEF b

(* What the recursive function inside Pending is to satisfy.                *)
From(s, f) == f = [k \in 0 .. Len(s) |-> IF k = 0 THEN <<>> ELSE s[k].rest \o f[k - 1]]

(* A longer stack has the components of the new activation in front.        *)
LEMMA FromAppended ==
  ASSUME NEW s \in Seq(Frames), NEW x \in Frames, NEW f, From(s, f)
  PROVE  \E e : /\ From(Append(s, x), e)
                /\ e[Len(s) + 1] = x.rest \o f[Len(s)]
<1>. DEFINE n == Len(s)
            t == Append(s, x)
            e == [k \in 0 .. n + 1 |-> IF k = n + 1 THEN x.rest \o f[n] ELSE f[k]]
            h(g, k) == IF k = 0 THEN <<>> ELSE t[k].rest \o g[k - 1]
<1>1. n \in Nat /\ Len(t) = n + 1 /\ t[n + 1] = x /\ \A k \in 1 .. n : t[k] = s[k]
  BY AppendProperties
<1>. HIDE DEF n, t
<1>2. \A k \in 0 .. n : f[k] = h(f, k)
  <2>1. \A k \in 0 .. n : f[k] = IF k = 0 THEN <<>> ELSE s[k].rest \o f[k - 1]
    BY DEF From, n
  <2>2. \A k \in 0 .. n : k = 0 \/ k \in 1 .. n
    BY <1>1
  <2>. QED BY <1>1, <2>1, <2>2
<1>3. \A k \in 0 .. n + 1 : k = 0 \/ k - 1 \in 0 .. n
  BY <1>1
<1>4. \A k \in 0 .. n : e[k] = f[k]
  BY <1>1
<1>5. e[n + 1] = x.rest \o f[n] /\ (n + 1) - 1 = n /\ n + 1 # 0
  <2>1. n + 1 \in 0 .. n + 1 /\ (n + 1) - 1 = n /\ n + 1 # 0
    BY <1>1
  <2>. QED BY <2>1
<1>6. \A k \in 0 .. n + 1 : k = n + 1 \/ k \in 0 .. n
  BY <1>1
<1>7. e = [k \in 0 .. n + 1 |-> e[k]]
  OBVIOUS
<1>. HIDE DEF e
<1>8. \A k \in 0 .. n + 1 : h(e, k) = h(f, k)
  BY <1>3, <1>4
<1>9. \A k \in 0 .. n + 1 : e[k] = h(f, k)
  <2>1. e[n + 1] = h(f, n + 1)
    BY <1>1, <1>5
  <2>. HIDE DEF h
  <2>. QED BY <1>2, <1>4, <1>6, <2>1
<1>10. e = [k \in 0 .. n + 1 |-> h(e, k)]
  <2>. HIDE DEF h
  <2>. QED BY <1>7, <1>8, <1>9
<1>. QED BY <1>1, <1>5, <1>10 DEF From, t, n

(* Every stack has such a function.                                         *)
LEMMA FromExists ==
  ASSUME NEW s \in Seq(Frames)
  PROVE  \E f : From(s, f)
<1>. DEFINE P(n) == \A u \in Seq(Frames) : Len(u) = n => \E f : From(u, f)
            T == {n \in Nat : ~P(n)}
<1>1. ASSUME T # {} PROVE FALSE
  <2>1. PICK n \in T : \A y \in T : n <= y
    BY <1>1, Least
  <2>2. PICK u \in Seq(Frames) : Len(u) = n /\ ~\E f : From(u, f)
    OBVIOUS
  <2>3. CASE n = 0
    <3>. DEFINE f == [k \in 0 .. 0 |-> <<>>]
    <3>1. f = [k \in 0 .. 0 |-> IF k = 0 THEN <<>> ELSE u[k].rest \o f[k - 1]]
      OBVIOUS
    <3>. HIDE DEF f
    <3>2. From(u, f)
      BY <2>2, <2>3, <3>1 DEF From
    <3>. QED BY <2>2, <3>2
  <2>4. CASE n # 0
    <3>. DEFINE v == Below(u)
                x == u[n]
    <3>0. n \in Nat /\ u # <<>>
      BY <2>2, <2>4
    <3>1. n - 1 \in Nat /\ n - 1 \notin T
      BY <2>1, <2>4, <3>0
    <3>2. v \in Seq(Frames) /\ Len(v) = n - 1 /\ x \in Frames /\ Append(v, x) = u
      BY <2>2, <3>0, Split
    <3>3. P(n - 1)
      BY <3>1
    <3>. HIDE DEF v, x
    <3>4. PICK f : From(v, f)
      BY <3>2, <3>3
    <3>5. \E e : From(Append(v, x), e)
      BY <3>2, <3>4, FromAppended
    <3>. QED BY <2>2, <3>2, <3>5
  <2>. QED BY <2>3, <2>4
<1>. QED BY <1>1

(* And only one.                                                            *)
LEMMA FromUnique ==
  ASSUME NEW s \in Seq(Frames), NEW f, NEW e, From(s, f), From(s, e)
  PROVE  f[Len(s)] = e[Len(s)]
<1>. DEFINE n == Len(s)
            T == {k \in Nat : k <= n /\ f[k] # e[k]}
<1>1. /\ \A k \in 0 .. n : f[k] = IF k = 0 THEN <<>> ELSE s[k].rest \o f[k - 1]
      /\ \A k \in 0 .. n : e[k] = IF k = 0 THEN <<>> ELSE s[k].rest \o e[k - 1]
      /\ n \in Nat
  BY DEF From
<1>. HIDE DEF n
<1>2. ASSUME T # {} PROVE FALSE
  <2>1. PICK k \in T : \A y \in T : k <= y
    BY <1>2, Least
  <2>2. k \in Nat /\ k <= n /\ f[k] # e[k] /\ k \in 0 .. n
    BY <1>1
  <2>3. k # 0
    BY <1>1, <2>2
  <2>4. k - 1 \in Nat /\ k - 1 <= n /\ k - 1 \notin T
    BY <1>1, <2>1, <2>2, <2>3
  <2>5. f[k - 1] = e[k - 1]
    BY <2>4
  <2>6. f[k] = s[k].rest \o f[k - 1] /\ e[k] = s[k].rest \o e[k - 1]
    BY <1>1, <2>2, <2>3
  <2>. QED BY <2>2, <2>5, <2>6
<1>3. n \in Nat /\ n <= n /\ n \notin T
  BY <1>1, <1>2
<1>. QED BY <1>3 DEF n

LEMMA PendingFrom ==
  ASSUME NEW s \in Seq(Frames), NEW f, From(s, f)
  PROVE  Pending(s) = f[Len(s)]
<1>. DEFINE F == CHOOSE g : g = [k \in 0 .. Len(s) |->
                                   IF k = 0 THEN <<>> ELSE s[k].rest \o g[k - 1]]
<1>1. Pending(s) = F[Len(s)]
  BY DEF Pending
<1>2. From(s, F)
  BY DEF From
<1>. HIDE DEF F
<1>. QED BY <1>1, <1>2, FromUnique

(* The two facts about Pending that the steps need: an empty stack has      *)
(* nothing left, and an activation puts what it has left in front.          *)
LEMMA PendingNone == Pending(<<>>) = <<>>
<1>. DEFINE f == [k \in 0 .. 0 |-> <<>>]
            e == <<>>
<1>1. f = [k \in 0 .. 0 |-> IF k = 0 THEN <<>> ELSE e[k].rest \o f[k - 1]]
  OBVIOUS
<1>2. f[0] = <<>>
  OBVIOUS
<1>3. e \in Seq(Frames) /\ Len(e) = 0
  OBVIOUS
<1>. HIDE DEF f, e
<1>4. From(e, f)
  BY <1>1, <1>3 DEF From
<1>5. Pending(e) = <<>>
  BY <1>2, <1>3, <1>4, PendingFrom
<1>. QED BY <1>5 DEF e

LEMMA PendingAppended ==
  ASSUME NEW s \in Seq(Frames), NEW x \in Frames
  PROVE  Pending(Append(s, x)) = x.rest \o Pending(s)
<1>1. PICK f : From(s, f)
  BY FromExists
<1>2. PICK e : From(Append(s, x), e) /\ e[Len(s) + 1] = x.rest \o f[Len(s)]
  BY <1>1, FromAppended
<1>. DEFINE t == Append(s, x)
<1>3. t \in Seq(Frames) /\ Len(t) = Len(s) + 1
  BY AppendProperties
<1>4. From(t, e) /\ e[Len(s) + 1] = x.rest \o f[Len(s)]
  BY <1>2
<1>. HIDE DEF t
<1>5. Pending(t) = e[Len(s) + 1]
  BY <1>3, <1>4, PendingFrom
<1>6. Pending(s) = f[Len(s)]
  BY <1>1, PendingFrom
<1>. QED BY <1>4, <1>5, <1>6 DEF t

(* Both by the innermost activation of the shortest stack for which it      *)
(* fails.                                                                   *)
LEMMA PendingComponents ==
  ASSUME NEW s \in Seq(Frames)
  PROVE  /\ Pending(s) \in Seq(STRING)
         /\ s # <<>> /\ s[1].rest # <<>> => Pending(s) # <<>>
<1>. DEFINE Q(u) == /\ Pending(u) \in Seq(STRING)
                    /\ u # <<>> /\ u[1].rest # <<>> => Pending(u) # <<>>
            P(n) == \A u \in Seq(Frames) : Len(u) = n => Q(u)
            T == {n \in Nat : ~P(n)}
<1>1. ASSUME T # {} PROVE FALSE
  <2>1. PICK n \in T : \A y \in T : n <= y
    BY <1>1, Least
  <2>2. PICK u \in Seq(Frames) : Len(u) = n /\ ~Q(u)
    OBVIOUS
  <2>3. u # <<>>
    BY <2>2, PendingNone
  <2>. DEFINE v == Below(u)
              x == u[n]
  <2>4. /\ n \in Nat /\ n >= 1 /\ v \in Seq(Frames) /\ Len(v) = n - 1 /\ x \in Frames
        /\ Append(v, x) = u /\ \A k \in 1 .. n - 1 : v[k] = u[k]
    BY <2>2, <2>3, Split
  <2>5. n - 1 \in Nat /\ n - 1 \notin T
    BY <2>1, <2>4
  <2>6. P(n - 1)
    BY <2>5
  <2>. HIDE DEF v
  <2>7. Q(v)
    BY <2>4, <2>6
  <2>8. Pending(u) = x.rest \o Pending(v) /\ x.rest \in Seq(STRING)
    <3>1. x.rest \in Seq(STRING)
      BY <2>4 DEF Frames
    <3>. HIDE DEF x
    <3>. QED BY <2>4, <3>1, PendingAppended
  <2>9. Pending(u) \in Seq(STRING) /\ Len(Pending(u)) = Len(x.rest) + Len(Pending(v))
    BY <2>7, <2>8, ConcatProperties
  <2>10. ASSUME u[1].rest # <<>> PROVE Pending(u) # <<>>
    <3>1. CASE n = 1
      <4>1. Len(x.rest) > 0
        BY <2>8, <2>10, <3>1
      <4>. QED BY <2>7, <2>8, <2>9, <4>1
    <3>2. CASE n # 1
      <4>1. v # <<>> /\ v[1] = u[1]
        BY <2>4, <3>2
      <4>2. Len(Pending(v)) > 0
        BY <2>7, <2>10, <4>1
      <4>. QED BY <2>7, <2>8, <2>9, <4>2
    <3>. QED BY <3>1, <3>2
  <2>. QED BY <2>2, <2>9, <2>10
<1>2. Len(s) \in Nat /\ Len(s) \notin T
  BY <1>1
<1>. HIDE DEF Q
<1>3. Q(s)
  BY <1>2
<1>. QED BY <1>3 DEF Q

-----------------------------------------------------------------------------
(* The recursion implements the walk                                        *)

(* An activation that follows a link for another one follows the last link  *)
(* of its path; and the first one, told not to, follows a link only while   *)
(* it has components left.                                                  *)
Shape(s) == /\ \A k \in 2 .. Len(s) : s[k].final
            /\ Len(s) > 1 => s[1].final \/ s[1].rest # <<>>

(* The inductive invariant of the refinement: the depth of the recursion,   *)
(* which _resolve compares with the limit, is at most the number of links   *)
(* the walk has followed.                                                   *)
WInv == /\ LInv
        /\ followed \in 0 .. MaxDepth
        /\ stack # <<>> => Len(stack) - 1 <= followed
        /\ Shape(stack)

(* The outermost activation of a stack with x innermost.                    *)
First(t, x) == IF t = <<>> THEN x ELSE t[1]

LEMMA AppendedIs ==
  ASSUME NEW t \in Seq(Frames), NEW x \in Frames
  PROVE  LET s == Append(t, x)
         IN  /\ s \in Seq(Frames) /\ s # <<>> /\ Len(s) = Len(t) + 1 /\ Len(t) \in Nat
             /\ s[Len(s)] = x /\ s[1] = First(t, x) /\ \A k \in 1 .. Len(t) : s[k] = t[k]
<1>. DEFINE s == Append(t, x)
<1>1. /\ s \in Seq(Frames) /\ s # <<>> /\ Len(s) = Len(t) + 1 /\ Len(t) \in Nat
      /\ s[Len(t) + 1] = x /\ \A k \in 1 .. Len(t) : s[k] = t[k]
  BY AppendProperties
<1>2. t = <<>> \/ 1 \in 1 .. Len(t)
  OBVIOUS
<1>3. t = <<>> => Len(t) + 1 = 1
  OBVIOUS
<1>. HIDE DEF s
<1>4. s[1] = First(t, x)
  BY <1>1, <1>2, <1>3 DEF First
<1>. QED BY <1>1, <1>4 DEF s

LEMMA ShapeAppended ==
  ASSUME NEW t \in Seq(Frames), NEW x \in Frames
  PROVE  Shape(Append(t, x)) <=>
           /\ Shape(t)
           /\ t # <<>> => x.final /\ (t[1].final \/ t[1].rest # <<>>)
<1>. DEFINE s == Append(t, x)
            n == Len(t)
<1>1. /\ Len(s) = n + 1 /\ n \in Nat /\ s[n + 1] = x
      /\ \A k \in 1 .. n : s[k] = t[k]
  BY AppendedIs
<1>2. t = <<>> <=> n = 0
  OBVIOUS
<1>. HIDE DEF s, n
<1>3. (\A k \in 2 .. n + 1 : s[k].final) <=>
        (\A k \in 2 .. n : t[k].final) /\ (n # 0 => x.final)
  <2>1. \A k \in 2 .. n + 1 : k = n + 1 \/ k \in 2 .. n
    BY <1>1
  <2>2. \A k \in 2 .. n : k \in 2 .. n + 1 /\ k \in 1 .. n
    BY <1>1
  <2>3. n # 0 => n + 1 \in 2 .. n + 1
    BY <1>1
  <2>4. n = 0 => 2 .. n + 1 = {} /\ 2 .. n = {}
    BY <1>1
  <2>. QED BY <1>1, <2>1, <2>2, <2>3, <2>4
<1>4. n # 0 => n + 1 > 1 /\ s[1] = t[1]
  BY <1>1
<1>5. n = 0 => ~(n + 1 > 1) /\ ~(n > 1)
  OBVIOUS
<1>6. Shape(s) <=> (\A k \in 2 .. n + 1 : s[k].final)
                   /\ (n + 1 > 1 => s[1].final \/ s[1].rest # <<>>)
  BY <1>1 DEF Shape
<1>7. Shape(t) <=> (\A k \in 2 .. n : t[k].final)
                   /\ (n > 1 => t[1].final \/ t[1].rest # <<>>)
  BY DEF Shape, n
<1>8. Shape(s) <=> Shape(t) /\ (t # <<>> => x.final /\ (t[1].final \/ t[1].rest # <<>>))
  <2>1. CASE n = 0
    BY <1>2, <1>3, <1>5, <1>6, <1>7, <2>1
  <2>2. CASE n # 0
    BY <1>2, <1>3, <1>4, <1>6, <1>7, <2>2
  <2>. QED BY <2>1, <2>2
<1>. QED BY <1>8 DEF s

(* What the walk is when x is innermost and t below it.                     *)
WalkOf(t, x, n) == [node |-> x.cur, rest |-> x.rest \o Pending(t),
                    final |-> First(t, x).final, followed |-> n]

LEMMA WalkingIs ==
  ASSUME NEW t \in Seq(Frames), NEW x \in Frames, stack = Append(t, x)
  PROVE  Walking = {WalkOf(t, x, followed)} /\ top = x
<1>1. stack # <<>> /\ top = x /\ stack[1] = First(t, x)
  BY AppendedIs DEF top
<1>2. Pending(stack) = x.rest \o Pending(t)
  BY PendingAppended
<1>. QED BY <1>1, <1>2 DEF Walking, WalkOf

LEMMA WalkingThen ==
  ASSUME NEW t \in Seq(Frames), NEW x \in Frames, stack' = Append(t, x)
  PROVE  Walking' = {WalkOf(t, x, followed')} /\ top' = x
<1>1. stack' # <<>> /\ top' = x /\ (stack')[1] = First(t, x)
  BY AppendedIs DEF top
<1>2. Pending(stack') = x.rest \o Pending(t)
  BY PendingAppended
<1>. QED BY <1>1, <1>2 DEF Walking, WalkOf

(* The parts of a stack that is not empty.                                  *)
LEMMA Innermost ==
  ASSUME LInv, stack # <<>>
  PROVE  LET b == Below(stack)
         IN  /\ b \in Seq(Frames) /\ top \in Frames /\ stack = Append(b, top)
             /\ Len(b) = Len(stack) - 1 /\ Len(stack) \in Nat
             /\ \A x \in Frames : SetTop(x) = Append(b, x)
<1>1. stack \in Seq(Frames)
  BY DEF LInv
<1>. QED BY <1>1, Split DEF top, SetTop

LEMMA FrontTaken ==
  ASSUME NEW S, NEW r \in Seq(S), r # <<>>, NEW t \in Seq(S)
  PROVE  r \o t # <<>> /\ Head(r \o t) = Head(r) /\ Tail(r \o t) = Tail(r) \o t
<1>1. /\ r \o t \in Seq(S) /\ Len(r \o t) = Len(r) + Len(t)
      /\ \A k \in 1 .. Len(r) : (r \o t)[k] = r[k]
      /\ \A k \in Len(r) + 1 .. Len(r) + Len(t) : (r \o t)[k] = t[k - Len(r)]
      /\ Len(r) \in Nat /\ Len(r) > 0 /\ Len(t) \in Nat
  BY ConcatProperties
<1>. DEFINE c == r \o t
            u == Tail(r) \o t
<1>. HIDE DEF c
<1>2. c \in Seq(S) /\ c # <<>> /\ Head(c) = Head(r)
  BY <1>1 DEF c
<1>3. /\ Tail(c) \in Seq(S) /\ Len(Tail(c)) = Len(c) - 1
      /\ \A k \in 1 .. Len(Tail(c)) : Tail(c)[k] = c[k + 1]
  BY <1>2, HeadTailProperties
<1>4. /\ Tail(r) \in Seq(S) /\ Len(Tail(r)) = Len(r) - 1
      /\ \A k \in 1 .. Len(Tail(r)) : Tail(r)[k] = r[k + 1]
  BY HeadTailProperties
<1>5. /\ u \in Seq(S) /\ Len(u) = Len(Tail(r)) + Len(t)
      /\ \A k \in 1 .. Len(Tail(r)) : u[k] = Tail(r)[k]
      /\ \A k \in Len(Tail(r)) + 1 .. Len(Tail(r)) + Len(t) : u[k] = t[k - Len(Tail(r))]
  BY <1>4, ConcatProperties
<1>. HIDE DEF u
<1>. DEFINE m == Len(r)
            n == Len(t)
<1>6. /\ Len(Tail(c)) = m - 1 + n /\ Len(u) = m - 1 + n /\ Len(c) = m + n
      /\ m \in Nat /\ m > 0 /\ n \in Nat
  BY <1>1, <1>3, <1>4, <1>5 DEF c
<1>7. /\ \A k \in 1 .. m : c[k] = r[k]
      /\ \A k \in m + 1 .. m + n : c[k] = t[k - m]
      /\ \A k \in 1 .. m - 1 : u[k] = r[k + 1]
      /\ \A k \in m - 1 + 1 .. m - 1 + n : u[k] = t[k - (m - 1)]
      /\ \A k \in 1 .. m - 1 + n : Tail(c)[k] = c[k + 1]
  BY <1>1, <1>3, <1>4, <1>5, <1>6 DEF c
<1>8. ASSUME NEW k \in 1 .. m - 1 + n PROVE Tail(c)[k] = u[k]
  <2>. HIDE DEF m, n
  <2>1. CASE k <= m - 1
    <3>1. k \in 1 .. m - 1 /\ k + 1 \in 1 .. m
      BY <1>6, <2>1
    <3>. QED BY <1>7, <3>1
  <2>2. CASE ~(k <= m - 1)
    <3>1. k \in m - 1 + 1 .. m - 1 + n /\ k + 1 \in m + 1 .. m + n /\ k - (m - 1) = k + 1 - m
      BY <1>6, <2>2
    <3>2. u[k] = t[k - (m - 1)]
      BY <1>7, <3>1
    <3>. DEFINE j == k + 1
    <3>3. j \in m + 1 .. m + n /\ k - (m - 1) = j - m
      BY <1>6, <3>1
    <3>4. Tail(c)[k] = c[j]
      BY <1>7
    <3>. HIDE DEF j
    <3>5. c[j] = t[j - m]
      BY <1>7, <3>3
    <3>. QED BY <3>2, <3>3, <3>4, <3>5
  <2>. QED BY <2>1, <2>2
<1>9. Tail(c) = u
  <2>1. Len(Tail(c)) = Len(u) /\ \A k \in 1 .. Len(Tail(c)) : Tail(c)[k] = u[k]
    BY <1>6, <1>8
  <2>. QED BY <1>3, <1>5, <2>1, SeqEqual
<1>. QED BY <1>2, <1>9 DEF c, u

LEMMA TailLeft ==
  ASSUME NEW S, NEW r \in Seq(S), r # <<>>, NEW t \in Seq(S)
  PROVE  /\ Tail(r) \in Seq(S) /\ (Len(r) > 1 <=> Tail(r) # <<>>)
         /\ Tail(r) \o t # <<>> <=> Tail(r) # <<>> \/ t # <<>>
<1>. DEFINE u == Tail(r)
<1>1. u \in Seq(S) /\ Len(u) = Len(r) - 1 /\ Len(r) \in Nat
  BY HeadTailProperties
<1>. HIDE DEF u
<1>2. Len(r) > 1 <=> u # <<>>
  BY <1>1
<1>3. u \o t \in Seq(S) /\ Len(u \o t) = Len(u) + Len(t) /\ Len(u) \in Nat /\ Len(t) \in Nat
  <2>1. u \o t \in Seq(S) /\ Len(u \o t) = Len(u) + Len(t)
    BY <1>1, ConcatProperties
  <2>2. Len(u) \in Nat /\ Len(t) \in Nat
    BY <1>1
  <2>. QED BY <2>1, <2>2
<1>. DEFINE c == u \o t
<1>4. c # <<>> <=> Len(c) > 0
  <2>. HIDE DEF c
  <2>. QED BY <1>3 DEF c
<1>5. (u # <<>> <=> Len(u) > 0) /\ (t # <<>> <=> Len(t) > 0)
  BY <1>1
<1>6. Len(c) > 0 <=> Len(u) > 0 \/ Len(t) > 0
  BY <1>3
<1>. QED BY <1>1, <1>2, <1>4, <1>5, <1>6 DEF u

(* Both limits on the number of links.                                      *)
LEMMA CappedCount ==
  ASSUME followed \in 0 .. MaxDepth
  PROVE  /\ Min({followed + 1, MaxDepth}) = IF followed < MaxDepth THEN followed + 1 ELSE followed
         /\ MaxDepth \in Nat
<1>. DEFINE m == IF followed < MaxDepth THEN followed + 1 ELSE followed
            A == {followed + 1, MaxDepth}
<1>1. MaxDepth \in Nat
  BY ResolveAssumption
<1>2. m \in A /\ \A y \in A : m <= y
  BY <1>1
<1>3. A \subseteq Int
  BY <1>1
<1>4. Min(A) \in A /\ \A y \in A : Min(A) <= y
  <2>. HIDE DEF m, A
  <2>. QED BY <1>2 DEF Min
<1>5. Min(A) = m
  <2>1. Min(A) \in Int /\ m \in Int /\ Min(A) <= m /\ m <= Min(A)
    <3>. HIDE DEF m, A
    <3>. QED BY <1>2, <1>3, <1>4
  <2>. HIDE DEF m, A
  <2>. QED BY <2>1
<1>. QED BY <1>1, <1>5

(* What _resolve and the walk look at in a round of the loop: the same      *)
(* component, and the same answer to whether it is a link to follow.  The   *)
(* walk has the components of the whole stack in mind, _resolve only those  *)
(* of the innermost activation.                                             *)
LEMMA RoundAgrees ==
  ASSUME WInv, stack # <<>>, top.rest # <<>>
  PROVE  LET b == Below(stack)
             w == WalkOf(b, top, followed)
             node == find_entry(top.cur, Head(top.rest))
         IN  /\ w.rest # <<>> /\ Head(w.rest) = Head(top.rest)
             /\ Tail(w.rest) = Tail(top.rest) \o Pending(b)
             /\ Pending(b) \in Seq(STRING) /\ Tail(top.rest) \in Seq(STRING)
             /\ Tail(top.rest) # <<>> => Tail(w.rest) # <<>>
             /\ Follows(node) <=> node \in Links /\ (Tail(w.rest) # <<>> \/ w.final)
<1>. DEFINE b == Below(stack)
            w == WalkOf(b, top, followed)
            p == Pending(b)
            rest == Tail(top.rest)
            node == find_entry(top.cur, Head(top.rest))
<1>1. b \in Seq(Frames) /\ top \in Frames /\ stack = Append(b, top)
  BY Innermost DEF WInv
<1>2. top.rest \in Seq(STRING) /\ p \in Seq(STRING)
  BY <1>1, PendingComponents DEF Frames
<1>3. w.rest = top.rest \o p /\ w.final = First(b, top).final
  BY DEF WalkOf
<1>. DEFINE r == top.rest
<1>4. w.rest # <<>> /\ Head(w.rest) = Head(top.rest) /\ Tail(w.rest) = rest \o p
  <2>1. r \in Seq(STRING) /\ r # <<>> /\ p \in Seq(STRING)
    BY <1>2
  <2>2. r \o p # <<>> /\ Head(r \o p) = Head(r) /\ Tail(r \o p) = Tail(r) \o p
    <3>. HIDE DEF r, p
    <3>. QED BY <2>1, FrontTaken
  <2>. QED BY <1>3, <2>2
<1>5. /\ rest \in Seq(STRING) /\ (Len(top.rest) > 1 <=> rest # <<>>)
      /\ rest \o p # <<>> <=> rest # <<>> \/ p # <<>>
  <2>1. r \in Seq(STRING) /\ r # <<>> /\ p \in Seq(STRING)
    BY <1>2
  <2>2. /\ Tail(r) \in Seq(STRING) /\ (Len(r) > 1 <=> Tail(r) # <<>>)
        /\ Tail(r) \o p # <<>> <=> Tail(r) # <<>> \/ p # <<>>
    <3>. HIDE DEF r, p
    <3>. QED BY <2>1, TailLeft
  <2>. QED BY <2>2
<1>. HIDE DEF r
<1>6. (rest # <<>> \/ p # <<>>) <=> Tail(w.rest) # <<>>
  BY <1>4, <1>5
<1>7. Shape(b) /\ (b # <<>> => top.final /\ (b[1].final \/ b[1].rest # <<>>))
  BY <1>1, ShapeAppended DEF WInv
<1>8. Follows(node) <=> node \in Links /\ (Tail(w.rest) # <<>> \/ w.final)
  <2>. HIDE DEF node, rest, w
  <2>0. Follows(node) <=> node \in Links /\ (rest # <<>> \/ top.final)
    BY <1>5 DEF Follows
  <2>1. CASE b = <<>>
    <3>1. p = <<>> /\ First(b, top) = top
      BY <2>1, PendingNone DEF First
    <3>. QED BY <1>3, <1>6, <2>0, <3>1
  <2>2. CASE b # <<>>
    <3>1. First(b, top) = b[1] /\ (b[1].rest # <<>> => p # <<>>)
      BY <1>1, <2>2, PendingComponents DEF First
    <3>. HIDE DEF p, b
    <3>. QED BY <1>3, <1>6, <1>7, <2>0, <2>2, <3>1
  <2>. QED BY <2>1, <2>2
<1>. QED BY <1>2, <1>4, <1>5, <1>6, <1>8

(* A call that fails: the walk is given up.                                 *)
LEMMA FailIs ==
  ASSUME Error PROVE Walk!Fail
<1>1. stack' = <<>> /\ result' = Nothing /\ target' = target
  BY DEF Error
<1>. QED BY <1>1 DEF Walk!Fail, Walking, Nothing

LEMMA ErrorKeepsW ==
  ASSUME WInv, Error PROVE WInv'
<1>1. stack' = <<>> /\ followed' = followed
  BY DEF Error
<1>2. LInv'
  BY ErrorKept DEF WInv
<1>3. Shape(stack')
  BY <1>1 DEF Shape
<1>. QED BY <1>1, <1>2, <1>3 DEF WInv

(* A walk that is changed in some of its fields.                            *)
LEMMA WalkChanged ==
  ASSUME NEW w,
         w = [node |-> w.node, rest |-> w.rest, final |-> w.final, followed |-> w.followed]
  PROVE  \A node2, rest2, n2 :
           /\ [w EXCEPT !.node = node2, !.rest = rest2, !.followed = n2]
                = [node |-> node2, rest |-> rest2, final |-> w.final, followed |-> n2]
           /\ [w EXCEPT !.node = node2, !.rest = rest2]
                = [node |-> node2, rest |-> rest2, final |-> w.final, followed |-> w.followed]
<1>. TAKE node2, rest2, n2
<1>. DEFINE node == w.node
            rest == w.rest
            final == w.final
            n == w.followed
<1>0. w = [node |-> node, rest |-> rest, final |-> final, followed |-> n]
  OBVIOUS
<1>. HIDE DEF node, rest, final, n
<1>. DEFINE u == [w EXCEPT !.node = node2]
            v == [u EXCEPT !.rest = rest2]
            x == [v EXCEPT !.followed = n2]
<1>1. u = [node |-> node2, rest |-> rest, final |-> final, followed |-> n]
  BY <1>0
<1>2. v = [node |-> node2, rest |-> rest2, final |-> final, followed |-> n]
  <2>. HIDE DEF u
  <2>. QED BY <1>1
<1>3. x = [node |-> node2, rest |-> rest2, final |-> final, followed |-> n2]
  <2>. HIDE DEF v
  <2>. QED BY <1>2
<1>4. [w EXCEPT !.node = node2, !.rest = rest2] = v
  OBVIOUS
<1>5. [w EXCEPT !.node = node2, !.rest = rest2, !.followed = n2] = x
  OBVIOUS
<1>. QED BY <1>2, <1>3, <1>4, <1>5 DEF final, n

(* One round of the loop: the walk takes its next component, or fails.      *)
LEMMA ComponentWalks ==
  ASSUME WInv, component PROVE WInv' /\ Walk!Next
<1>. DEFINE b == Below(stack)
            w == WalkOf(b, top, followed)
            name == Head(top.rest)
            node == find_entry(top.cur, name)
            rest == Tail(top.rest)
            here == [top EXCEPT !.rest = rest, !.at = <<top.cur, name>>]
            next == [here EXCEPT !.parent = top.cur, !.cur = node]
            new  == Frame(target[node], Source(target[node], top.cur), TRUE)
<1>1. stack # <<>> /\ top.rest # <<>> /\ LInv /\ LInv'
  BY ComponentKept DEF component, WInv
<1>2. /\ b \in Seq(Frames) /\ top \in Frames /\ stack = Append(b, top)
      /\ Len(b) = Len(stack) - 1 /\ Len(stack) \in Nat
      /\ \A x \in Frames : SetTop(x) = Append(b, x)
  BY <1>1, Innermost
<1>3. Walking = {w}
  BY <1>2, WalkingIs
<1>4. /\ w.rest # <<>> /\ Head(w.rest) = name /\ Tail(w.rest) = rest \o Pending(b)
      /\ Pending(b) \in Seq(STRING) /\ rest \in Seq(STRING)
      /\ rest # <<>> => Tail(w.rest) # <<>>
      /\ Follows(node) <=> node \in Links /\ (Tail(w.rest) # <<>> \/ w.final)
  BY <1>1, RoundAgrees
<1>5. w.node = top.cur /\ w.followed = followed /\ w.final = First(b, top).final
  BY DEF WalkOf
<1>6. node = Missing => node \notin Links
  BY ResolveAssumption DEF Nodes
<1>7. node \notin Directories => find_entry(node, "..") = Missing
  BY DEF find_entry
<1>8. /\ followed \in 0 .. MaxDepth /\ MaxDepth \in Nat /\ Len(b) <= followed /\ Len(b) \in Nat
      /\ Shape(Append(b, top))
      /\ Min({followed + 1, MaxDepth}) = IF followed < MaxDepth THEN followed + 1 ELSE followed
  <2>1. /\ followed \in 0 .. MaxDepth /\ Len(stack) - 1 <= followed /\ Shape(stack)
    BY <1>1 DEF WInv
  <2>2. /\ Min({followed + 1, MaxDepth}) = IF followed < MaxDepth THEN followed + 1 ELSE followed
        /\ MaxDepth \in Nat
    BY <2>1, CappedCount
  <2>3. Len(b) <= followed /\ Len(b) \in Nat
    BY <1>2, <2>1
  <2>4. Shape(Append(b, top))
    BY <1>2, <2>1
  <2>. QED BY <2>1, <2>2, <2>3, <2>4
<1>9. TooDeep => w.followed >= MaxDepth
  BY <1>2, <1>5, <1>8 DEF TooDeep
<1>10. ASSUME Walk!Step(w) PROVE Walk!Next
  BY <1>3, <1>10 DEF Walk!Next
<1>11. \/ node = Missing /\ Error
       \/ Follows(node) /\ (TooDeep \/ target[node] = Empty) /\ Error
       \/ /\ node # Missing /\ ~Follows(node)
          /\ node \notin Directories /\ rest # <<>>
          /\ Error
       \/ /\ Follows(node) /\ ~TooDeep /\ target[node] # Empty
          /\ stack' = Append(SetTop(here), new)
          /\ followed' = Min({followed + 1, MaxDepth})
          /\ UNCHANGED <<target, result>>
       \/ /\ node # Missing /\ ~Follows(node)
          /\ stack' = SetTop(next)
          /\ UNCHANGED <<target, result, followed>>
  BY Zenon DEF component, Entered
<1>12. ASSUME node # Missing
       PROVE  /\ here \in Frames /\ here.rest = rest /\ here.cur = top.cur /\ here.final = top.final
              /\ next \in Frames /\ next.rest = rest /\ next.cur = node /\ next.final = top.final
  <2>1. top.cur \in Directories /\ node \in Nodes
    BY <1>12, EntryFound
  <2>2. name \in STRING
    BY <1>1, <1>2 DEF Frames
  <2>3. <<top.cur, name>> \in Place /\ top.cur \in Nodes
    BY <2>1, <2>2 DEF Place, Nodes
  <2>. HIDE DEF node, name, rest
  <2>4. /\ here \in Frames /\ here.rest = rest /\ here.cur = top.cur /\ here.final = top.final
    BY <1>2, <1>4, <2>3 DEF Frames
  <2>. HIDE DEF here
  <2>5. /\ next \in Frames /\ next.rest = here.rest /\ next.cur = node /\ next.final = here.final
    BY <2>1, <2>3, <2>4 DEF Frames
  <2>. QED BY <2>4, <2>5
<1>13. CASE /\ Error
            /\ \/ node = Missing
               \/ Follows(node) /\ (TooDeep \/ target[node] = Empty)
               \/ ~Follows(node) /\ node \notin Directories /\ rest # <<>>
  <2>1. WInv' /\ Walk!Fail
    BY <1>13, ErrorKeepsW, FailIs
  <2>. HIDE DEF w, node, rest, name
  <2>2. node = find_entry(w.node, Head(w.rest))
    BY <1>4, <1>5 DEF node
  <2>3. Walk!Step(w)
    BY <1>4, <1>6, <1>7, <1>9, <1>13, <2>1, <2>2 DEF Walk!Step
  <2>. QED BY <1>10, <2>1, <2>3
<1>14. CASE /\ Follows(node) /\ ~TooDeep /\ target[node] # Empty
            /\ stack' = Append(SetTop(here), new)
            /\ followed' = Min({followed + 1, MaxDepth})
            /\ UNCHANGED <<target, result>>
  <2>. DEFINE t == Append(b, here)
              comps == target[node].comps
              n == IF followed < MaxDepth THEN followed + 1 ELSE followed
  <2>1. node # Missing /\ node \in Links
    BY <1>14, ResolveAssumption DEF Follows, Nodes
  <2>2. top.cur \in Directories
    BY <2>1, EntryFound
  <2>. HIDE DEF node
  <2>3. target[node] \in [abs : BOOLEAN, comps : Seq(STRING)]
    BY <1>1, <1>14, <2>1, ResolveAssumption DEF LInv
  <2>4. Source(target[node], top.cur) \in Directories
    BY <2>2 DEF Source, Directories
  <2>5. new \in Frames
    BY <2>3, <2>4, FrameLocated
  <2>6. new.rest = comps /\ new.cur = Source(target[node], top.cur) /\ new.final
    BY DEF Frame
  <2>7. here \in Frames /\ here.rest = rest /\ here.final = top.final
    BY <1>12, <2>1
  <2>8. comps \in Seq(STRING)
    BY <2>3
  <2>. HIDE DEF new, here, comps, b, rest, w
  <2>9. /\ t \in Seq(Frames) /\ t # <<>> /\ Len(t) = Len(b) + 1 /\ t[1] = First(b, here)
        /\ Pending(t) = rest \o Pending(b)
    BY <1>2, <2>7, AppendedIs, PendingAppended
  <2>10. stack' = Append(t, new)
    BY <1>2, <1>14, <2>7
  <2>11. followed' = n
    BY <1>8, <1>14
  <2>. HIDE DEF t
  <2>12. Walking' = {WalkOf(t, new, n)}
    BY <2>5, <2>9, <2>10, <2>11, WalkingThen
  <2>13. First(t, new).final = w.final
    BY <1>5, <2>7, <2>9 DEF First
  <2>14. WalkOf(t, new, n) = [node |-> Source(target[node], top.cur), rest |-> comps \o Tail(w.rest),
                             final |-> w.final, followed |-> n]
    BY <1>4, <2>6, <2>9, <2>13 DEF WalkOf
  <2>15. Walk!Step(w)
    <3>0. w = [node |-> w.node, rest |-> w.rest, final |-> w.final, followed |-> w.followed]
      BY DEF w, WalkOf
    <3>1. \A node2, rest2, n2 :
            /\ [w EXCEPT !.node = node2, !.rest = rest2, !.followed = n2]
                 = [node |-> node2, rest |-> rest2, final |-> w.final, followed |-> n2]
            /\ [w EXCEPT !.node = node2, !.rest = rest2]
                 = [node |-> node2, rest |-> rest2, final |-> w.final, followed |-> w.followed]
      BY Zenon, <3>0, WalkChanged
    <3>2. [w EXCEPT !.node = Source(target[node], top.cur), !.rest = comps \o Tail(w.rest), !.followed = n]
            = WalkOf(t, new, n)
      <4>. DEFINE src == Source(target[node], top.cur)
                  all == comps \o Tail(w.rest)
      <4>1. WalkOf(t, new, n) = [node |-> src, rest |-> all, final |-> w.final, followed |-> n]
        BY <2>14
      <4>. HIDE DEF n, src, all
      <4>2. [w EXCEPT !.node = src, !.rest = all, !.followed = n]
              = [node |-> src, rest |-> all, final |-> w.final, followed |-> n]
        BY Zenon, <3>1
      <4>3. [w EXCEPT !.node = src, !.rest = all, !.followed = n] = WalkOf(t, new, n)
        BY Zenon, <4>1, <4>2
      <4>. QED BY <4>3 DEF src, all
    <3>3. /\ Source(target[node], top.cur) = IF target[node].abs THEN Root ELSE w.node
          /\ n = IF w.followed < MaxDepth THEN w.followed + 1 ELSE w.followed
      BY <1>5 DEF Source
    <3>4. node = find_entry(w.node, Head(w.rest))
      BY <1>4, <1>5 DEF node
    <3>. HIDE DEF n
    <3>5. [w EXCEPT !.node = IF target[node].abs THEN Root ELSE w.node,
                    !.rest = target[node].comps \o Tail(w.rest),
                    !.followed = IF w.followed < MaxDepth THEN w.followed + 1 ELSE w.followed]
            = WalkOf(t, new, n)
      BY Zenon, <3>2, <3>3 DEF comps
    <3>6. node \in Links /\ (Tail(w.rest) # <<>> \/ w.final)
      BY <1>4, <1>14
    <3>7. Walking' = {[w EXCEPT !.node = IF target[node].abs THEN Root ELSE w.node,
                                !.rest = target[node].comps \o Tail(w.rest),
                                !.followed = IF w.followed < MaxDepth THEN w.followed + 1
                                             ELSE w.followed]}
      BY Zenon, <2>12, <3>5
    <3>8. target' = target /\ result' = result
      BY <1>14
    <3>. QED BY Zenon, <1>4, <1>14, <3>4, <3>6, <3>7, <3>8 DEF Walk!Step
  <2>16. Shape(stack')
    <3>1. Shape(t) /\ (t[1].final \/ t[1].rest # <<>>)
      <4>1. Shape(b) /\ (b # <<>> => top.final /\ (b[1].final \/ b[1].rest # <<>>))
        BY <1>2, <1>8, ShapeAppended
      <4>2. Shape(t)
        BY <1>2, <2>7, <4>1, ShapeAppended DEF t
      <4>3. here.final \/ here.rest # <<>>
        <5>1. Len(top.rest) > 1 \/ top.final
          BY <1>14 DEF Follows
        <5>2. Len(top.rest) > 1 => rest # <<>>
          <6>. DEFINE r == top.rest
          <6>1. r \in Seq(STRING) /\ r # <<>>
            BY <1>1, <1>2 DEF Frames
          <6>2. Len(r) > 1 => Tail(r) # <<>>
            <7>. HIDE DEF r
            <7>. QED BY <6>1, TailLeft
          <6>. QED BY <6>2 DEF rest
        <5>. QED BY <2>7, <5>1, <5>2
      <4>. QED BY <2>9, <4>1, <4>2, <4>3 DEF First
    <3>. QED BY <2>5, <2>6, <2>9, <2>10, <3>1, ShapeAppended
  <2>17. followed' \in 0 .. MaxDepth /\ Len(stack') - 1 <= followed'
    <3>1. Len(b) < MaxDepth
      BY <1>2, <1>8, <1>14 DEF TooDeep
    <3>2. Len(stack') = Len(b) + 1 + 1
      BY <2>5, <2>9, <2>10, AppendedIs
    <3>. QED BY <1>8, <2>11, <3>1, <3>2
  <2>. QED BY <1>1, <1>10, <2>15, <2>16, <2>17 DEF WInv
<1>15. CASE /\ node # Missing /\ ~Follows(node)
            /\ stack' = SetTop(next)
            /\ UNCHANGED <<target, result, followed>>
  <2>1. next \in Frames /\ next.rest = rest /\ next.cur = node /\ next.final = top.final
    BY <1>12, <1>15
  <2>. HIDE DEF next, b, rest, w, node
  <2>2. stack' = Append(b, next) /\ followed' = followed
    BY <1>2, <1>15, <2>1
  <2>3. Walking' = {WalkOf(b, next, followed)}
    BY <1>2, <2>1, <2>2, WalkingThen
  <2>4. WalkOf(b, next, followed) = [node |-> node, rest |-> Tail(w.rest), final |-> w.final,
                                     followed |-> followed]
    <3>1. First(b, next).final = First(b, top).final
      BY <2>1 DEF First
    <3>. QED BY <1>4, <1>5, <2>1, <3>1 DEF WalkOf
  <2>5. Walk!Step(w)
    <3>0. w = [node |-> w.node, rest |-> w.rest, final |-> w.final, followed |-> w.followed]
      BY DEF w, WalkOf
    <3>1. \A node2, rest2, n2 :
            /\ [w EXCEPT !.node = node2, !.rest = rest2, !.followed = n2]
                 = [node |-> node2, rest |-> rest2, final |-> w.final, followed |-> n2]
            /\ [w EXCEPT !.node = node2, !.rest = rest2]
                 = [node |-> node2, rest |-> rest2, final |-> w.final, followed |-> w.followed]
      BY Zenon, <3>0, WalkChanged
    <3>2. [w EXCEPT !.node = node, !.rest = Tail(w.rest)] = WalkOf(b, next, followed)
      BY Zenon, <1>5, <2>4, <3>1
    <3>3. node = find_entry(w.node, Head(w.rest))
      BY <1>4, <1>5 DEF node
    <3>4. Walking' = {[w EXCEPT !.node = node, !.rest = Tail(w.rest)]}
      BY Zenon, <2>3, <3>2
    <3>5. ~(node \in Links /\ (Tail(w.rest) # <<>> \/ w.final)) /\ node # Missing
      BY <1>4, <1>15
    <3>6. target' = target /\ result' = result
      BY <1>15
    <3>. QED BY Zenon, <1>4, <3>3, <3>4, <3>5, <3>6 DEF Walk!Step
  <2>6. Shape(stack') /\ Len(stack') = Len(stack)
    <3>1. Shape(stack')
      BY <1>2, <1>8, <2>1, <2>2, ShapeAppended
    <3>2. Len(stack') = Len(b) + 1
      BY <1>2, <2>1, <2>2, AppendedIs
    <3>. QED BY <1>2, <3>1, <3>2
  <2>. QED BY <1>1, <1>8, <1>10, <2>2, <2>5, <2>6 DEF WInv
<1>. HIDE DEF node, here, next, new, rest, name
<1>. QED BY <1>11, <1>13, <1>14, <1>15

(* A followed link returns: the walk has nothing to do, unless there are    *)
(* components left for what is not a directory.                             *)
LEMMA ReturnWalks ==
  ASSUME WInv, return_symlink PROVE WInv' /\ (Walk!Next \/ UNCHANGED Walk!vars)
<1>. DEFINE n == Len(stack)
            b == Below(stack)
            f == stack[n - 1]
            d == Below(b)
            caller == Returned(f, top)
            w == WalkOf(b, top, followed)
<1>1. n > 1 /\ top.rest = <<>> /\ LInv /\ LInv' /\ stack # <<>>
  BY ReturnKept DEF return_symlink, WInv
<1>2. /\ b \in Seq(Frames) /\ top \in Frames /\ stack = Append(b, top)
      /\ Len(b) = n - 1 /\ n \in Nat
  BY <1>1, Innermost
<1>3. b # <<>> /\ b[n - 1] = f
  <2>1. b # <<>> /\ n - 1 \in 1 .. Len(b)
    BY <1>1, <1>2
  <2>. HIDE DEF b, n, f
  <2>2. stack[n - 1] = b[n - 1]
    BY <1>2, <2>1, AppendedIs
  <2>. QED BY <2>1, <2>2 DEF f
<1>4. /\ d \in Seq(Frames) /\ Len(d) = n - 2 /\ f \in Frames /\ b = Append(d, f)
  <2>1. /\ Below(b) \in Seq(Frames) /\ Len(Below(b)) = Len(b) - 1
        /\ b[Len(b)] \in Frames /\ b = Append(Below(b), b[Len(b)])
    BY <1>2, <1>3, Split
  <2>2. n - 1 - 1 = n - 2
    BY <1>2
  <2>. QED BY <1>2, <1>3, <2>1, <2>2
<1>5. SubSeq(stack, 1, n - 2) = d
  <2>. DEFINE q == SubSeq(stack, 1, n - 2)
  <2>0. stack \in Seq(Frames) /\ n = Len(stack)
    BY <1>1 DEF LInv
  <2>1. q \in Seq(Frames) /\ Len(q) = n - 2 /\ \A k \in 1 .. n - 2 : q[k] = stack[k]
    BY <1>1, <1>2, <2>0
  <2>2. \A k \in 1 .. n - 2 : b[k] = d[k]
    <3>. HIDE DEF n, b, d, f
    <3>. QED BY <1>4, AppendedIs
  <2>3. \A k \in 1 .. n - 1 : stack[k] = b[k]
    <3>. HIDE DEF n, b, d, f
    <3>. QED BY <1>2, AppendedIs
  <2>4. \A k \in 1 .. n - 2 : k \in 1 .. n - 1
    BY <1>2
  <2>. HIDE DEF q, n, b, d, f
  <2>5. \A k \in 1 .. n - 2 : q[k] = d[k]
    BY <2>1, <2>2, <2>3, <2>4
  <2>6. q = d
    BY <1>4, <2>1, <2>5, SeqEqual
  <2>. QED BY <2>6 DEF q
<1>6. /\ caller \in Frames /\ caller.cur = top.cur
      /\ caller.rest = f.rest /\ caller.final = f.final
  <2>. HIDE DEF f
  <2>. QED BY <1>2, <1>4 DEF Returned, Frames
<1>7. \/ caller.cur \notin Directories /\ caller.rest # <<>> /\ Error
      \/ stack' = Append(d, caller) /\ UNCHANGED <<target, result, followed>>
  <2>1. \/ caller.cur \notin Directories /\ caller.rest # <<>> /\ Error
        \/ /\ stack' = Append(SubSeq(stack, 1, n - 2), caller)
           /\ UNCHANGED <<target, result, followed>>
    BY Zenon DEF return_symlink
  <2>. HIDE DEF d, caller, n
  <2>. QED BY <1>5, <2>1
<1>8. /\ followed \in 0 .. MaxDepth /\ n - 1 <= followed /\ Shape(stack) /\ MaxDepth \in Nat
  BY <1>1, ResolveAssumption DEF WInv
<1>. HIDE DEF n, b, f, d, caller
<1>9. Walking = {w}
  BY <1>2, WalkingIs
<1>10. /\ w.node = top.cur /\ w.rest = f.rest \o Pending(d) /\ w.final = First(d, f).final
       /\ w.followed = followed
       /\ Pending(d) \in Seq(STRING) /\ f.rest \in Seq(STRING)
  <2>1. Pending(b) = f.rest \o Pending(d) /\ Pending(b) \in Seq(STRING)
    BY <1>2, <1>4, PendingAppended, PendingComponents
  <2>2. top.rest \o Pending(b) = Pending(b)
    BY <1>1, <2>1
  <2>3. First(b, top) = First(d, f)
    BY <1>3, <1>4, AppendedIs DEF First
  <2>4. Pending(d) \in Seq(STRING) /\ f.rest \in Seq(STRING)
    BY <1>4, PendingComponents DEF Frames
  <2>. QED BY <2>1, <2>2, <2>3, <2>4 DEF WalkOf
<1>11. CASE caller.cur \notin Directories /\ caller.rest # <<>> /\ Error
  <2>1. WInv' /\ Walk!Fail
    BY <1>11, ErrorKeepsW, FailIs
  <2>2. w.rest # <<>>
    <3>. DEFINE r == f.rest
                p == Pending(d)
    <3>1. r \in Seq(STRING) /\ p \in Seq(STRING) /\ r # <<>>
      BY <1>6, <1>10, <1>11
    <3>2. r \o p # <<>>
      <4>. HIDE DEF r, p
      <4>. QED BY <3>1, FrontTaken
    <3>. QED BY <1>10, <3>2
  <2>3. find_entry(w.node, Head(w.rest)) = Missing /\ Missing \notin Links
    BY <1>6, <1>10, <1>11, ResolveAssumption DEF find_entry, Nodes
  <2>. HIDE DEF w
  <2>4. Walk!Step(w)
    BY <2>1, <2>2, <2>3 DEF Walk!Step
  <2>. QED BY <1>9, <2>1, <2>4 DEF Walk!Next
<1>12. CASE stack' = Append(d, caller) /\ UNCHANGED <<target, result, followed>>
  <2>1. Walking' = {WalkOf(d, caller, followed)}
    BY <1>4, <1>6, <1>12, WalkingThen
  <2>2. First(d, caller).final = First(d, f).final
    BY <1>6 DEF First
  <2>3. WalkOf(d, caller, followed) = w
    <3>1. w = [node |-> w.node, rest |-> w.rest, final |-> w.final, followed |-> w.followed]
      BY DEF WalkOf
    <3>2. WalkOf(d, caller, followed) = [node |-> top.cur, rest |-> f.rest \o Pending(d),
                                         final |-> First(d, f).final, followed |-> followed]
      BY <1>6, <2>2 DEF WalkOf
    <3>. HIDE DEF w
    <3>. QED BY <1>10, <3>1, <3>2
  <2>4. UNCHANGED Walk!vars
    BY <1>9, <1>12, <2>1, <2>3 DEF Walk!vars
  <2>5. Shape(stack')
    <3>1. Shape(b)
      BY <1>2, <1>8, ShapeAppended
    <3>2. Shape(d) /\ (d # <<>> => f.final /\ (d[1].final \/ d[1].rest # <<>>))
      BY <1>4, <3>1, ShapeAppended
    <3>. QED BY <1>4, <1>6, <1>12, <3>2, ShapeAppended
  <2>6. Len(stack') = n - 2 + 1
    BY <1>4, <1>6, <1>12, AppendedIs
  <2>7. followed' \in 0 .. MaxDepth /\ Len(stack') - 1 <= followed'
    BY <1>2, <1>8, <1>12, <2>6
  <2>. QED BY <1>1, <2>4, <2>5, <2>7 DEF WInv
<1>. QED BY <1>7, <1>11, <1>12

(* The call returns: the walk is finished.                                  *)
LEMMA CallWalks ==
  ASSUME WInv, return_call PROVE WInv' /\ Walk!Next
<1>. DEFINE b == Below(stack)
            w == WalkOf(b, top, followed)
<1>1. Len(stack) = 1 /\ top.rest = <<>> /\ stack # <<>> /\ LInv /\ LInv'
  <2>1. LInv /\ LInv'
    BY Zenon, CallReturns DEF WInv
  <2>2. Len(stack) = 1 /\ top.rest = <<>>
    BY Zenon DEF return_call
  <2>3. stack # <<>>
    BY <2>2
  <2>. QED BY <2>1, <2>2, <2>3
<1>2. /\ b \in Seq(Frames) /\ top \in Frames /\ stack = Append(b, top) /\ Len(b) = 0
  BY <1>1, Innermost
<1>3. b = <<>>
  BY <1>2
<1>4. Walking = {w}
  BY <1>2, WalkingIs
<1>5. w.rest = <<>> /\ w.node = top.cur /\ w.final = top.final
  BY <1>1, <1>3, PendingNone DEF WalkOf, First
<1>6. stack' = <<>> /\ followed' = followed
  BY DEF return_call
<1>7. Walking' = {} /\ Shape(stack')
  BY <1>6 DEF Walking, Shape
<1>8. result'.node = top.cur
  <2>1. result' = [node |-> top.cur, parent |-> top.parent, at |-> top.at, final |-> top.final]
    BY Zenon DEF return_call
  <2>. QED BY <2>1
<1>9. \/ UNCHANGED target
      \/ /\ ~top.final /\ top.cur \in Links
         /\ \E t \in Targets : target' = [target EXCEPT ![top.cur] = t]
  BY DEF return_call
<1>. HIDE DEF w
<1>10. Walk!Finish(w)
  BY <1>5, <1>7, <1>8, <1>9 DEF Walk!Finish
<1>11. WInv'
  BY <1>1, <1>6, <1>7 DEF WInv
<1>. QED BY <1>4, <1>10, <1>11 DEF Walk!Next

(* A call starts: the walk begins.                                          *)
LEMMA CallBegins ==
  ASSUME WInv, NEW path \in Paths, NEW final \in BOOLEAN, resolve(path, final)
  PROVE  WInv' /\ Walk!Next
<1>. DEFINE f == Frame(path, Root, final)
            none == <<>>
<1>1. stack = <<>> /\ stack' = <<f>> /\ result' = Nothing /\ followed' = 0 /\ target' = target
  BY DEF resolve
<1>2. LInv'
  <2>1. Next
    BY DEF Next
  <2>. QED BY <2>1, LocatedStep DEF WInv
<1>3. path \in [abs : BOOLEAN, comps : Seq(STRING)]
  BY ResolveAssumption
<1>4. f \in Frames
  BY <1>3, FrameLocated DEF Directories
<1>5. f.rest = path.comps /\ f.cur = Root /\ f.final = final /\ path.comps \in Seq(STRING)
  BY <1>3 DEF Frame
<1>. HIDE DEF f
<1>6. none \in Seq(Frames) /\ stack' = Append(none, f)
  BY <1>1
<1>7. Walking' = {WalkOf(none, f, 0)}
  <2>. HIDE DEF none
  <2>. QED BY <1>1, <1>4, <1>6, WalkingThen
<1>8. WalkOf(none, f, 0) = [node |-> Root, rest |-> path.comps, final |-> final, followed |-> 0]
  <2>1. f.rest \o Pending(none) = path.comps
    BY <1>5, PendingNone
  <2>. QED BY <1>5, <2>1 DEF WalkOf, First
<1>9. Walking = {} /\ result'.node = Missing
  BY <1>1 DEF Walking, Nothing
<1>10. Walk!Begin
  BY <1>1, <1>7, <1>8, <1>9 DEF Walk!Begin
<1>11. Shape(stack') /\ Len(stack') = 1
  BY <1>1 DEF Shape
<1>12. WInv'
  BY <1>1, <1>2, <1>11, ResolveAssumption DEF WInv
<1>. QED BY <1>10, <1>12 DEF Walk!Next

(* Every step of the recursion is a step of the walk, or changes nothing    *)
(* of it.                                                                   *)
LEMMA WalkSteps ==
  ASSUME WInv, [Next]_vars PROVE WInv' /\ [Walk!Next]_(Walk!vars)
<1>1. CASE UNCHANGED vars
  <2>1. stack' = stack /\ target' = target /\ result' = result /\ followed' = followed
    BY <1>1 DEF vars
  <2>2. LInv'
    BY LocatedStep DEF WInv
  <2>3. WInv'
    BY <2>1, <2>2 DEF WInv
  <2>4. UNCHANGED Walk!vars
    BY <2>1 DEF Walk!vars, Walking, top
  <2>. QED BY <2>3, <2>4
<1>. QED BY <1>1, ComponentWalks, ReturnWalks, CallWalks, CallBegins DEF Next, Running

(* The recursion of _resolve through symbolic links implements the textual  *)
(* walk, for every tree, every set of links and targets, loops included,    *)
(* and every limit: links in the middle of a path, links to links and       *)
(* relative links in other directories lead where the substitution of the   *)
(* target for the name leads, the flag not to follow the last link means    *)
(* the last of the whole path, and no path is refused as too deep before    *)
(* MaxDepth links were followed.                                            *)
THEOREM WalkImplemented == Spec => ImplementsWalk
<1>1. Init => WInv /\ Walk!Init
  <2>. SUFFICES ASSUME Init PROVE WInv /\ Walk!Init
    OBVIOUS
  <2>1. /\ target = [l \in Links |-> Empty] /\ stack = <<>> /\ result.node = Missing
        /\ followed = 0
    BY DEF Init, Nothing
  <2>2. LInv
    BY <2>1 DEF LInv, LocationNamesTarget
  <2>3. WInv
    BY <2>1, <2>2, ResolveAssumption DEF WInv, Shape
  <2>. QED BY <2>1, <2>3 DEF Walk!Init, Walking
<1>2. WInv /\ [Next]_vars => WInv' /\ [Walk!Next]_(Walk!vars)
  BY WalkSteps
<1>. QED BY <1>1, <1>2, PTL DEF Spec, ImplementsWalk, Walk!Spec
=============================================================================
