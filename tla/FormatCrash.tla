----------------------------- MODULE FormatCrash ----------------------------
(***************************************************************************)
(* The process dies inside a call of FormatV1 and the file system is        *)
(* mounted again.  A call is its block writes in the order of the code: on  *)
(* a plain device a crash leaves the first few of them, on a write-back     *)
(* cache that is flushed between calls any of them.  The variables of       *)
(* FormatV1 are what the program has computed; pending remembers the device *)
(* as it was before the call, until the call returns.                       *)
(*                                                                          *)
(* The calls by inode (create_child, delete_child, link) write in the same  *)
(* order as the calls by path, and rename is link followed by delete_child, *)
(* so the calls by path stand for them.  An inode has a table block of its  *)
(* own here, and no call needs pointer blocks.                              *)
(***************************************************************************)
EXTENDS IntegrityChecker

CONSTANT MaxCrashes  \* a bound

ASSUME CrashAssumption == MaxCrashes \in Nat

VARIABLES pending,  \* set of the call whose writes may still be lost
          harm      \* history: the kinds of calls that were interrupted

cvars == <<vars, pending, harm>>

CInit == Init /\ pending = {} /\ harm = <<>>

(* The calls a crash may interrupt without damage.  After any other crash   *)
(* the state is the last one looked at.                                     *)
Adding == {"create", "write"}

(* What paths from the root lead to: a crash can leave inodes that are      *)
(* allocated and hold what an earlier owner of the slot left there.         *)
Reachable == Below(Root)

-----------------------------------------------------------------------------
(* Names of what a write covers.                                            *)
InodeBitmap == <<"ibits", 0>>
DataBitmap  == <<"dbits", 0>>
Superblock  == <<"superblock", 0>>
InodeOf(i)  == <<"inode", i>>
DataBlock(b) == <<"data", b>>

(* The directory blocks among B that the step changes, in some order.       *)
Changed(B) == SetToSeq({DataBlock(b) : b \in {b \in B : content'[b] # content[b]}})

(* mutant of CreateWrites: the entry before what it names                   *)
CreateWritesEntryFirst(p) ==
  LET new == ibits' \ ibits
      own == UNION {Range(inode'[i].blocks) : i \in new}
  IN  <<InodeBitmap, DataBitmap, Superblock>> \o Changed(Block \ own)
      \o SetToSeq({InodeOf(i) : i \in new}) \o Changed(own) \o <<InodeOf(p)>>
(* create: allocate, the inode, its own block, the entry, the parent.       *)
CreateWrites(p) ==
  LET new == ibits' \ ibits
      own == UNION {Range(inode'[i].blocks) : i \in new}
  IN  <<InodeBitmap, DataBitmap, Superblock>> \o SetToSeq({InodeOf(i) : i \in new})
      \o Changed(own) \o Changed(Block \ own) \o <<InodeOf(p)>>

(* create_hardlink: the entry before the link counter.                      *)
HardlinkWrites(i, p) ==
  <<DataBitmap, Superblock>> \o Changed(Block) \o <<InodeOf(i), InodeOf(p)>>

(* delete: the storage or the link counter before the entry.                *)
DeleteWrites(i) ==
  (IF i \in ibits' THEN <<InodeOf(i)>> ELSE <<DataBitmap, InodeBitmap, Superblock>>)
  \o Changed(Block)

(* write: the bitmap, the inode, the superblock.                            *)
WriteWrites(i) == <<DataBitmap, InodeOf(i), Superblock>>

-----------------------------------------------------------------------------
Called(kind, writes) ==
  /\ pending' = IF Len(harm) = MaxCrashes THEN {}
                ELSE {[kind |-> kind, writes |-> writes, ibits |-> ibits, dbits |-> dbits,
                       saved |-> saved, inode |-> inode, content |-> content]}
  /\ UNCHANGED harm

Call ==
  /\ pending = {} /\ Range(harm) \subseteq Adding
  /\ \/ \E p \in Directories \cap Reachable, name \in Names :
          \/ \E type \in Types : create(p, name, type) /\ Called("create", CreateWrites(p))
          \/ \E i \in Reachable : /\ create_hardlink(i, p, name)
                                  /\ Called("link", HardlinkWrites(i, p))
          \/ /\ delete(p, name)
             /\ Called("delete", DeleteWrites(At(p, First(Find(p, name))).ino))
     \/ \E h \in Handles, n \in 1 .. MaxGrow :
          write(h, n) /\ Called("write", WriteWrites(open[h]))

(* Calls that write nothing.                                                *)
Quiet == /\ pending = {}
         /\ \/ /\ Range(harm) \subseteq Adding
               /\ \E h \in Handles : close_file(h) \/ \E i \in Reachable : open_file(h, i)
            \/ mount
         /\ UNCHANGED <<pending, harm>>

Return == pending # {} /\ pending' = {} /\ UNCHANGED <<vars, harm>>

(* The writes of W have reached the device; mount reads it.                 *)
Restart(c, W) ==
  /\ ibits' = IF InodeBitmap \in W THEN ibits ELSE c.ibits
  /\ dbits' = IF DataBitmap \in W THEN dbits ELSE c.dbits
  /\ saved' = IF Superblock \in W THEN saved ELSE c.saved
  /\ inode' = [i \in Inode |-> IF InodeOf(i) \in W THEN inode[i] ELSE c.inode[i]]
  /\ content' = [b \in Block |-> IF DataBlock(b) \in W THEN content[b] ELSE c.content[b]]
  /\ sb' = saved' /\ ilast' = 0 /\ dlast' = 0
  /\ open' = [h \in Handles |-> NoInode]
  /\ pending' = {}

(* On a plain device.                                                       *)
Crash == \E c \in pending : \E n \in 0 .. Len(c.writes) - 1 :
           /\ Restart(c, Range(SubSeq(c.writes, 1, n)))
           /\ harm' = Append(harm, c.kind)

(* On a write-back cache.                                                   *)
CrashCached == \E c \in pending : \E W \in SUBSET Range(c.writes) :
                 /\ Restart(c, W)
                 /\ harm' = Append(harm, "cached")

CNext == Call \/ Quiet \/ Return \/ Crash \/ CrashCached

CSpec == CInit /\ [][CNext]_cvars

-----------------------------------------------------------------------------
NamedIn(d) == {pos \in Position(d) : IsNamed(At(d, pos))}

(* What can be reached is sound: entries lead to inodes of their type, a    *)
(* block has one owner and its bit is set, and link counters are exact.     *)
TreeSound ==
  LET R     == Reachable
      dirs  == {d \in R : inode[d].type = "directory"}
      named == UNION {{<<d, pos>> : pos \in NamedIn(d)} : d \in dirs}
      ino(r) == At(r[1], r[2]).ino
  IN  /\ \A r \in named : /\ ino(r) \in ibits
                          /\ At(r[1], r[2]).type = inode[ino(r)].type
      /\ \A i \in R \ {Root} : inode[i].links = Cardinality({r \in named : ino(r) = i})
      /\ \A i \in R : /\ Range(Owned(i)) \subseteq dbits
                      /\ IsInjective(Owned(i))
                      /\ \A j \in R \ {i} : Range(Owned(i)) \cap Range(Owned(j)) = {}

(* A crash in a call that only adds (create, write) on a plain device can   *)
(* lose storage but damages nothing that can be reached, whatever is done   *)
(* afterwards.                                                              *)
LeaksOnly == Range(harm) \subseteq Adding => TreeSound
=============================================================================
