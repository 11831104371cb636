-------------------------- MODULE IntegrityChecker --------------------------
(***************************************************************************)
(* formats/v1/format.rs: check_integrity and its helpers, as the set of     *)
(* errors it reports in a state of FormatV1.  It only reads, so its calls   *)
(* are not actions.  What it says of record lengths and of addresses out of *)
(* range is left out with them; its recursion and its bitmaps of visited    *)
(* inodes and blocks are kept.                                              *)
(***************************************************************************)
EXTENDS FormatV1

Error(kind, index) == [kind |-> kind, index |-> index]

Concat(Op(_), seq) == FlattenSeq([k \in DOMAIN seq |-> Op(seq[k])])
Passing(Test(_), seq) == Concat(LAMBDA x : IF Test(x) THEN <<x>> ELSE <<>>, seq)

-----------------------------------------------------------------------------
(* The places in a directory of the blocks that are parsed.                 *)
Parsed(d) == Passing(LAMBDA k : DMap!is_allocated(dbits, inode[d].blocks[k]),
                     [k \in DOMAIN inode[d].blocks |-> k])
ParsedBlocks(d) == [n \in DOMAIN Parsed(d) |-> inode[d].blocks[Parsed(d)[n]]]

(* check_integrity_entries_in_block: the positions in use, in order; the    *)
(* first two of the first block are its head.                               *)
Entries(d) == Passing(LAMBDA pos : At(d, pos).ino # NoInode,
                      Concat(LAMBDA k : [s \in Slot |-> <<k, s>>], Parsed(d)))
IsHead(pos) == pos[1] = 1 /\ pos[2] <= 2
IsChild(d, pos) == At(d, pos).type = "directory" /\ ~IsHead(pos)

Inos(d, positions) == [n \in DOMAIN positions |-> At(d, positions[n]).ino]
(* mutant of child_dirs: an entry that follows another one is passed over   *)
child_dirs_first(d) ==
  Inos(d, Passing(LAMBDA pos : IsChild(d, pos), SubSeq(Entries(d), 1, Min({3, Len(Entries(d))}))))
child_dirs(d) == Inos(d, Passing(LAMBDA pos : IsChild(d, pos), Entries(d)))
child_others(d) == Inos(d, Passing(LAMBDA pos : At(d, pos).type # "directory", Entries(d)))

(* A record in the head that is free has no name; it is not passed over.    *)
Misplaced(d) == {Error(<<"MissingSelf", "MissingParent">>[s], d) : s \in
                   {s \in {1, 2} : /\ 1 \in Range(Parsed(d))
                                  /\ \/ At(d, <<1, s>>).ino = NoInode
                                     \/ At(d, <<1, s>>).name # <<".", "..">>[s]}}

(* check_integrity_recursive calls itself for every entry of type directory *)
(* in every directory: the directories it is called for, level by level.    *)
(* There are at most NI levels unless directories contain each other.       *)
DirVisits ==
  LET level[n \in 0 .. NI] == IF n = 0 THEN <<Root>> ELSE Concat(child_dirs, level[n - 1])
  IN  FlattenSeq([n \in 1 .. NI + 1 |-> level[n - 1]])

(* IntegrityCheckerBitmap: a block visited before is referenced twice.      *)
Twice(blocks) == {blocks[k] : k \in {k \in DOMAIN blocks : \E l \in 1 .. k - 1 : blocks[l] = blocks[k]}}

-----------------------------------------------------------------------------
(* mutant of Unreached: what is referenced but free counts as well          *)
UnreachedCounted(used, visited) == IF Cardinality(used) > Cardinality(visited) + 1
                                     THEN used \ visited ELSE {}
(* The search for what is allocated but was not visited is skipped when the *)
(* numbers agree (for inodes the code asks for more used than visited ones, *)
(* but only used ones are visited).                                         *)
Unreached(used, visited) == IF Cardinality(used) # Cardinality(visited)
                              THEN used \ visited ELSE {}

(* check_integrity_inode_allocation: the inodes marked as visited.          *)
Reached(inodes) == {i \in inodes : IMap!is_allocated(ibits, i)}

(* mutant of WrongTypes: only what is recursed into has to be a directory   *)
WrongTypesOfDirectories(dirs, others) == {i \in dirs : inode[i].type # "directory"}
(* check_integrity_recursive expects directories, and check_integrity_inode *)
(* is told to expect a file of everything else.                             *)
WrongTypes(dirs, others) == {i \in dirs : inode[i].type # "directory"} \cup
                            {i \in others : inode[i].type # "file"}

(* The visits of data blocks: those of a directory that are not allocated   *)
(* are left out, those of a file are not, and the pointer blocks are        *)
(* visited for nobody.                                                      *)
Visits(dirs, others) ==
  Concat(ParsedBlocks, dirs) \o Concat(LAMBDA i : inode[i].blocks, others)

check_integrity ==
  LET dirs       == DirVisits
      others     == Concat(child_others, dirs)
      inodes     == Range(dirs) \cup Range(others)
      visits     == Visits(dirs, others)
      usedInodes == IMap!count_allocated(ibits)
      usedBlocks == DMap!count_allocated(dbits)
  IN  (IF sb.free_inodes # NI - usedInodes THEN {Error("FreeInodes", 0)} ELSE {})
      \cup (IF sb.free_data # ND - usedBlocks THEN {Error("FreeData", 0)} ELSE {})
      \cup {Error("UnallocatedINode", i) : i \in inodes \ Reached(inodes)}
      \cup {Error("MismatchedFileType", i) : i \in WrongTypes(Range(dirs), Range(others))}
      \cup {Error("UnallocatedData", b) : b \in (UNION {Range(inode[i].blocks) : i \in inodes}) \ dbits}
      \cup {Error("DoubleReference", b) : b \in Twice(visits)}
      \cup (UNION {Misplaced(d) : d \in Range(dirs)})
      \cup {Error("UnreachableINode", i) : i \in Unreached(ibits, Reached(inodes))}
      \cup {Error("UnreachableData", b) : b \in Unreached(dbits, Range(visits))}

-----------------------------------------------------------------------------
Content == UNION {Range(inode[i].blocks) : i \in ibits}

(* Reports without damage that the code is known for, none of which it is   *)
(* meant to give (ReportsTrue): a symbolic link as of the wrong type, the   *)
(* data of a file with two names as referenced twice, and a pointer block   *)
(* as unreachable.                                                          *)
FalseAlarms ==
  {Error("MismatchedFileType", i) : i \in {i \in ibits : inode[i].type = "symlink"}}
  \cup {Error("DoubleReference", b) :
          b \in UNION {Range(inode[i].blocks) : i \in {i \in ibits : inode[i].links > 1}}}
  \cup {Error("UnreachableData", b) : b \in dbits \ Content}

(* As long as the name space is sound, the checker reports nothing beyond   *)
(* these: the counters, the other types, every reference and the reach of   *)
(* the recursion are found right, whatever calls came before.               *)
CheckerQuiet == check_integrity \subseteq FalseAlarms

(* The inodes and places that hold a block as content.                      *)
Holders(b) == UNION {{<<i, k>> : k \in {k \in DOMAIN inode[i].blocks : inode[i].blocks[k] = b}}
                     : i \in ibits}

(* check_integrity checks that entries have the "file type matching the     *)
(* inode", that "all allocated blocks are actually reachable" and that "no  *)
(* two inodes point to the same block".  What it reports of these is true:  *)
(* an entry that leads to the inode has another type, no inode has the      *)
(* block as content or as a pointer block, and two places hold the block.   *)
ReportsTrue ==
  \A x \in check_integrity :
    /\ x.kind = "MismatchedFileType" =>
         \E d \in Directories : \E pos \in Position(d) :
           At(d, pos).ino = x.index /\ At(d, pos).type # inode[x.index].type
    /\ x.kind = "UnreachableData" => \A i \in ibits : x.index \notin Range(Owned(i))
    /\ x.kind = "DoubleReference" => Cardinality(Holders(x.index)) > 1

-----------------------------------------------------------------------------
(* Named entries lead to allocated inodes, those of type directory to       *)
(* directories and the others to something else.                            *)
EntriesLead ==
  \A d \in Directories : \A pos \in Position(d) :
    LET e == At(d, pos) IN
    IsNamed(e) => /\ e.ino \in ibits
                  /\ e.type = "directory" <=> inode[e.ino].type = "directory"

(* Named entries have the type of their inode.                              *)
EntriesAgree ==
  \A d \in Directories : \A pos \in Position(d) :
    LET e == At(d, pos) IN IsNamed(e) => e.type = inode[e.ino].type

(* Blocks have one owner, entries lead to inodes, nothing allocated is      *)
(* lost, and the counters are those of the bitmaps.  Link counters, and     *)
(* where "." and ".." lead, the checker does not look at.                   *)
Undamaged ==
  /\ BlockOwnership /\ EntriesLead /\ NoOrphans
  /\ dbits = Content
  /\ sb = [free_inodes |-> NI - Cardinality(ibits), free_data |-> ND - Cardinality(dbits)]

(* A file system that check_integrity passes is undamaged in this sense,    *)
(* also when a crash has cut a call off at any write: neither the shortcut  *)
(* by numbers nor the recursion by the types of the entries hides anything. *)
PassedUndamaged == check_integrity = {} => Undamaged

(* Without a crash it also has no entry whose type is not its inode's,      *)
(* although the code compares everything but directories with "file" only:  *)
(* also after calls that failed half way or gave entries a wrong type.      *)
CheckerSound == check_integrity = {} => Undamaged /\ EntriesAgree
=============================================================================
