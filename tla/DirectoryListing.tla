-------------------------- MODULE DirectoryListing --------------------------
(***************************************************************************)
(* fuse/formats/fuse_format_v1.rs: opendir and readdir.  A listing is a     *)
(* sequence of readdir calls, each with the offset that came with the last  *)
(* entry of the one before; between them the directory may change (module   *)
(* DirectoryBlock).  The offset is an index into the entries as they are at *)
(* the time of the call.                                                    *)
(***************************************************************************)
EXTENDS DirectoryBlock, FiniteSets

CONSTANT MaxReply     \* entries that fit in a reply, a bound

ASSUME ListingAssumption == MaxReply \in Nat \ {0}

VARIABLES offset,  \* of the next call, or Closed
          seen,    \* names the listing has returned
          twice,   \* names it has returned more than once
          kept,    \* names that were there all the time
          churn    \* what happened to the directory since it was opened

lvars == <<blocks, offset, seen, twice, kept, churn>>
listing == <<offset, seen, twice, kept, churn>>

Closed == -1

LInit == /\ Init
         /\ offset = Closed /\ seen = {} /\ twice = {} /\ kept = {} /\ churn = {}

-----------------------------------------------------------------------------
(* get_entries without the free regions, and the index of one of them.      *)
Before(x, y) == x[1] < y[1] \/ (x[1] = y[1] /\ x[2] < y[2])
Allocated == {pos \in Readable : Rec(pos).name # "free"}
Index(pos, A) == Cardinality({p \in A : Before(p, pos)})

(* mutants of FromOffset: the entry that no longer fits in the reply is     *)
(* counted all the same; the last one of the reply before is returned again *)
CountedUnfit(n, A) == {p \in A : Index(p, A) \in offset .. offset + n - 2}
AgainFromOffset(n, A) == {p \in A : Index(p, A) \in offset - 1 .. offset + n - 1}
(* The positions of n entries from the offset on.                           *)
FromOffset(n, A) == {p \in A : Index(p, A) \in offset .. offset + n - 1}

opendir == /\ offset = Closed
           /\ offset' = 0 /\ kept' = Listed
           /\ UNCHANGED <<blocks, seen, twice, churn>>

readdir(n) ==
  LET A     == Allocated
      names == {Rec(pos).name : pos \in FromOffset(n, A)} \cap Names
  IN
  /\ offset # Closed /\ AllReadable
  /\ offset + n <= Cardinality(A)
  /\ offset' = offset + n
  /\ seen' = seen \cup names /\ twice' = twice \cup (seen \cap names)
  /\ UNCHANGED <<blocks, kept, churn>>

(* A reply without entries ends the listing.                                *)
readdir_end == /\ offset # Closed /\ AllReadable
               /\ offset >= Cardinality(Allocated)
               /\ offset' = Closed
               /\ seen' = {} /\ twice' = {} /\ kept' = {} /\ churn' = {}
               /\ UNCHANGED blocks

Changed(what) == /\ kept' = kept \cap Listed'
                 /\ churn' = IF offset = Closed THEN {} ELSE churn \cup {what}
                 /\ UNCHANGED <<offset, seen, twice>>

LNext == \/ \E name \in Names : \/ add(name) /\ Changed("added")
                                \/ remove(name) /\ Changed("removed")
         \/ opendir
         \/ \E n \in 1 .. MaxReply : readdir(n)
         \/ readdir_end

LSpec == LInit /\ [][LNext]_lvars

-----------------------------------------------------------------------------
(* A listing during which nothing is removed returns every name that was    *)
(* there all the time, although entries may be inserted before its place.   *)
ListingComplete ==
  [][readdir_end => "removed" \in churn \/ kept \subseteq seen]_lvars

(* A listing during which nothing is inserted returns no name twice.        *)
ListingOnce == twice # {} => "added" \in churn
=============================================================================
