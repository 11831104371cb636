----------------------------- MODULE Namespace ------------------------------
(***************************************************************************)
(* What the file system promises about names: a set of links <<directory,   *)
(* name, node>>; a node lives exactly as long as a link names it; a         *)
(* directory is removed only when it is empty.  Block and inode allocation, *)
(* link counters and directory blocks are hidden.                           *)
(***************************************************************************)
EXTENDS Integers

CONSTANTS Node, Root, Name

VARIABLES kind,   \* node -> its type, "none" when it does not exist
          links   \* set of <<directory, name, node>>

vars == <<kind, links>>

Kinds == {"file", "directory", "symlink"}

Init == /\ kind = [x \in Node |-> IF x = Root THEN "directory" ELSE "none"]
        /\ links = {}

Vacant(d, n) == \A l \in links : ~(l[1] = d /\ l[2] = n)

Create(d, n, x, t) == /\ kind[d] = "directory" /\ Vacant(d, n)
                      /\ kind[x] = "none"
                      /\ kind' = [kind EXCEPT ![x] = t]
                      /\ links' = links \cup {<<d, n, x>>}

Link(x, d, n) == /\ kind[d] = "directory" /\ Vacant(d, n)
                 /\ kind[x] = "file"
                 /\ links' = links \cup {<<d, n, x>>}
                 /\ UNCHANGED kind

Remove(d, n, x) ==
  /\ <<d, n, x>> \in links
  /\ \A l \in links : l[1] # x
  /\ links' = links \ {<<d, n, x>>}
  /\ kind' = [kind EXCEPT ![x] = IF \E l \in links' : l[3] = x THEN @ ELSE "none"]

Move(d, n, d2, n2, x) == /\ <<d, n, x>> \in links
                         /\ kind[d2] = "directory" /\ Vacant(d2, n2)
                         /\ links' = (links \ {<<d, n, x>>}) \cup {<<d2, n2, x>>}
                         /\ UNCHANGED kind

Next == \E d \in Node, n \in Name, x \in Node :
          \/ \E t \in Kinds : Create(d, n, x, t)
          \/ Link(x, d, n)
          \/ Remove(d, n, x)
          \/ \E d2 \in Node, n2 \in Name : Move(d, n, d2, n2, x)

Spec == Init /\ [][Next]_vars
=============================================================================
