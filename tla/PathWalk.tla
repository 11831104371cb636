------------------------------ MODULE PathWalk ------------------------------
(***************************************************************************)
(* What resolving a path means: one walk down the tree that puts the path   *)
(* of a symbolic link in place of its name.  A walk is given up only after  *)
(* as many links were followed as the documented limit.                     *)
(***************************************************************************)
EXTENDS Integers, Sequences

CONSTANTS Root, Links,
          Lookup(_, _),    \* the node of that name in a directory, or Missing
          Missing, Empty,  \* no such entry; a link that has no target yet
          Paths, Targets,  \* of the calls; of the links
          MaxLinks         \* the documented limit

VARIABLES target,   \* link -> path, or Empty
          walk,     \* set of the walk that is under way
          outcome   \* of the last walk: a node, Missing when it failed or runs

vars == <<target, walk, outcome>>

Init == /\ target = [l \in Links |-> Empty]
        /\ walk = {} /\ outcome = Missing

Begin == /\ walk = {}
         /\ \E path \in Paths, final \in BOOLEAN :
              walk' = {[node |-> Root, rest |-> path.comps, final |-> final, followed |-> 0]}
         /\ outcome' = Missing /\ UNCHANGED target

Fail == walk' = {} /\ outcome' = Missing /\ UNCHANGED target

Step(w) ==
  LET node == Lookup(w.node, Head(w.rest))
      rest == Tail(w.rest)
  IN  /\ w.rest # <<>>
      /\ IF node \in Links /\ (rest # <<>> \/ w.final)
           THEN \/ /\ target[node] # Empty
                   /\ walk' = {[w EXCEPT !.node = IF target[node].abs THEN Root ELSE @,
                                         !.rest = target[node].comps \o rest,
                                         !.followed = IF @ < MaxLinks THEN @ + 1 ELSE @]}
                   /\ UNCHANGED <<target, outcome>>
                \/ (target[node] = Empty \/ w.followed >= MaxLinks) /\ Fail
           ELSE \/ /\ node # Missing
                   /\ walk' = {[w EXCEPT !.node = node, !.rest = rest]}
                   /\ UNCHANGED <<target, outcome>>
                \/ /\ node = Missing \/ (rest # <<>> /\ Lookup(node, "..") = Missing)
                   /\ Fail

(* The end of a walk, and what edit_symlink then does to a link.            *)
Finish(w) == /\ w.rest = <<>>
             /\ walk' = {} /\ outcome' = w.node
             /\ \/ UNCHANGED target
                \/ /\ ~w.final /\ w.node \in Links
                   /\ \E t \in Targets : target' = [target EXCEPT ![w.node] = t]

Next == Begin \/ \E w \in walk : Step(w) \/ Finish(w)

Spec == Init /\ [][Next]_vars
=============================================================================
