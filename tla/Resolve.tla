------------------------------- MODULE Resolve ------------------------------
(***************************************************************************)
(* formats/v1/directory_handler.rs: resolve, with its recursion through     *)
(* symbolic links as a stack of calls of _resolve, and edit_symlink of      *)
(* format.rs, the call that gives links their targets.  The directories are *)
(* those of one tree; only the targets of its links change.                 *)
(*                                                                          *)
(* A path is the sequence of its components as Path::components yields      *)
(* them, without CurDir and RootDir, and whether it starts at the root: ""  *)
(* and "." are the empty relative path, "/" is the empty absolute one.      *)
(***************************************************************************)
EXTENDS Integers, Sequences, SequencesExt

CONSTANTS Root, Subdirs, Links, Files,  \* nodes; each is its own name
          Parent,           \* node -> the directory it is in; Root's is Root
          Paths,            \* paths the callers use
          Targets,          \* paths they write into links, and Empty
          MaxDepth          \* 40

Directories == {Root} \cup Subdirs
Nodes == Directories \cup Links \cup Files
Missing == "missing"
Empty == [abs |-> FALSE, comps |-> <<"">>]  \* the target of a link of size 0

ASSUME ResolveAssumption ==
  /\ Parent \in [Nodes -> Directories] /\ Parent[Root] = Root
  /\ Missing \notin Nodes
  /\ Paths \cup Targets \subseteq [abs : BOOLEAN, comps : Seq(STRING)]
  /\ MaxDepth \in Nat

VARIABLES target,   \* link -> path, or Empty
          stack,    \* the activations of _resolve, innermost last
          result,   \* what the last call returned
          followed  \* history: links the call has followed, at most MaxDepth

vars == <<target, stack, result, followed>>

(* Where an entry is: the directory and the name, or NoEntry for block 0    *)
(* and offset 0, which _resolve starts with.                                *)
NoEntry == <<>>
Nothing == [node |-> Missing, parent |-> Missing, at |-> NoEntry, final |-> TRUE]

Init == /\ target = [l \in Links |-> Empty]
        /\ stack = <<>> /\ result = Nothing /\ followed = 0

(* find_entry *)
find_entry(dir, name) ==
  IF dir \notin Directories THEN Missing
  ELSE IF name = ".." THEN Parent[dir]
  ELSE IF name \in Nodes \ {Root} /\ Parent[name] = dir THEN name ELSE Missing

(* An activation with the local variables of _resolve.  The first one is    *)
(* given the root as src whatever the path starts with.                     *)
Frame(path, src, final) ==
  [rest |-> path.comps, cur |-> src, parent |-> src, at |-> NoEntry, final |-> final]

(* mutant of Source: relative targets start at the root                     *)
SourceRoot(path, dir) == Root
(* _resolve_symlink: where the path of a link in dir starts.                *)
Source(path, dir) == IF path.abs THEN Root ELSE dir

top == stack[Len(stack)]
SetTop(frame) == [stack EXCEPT ![Len(stack)] = frame]

Error == stack' = <<>> /\ result' = Nothing /\ UNCHANGED <<target, followed>>

-----------------------------------------------------------------------------
(* A call: resolve() with the flag, and edit_symlink when it is FALSE.      *)
resolve(path, final) == /\ stack = <<>>
                        /\ stack' = <<Frame(path, Root, final)>>
                        /\ result' = Nothing /\ followed' = 0
                        /\ UNCHANGED target

(* The next component names a link to follow.                               *)
Follows(node) == /\ node \in Links
                 /\ Len(top.rest) > 1 \/ top.final

(* it >= 40, where it is the number of links between here and the call.     *)
TooDeep == Len(stack) - 1 >= MaxDepth

(* mutant of Entered: a link at the end of a path is followed in place      *)
EnteredInPlace(here, frame) == IF here.rest = <<>> THEN SetTop(frame)
                               ELSE Append(SetTop(here), frame)
Entered(here, frame) == Append(SetTop(here), frame)

(* One round of the loop over the components.                               *)
component ==
  LET node == find_entry(top.cur, Head(top.rest))
      rest == Tail(top.rest)
      here == [top EXCEPT !.rest = rest, !.at = <<top.cur, Head(top.rest)>>]
  IN  /\ stack # <<>> /\ top.rest # <<>>
      /\ \/ node = Missing /\ Error
         \/ Follows(node) /\ (TooDeep \/ target[node] = Empty) /\ Error
         \/ /\ Follows(node) /\ ~TooDeep /\ target[node] # Empty
            /\ stack' = Entered(here, Frame(target[node], Source(target[node], top.cur), TRUE))
            /\ followed' = Min({followed + 1, MaxDepth})
            /\ UNCHANGED <<target, result>>
         \/ /\ node # Missing /\ ~Follows(node)
            /\ node \notin Directories /\ rest # <<>>
            /\ Error
         \/ /\ node # Missing /\ ~Follows(node)
            /\ node \in Directories \/ rest = <<>>
            /\ stack' = SetTop([here EXCEPT !.parent = top.cur, !.cur = node])
            /\ UNCHANGED <<target, result, followed>>

(* mutant of Returned: the parent directory is not taken over               *)
ReturnedKeepsParent(frame, res) == [frame EXCEPT !.cur = res.cur, !.at = res.at]
(* What the activation that followed the link takes over.                   *)
Returned(frame, res) ==
  [frame EXCEPT !.cur = res.cur, !.parent = res.parent, !.at = res.at]

return_symlink ==
  LET caller == Returned(stack[Len(stack) - 1], top)
  IN  /\ Len(stack) > 1 /\ top.rest = <<>>
      /\ \/ caller.cur \notin Directories /\ caller.rest # <<>> /\ Error
         \/ /\ caller.cur \in Directories \/ caller.rest = <<>>
            /\ stack' = Append(SubSeq(stack, 1, Len(stack) - 2), caller)
            /\ UNCHANGED <<target, result, followed>>

(* The outermost activation returns; edit_symlink goes on to write_symlink. *)
return_call ==
  /\ Len(stack) = 1 /\ top.rest = <<>>
  /\ stack' = <<>>
  /\ result' = [node |-> top.cur, parent |-> top.parent, at |-> top.at, final |-> top.final]
  /\ \/ UNCHANGED target
     \/ /\ ~top.final /\ top.cur \in Links
        /\ \E t \in Targets : target' = [target EXCEPT ![top.cur] = t]
  /\ UNCHANGED followed

Running == component \/ return_symlink \/ return_call

Next == (\E path \in Paths, final \in BOOLEAN : resolve(path, final)) \/ Running

(* A call has the file system to itself until it returns.                   *)
Spec == Init /\ [][Next]_vars /\ WF_vars(Running)

-----------------------------------------------------------------------------
(* The position a call returns is the one of its target's own entry, also   *)
(* when links led to it through other directories; only a path that names   *)
(* its own start has none.  delete(), which does not follow the last link,  *)
(* frees the record at that position.                                       *)
LocationNamesTarget ==
  result.node # Missing =>
    \/ result.at = NoEntry /\ result.parent = result.node /\ result.node \in Directories
    \/ result.at # NoEntry /\ result.at[1] = result.parent
       /\ find_entry(result.at[1], result.at[2]) = result.node

(* Every call returns, whatever loops the links form.                       *)
Terminates == stack # <<>> ~> stack = <<>>

(* The components still to come: those of the innermost activation first.   *)
Pending(s) ==
  LET from[k \in 0 .. Len(s)] == IF k = 0 THEN <<>> ELSE s[k].rest \o from[k - 1]
  IN  from[Len(s)]

Walking == IF stack = <<>> THEN {}
           ELSE {[node |-> top.cur, rest |-> Pending(stack),
                  final |-> stack[1].final, followed |-> followed]}

Walk == INSTANCE PathWalk WITH Lookup <- find_entry, MaxLinks <- MaxDepth,
                               walk <- Walking, outcome <- result.node

(* The recursion implements the walk: links in the middle of a path, links  *)
(* to links and relative links in other directories lead where the textual  *)
(* substitution leads, and a path is refused as too deep only when at least *)
(* the documented number of links was followed.                             *)
ImplementsWalk == Walk!Spec
=============================================================================
