----------------------------- MODULE MCResolve ------------------------------
(* A tree with a directory d; l is beside it, m and the file f are in it.   *)
EXTENDS Resolve

MCParent == [n \in Nodes |-> IF n \in {"m", "f"} THEN "d" ELSE Root]

Component == {"..", "d", "l", "m", "f"}
Path(abs, n) == [abs : {abs}, comps : BoundedSeq(Component, n)]

MCPaths == [abs : {FALSE}, comps : {<<>>, <<"l">>, <<"l", "m">>, <<"l", "f">>,
                                    <<"d", "m">>, <<"d", "m", "..">>, <<"d", "..", "l", "f">>}]
MCTargets == {Empty} \cup Path(FALSE, 2) \cup Path(TRUE, 1)
=============================================================================
