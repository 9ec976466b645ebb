---------------------------- MODULE MCAppStore ------------------------------
(***************************************************************************)
(* A tool, requested by its version or as "the current one", another       *)
(* product with the same command name, and a second artifact that the      *)
(* repository came to serve for the tool's version.                        *)
(***************************************************************************)
EXTENDS AppStore, TLC

CONSTANTS p1, p2, tool, other, v1, cmd, mine, theirs, first, republished, rival

MCLine == {tool, other}
MCCommandOf == [l \in MCLine |-> cmd]
MCProductOf == [l \in MCLine |-> IF l = other THEN theirs ELSE mine]
MCApp == [i \in Release |->
            [line |-> IF i = rival THEN other ELSE tool, version |-> v1]]

MCReqExact == {MCApp[i] : i \in Release}
MCReq == MCReqExact \cup {[line |-> tool, version |-> NoVersion]}

Symmetry == Permutations(Proc)
=============================================================================
