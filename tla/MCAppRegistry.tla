--------------------------- MODULE MCAppRegistry ----------------------------
(***************************************************************************)
(* Two lines of one product (the plain JAR and a classifier) and a line of *)
(* another product, all with the same command.  The tool has two versions; *)
(* republished is a second artifact served as version v1.                  *)
(***************************************************************************)
EXTENDS AppRegistry

CONSTANTS tool, toolAll, other, v1, v2, cmd, mine, theirs,
          first, second, republished, bundle, rival

MCLine == {tool, toolAll, other}
MCCommandOf == [l \in MCLine |-> cmd]
MCProductOf == [l \in MCLine |-> IF l = other THEN theirs ELSE mine]
MCApp == [i \in Release |->
            CASE i = second -> [line |-> tool, version |-> v2]
              [] i = bundle -> [line |-> toolAll, version |-> v1]
              [] i = rival  -> [line |-> other, version |-> v1]
              [] OTHER      -> [line |-> tool, version |-> v1]]
MCReq == {MCApp[i] : i \in Release} \cup {[line |-> tool, version |-> NoVersion]}
=============================================================================
