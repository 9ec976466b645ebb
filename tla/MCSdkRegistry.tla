--------------------------- MODULE MCSdkRegistry ----------------------------
(***************************************************************************)
(* Three Java builds and a portable tool: two default slots, a series, an  *)
(* exact release with two builds, and a tool request.                      *)
(***************************************************************************)
EXTENDS SdkRegistry

CONSTANTS series, exact, tool, ga, patch, external, dist, java, gradle

MCReq == {series, exact, tool}
MCId == {ga, patch, external, dist}
MCAccepts == [r \in MCReq |-> CASE r = series -> {ga, patch, external}
                                [] r = exact  -> {patch, external}
                                [] r = tool   -> {dist}]
MCRemoves == [r \in MCReq |-> IF r = series THEN {} ELSE MCAccepts[r]]
MCExactOf == [i \in MCId |-> CASE i = ga -> series [] i = dist -> tool [] OTHER -> exact]
MCKeyOf == [r \in MCReq |-> IF r = tool THEN gradle ELSE java]
MCRank == [i \in MCId |-> CASE i = ga -> 3 [] i = patch -> 2 [] i = external -> 1
                            [] i = dist -> 4]
=============================================================================
