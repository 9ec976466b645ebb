---------------------------- MODULE MCSdkStore ------------------------------
(***************************************************************************)
(* A small SDK home.  The request series ("21") matches every build, the   *)
(* request exact ("21.0.1") the two builds of that release: one that Janex *)
(* downloads and one registered from a path, which makes exact ambiguous   *)
(* for uninstall.  The general-availability build is named "21" as well,   *)
(* so its own exact request is the series.                                 *)
(***************************************************************************)
EXTENDS SdkStore

CONSTANTS p1, p2, series, exact, ga, patch, external, slot

MCReq == {series, exact}
MCAccepts == [r \in Req |-> IF r = series THEN Id ELSE Id \ {ga}]
MCRemoves == [r \in Req |-> IF r = series THEN {} ELSE Id \ {ga}]
MCExactOf == [i \in Id |-> IF i = ga THEN series ELSE exact]
MCKeyOf == [r \in Req |-> slot]
MCRank == [i \in Id |-> CASE i = ga -> 3 [] i = patch -> 2 [] OTHER -> 1]
=============================================================================
