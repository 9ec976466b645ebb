------------------------------- MODULE MCHost -------------------------------
(***************************************************************************)
(* The parts of the host on small instances:                                *)
(*   project    two families with an installation each                      *)
(*   download   an archive that fills the limit, a shorter, a longer one    *)
(*   integrate  two ways to register that share an entry, one with a rule   *)
(*   probe      a launcher of two files, each replaced once                 *)
(*   cache      a request without a checksum and two with the same one, so  *)
(*              that three locks guard the same content file                *)
(***************************************************************************)
EXTENDS Host, TLC

MCFamilyOf == [i \in Id |-> IF i = "gradleA" THEN "gradle" ELSE "java"]

MCSize == ("full" :> 8) @@ ("short" :> 7) @@ ("long" :> 9)

MCPlan ==
    ("one" :> [files |-> <<<<"mime", "m1">>>>, registry |-> <<<<"type", "t1">>, <<"open", "o1">>>>, binfmt |-> TRUE])
    @@ ("two" :> [files |-> <<<<"mime", "m2">>>>, registry |-> <<<<"type", "t1">>>>, binfmt |-> FALSE])

MCOrder == <<"release", "modules">>

MCPin == ("url" :> "none") @@ ("maven" :> "jar") @@ ("mirror" :> "jar")
=============================================================================
