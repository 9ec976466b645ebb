------------------------- MODULE AppRegistryProofs --------------------------
(***************************************************************************)
(* The application registry stays readable for ever, and commands keep     *)
(* their releases, provided repositories do not change what they serve for *)
(* an exact request.  Without that assumption readability fails.           *)
(***************************************************************************)
EXTENDS AppRegistry, AppModelProofs

Inv == TypeOK /\ RegistryReadable

\* The invariant is what AppModelProofs calls a good registry.
LEMMA InvIsGood == Inv <=> Good(registry)
BY DEF Inv, TypeOK, RegistryReadable, Good

(* Every action is one of the changes AppModelProofs speaks of.            *)
LEMMA NextIsChange == Next => Change(registry, registry')
BY DEF Next, Change, Binding, Edit, Install, InstallSaved, SetPin, SetDefault,
       ClearDefault, Uninstall

(* TypeOK and readability are inductive together: a command must resolve   *)
(* for the next update of its request to keep it resolved.                 *)
THEOREM RegistryInvariant ==
    ASSUME ReleasesImmutable
    PROVE  Spec => []Inv
<1>1. Init => Inv
  BY EmptyGood, InvIsGood DEF Init, Inv, TypeOK, RegistryReadable, Good
<1>2. Inv /\ [Next]_vars => Inv'
  <2>1. Inv /\ Next => Good(registry')
    BY NextIsChange, ChangeGood, InvIsGood
  <2>2. Good(registry') => Inv'
    BY DEF Inv, TypeOK, RegistryReadable, Good
  <2>3. Inv /\ UNCHANGED vars => Inv'
    BY DEF vars, Inv, TypeOK, RegistryReadable
  <2> QED  BY <2>1, <2>2, <2>3
<1> QED  BY <1>1, <1>2, PTL DEF Spec

(* read() accepts every registry that the commands of app/mod.rs publish,  *)
(* for any lines, versions, products and releases, if each exact request   *)
(* has one release.                                                        *)
THEOREM AlwaysReadable ==
    ASSUME ReleasesImmutable
    PROVE  Spec => []RegistryReadable
<1>1. Inv => RegistryReadable
  BY DEF Inv
<1> QED  BY <1>1, RegistryInvariant, PTL

(* uninstall removes the command of the release it removes and leaves      *)
(* every other command with its release.                                   *)
THEOREM UninstallSafe ==
    ASSUME ReleasesImmutable
    PROVE  Spec => UninstallNeverSwitches
<1>1. ASSUME Inv, NEW t \in Target, Uninstall(t), NEW c \in registry'.commands
      PROVE  /\ c \in registry.commands
             /\ CommandInstallation(registry', c) = CommandInstallation(registry, c)
  <2> DEFINE i == UninstallTarget(registry, t)
  <2>1. i \in Release /\ registry' = Forget(registry, i)
    BY <1>1, TargetType DEF Inv, TypeOK, RegistryReadable, Readable, AppStatus, Uninstall
  <2>2. Good(registry)
    BY <1>1, InvIsGood
  <2> HIDE DEF i
  <2> QED  BY <1>1, <2>1, <2>2, ForgetGood
<1>2. Inv /\ [Next]_vars
        => [ \A t \in Target : Uninstall(t) =>
               \A c \in registry'.commands :
                 /\ c \in registry.commands
                 /\ CommandInstallation(registry', c) = CommandInstallation(registry, c)
           ]_vars
  BY <1>1
<1> QED  BY <1>2, RegistryInvariant, PTL DEF Spec, UninstallNeverSwitches

(* install and update move no command but one that follows the request     *)
(* they were given.                                                        *)
THEOREM InstallSafe ==
    ASSUME ReleasesImmutable
    PROVE  Spec => InstallKeepsCommands
<1>1. ASSUME Inv, NEW r \in Req, NEW i \in Release, NEW b \in BOOLEAN,
             Install(r, i, b), NEW c \in registry.commands
      PROVE  /\ c \in registry'.commands
             /\ \/ c.installation = NoId /\ c.request = r
                \/ CommandInstallation(registry', c) = CommandInstallation(registry, c)
  <2>1. i \in Served(r) /\ registry' = BindRelease(registry, r, i, b)
    BY <1>1 DEF Install
  <2>2. Good(registry)
    BY <1>1, InvIsGood
  <2> QED  BY <2>1, <2>2, BindReleaseGood
<1>2. Inv /\ [Next]_vars
        => [ \A r \in Req, i \in Release, b \in BOOLEAN : Install(r, i, b) =>
               \A c \in registry.commands :
                 /\ c \in registry'.commands
                 /\ \/ c.installation = NoId /\ c.request = r
                    \/ CommandInstallation(registry', c) = CommandInstallation(registry, c)
           ]_vars
  BY <1>1
<1> QED  BY <1>2, RegistryInvariant, PTL DEF Spec, InstallKeepsCommands
=============================================================================
