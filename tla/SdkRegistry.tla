---------------------------- MODULE SdkRegistry -----------------------------
(***************************************************************************)
(* What the SDK registry promises: every command that changes it is one    *)
(* atomic update of its current contents.  The processes, locks, files and *)
(* crashes by which janex-host/src/sdk/state.rs achieves this are in       *)
(* SdkStore, which is shown to implement this specification.               *)
(***************************************************************************)
EXTENDS SdkModel

vars == <<registry>>

Init == registry = EmptyRegistry

SetPin(r, pinned) ==
    /\ Selected(registry, r)
    /\ registry' = SetPinned(registry, r, pinned)

\* install of a build that is already registered, online or offline
BindInstalled(r, i, pin) ==
    /\ i \in registry.installations \cap Accepts[r]
    /\ registry' = Bind(registry, r, i, pin)

\* install of a downloaded build, and registration of an external home
AddAndBind(r, i, pin) ==
    /\ i \in Accepts[r]
    /\ i \notin Managed => pin
    /\ registry' = Bind(AddInstallation(registry, i), r, i, pin)

SetDefault(d) ==
    /\ DefaultInstallation(registry, d) # NoId
    /\ d.id # NoId => d.request = ExactOf[d.id]
    /\ registry' = InsertDefault(registry, d)

ClearDefault(k) == registry' = RemoveDefault(registry, k)

Uninstall(i) ==
    /\ i \in registry.installations
    /\ ~ IsDefault(registry, i)
    /\ registry' = Forget(registry, i)

Next ==
    \/ \E r \in Req, b \in BOOLEAN : SetPin(r, b)
    \/ \E r \in Req, i \in Id, b \in BOOLEAN : BindInstalled(r, i, b)
    \/ \E r \in Req, i \in Id, b \in BOOLEAN : AddAndBind(r, i, b)
    \/ \E d \in DefaultSelection : SetDefault(d)
    \/ \E k \in Key : ClearDefault(k)
    \/ \E i \in Id : Uninstall(i)

Spec == Init /\ [][Next]_vars

-----------------------------------------------------------------------------
\* The registry is a value of the persisted schema.
TypeOK == registry \in Registry
=============================================================================
