---------------------------- MODULE AppRegistry -----------------------------
(***************************************************************************)
(* What the application registry promises: every command that changes it   *)
(* is one atomic update of its current contents.  AppStore shows how       *)
(* janex-host/src/app/mod.rs achieves it with locks, files and crashes.    *)
(***************************************************************************)
EXTENDS AppModel

VARIABLE registry

vars == <<registry>>

Init == registry = EmptyStatus

\* A download, published and bound; an update finds the request unpinned.
Install(r, i, pin) ==
    /\ i \in Served(r)
    /\ OwnsCommand(registry, r)
    /\ registry' = BindRelease(registry, r, i, pin)

InstallSaved(r, pin) ==
    /\ FindRequest(registry, r) # NoId
    /\ OwnsCommand(registry, r)
    /\ registry' = Reselect(registry, r, pin)

SetPin(r, pinned) ==
    /\ Saved(registry, r)
    /\ registry' = SetPinned(registry, r, pinned)

SetDefault(t) ==
    /\ Resolve(registry, t) # NoId
    /\ OwnsCommand(registry, IF t \in Req THEN t ELSE App[t])
    /\ registry' = SelectCommand(registry, t)

ClearDefault(t) ==
    LET i == Resolve(registry, t)
    IN  /\ i # NoId
        /\ OwnsCommand(registry, App[i])
        /\ registry' = DropCommand(registry, Name(App[i]))

Uninstall(t) ==
    LET i == UninstallTarget(registry, t)
    IN  /\ i # NoId
        /\ registry' = Forget(registry, i)

Next ==
    \/ \E r \in Req, i \in Release, b \in BOOLEAN : Install(r, i, b)
    \/ \E r \in Req, b \in BOOLEAN : InstallSaved(r, b) \/ SetPin(r, b)
    \/ \E t \in Target : SetDefault(t) \/ ClearDefault(t) \/ Uninstall(t)

Spec == Init /\ [][Next]_vars

-----------------------------------------------------------------------------
\* The registry is a value of the persisted schema, with at most one binding
\* for a request and one selection for a command name.
TypeOK ==
    registry \in AppStatus /\ SelectionsUnique(registry) /\ CommandsUnique(registry)

\* read() accepts every registry that save() publishes: no binding dangles or
\* names another line's release, and every command resolves to one release.
RegistryReadable == Readable(registry)

\* "Removing the command's selected release removes its entry; it never
\* silently switches": after an uninstall each command still resolves to the
\* release it had, or is gone.
UninstallNeverSwitches ==
    [][ \A t \in Target : Uninstall(t) =>
            \A c \in registry'.commands :
                /\ c \in registry.commands
                /\ CommandInstallation(registry', c) = CommandInstallation(registry, c)
      ]_vars

\* "Installing another version keeps its current selection": an install moves
\* no command but one that follows the very request being installed.
InstallKeepsCommands ==
    [][ \A r \in Req, i \in Release, b \in BOOLEAN : Install(r, i, b) =>
            \A c \in registry.commands :
                /\ c \in registry'.commands
                /\ \/ c.installation = NoId /\ c.request = r
                   \/ CommandInstallation(registry', c) = CommandInstallation(registry, c)
      ]_vars
=============================================================================
