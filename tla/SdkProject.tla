----------------------------- MODULE SdkProject -----------------------------
(***************************************************************************)
(* `use --project` (use_project of janex-host/src/sdk/selection.rs): the     *)
(* targets are resolved and .janex-toolchains.toml is read, merged and       *)
(* replaced under a shared lock of the SDK registry, so that installations   *)
(* cannot go away meanwhile, but another `use --project` can run.  Without a *)
(* lock file the command goes on with no lock at all.                        *)
(***************************************************************************)
EXTENDS Naturals, FiniteSets

CONSTANTS Proc,      \* processes that run `use --project` in one directory
          Family,    \* SDK families
          Id,        \* installation identities
          FamilyOf,  \* the family of an installation
          NoTarget   \* no line for a family

\* A target is an installation identity, or a request, which here is the name
\* of a family and resolves to any installation of it.
ProjectAssumption ==
    /\ FamilyOf \in [Id -> Family]
    /\ Id \cap Family = {}
    /\ NoTarget \notin Id \cup Family

Target == Id \cup Family

VARIABLES
    installed,  \* the registry
    lockFile,   \* state/sdk.lock exists
    project,    \* the project file, a target or NoTarget for each family
    readers,    \* processes that hold the registry lock shared
    found,      \* commands that found the lock file (history)
    pc,
    updates,    \* the resolved targets of the command, by family
    seen        \* the project file as the command has read it

vars == <<installed, lockFile, project, readers, found, pc, updates, seen>>

Selections == [Family -> Target \cup {NoTarget}]

Nothing == [f \in Family |-> NoTarget]

Init ==
    /\ installed = {}
    /\ lockFile \in BOOLEAN
    /\ project = Nothing
    /\ readers = {}
    /\ found = {}
    /\ pc = [p \in Proc |-> "idle"]
    /\ updates = [p \in Proc |-> Nothing]
    /\ seen = [p \in Proc |-> Nothing]

\* Installations that a target of family f can resolve to.
Resolutions(f, t) == {i \in installed : FamilyOf[i] = f /\ t \in {i, f}}

\* extend(): the updated families replace the lines read before.
Extend(old, new) == [f \in Family |-> IF new[f] # NoTarget THEN new[f] ELSE old[f]]

Return(p) ==
    /\ pc' = [pc EXCEPT ![p] = "idle"]
    /\ readers' = readers \ {p}
    /\ found' = found \ {p}
    /\ updates' = [updates EXCEPT ![p] = Nothing]
    /\ seen' = [seen EXCEPT ![p] = Nothing]

-----------------------------------------------------------------------------
\* lock(false): the exclusive holder, if any, is waited for.
LockProject(p) ==
    /\ pc[p] = "idle"
    /\ readers' = IF lockFile THEN readers \cup {p} ELSE readers
    /\ found' = IF lockFile THEN found \cup {p} ELSE found
    /\ pc' = [pc EXCEPT ![p] = "resolve"]
    /\ UNCHANGED <<installed, lockFile, project, updates, seen>>

\* All targets are resolved in the registry read, one per family; a pin keeps
\* the identity it resolves to.  A target without an installation ends the
\* command (Fails).
UseProject(p) ==
    /\ pc[p] = "resolve"
    /\ \E new \in Selections :
            /\ new # Nothing
            /\ \A f \in Family : new[f] # NoTarget => Resolutions(f, new[f]) # {}
            /\ updates' = [updates EXCEPT ![p] = new]
    /\ pc' = [pc EXCEPT ![p] = "read"]
    /\ UNCHANGED <<installed, lockFile, project, readers, found, seen>>

\* Faulty variant: the registry lock goes before the file is written.
ReadUnlocked(p) ==
    /\ pc[p] = "read"
    /\ seen' = [seen EXCEPT ![p] = project]
    /\ pc' = [pc EXCEPT ![p] = "write"]
    /\ readers' = readers \ {p}
    /\ UNCHANGED <<installed, lockFile, project, found, updates>>

ReadProject(p) ==
    /\ pc[p] = "read"
    /\ seen' = [seen EXCEPT ![p] = project]
    /\ pc' = [pc EXCEPT ![p] = "write"]
    /\ UNCHANGED <<installed, lockFile, project, readers, found, updates>>

\* publish(): the file is replaced by a rename.
WriteProject(p) ==
    /\ pc[p] = "write"
    /\ project' = Extend(seen[p], updates[p])
    /\ Return(p)
    /\ UNCHANGED <<installed, lockFile>>

\* No installation for a target, the file cannot be read or replaced, or the
\* process stops.
Fails(p) ==
    /\ pc[p] # "idle"
    /\ Return(p)
    /\ UNCHANGED <<installed, lockFile, project>>

\* Other commands change the registry under the exclusive lock, whose file
\* they create.
Install(i) ==
    /\ readers = {}
    /\ lockFile' = TRUE
    /\ installed' = installed \cup {i}
    /\ UNCHANGED <<project, readers, found, pc, updates, seen>>

Uninstall(i) ==
    /\ readers = {}
    /\ lockFile' = TRUE
    /\ installed' = installed \ {i}
    /\ UNCHANGED <<project, readers, found, pc, updates, seen>>

Next ==
    \/ \E p \in Proc :
            LockProject(p) \/ UseProject(p) \/ ReadProject(p) \/ WriteProject(p) \/ Fails(p)
    \/ \E i \in Id : Install(i) \/ Uninstall(i)

Spec == Init /\ [][Next]_vars

-----------------------------------------------------------------------------
Writes(p) == pc[p] = "write" /\ pc'[p] = "idle" /\ project' # project

\* "Atomically writes project selections ..., preserving other families": a
\* command changes the lines of its own families only.  It does not hold: the
\* shared lock lets two commands overlap, and the one that writes last has not
\* read the line of the other.
OthersPreserved ==
    [][ \A p \in Proc : Writes(p) =>
            \A f \in Family : updates[p][f] = NoTarget => project'[f] = project[f] ]_vars

\* "... after resolving every target": in a home whose lock file existed when
\* the command began, what is written resolves when it is written, although
\* other processes install and uninstall.  (Without that file there is no lock,
\* and an SDK that was resolved may be gone by then.)
ResolvedWhenWritten ==
    [][ \A p \in Proc : Writes(p) /\ p \in found =>
            \A f \in Family : updates[p][f] # NoTarget => Resolutions(f, project'[f]) # {} ]_vars
=============================================================================
