------------------------------ MODULE AppStore ------------------------------
(***************************************************************************)
(* Janex processes sharing one application home (janex-host/src/app/mod.rs *)
(* and app/run.rs).  A command that changes the registry takes the         *)
(* registry lock exclusively, reads the registry, publishes or removes the *)
(* application directory, the lease file and the native entry, and         *)
(* replaces the registry file; executions take the lock shared and keep a  *)
(* shared lease on the release they run.  Any command may stop between two *)
(* steps, by a crash or by an I/O error; locks are then released and       *)
(* nothing is rolled back, except by install when save() fails.            *)
(***************************************************************************)
EXTENDS AppModel

CONSTANTS Proc,      \* processes
          NoProc,    \* nobody
          NoReq,     \* no request
          FreshHome  \* TRUE: state/apps.lock does not exist at the start

ASSUME AppStoreAssumption ==
    /\ NoProc \notin Proc
    /\ NoReq \notin Req
    /\ FreshHome \in BOOLEAN

VARIABLES
    registry,   \* state/apps.cbor
    lockFile,   \* state/apps.lock exists
    lockEx,     \* its exclusive holder
    lockSh,     \* its shared holders
    dir,        \* apps/<id>
    leaseFile,  \* releases with a file state/app-leases/<id>.lock
    entry,      \* command names with a file bin/<name>
    leased,     \* leased[p]: release p holds a shared lease on
    removing,   \* removing[p]: release whose lease p holds exclusively
    pc,         \* phase of the command p runs
    req,        \* its request
    inst,       \* the release it has chosen
    pin,        \* --pin
    refresh,    \* the install is an online update
    snap        \* the registry it is about to save

vars == <<registry, lockFile, lockEx, lockSh, dir, leaseFile, entry, leased,
          removing, pc, req, inst, pin, refresh, snap>>

files  == <<lockFile, dir, leaseFile, entry>>
leases == <<leased, removing>>
lock   == <<lockEx, lockSh>>
job    == <<req, inst, pin, refresh>>

\* A directory may lack dependencies (stripped) or the artifact (headless).
Dir == {"absent", "whole", "stripped", "headless"}

HasArtifact(i) == dir[i] \in {"whole", "stripped"}

Phase == {"idle", "installLock", "installLookup", "reselect", "fetch",
          "commit", "link", "save", "saveInstall", "remove",
          "execSelect", "execLease", "running"}

Init ==
    /\ registry = EmptyStatus
    /\ lockFile = ~ FreshHome
    /\ lockEx = NoProc
    /\ lockSh = {}
    /\ dir = [i \in Release |-> "absent"]
    /\ leaseFile = {}
    /\ entry = {}
    /\ leased = [p \in Proc |-> NoId]
    /\ removing = [p \in Proc |-> NoId]
    /\ pc = [p \in Proc |-> "idle"]
    /\ req = [p \in Proc |-> NoReq]
    /\ inst = [p \in Proc |-> NoId]
    /\ pin = [p \in Proc |-> FALSE]
    /\ refresh = [p \in Proc |-> FALSE]
    /\ snap = [p \in Proc |-> EmptyStatus]

-----------------------------------------------------------------------------
(* Locks                                                                   *)

Goto(p, phase) == pc' = [pc EXCEPT ![p] = phase]

\* Faulty variant: the exclusive lock does not wait for its holder.
LockExclusiveNoWait(p) == lockFile' = TRUE

\* lock(true): create the file, then wait for every other holder.
LockExclusive(p) ==
    /\ lockEx = NoProc
    /\ lockSh = {}
    /\ lockFile' = TRUE

\* lock(false): without a lock file the caller goes on with no lock at all.
LockShared(p) ==
    /\ lockFile => lockEx = NoProc
    /\ lockSh' = IF lockFile THEN lockSh \cup {p} ELSE lockSh
    /\ UNCHANGED <<lockFile, lockEx>>

\* The command ends: files are closed, locks and leases are released.
Return(p) ==
    /\ Goto(p, "idle")
    /\ lockEx' = IF lockEx = p THEN NoProc ELSE lockEx
    /\ lockSh' = lockSh \ {p}
    /\ leased' = [leased EXCEPT ![p] = NoId]
    /\ removing' = [removing EXCEPT ![p] = NoId]
    /\ req' = [req EXCEPT ![p] = NoReq]
    /\ inst' = [inst EXCEPT ![p] = NoId]
    /\ pin' = [pin EXCEPT ![p] = FALSE]
    /\ refresh' = [refresh EXCEPT ![p] = FALSE]
    /\ snap' = [snap EXCEPT ![p] = EmptyStatus]

\* p holds the exclusive lock and has computed the registry to be saved.
Stage(p, next, phase) ==
    /\ lockEx' = p
    /\ snap' = [snap EXCEPT ![p] = next]
    /\ Goto(p, phase)
    /\ UNCHANGED <<registry, lockSh>>

\* Faulty variant: a registered command may be taken by any product.
CheckFileOnly(r) == HasCommand(registry, Name(r)) \/ Name(r) \notin entry

\* check_command: neither another product's command nor an unmanaged file.
CheckCommand(r) ==
    IF HasCommand(registry, Name(r)) THEN OwnsCommand(registry, r)
    ELSE Name(r) \notin entry

-----------------------------------------------------------------------------
(* install and update                                                      *)

InstallStart(p, r, b) ==
    /\ pc[p] = "idle"
    /\ Goto(p, "installLock")
    /\ req' = [req EXCEPT ![p] = r]
    /\ pin' = [pin EXCEPT ![p] = b]
    /\ UNCHANGED <<registry, files, lock, leases, inst, refresh, snap>>

\* update goes on as an unpinned install, refreshing unless --offline.
Update(p, r, online) ==
    /\ pc[p] = "idle"
    /\ lockFile => lockEx = NoProc
    /\ Saved(registry, r)
    /\ ~ SelectionOf(registry, r).pinned
    /\ Goto(p, "installLock")
    /\ req' = [req EXCEPT ![p] = r]
    /\ refresh' = [refresh EXCEPT ![p] = online]
    /\ UNCHANGED <<registry, files, lock, leases, inst, pin, snap>>

InstallLock(p) ==
    /\ pc[p] = "installLock"
    /\ LockShared(p)
    /\ Goto(p, "installLookup")
    /\ UNCHANGED <<registry, dir, leaseFile, entry, leases, job, snap>>

InstallLookup(p) ==
    /\ pc[p] = "installLookup"
    /\ CheckCommand(req[p])
    /\ IF Saved(registry, req[p]) /\ ~ refresh[p]
       THEN /\ HasArtifact(SelectionOf(registry, req[p]).installation)
            /\ Goto(p, "reselect")
       ELSE Goto(p, "fetch")
    /\ lockSh' = lockSh \ {p}
    /\ UNCHANGED <<registry, files, lockEx, leases, job, snap>>

\* The registry is read again under the exclusive lock: the binding may have
\* moved, or be gone.  The entry is published before the registry.
InstallSaved(p) ==
    /\ pc[p] = "reselect"
    /\ LockExclusive(p)
    /\ FindRequest(registry, req[p]) # NoId
    /\ CheckCommand(req[p])
    /\ entry' = entry \cup {Name(req[p])}
    /\ LET next == Reselect(registry, req[p], pin[p])
       IN  IF next = registry
           THEN Return(p) /\ UNCHANGED registry
           ELSE Stage(p, next, "save") /\ UNCHANGED <<leases, job>>
    /\ UNCHANGED <<dir, leaseFile>>

\* The repository serves release i, which is staged with its dependencies.
Fetch(p, i) ==
    /\ pc[p] = "fetch"
    /\ i \in Served(req[p])
    /\ inst' = [inst EXCEPT ![p] = i]
    /\ Goto(p, "commit")
    /\ UNCHANGED <<registry, files, lock, leases, req, pin, refresh, snap>>

\* Faulty variant: update relies on the pin it read before downloading.
PinIgnored(p) == FALSE

\* An update finds that its request was pinned while it was downloading.
PinnedMeanwhile(p) ==
    /\ refresh[p]
    /\ Saved(registry, req[p])
    /\ SelectionOf(registry, req[p]).pinned

\* An artifact with the right digest is kept with whatever lies beside it;
\* otherwise the staged directory is renamed to its place.
Commit(p) ==
    /\ pc[p] = "commit"
    /\ LockExclusive(p)
    /\ CheckCommand(req[p])
    /\ ~ PinnedMeanwhile(p)
    /\ dir[inst[p]] # "headless"
    /\ dir' = [dir EXCEPT ![inst[p]] = IF HasArtifact(inst[p]) THEN @ ELSE "whole"]
    /\ lockEx' = p
    /\ Goto(p, "link")
    /\ UNCHANGED <<registry, lockSh, leaseFile, entry, leases, job, snap>>

\* Faulty variant: the lease file is left to the first execution.
LinkWithoutLease(p) ==
    /\ pc[p] = "link"
    /\ entry' = entry \cup {Name(req[p])}
    /\ Stage(p, BindRelease(registry, req[p], inst[p], pin[p]), "saveInstall")
    /\ UNCHANGED <<lockFile, dir, leaseFile, leases, job>>

\* The lease file and the native entry are created.
Link(p) ==
    /\ pc[p] = "link"
    /\ leaseFile' = leaseFile \cup {inst[p]}
    /\ entry' = entry \cup {Name(req[p])}
    /\ Stage(p, BindRelease(registry, req[p], inst[p], pin[p]), "saveInstall")
    /\ UNCHANGED <<lockFile, dir, leases, job>>

\* save() failed: a command that was new loses its entry again.
SaveFails(p) ==
    /\ pc[p] = "saveInstall"
    /\ entry' = IF HasCommand(registry, Name(req[p])) THEN entry
                ELSE entry \ {Name(req[p])}
    /\ Return(p)
    /\ UNCHANGED <<registry, lockFile, dir, leaseFile>>

\* The early returns of install: a command it may not own, a missing
\* artifact, a binding that is gone, a failed download, a pinned request, a
\* directory in the way of the rename.
InstallReject(p) ==
    /\ \/ /\ pc[p] = "installLookup"
          /\ \/ ~ CheckCommand(req[p])
             \/ /\ Saved(registry, req[p])
                /\ ~ refresh[p]
                /\ ~ HasArtifact(SelectionOf(registry, req[p]).installation)
          /\ UNCHANGED lockFile
       \/ /\ pc[p] = "reselect"
          /\ LockExclusive(p)
          /\ FindRequest(registry, req[p]) = NoId \/ ~ CheckCommand(req[p])
       \/ pc[p] = "fetch" /\ UNCHANGED lockFile
       \/ /\ pc[p] = "commit"
          /\ LockExclusive(p)
          /\ \/ ~ CheckCommand(req[p])
             \/ PinnedMeanwhile(p)
             \/ dir[inst[p]] = "headless"
    /\ Return(p)
    /\ UNCHANGED <<registry, dir, leaseFile, entry>>

-----------------------------------------------------------------------------
(* Commands that are one transaction                                       *)

SetPin(p, r, b) ==
    /\ pc[p] = "idle"
    /\ LockExclusive(p)
    /\ Saved(registry, r)
    /\ Stage(p, SetPinned(registry, r, b), "save")
    /\ UNCHANGED <<dir, leaseFile, entry, leases, job>>

SetDefault(p, t) ==
    LET r == IF t \in Req THEN t ELSE App[t]
    IN  /\ pc[p] = "idle"
        /\ LockExclusive(p)
        /\ Resolve(registry, t) # NoId
        /\ CheckCommand(r)
        /\ entry' = entry \cup {Name(r)}
        /\ Stage(p, SelectCommand(registry, t), "save")
        /\ UNCHANGED <<dir, leaseFile, leases, job>>

\* The entry of a registered command is removed before the registry is saved.
ClearDefault(p, t) ==
    LET i == Resolve(registry, t)
    IN  /\ pc[p] = "idle"
        /\ LockExclusive(p)
        /\ i # NoId
        /\ OwnsCommand(registry, App[i])
        /\ entry' = IF HasCommand(registry, Name(App[i]))
                    THEN entry \ {Name(App[i])} ELSE entry
        /\ Stage(p, DropCommand(registry, Name(App[i])), "save")
        /\ UNCHANGED <<dir, leaseFile, leases, job>>

\* Faulty variant: the lease is opened but not tried.
LeaseIgnored(i) == TRUE

\* try_lock: a shared lease of any process makes the command fail.
LeaseFree(i) == \A q \in Proc : leased[q] # i /\ removing[q] # i

Uninstall(p, t) ==
    LET i == UninstallTarget(registry, t)
        names == {Name(c.request) :
                    c \in {d \in registry.commands : CommandInstallation(registry, d) = i}}
    IN  /\ pc[p] = "idle"
        /\ LockExclusive(p)
        /\ i # NoId
        /\ i \in leaseFile
        /\ LeaseFree(i)
        /\ removing' = [removing EXCEPT ![p] = i]
        /\ entry' = entry \ names
        /\ Stage(p, Forget(registry, i), "save")
        /\ UNCHANGED <<dir, leaseFile, leased, job>>

\* publish() replaces the registry file by a rename; uninstall still holds
\* the lock while it removes the directory.
Save(p) ==
    /\ pc[p] \in {"save", "saveInstall"}
    /\ registry' = snap[p]
    /\ IF removing[p] # NoId
       THEN /\ Goto(p, "remove")
            /\ UNCHANGED <<lock, leases, job, snap>>
       ELSE Return(p)
    /\ UNCHANGED files

\* remove_dir_all takes one file after another, in any order.
RemoveFile(p) ==
    /\ pc[p] = "remove"
    /\ \E d \in IF dir[removing[p]] = "whole" THEN {"stripped", "headless"}
                ELSE {"headless"} :
            dir' = [dir EXCEPT ![removing[p]] = d]
    /\ dir' # dir
    /\ UNCHANGED <<registry, lockFile, lock, leaseFile, entry, leases, pc, job, snap>>

RemoveDir(p) ==
    /\ pc[p] = "remove"
    /\ dir' = [dir EXCEPT ![removing[p]] = "absent"]
    /\ Return(p)
    /\ UNCHANGED <<registry, lockFile, leaseFile, entry>>

-----------------------------------------------------------------------------
(* execute                                                                 *)

ExecLock(p) ==
    /\ pc[p] = "idle"
    /\ LockShared(p)
    /\ Goto(p, "execSelect")
    /\ UNCHANGED <<registry, dir, leaseFile, entry, leases, job, snap>>

\* A command name, an id or a request resolves to an installed release.
ExecSelect(p, i) ==
    /\ pc[p] = "execSelect"
    /\ i \in registry.installations
    /\ inst' = [inst EXCEPT ![p] = i]
    /\ Goto(p, "execLease")
    /\ UNCHANGED <<registry, files, lock, leases, req, pin, refresh, snap>>

\* Faulty variant: the lock lives as long as the child.
ExecStartLocked(p) ==
    /\ pc[p] = "execLease"
    /\ inst[p] \in leaseFile
    /\ \A q \in Proc : removing[q] # inst[p]
    /\ leased' = [leased EXCEPT ![p] = inst[p]]
    /\ inst' = [inst EXCEPT ![p] = NoId]
    /\ Goto(p, "running")
    /\ UNCHANGED <<registry, files, lock, removing, req, pin, refresh, snap>>

\* lock_shared on the lease, then the registry lock is dropped.
ExecStart(p) ==
    /\ pc[p] = "execLease"
    /\ inst[p] \in leaseFile
    /\ \A q \in Proc : removing[q] # inst[p]
    /\ leased' = [leased EXCEPT ![p] = inst[p]]
    /\ lockSh' = lockSh \ {p}
    /\ inst' = [inst EXCEPT ![p] = NoId]
    /\ Goto(p, "running")
    /\ UNCHANGED <<registry, files, lockEx, removing, req, pin, refresh, snap>>

ExecEnd(p) ==
    /\ pc[p] = "running"
    /\ Return(p)
    /\ UNCHANGED <<registry, files>>

\* Nothing installed for the target (a package then runs from the download
\* cache, without lock or lease), or no lease file.
ExecReject(p) ==
    /\ \/ pc[p] = "execSelect"
       \/ pc[p] = "execLease" /\ inst[p] \notin leaseFile
    /\ Return(p)
    /\ UNCHANGED <<registry, files>>

-----------------------------------------------------------------------------
\* A crash, or an I/O error at any step.
Crash(p) ==
    /\ pc[p] # "idle"
    /\ Return(p)
    /\ UNCHANGED <<registry, files>>

\* The steps a command takes by itself once it has started.
Step(p) ==
    \/ InstallLock(p) \/ InstallLookup(p) \/ InstallSaved(p)
    \/ \E i \in Release : Fetch(p, i)
    \/ Commit(p) \/ Link(p) \/ InstallReject(p)
    \/ Save(p) \/ RemoveDir(p)
    \/ \E i \in Release : ExecSelect(p, i)
    \/ ExecStart(p) \/ ExecReject(p)

Start(p) ==
    \/ \E r \in Req, b \in BOOLEAN :
            InstallStart(p, r, b) \/ Update(p, r, b) \/ SetPin(p, r, b)
    \/ \E t \in Target : SetDefault(p, t) \/ ClearDefault(p, t) \/ Uninstall(p, t)
    \/ ExecLock(p)

Next ==
    \E p \in Proc :
        \/ Start(p) \/ Step(p) \/ ExecEnd(p)
        \/ SaveFails(p) \/ RemoveFile(p) \/ Crash(p)

Spec == Init /\ [][Next]_vars

\* A command that can go on does: its steps are system calls that return, and
\* downloads have a deadline.  Nothing is assumed of users, child processes,
\* crashes, or the order in which waiting lockers are served.
FairSpec == Spec /\ \A p \in Proc : WF_vars(Step(p))

-----------------------------------------------------------------------------
\* Every variable has its type: the registry on disk is a value of the persisted
\* schema, and so is every copy a command has read of it.
TypeOK ==
    /\ registry \in AppStatus
    /\ lockFile \in BOOLEAN
    /\ lockEx \in Proc \cup {NoProc}
    /\ lockSh \subseteq Proc
    /\ dir \in [Release -> Dir]
    /\ leaseFile \subseteq Release
    /\ entry \subseteq Command
    /\ leased \in [Proc -> Release \cup {NoId}]
    /\ removing \in [Proc -> Release \cup {NoId}]
    /\ pc \in [Proc -> Phase]
    /\ req \in [Proc -> Req \cup {NoReq}]
    /\ inst \in [Proc -> Release \cup {NoId}]
    /\ pin \in [Proc -> BOOLEAN]
    /\ refresh \in [Proc -> BOOLEAN]
    /\ snap \in [Proc -> AppStatus]

\* Whatever commands interleave and wherever they crash, every registered
\* release has its artifact and the lease file that execute() opens.
RegistryNamesArtifacts ==
    \A i \in registry.installations : i \in leaseFile /\ HasArtifact(i)

\* The registry is replaced only "after complete artifacts and command
\* entries are published": no registered release lacks a dependency.
RegistryNamesWholeTrees == \A i \in registry.installations : dir[i] = "whole"

\* "Running applications cannot be removed": nothing happens to the directory
\* of a release while a child runs from it.
RunningKept ==
    [][ \A p \in Proc, i \in Release :
            pc[p] = "running" /\ leased[p] = i => dir'[i] = dir[i] ]_vars

\* An update never moves a pinned request, not even one that was pinned while
\* it was downloading; an install that lost a race may, and keeps the pin.
PinHeld ==
    [][ \A s \in registry.selections, t \in registry'.selections :
            s.pinned /\ t.request = s.request /\ t.installation # s.installation
                => /\ t.pinned
                   /\ \E p \in Proc : pc[p] = "saveInstall" /\ ~ refresh[p]
                                        /\ snap[p] = registry' ]_vars

\* A command name goes to another product only after it was cleared: no
\* install or default takes it over, whatever it read before its lock.
CommandOwnerKept ==
    [][ \A c \in registry.commands, d \in registry'.commands :
            Name(c.request) = Name(d.request)
                => SameProduct(c.request, d.request) ]_vars

\* Every registry lock that is taken is released, although commands wait for
\* leases, children run for ever and no crash helps.
LockReleased ==
    \A p \in Proc : (lockEx = p \/ p \in lockSh) ~> ~ (lockEx = p \/ p \in lockSh)

Abstract == INSTANCE AppRegistry WITH registry <- registry

\* No update is lost or torn: each replacement of the file is one command of
\* AppRegistry applied to the contents it replaces.
RefinesRegistry == Abstract!Spec
=============================================================================
