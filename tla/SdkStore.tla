------------------------------ MODULE SdkStore ------------------------------
(***************************************************************************)
(* Janex processes sharing one SDK home (janex-host/src/sdk/state.rs and   *)
(* selection.rs).  Every process runs one command at a time.  A command    *)
(* that changes the registry takes the registry lock exclusively, reads    *)
(* the registry, computes the next one in memory (snap), publishes trees   *)
(* and lease files, and replaces the registry file; executions take the    *)
(* lock shared and keep a shared lease on each SDK they use.  Any command  *)
(* may stop between two steps, by a crash or by an I/O error; the          *)
(* operating system then releases its locks and nothing is rolled back.    *)
(***************************************************************************)
EXTENDS SdkModel

CONSTANTS Proc,      \* processes
          NoProc,    \* nobody
          NoReq,     \* no request
          FreshHome  \* TRUE: state/sdk.lock does not exist at the start

ASSUME StoreAssumption ==
    /\ NoProc \notin Proc
    /\ NoReq \notin Req
    /\ FreshHome \in BOOLEAN

VARIABLES
    lockFile,   \* state/sdk.lock exists
    lockEx,     \* its exclusive holder
    lockSh,     \* its shared holders
    tree,       \* sdks/<family>/<id>, or the external home
    leaseFile,  \* state/sdk-leases/<id>.lock exists
    leased,     \* leased[p]: installations p holds a shared lease on
    removing,   \* removing[p]: installation whose lease p holds exclusively
    pc,         \* phase of the command p runs
    req,        \* its request
    inst,       \* the installation it has chosen
    pin,        \* --pin
    snap        \* its in-memory registry

vars == <<registry, lockFile, lockEx, lockSh, tree, leaseFile, leased,
          removing, pc, req, inst, pin, snap>>

files    == <<lockFile, tree, leaseFile>>
leases   == <<leased, removing>>
lock     == <<lockEx, lockSh>>
job      == <<req, inst, pin>>

Tree == {"absent", "partial", "whole"}

Phase == {"idle", "installLock", "installLookup", "repin", "offline",
          "catalog", "reuse", "commit", "publish", "save", "remove", "finish",
          "execRead", "execSelect", "execLease", "probe", "running"}

Init ==
    /\ registry = EmptyRegistry
    /\ lockFile = ~ FreshHome
    /\ lockEx = NoProc
    /\ lockSh = {}
    /\ tree = [i \in Id |-> IF i \in Managed THEN "absent" ELSE "whole"]
    /\ leaseFile = [i \in Id |-> FALSE]
    /\ leased = [p \in Proc |-> {}]
    /\ removing = [p \in Proc |-> NoId]
    /\ pc = [p \in Proc |-> "idle"]
    /\ req = [p \in Proc |-> NoReq]
    /\ inst = [p \in Proc |-> NoId]
    /\ pin = [p \in Proc |-> FALSE]
    /\ snap = [p \in Proc |-> EmptyRegistry]

-----------------------------------------------------------------------------
(* Locks                                                                   *)

Goto(p, phase) == pc' = [pc EXCEPT ![p] = phase]

\* Faulty variant: the exclusive lock does not wait for its holder.
LockExclusiveNoWait(p) == lockFile' = TRUE

\* lock(true): create the file, then wait for every other holder.
LockExclusive(p) ==
    /\ lockEx = NoProc
    /\ lockSh = {}
    /\ lockFile' = TRUE

\* lock(false): without a lock file the caller goes on with no lock at all.
LockShared(p) ==
    /\ lockFile => lockEx = NoProc
    /\ lockSh' = IF lockFile THEN lockSh \cup {p} ELSE lockSh
    /\ UNCHANGED <<lockFile, lockEx>>

\* The command ends: files are closed, locks and leases are released.
Return(p) ==
    /\ Goto(p, "idle")
    /\ lockEx' = IF lockEx = p THEN NoProc ELSE lockEx
    /\ lockSh' = lockSh \ {p}
    /\ leased' = [leased EXCEPT ![p] = {}]
    /\ removing' = [removing EXCEPT ![p] = NoId]
    /\ req' = [req EXCEPT ![p] = NoReq]
    /\ inst' = [inst EXCEPT ![p] = NoId]
    /\ pin' = [pin EXCEPT ![p] = FALSE]
    /\ snap' = [snap EXCEPT ![p] = EmptyRegistry]

\* p holds the exclusive lock and has computed the registry to be saved.
Stage(p, next) ==
    /\ lockEx' = p
    /\ snap' = [snap EXCEPT ![p] = next]
    /\ Goto(p, "save")
    /\ UNCHANGED <<registry, lockSh>>

\* The entry point of a home exists; in a partly removed tree it may or may not.
HomeUsable(i, seen) == seen = (tree[i] = "whole") \/ tree[i] = "partial"

-----------------------------------------------------------------------------
(* install                                                                 *)

InstallStart(p, r, b) ==
    /\ pc[p] = "idle"
    /\ Goto(p, "installLock")
    /\ req' = [req EXCEPT ![p] = r]
    /\ pin' = [pin EXCEPT ![p] = b]
    /\ UNCHANGED <<registry, files, lock, leases, inst, snap>>

InstallLock(p) ==
    /\ pc[p] = "installLock"
    /\ LockShared(p)
    /\ Goto(p, "installLookup")
    /\ UNCHANGED <<registry, tree, leaseFile, leases, job, snap>>

\* A saved selection is returned as it is, or pinned under a second lock.
\* Without one the command goes to the installed builds (--offline) or to
\* the catalog; the flag matters nowhere else, so it is chosen here.
InstallLookup(p) ==
    /\ pc[p] = "installLookup"
    /\ lockSh' = lockSh \ {p}
    /\ IF Selected(registry, req[p])
       THEN LET s == SelectionOf(registry, req[p])
            IN  /\ HomeUsable(s.installation, TRUE)
                /\ pin[p] /\ ~ s.pinned
                /\ inst' = [inst EXCEPT ![p] = s.installation]
                /\ Goto(p, "repin")
       ELSE /\ \E phase \in {"offline", "catalog"} : Goto(p, phase)
            /\ UNCHANGED inst
    /\ UNCHANGED <<registry, files, lockEx, leases, req, pin, snap>>

\* Already bound: nothing to pin, or the home is missing.
InstallBound(p) ==
    /\ pc[p] = "installLookup"
    /\ Selected(registry, req[p])
    /\ LET s == SelectionOf(registry, req[p])
       IN  HomeUsable(s.installation, FALSE) \/ s.pinned \/ ~ pin[p]
    /\ Return(p)
    /\ UNCHANGED <<registry, files>>

Repin(p) ==
    /\ pc[p] = "repin"
    /\ LockExclusive(p)
    /\ \E s \in registry.selections :
            s.request = req[p] /\ s.installation = inst[p]
    /\ Stage(p, SetPinned(registry, req[p], TRUE))
    /\ UNCHANGED <<tree, leaseFile, leases, job>>

\* "SDK selection changed concurrently; retry installation"
RepinChanged(p) ==
    /\ pc[p] = "repin"
    /\ LockExclusive(p)
    /\ ~ \E s \in registry.selections :
            s.request = req[p] /\ s.installation = inst[p]
    /\ Return(p)
    /\ UNCHANGED <<registry, tree, leaseFile>>

InstallOffline(p) ==
    /\ pc[p] = "offline"
    /\ LockExclusive(p)
    /\ LET i == ResolveRequest(registry, req[p])
       IN  /\ i # NoId
           /\ HomeUsable(i, TRUE)
           /\ Stage(p, Bind(registry, req[p], i, pin[p]))
    /\ UNCHANGED <<tree, leaseFile, leases, job>>

\* The catalog advertises a matching archive, with or without its SHA-256.
Catalog(p, i) ==
    /\ pc[p] = "catalog"
    /\ i \in Managed \cap Accepts[req[p]]
    /\ inst' = [inst EXCEPT ![p] = i]
    /\ \E phase \in {"reuse", "commit"} : Goto(p, phase)
    /\ UNCHANGED <<registry, files, lock, leases, req, pin, snap>>

\* The digest is known in advance: bind a registered build, or download it.
Reuse(p) ==
    /\ pc[p] = "reuse"
    /\ LockExclusive(p)
    /\ IF inst[p] \in registry.installations
       THEN /\ HomeUsable(inst[p], TRUE)
            /\ Stage(p, Bind(registry, req[p], inst[p], pin[p]))
       ELSE /\ Goto(p, "commit")
            /\ UNCHANGED <<registry, lock, snap>>
    /\ UNCHANGED <<tree, leaseFile, leases, job>>

\* Faulty variant: the lease file is left to the first execution.
CommitWithoutLease(p) ==
    /\ pc[p] = "commit"
    /\ LockExclusive(p)
    /\ inst[p] \notin registry.installations
    /\ tree[inst[p]] = "absent"
    /\ lockEx' = p
    /\ Goto(p, "publish")
    /\ UNCHANGED <<registry, lockSh, snap, tree, leaseFile, leases, job>>

\* commit_archive, with the verified tree extracted to a staging directory.
Commit(p) ==
    /\ pc[p] = "commit"
    /\ LockExclusive(p)
    /\ IF inst[p] \in registry.installations
       THEN /\ HomeUsable(inst[p], TRUE)
            /\ Stage(p, Bind(registry, req[p], inst[p], pin[p]))
            /\ UNCHANGED leaseFile
       ELSE /\ tree[inst[p]] = "absent"
            /\ leaseFile' = [leaseFile EXCEPT ![inst[p]] = TRUE]
            /\ lockEx' = p
            /\ Goto(p, "publish")
            /\ UNCHANGED <<registry, lockSh, snap>>
    /\ UNCHANGED <<tree, leases, job>>

\* The staged tree is renamed to its destination.
Publish(p) ==
    /\ pc[p] = "publish"
    /\ tree' = [tree EXCEPT ![inst[p]] = "whole"]
    /\ Stage(p, Bind(AddInstallation(registry, inst[p]), req[p], inst[p], pin[p]))
    /\ UNCHANGED <<lockFile, leaseFile, leases, job>>

\* The error returns of install: no archive or a failed download, no build
\* installed, a missing home, an unregistered tree in the way.
InstallReject(p) ==
    /\ \/ pc[p] = "catalog" /\ UNCHANGED lockFile
       \/ /\ pc[p] = "offline"
          /\ LockExclusive(p)
          /\ LET i == ResolveRequest(registry, req[p])
             IN  i # NoId => HomeUsable(i, FALSE)
       \/ /\ pc[p] \in {"reuse", "commit"}
          /\ LockExclusive(p)
          /\ inst[p] \in registry.installations
          /\ HomeUsable(inst[p], FALSE)
       \/ /\ pc[p] = "commit"
          /\ LockExclusive(p)
          /\ inst[p] \notin registry.installations
          /\ tree[inst[p]] # "absent"
    /\ Return(p)
    /\ UNCHANGED <<registry, tree, leaseFile>>

\* update reads the registry without the lock and goes on as an unpinned
\* install that ignores the saved selection.  It is the only command that
\* installs with options.refresh: `install` of the CLI has no such option.
Update(p, r) ==
    /\ pc[p] = "idle"
    /\ Selected(registry, r)
    /\ ~ SelectionOf(registry, r).pinned
    /\ req' = [req EXCEPT ![p] = r]
    /\ Goto(p, "catalog")
    /\ UNCHANGED <<registry, files, lock, leases, inst, pin, snap>>

-----------------------------------------------------------------------------
(* Commands that are one transaction                                       *)

Register(p, r, i) ==
    /\ pc[p] = "idle"
    /\ i \in Accepts[r] \ Managed
    /\ tree[i] = "whole"
    /\ LockExclusive(p)
    /\ leaseFile' = [leaseFile EXCEPT ![i] = TRUE]
    /\ Stage(p, Bind(AddInstallation(registry, i), r, i, TRUE))
    /\ UNCHANGED <<tree, leases, job>>

SetPin(p, r, b) ==
    /\ pc[p] = "idle"
    /\ LockExclusive(p)
    /\ Selected(registry, r)
    /\ Stage(p, SetPinned(registry, r, b))
    /\ UNCHANGED <<tree, leaseFile, leases, job>>

SetDefault(p, t) ==
    /\ pc[p] = "idle"
    /\ LockExclusive(p)
    /\ ResolveIn(registry, t) # NoId
    /\ Stage(p, InsertDefault(registry,
                    IF t \in registry.installations
                    THEN [request |-> ExactOf[t], id |-> t]
                    ELSE [request |-> t, id |-> NoId]))
    /\ UNCHANGED <<tree, leaseFile, leases, job>>

ClearDefault(p, k) ==
    /\ pc[p] = "idle"
    /\ LockExclusive(p)
    /\ Stage(p, RemoveDefault(registry, k))
    /\ UNCHANGED <<tree, leaseFile, leases, job>>

\* Faulty variant: the lease is opened but not tried.
LeaseIgnored(i) == TRUE

\* try_lock: a shared lease of any process makes the command fail.
LeaseFree(i) == \A q \in Proc : i \notin leased[q] /\ removing[q] # i

Uninstall(p, t) ==
    /\ pc[p] = "idle"
    /\ LockExclusive(p)
    /\ LET i == UninstallTarget(registry, t)
       IN  /\ i # NoId
           /\ ~ IsDefault(registry, i)
           /\ leaseFile[i]
           /\ LeaseFree(i)
           /\ removing' = [removing EXCEPT ![p] = i]
           /\ Stage(p, Forget(registry, i))
    /\ UNCHANGED <<tree, leaseFile, leased, job>>

\* publish() replaces the registry file by a rename; uninstall of a managed
\* SDK still holds the lock while it removes the tree.
Save(p) ==
    /\ pc[p] = "save"
    /\ registry' = snap[p]
    /\ IF removing[p] \in Managed
       THEN /\ Goto(p, "remove")
            /\ UNCHANGED <<lock, leases, job, snap>>
       ELSE Return(p)
    /\ UNCHANGED files

\* remove_dir_all is not atomic.
RemoveFiles(p) ==
    /\ pc[p] = "remove"
    /\ tree' = [tree EXCEPT ![removing[p]] = "partial"]
    /\ Goto(p, "finish")
    /\ UNCHANGED <<registry, lockFile, lock, leaseFile, leases, job, snap>>

RemoveTree(p) ==
    /\ pc[p] = "finish"
    /\ tree' = [tree EXCEPT ![removing[p]] = "absent"]
    /\ Return(p)
    /\ UNCHANGED <<registry, lockFile, leaseFile>>

-----------------------------------------------------------------------------
(* execution() and application_runtimes(): select, check, lease, run       *)

ExecLock(p) ==
    /\ pc[p] = "idle"
    /\ LockShared(p)
    /\ Goto(p, "execRead")
    /\ UNCHANGED <<registry, tree, leaseFile, leases, job, snap>>

ExecRead(p) ==
    /\ pc[p] = "execRead"
    /\ snap' = [snap EXCEPT ![p] = registry]
    /\ Goto(p, "execSelect")
    /\ UNCHANGED <<registry, files, lock, leases, job>>

\* A target, a home variable, a project or a default names an installation
\* of the snapshot; its entry point is checked before the lease is taken.
ExecSelect(p, i) ==
    /\ pc[p] = "execSelect"
    /\ i \in snap[p].installations \ leased[p]
    /\ HomeUsable(i, TRUE)
    /\ inst' = [inst EXCEPT ![p] = i]
    /\ Goto(p, "execLease")
    /\ UNCHANGED <<registry, files, lock, leases, req, pin, snap>>

\* lease(): open the file, wait for an uninstall that holds it.
ExecLease(p) ==
    /\ pc[p] = "execLease"
    /\ leaseFile[inst[p]]
    /\ \A q \in Proc : removing[q] # inst[p]
    /\ leased' = [leased EXCEPT ![p] = @ \cup {inst[p]}]
    /\ inst' = [inst EXCEPT ![p] = NoId]
    /\ Goto(p, "execSelect")
    /\ UNCHANGED <<registry, files, lock, removing, req, pin, snap>>

\* A candidate is a Java program: it is started to ask for its version, and
\* waited for without a deadline, under the registry lock (probe_cached of
\* application_runtimes(); runtimes() of execution(), if nothing selects a
\* Java).  A cached answer takes no step.
ExecProbe(p) ==
    /\ pc[p] = "execSelect"
    /\ Goto(p, "probe")
    /\ UNCHANGED <<registry, files, lock, leases, job, snap>>

\* The program has ended; it may be skipped, and a --java that fails ends the
\* command (ExecReject).
ProbeEnd(p) ==
    /\ pc[p] = "probe"
    /\ Goto(p, "execSelect")
    /\ UNCHANGED <<registry, files, lock, leases, job, snap>>

\* Faulty variant: the lock lives as long as the child.
ExecStartLocked(p) ==
    /\ pc[p] = "execSelect"
    /\ snap' = [snap EXCEPT ![p] = EmptyRegistry]
    /\ Goto(p, "running")
    /\ UNCHANGED <<registry, files, lock, leases, job>>

\* Every family is resolved: the lock is dropped, the leases are kept.
ExecStart(p) ==
    /\ pc[p] = "execSelect"
    /\ lockSh' = lockSh \ {p}
    /\ snap' = [snap EXCEPT ![p] = EmptyRegistry]
    /\ Goto(p, "running")
    /\ UNCHANGED <<registry, files, lockEx, leases, job>>

ExecEnd(p) ==
    /\ pc[p] = "running"
    /\ Return(p)
    /\ UNCHANGED <<registry, files>>

\* No installation for a target, no entry point, no lease file, or no usable Java.
ExecReject(p) ==
    /\ \/ pc[p] = "execSelect"
       \/ pc[p] = "execLease" /\ ~ leaseFile[inst[p]]
    /\ Return(p)
    /\ UNCHANGED <<registry, files>>

-----------------------------------------------------------------------------
\* A crash, or an I/O error at any step.
Crash(p) ==
    /\ pc[p] # "idle"
    /\ Return(p)
    /\ UNCHANGED <<registry, files>>

\* The owner of an external home removes it or puts it back.
ExternalHome(i) ==
    /\ i \notin Managed
    /\ tree' = [tree EXCEPT ![i] = IF @ = "whole" THEN "absent" ELSE "whole"]
    /\ UNCHANGED <<registry, lockFile, lock, leaseFile, leases, pc, job, snap>>

\* The steps a command takes by itself once it has started.
Step(p) ==
    \/ InstallLock(p) \/ InstallLookup(p) \/ InstallBound(p)
    \/ Repin(p) \/ RepinChanged(p) \/ InstallOffline(p)
    \/ \E i \in Id : Catalog(p, i)
    \/ Reuse(p) \/ Commit(p) \/ Publish(p) \/ InstallReject(p)
    \/ Save(p) \/ RemoveFiles(p) \/ RemoveTree(p)
    \/ ExecRead(p)
    \/ \E i \in Id : ExecSelect(p, i)
    \/ ExecLease(p) \/ ExecProbe(p) \/ ExecStart(p) \/ ExecReject(p)

Command(p) ==
    \/ \E r \in Req, b \in BOOLEAN : InstallStart(p, r, b)
    \/ \E r \in Req : Update(p, r)
    \/ \E r \in Req, i \in Id : Register(p, r, i)
    \/ \E r \in Req, b \in BOOLEAN : SetPin(p, r, b)
    \/ \E t \in Target : SetDefault(p, t)
    \/ \E k \in Key : ClearDefault(p, k)
    \/ \E t \in Target : Uninstall(p, t)
    \/ ExecLock(p)

Next ==
    \/ \E p \in Proc : Command(p) \/ Step(p) \/ ProbeEnd(p) \/ ExecEnd(p) \/ Crash(p)
    \/ \E i \in Id : ExternalHome(i)

Spec == Init /\ [][Next]_vars

\* The command holds the registry lock.
Holds(p) == lockEx = p \/ p \in lockSh

\* A command that holds the registry lock and can go on does: its steps are
\* system calls that return; and it comes to the end of its candidates, which
\* are a finite list.  Nothing is assumed of commands without the lock (they
\* may query or download for ever), of users, crashes, the order in which
\* waiting lockers are served, or child processes, also those that are probed.
FairSpec ==
    /\ Spec
    /\ \A p \in Proc : /\ WF_vars(Holds(p) /\ Step(p))
                       /\ SF_vars(Holds(p) /\ (ExecStart(p) \/ ExecReject(p)))

-----------------------------------------------------------------------------
\* Every variable has its type: the registry on disk is a value of the persisted
\* schema, and so is every copy a command has read of it.
TypeOK ==
    /\ registry \in Registry
    /\ lockFile \in BOOLEAN
    /\ lockEx \in Proc \cup {NoProc}
    /\ lockSh \subseteq Proc
    /\ tree \in [Id -> Tree]
    /\ leaseFile \in [Id -> BOOLEAN]
    /\ leased \in [Proc -> SUBSET Id]
    /\ removing \in [Proc -> Id \cup {NoId}]
    /\ pc \in [Proc -> Phase]
    /\ req \in [Proc -> Req \cup {NoReq}]
    /\ inst \in [Proc -> Id \cup {NoId}]
    /\ pin \in [Proc -> BOOLEAN]
    /\ snap \in [Proc -> Registry]

\* The registry never names a managed SDK whose tree is not complete on
\* disk, nor an installation without the lease file that execution() opens:
\* trees and lease files are published before the record that names them,
\* and removed after it.
RegistryNamesWholeTrees ==
    \A i \in registry.installations :
        /\ leaseFile[i]
        /\ i \in Managed => tree[i] = "whole"

\* While a child runs, or a Java is probed, the managed SDKs leased for it stay
\* complete on disk: no uninstall removes a tree under a running process.
LeasedTreesWhole ==
    \A p \in Proc : pc[p] \in {"probe", "running"} =>
        \A i \in leased[p] \cap Managed : tree[i] = "whole"

\* A pinned request keeps its build until it is unpinned: no step moves it to
\* another build and leaves it unpinned (an install from a path binds the
\* request anew, and pinned).
PinHeld ==
    [][ \A s \in registry.selections, t \in registry'.selections :
            s.pinned /\ t.request = s.request /\ t.installation # s.installation
                => t.pinned ]_vars

\* Every registry lock that is taken is released, although commands wait for
\* leases, children run for ever and no crash helps - unless its holder waits
\* for ever for a Java that it probes.  That is the only wait under the lock
\* that the code does not bound, and it blocks every later change of the home.
LockReleased ==
    \A p \in Proc : []<>(~ Holds(p)) \/ <>[](pc[p] = "probe")

Abstract == INSTANCE SdkRegistry WITH registry <- registry

\* No update is lost or torn: each replacement of the file is one command of
\* SdkRegistry applied to the contents it replaces.
RefinesRegistry == Abstract!Spec
=============================================================================
