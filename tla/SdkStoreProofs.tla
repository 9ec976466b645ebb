--------------------------- MODULE SdkStoreProofs ---------------------------
(***************************************************************************)
(* SdkStore implements SdkRegistry, whose registry is readable for ever    *)
(* and whose uninstall moves no default; the registry of the store always  *)
(* names complete trees, no tree is removed under a running process (in a  *)
(* home that has been used before it stays complete, in any home nothing   *)
(* is taken), and no process that another one waits for waits itself.      *)
(***************************************************************************)
EXTENDS SdkStore, SdkModelProofs

\* The phases in which the exclusive registry lock is held.
Writing == {"publish", "save", "remove", "finish"}

\* One writer, and no reader with a lock beside it.
LockInv ==
    /\ lockEx # NoProc => lockFile /\ lockSh = {}
    /\ \A p \in Proc : pc[p] \in Writing <=> lockEx = p

\* i may be named by the registry.
Ready(i) == leaseFile[i] /\ (i \in Managed => tree[i] = "whole")

\* What each phase knows about its request and its installation.
JobInv ==
    \A p \in Proc :
        /\ pc[p] \in {"installLock", "installLookup", "repin", "offline",
                      "catalog", "reuse", "commit", "publish"} => req[p] \in Req
        /\ pc[p] \in {"reuse", "commit", "publish"} =>
                inst[p] \in Managed \cap Accepts[req[p]]
        /\ pc[p] = "publish" => leaseFile[inst[p]]
        /\ pc[p] = "execLease" => inst[p] \in Id
        /\ removing[p] # NoId => pc[p] \in {"save", "remove", "finish"}
        /\ pc[p] \in {"remove", "finish"} => removing[p] \in Managed

\* The registry a writer is about to save is one command applied to the
\* registry on disk, and names nothing that is not ready.
PendingInv ==
    \A p \in Proc : pc[p] = "save" =>
        /\ Change(registry, snap[p])
        /\ \A i \in snap[p].installations : i \in registry.installations \/ Ready(i)
        /\ removing[p] \notin snap[p].installations

\* Trees are removed after their record.
RemovalInv ==
    \A p \in Proc : pc[p] \in {"remove", "finish"} =>
        removing[p] \notin registry.installations

IInv ==
    /\ TypeOK
    /\ LockInv
    /\ JobInv
    /\ PendingInv
    /\ RemovalInv
    /\ RegistryReadable
    /\ RegistryNamesWholeTrees

-----------------------------------------------------------------------------
(* The three shapes of a step.  First: a command ends.                     *)
LEMMA ReturnStep ==
    ASSUME IInv, NEW p \in Proc, Return(p),
           UNCHANGED <<registry, tree, leaseFile>>, lockFile' \in {lockFile, TRUE}
    PROVE  IInv'
<1> USE DEF IInv
<1>1. TypeOK'
  BY EmptyReadable, StoreAssumption DEF TypeOK, Return, Goto, Phase
<1>2. LockInv'
  BY StoreAssumption DEF TypeOK, LockInv, Return, Goto, Writing
<1>3. \A q \in Proc : q # p => /\ pc'[q] = pc[q] /\ req'[q] = req[q]
                              /\ inst'[q] = inst[q] /\ snap'[q] = snap[q]
                              /\ removing'[q] = removing[q]
  BY DEF Return, Goto, TypeOK
<1>4. pc'[p] = "idle" /\ removing'[p] = NoId
  BY DEF Return, Goto, TypeOK
<1>5. JobInv'
  BY <1>3, <1>4 DEF JobInv
<1>6. PendingInv' /\ RemovalInv'
  BY <1>3, <1>4 DEF PendingInv, RemovalInv, Ready
<1>7. RegistryReadable' /\ RegistryNamesWholeTrees'
  BY DEF RegistryReadable, RegistryNamesWholeTrees
<1> QED  BY <1>1, <1>2, <1>5, <1>6, <1>7

(* Second: a command goes to a phase that does not hold the lock.          *)
LEMMA PhaseStep ==
    ASSUME IInv, TypeOK', NEW p \in Proc, NEW phase \in Phase \ Writing,
           pc[p] \notin Writing, Goto(p, phase),
           UNCHANGED <<registry, tree, leaseFile, lockEx, removing>>,
           lockFile' \in {lockFile, TRUE},
           lockEx # NoProc => lockSh' = {},
           \A q \in Proc \ {p} :
                req'[q] = req[q] /\ inst'[q] = inst[q] /\ snap'[q] = snap[q],
           phase \in {"installLock", "installLookup", "repin", "offline",
                      "catalog", "reuse", "commit"} => req'[p] \in Req,
           phase \in {"reuse", "commit"} => inst'[p] \in Managed \cap Accepts[req'[p]],
           phase = "execLease" => inst'[p] \in Id
    PROVE  IInv'
<1> USE DEF IInv
<1>1. pc'[p] = phase /\ \A q \in Proc \ {p} : pc'[q] = pc[q]
  BY DEF Goto, TypeOK
<1>2. LockInv'
  BY <1>1, StoreAssumption DEF LockInv, TypeOK
<1>3. removing[p] = NoId
  BY DEF JobInv, Writing
<1>4. JobInv'
  <2>1. SUFFICES ASSUME NEW q \in Proc  PROVE JobInv!(q)'
    BY DEF JobInv
  <2>2. CASE q = p
    BY <1>1, <1>3, <2>2 DEF JobInv, Writing
  <2>3. CASE q # p
    BY <1>1, <2>3 DEF JobInv
  <2> QED  BY <2>2, <2>3
<1>5. PendingInv' /\ RemovalInv'
  BY <1>1 DEF PendingInv, RemovalInv, Ready, Writing
<1>6. RegistryReadable' /\ RegistryNamesWholeTrees'
  BY DEF RegistryReadable, RegistryNamesWholeTrees
<1> QED  BY <1>2, <1>4, <1>5, <1>6

(* Third: a command takes the lock, or has it, and stages a new registry.  *)
LEMMA StageStep ==
    ASSUME IInv, NEW p \in Proc, NEW next, Stage(p, next), Change(registry, next),
           (lockEx = NoProc /\ lockSh = {}) \/ lockEx = p,
           lockFile' = TRUE,
           tree' \in [Id -> Tree], leaseFile' \in [Id -> BOOLEAN],
           removing' \in [Proc -> Id \cup {NoId}],
           UNCHANGED <<leased, job>>,
           \A i \in Id : Ready(i) => Ready(i)',
           \A i \in Id : leaseFile[i] => leaseFile'[i],
           \A i \in next.installations : i \in registry.installations \/ Ready(i)',
           \A q \in Proc \ {p} : removing'[q] = removing[q],
           removing'[p] \notin next.installations
    PROVE  IInv'
<1> USE DEF IInv
<1>1. next \in Registry /\ Readable(next)
  BY ChangeReadable DEF TypeOK, RegistryReadable
<1>2. TypeOK'
  BY <1>1 DEF TypeOK, Stage, Goto, Phase, job
<1>3. /\ pc'[p] = "save" /\ snap'[p] = next
      /\ \A q \in Proc \ {p} : pc'[q] = pc[q] /\ snap'[q] = snap[q]
      /\ registry' = registry /\ lockEx' = p /\ lockSh' = lockSh
      /\ req' = req /\ inst' = inst
  BY DEF Stage, Goto, TypeOK, job
<1>4. lockSh = {} /\ \A q \in Proc \ {p} : pc[q] \notin Writing
  BY StoreAssumption DEF LockInv, TypeOK
<1>5. LockInv'
  BY <1>3, <1>4, StoreAssumption DEF LockInv, Writing
<1>6. JobInv'
  <2>1. SUFFICES ASSUME NEW q \in Proc  PROVE JobInv!(q)'
    BY DEF JobInv
  <2>2. CASE q = p
    BY <1>3, <2>2 DEF JobInv
  <2>3. CASE q # p
    BY <1>3, <1>4, <2>3 DEF JobInv, Writing
  <2> QED  BY <2>2, <2>3
<1>7. PendingInv'
  BY <1>3, <1>4 DEF PendingInv, Writing
<1>8. RemovalInv'
  BY <1>3, <1>4 DEF RemovalInv, Writing
<1>9. RegistryReadable' /\ RegistryNamesWholeTrees'
  BY <1>3 DEF RegistryReadable, RegistryNamesWholeTrees, Ready, TypeOK, Registry
<1> QED  BY <1>2, <1>5, <1>6, <1>7, <1>8, <1>9

-----------------------------------------------------------------------------
(* The transactions, one by one.                                           *)

\* Binding a build that is already registered stages a change.
LEMMA BindStep ==
    ASSUME IInv, NEW p \in Proc, LockExclusive(p),
           NEW r \in Req, NEW i \in registry.installations, i \in Accepts[r],
           Stage(p, Bind(registry, r, i, pin[p])),
           pc[p] \notin Writing,
           UNCHANGED <<tree, leaseFile, leases, job>>
    PROVE  IInv'
<1> DEFINE next == Bind(registry, r, i, pin[p])
<1>1. pin[p] \in BOOLEAN /\ i \in Id /\ registry \in Registry
  BY DEF IInv, TypeOK, Registry
<1>2. Change(registry, next)
  BY <1>1 DEF Change
<1>3. next.installations = registry.installations
  BY <1>1 DEF Bind, Registry
<1>4. removing[p] = NoId /\ NoId \notin next.installations
  BY <1>1, <1>3, SdkAssumption DEF IInv, JobInv, Writing, Registry
<1> HIDE DEF next
<1>5. \A j \in Id : (Ready(j) => Ready(j)') /\ (leaseFile[j] => leaseFile'[j])
  BY DEF Ready
<1> QED
  BY <1>2, <1>3, <1>4, <1>5, StageStep
     DEF next, IInv, TypeOK, LockExclusive, leases

\* So does adding a build whose tree and lease file are ready.
LEMMA AddStep ==
    ASSUME IInv, NEW p \in Proc,
           (lockEx = NoProc /\ lockSh = {}) \/ lockEx = p, lockFile' = TRUE,
           NEW r \in Req, NEW i \in Id, i \in Accepts[r],
           NEW b \in BOOLEAN, i \notin Managed => b,
           Stage(p, Bind(AddInstallation(registry, i), r, i, b)),
           removing[p] = NoId,
           tree' \in [Id -> Tree], leaseFile' \in [Id -> BOOLEAN],
           \A j \in Id : (Ready(j) => Ready(j)') /\ (leaseFile[j] => leaseFile'[j]),
           Ready(i)',
           UNCHANGED <<leases, job>>
    PROVE  IInv'
<1> DEFINE next == Bind(AddInstallation(registry, i), r, i, b)
<1>1. registry \in Registry
  BY DEF IInv, TypeOK
<1>2. Change(registry, next)
  BY DEF Change
<1>3. next.installations = registry.installations \cup {i}
  BY <1>1 DEF Bind, AddInstallation, Registry
<1>4. NoId \notin next.installations
  BY <1>1, <1>3, SdkAssumption DEF Registry
<1> HIDE DEF next
<1> QED
  BY <1>2, <1>3, <1>4, StageStep DEF next, IInv, TypeOK, leases

\* A change of selections or defaults only.
LEMMA RewriteStep ==
    ASSUME IInv, NEW p \in Proc, LockExclusive(p), pc[p] \notin Writing,
           NEW next, Change(registry, next), Stage(p, next),
           next.installations = registry.installations,
           UNCHANGED <<tree, leaseFile, leases, job>>
    PROVE  IInv'
<1>1. removing[p] = NoId /\ NoId \notin next.installations
  BY SdkAssumption DEF IInv, JobInv, Writing, TypeOK, Registry
<1>2. \A j \in Id : (Ready(j) => Ready(j)') /\ (leaseFile[j] => leaseFile'[j])
  BY DEF Ready
<1> QED
  BY <1>1, <1>2, StageStep DEF IInv, TypeOK, LockExclusive, leases

\* uninstall stages the registry without the build it holds the lease of.
LEMMA UninstallStep ==
    ASSUME IInv, NEW p \in Proc, NEW t \in Target, Uninstall(p, t)
    PROVE  IInv'
<1> DEFINE i == UninstallTarget(registry, t)
           next == Forget(registry, i)
<1>1. registry \in Registry
  BY DEF IInv, TypeOK
<1>2. i \in registry.installations /\ ~ IsDefault(registry, i) /\ Stage(p, next)
  <2>1. i # NoId /\ ~ IsDefault(registry, i) /\ Stage(p, next)
    BY DEF Uninstall
  <2>2. i \in registry.installations
    BY <2>1 DEF UninstallTarget
  <2> QED  BY <2>1, <2>2
<1>3. Change(registry, next)
  BY <1>1, <1>2 DEF Change, Registry
<1>4. next.installations = registry.installations \ {i}
  BY <1>1 DEF Forget, Registry
<1>5. removing' = [removing EXCEPT ![p] = i]
  BY DEF Uninstall
<1>6. i \in Id
  BY <1>1, <1>2 DEF Registry
<1> HIDE DEF i, next
<1>7. \A j \in Id : (Ready(j) => Ready(j)') /\ (leaseFile[j] => leaseFile'[j])
  BY DEF Ready, Uninstall
<1>8. removing'[p] \notin next.installations
  BY <1>4, <1>5 DEF IInv, TypeOK
<1> QED
  BY <1>2, <1>3, <1>4, <1>5, <1>6, <1>7, <1>8, StageStep
     DEF IInv, TypeOK, Uninstall, LockExclusive

\* save() publishes what the holder of the lock staged, or fails.
LEMMA SaveStep ==
    ASSUME IInv, NEW p \in Proc, Save(p)
    PROVE  IInv'
<1> USE DEF IInv
<1>1. Change(registry, snap[p]) /\ registry' = snap[p] /\ pc[p] = "save"
  BY DEF PendingInv, Save
<1>2. registry' \in Registry /\ Readable(registry')
  BY <1>1, ChangeReadable DEF TypeOK, RegistryReadable
<1>3. lockEx = p /\ \A q \in Proc \ {p} : pc[q] \notin Writing
  BY <1>1 DEF LockInv, Writing
<1>4. RegistryReadable' /\ RegistryNamesWholeTrees'
  BY <1>1, <1>2 DEF RegistryReadable, RegistryNamesWholeTrees, PendingInv, Ready,
                    Save, files
<1>5. CASE removing[p] \in Managed
  <2>1. /\ pc' = [pc EXCEPT ![p] = "remove"]
        /\ UNCHANGED <<lockFile, tree, leaseFile, lock, leases, job, snap>>
    BY <1>5 DEF Save, Goto, files
  <2>2. TypeOK'
    BY <1>2, <2>1 DEF TypeOK, Phase, lock, leases, job
  <2>3. pc'[p] = "remove" /\ \A q \in Proc \ {p} : pc'[q] = pc[q]
    BY <2>1 DEF TypeOK
  <2>4. LockInv'
    BY <1>3, <2>1, <2>3 DEF LockInv, Writing, lock
  <2>5. JobInv'
    BY <1>5, <2>1, <2>3 DEF JobInv, job, leases
  <2>6. PendingInv'
    BY <1>3, <2>3 DEF PendingInv, Writing
  <2>7. RemovalInv'
    BY <1>1, <1>3, <2>1, <2>3 DEF RemovalInv, PendingInv, Writing, leases
  <2> QED  BY <1>4, <2>2, <2>4, <2>5, <2>6, <2>7
<1>6. CASE removing[p] \notin Managed
  <2>1. Return(p) /\ UNCHANGED <<lockFile, tree, leaseFile>>
    BY <1>6 DEF Save, files
  <2>2. TypeOK'
    BY <1>2, <2>1, EmptyReadable, StoreAssumption DEF TypeOK, Return, Goto, Phase
  <2>3. LockInv'
    BY <2>1, StoreAssumption DEF TypeOK, LockInv, Return, Goto, Writing
  <2>4. \A q \in Proc \ {p} :
           /\ pc'[q] = pc[q] /\ req'[q] = req[q] /\ inst'[q] = inst[q]
           /\ snap'[q] = snap[q] /\ removing'[q] = removing[q]
    BY <2>1 DEF Return, Goto, TypeOK
  <2>5. pc'[p] = "idle" /\ removing'[p] = NoId
    BY <2>1 DEF Return, Goto, TypeOK
  <2>6. JobInv'
    BY <2>1, <2>4, <2>5 DEF JobInv
  <2>7. PendingInv' /\ RemovalInv'
    BY <1>3, <2>4, <2>5 DEF PendingInv, RemovalInv, Writing
  <2> QED  BY <1>4, <2>2, <2>3, <2>6, <2>7
<1> QED  BY <1>5, <1>6

\* Removing files touches a tree the registry no longer names.
LEMMA RemoveFilesStep ==
    ASSUME IInv, NEW p \in Proc, RemoveFiles(p)
    PROVE  IInv'
<1> USE DEF IInv
<1>1. /\ pc[p] = "remove" /\ pc' = [pc EXCEPT ![p] = "finish"]
      /\ tree' = [tree EXCEPT ![removing[p]] = "partial"]
      /\ UNCHANGED <<registry, lockFile, lock, leaseFile, leases, job, snap>>
  BY DEF RemoveFiles, Goto
<1>2. removing[p] \in Managed /\ removing[p] \notin registry.installations
  BY <1>1 DEF JobInv, RemovalInv
<1>3. lockEx = p /\ \A q \in Proc \ {p} : pc[q] \notin Writing
  BY <1>1 DEF LockInv, Writing
<1>4. TypeOK'
  BY <1>1 DEF TypeOK, Phase, Tree, lock, leases, job
<1>5. pc'[p] = "finish" /\ \A q \in Proc \ {p} : pc'[q] = pc[q]
  BY <1>1 DEF TypeOK
<1>6. LockInv'
  BY <1>1, <1>3, <1>5 DEF LockInv, Writing, lock
<1>7. JobInv'
  BY <1>1, <1>2, <1>5 DEF JobInv, job, leases
<1>8. PendingInv'
  BY <1>3, <1>5 DEF PendingInv, Writing
<1>9. RemovalInv'
  BY <1>1, <1>2, <1>5 DEF RemovalInv, leases
<1>10. RegistryReadable' /\ RegistryNamesWholeTrees'
  BY <1>1, <1>2 DEF RegistryReadable, RegistryNamesWholeTrees, TypeOK, Registry
<1> QED  BY <1>4, <1>6, <1>7, <1>8, <1>9, <1>10

\* The last step of remove_dir_all takes an unregistered tree away.
LEMMA RemoveTreeStep ==
    ASSUME IInv, NEW p \in Proc, RemoveTree(p)
    PROVE  IInv'
<1> USE DEF IInv
<1>1. /\ pc[p] = "finish" /\ Return(p)
      /\ tree' = [tree EXCEPT ![removing[p]] = "absent"]
      /\ UNCHANGED <<registry, lockFile, leaseFile>>
  BY DEF RemoveTree
<1>2. removing[p] \in Managed /\ removing[p] \notin registry.installations
  BY <1>1 DEF JobInv, RemovalInv
<1>3. lockEx = p /\ \A q \in Proc \ {p} : pc[q] \notin Writing
  BY <1>1 DEF LockInv, Writing
<1>4. TypeOK'
  BY <1>1, EmptyReadable, StoreAssumption DEF TypeOK, Return, Goto, Phase, Tree
<1>5. /\ pc'[p] = "idle" /\ removing'[p] = NoId
      /\ \A q \in Proc \ {p} :
           /\ pc'[q] = pc[q] /\ req'[q] = req[q] /\ inst'[q] = inst[q]
           /\ snap'[q] = snap[q] /\ removing'[q] = removing[q]
  BY <1>1 DEF Return, Goto, TypeOK
<1>6. LockInv'
  BY <1>1, StoreAssumption DEF TypeOK, LockInv, Return, Goto, Writing
<1>7. JobInv'
  BY <1>1, <1>5 DEF JobInv
<1>8. PendingInv' /\ RemovalInv'
  BY <1>3, <1>5 DEF PendingInv, RemovalInv, Writing
<1>9. RegistryReadable' /\ RegistryNamesWholeTrees'
  BY <1>1, <1>2 DEF RegistryReadable, RegistryNamesWholeTrees, TypeOK, Registry
<1> QED  BY <1>4, <1>6, <1>7, <1>8, <1>9

-----------------------------------------------------------------------------
(* The invariant is inductive.                                             *)
LEMMA InductiveStep == IInv /\ [Next]_vars => IInv'
<1> SUFFICES ASSUME IInv, [Next]_vars PROVE IInv'
  OBVIOUS
<1>t. TypeOK /\ JobInv /\ RegistryReadable /\ registry \in Registry
  BY DEF IInv, TypeOK
<1>1. ASSUME NEW p \in Proc, NEW r \in Req, NEW b \in BOOLEAN, InstallStart(p, r, b)
      PROVE  IInv'
  BY <1>1, <1>t, PhaseStep DEF InstallStart, TypeOK, Goto, Phase, Writing, files, lock,
                           leases, IInv, LockInv
<1>2. ASSUME NEW p \in Proc, InstallLock(p)  PROVE IInv'
  <2>1. TypeOK'
    BY <1>2, <1>t DEF InstallLock, LockShared, Goto, TypeOK, Phase, leases, job
  <2> QED
    BY <1>2, <1>t, <2>1, PhaseStep
       DEF InstallLock, LockShared, Phase, Writing, leases, job, IInv, LockInv, JobInv
<1>3. ASSUME NEW p \in Proc, InstallLookup(p)  PROVE IInv'
  <2>1. TypeOK'
    BY <1>3, <1>t DEF InstallLookup, Goto, TypeOK, Phase, files, leases, RegistryReadable,
                      Readable, SelectionsBound, SelectionOf, Selected, Registry, Selection
  <2>2. PICK phase \in {"repin", "offline", "catalog"} : Goto(p, phase)
    BY <1>3 DEF InstallLookup
  <2>3. /\ pc[p] = "installLookup" /\ req[p] \in Req /\ lockSh' = lockSh \ {p}
        /\ UNCHANGED <<registry, tree, leaseFile, lockFile, lockEx, removing, req, snap>>
        /\ \A q \in Proc \ {p} : inst'[q] = inst[q]
    BY <1>3, <1>t DEF InstallLookup, files, leases, JobInv, TypeOK
  <2>4. lockEx # NoProc => lockSh' = {}
    BY <2>3 DEF IInv, LockInv
  <2> QED
    BY <2>1, <2>2, <2>3, <2>4, PhaseStep DEF Phase, Writing
<1>4. ASSUME NEW p \in Proc, InstallBound(p)  PROVE IInv'
  BY <1>4, ReturnStep DEF InstallBound, files
<1>5. ASSUME NEW p \in Proc, Repin(p)  PROVE IInv'
  <2> DEFINE next == SetPinned(registry, req[p], TRUE)
  <2>1. req[p] \in Req
    BY <1>5, <1>t DEF JobInv, Repin
  <2>2. Change(registry, next)
    BY <1>5, <2>1 DEF Change, Repin, Selected
  <2>3. next.installations = registry.installations
    BY <1>t DEF SetPinned, Registry
  <2> HIDE DEF next
  <2> QED  BY <1>5, <2>2, <2>3, RewriteStep DEF Repin, Writing, next
<1>6. ASSUME NEW p \in Proc, RepinChanged(p)  PROVE IInv'
  BY <1>6, ReturnStep DEF RepinChanged, LockExclusive
<1>7. ASSUME NEW p \in Proc, InstallOffline(p)  PROVE IInv'
  <2> DEFINE i == ResolveRequest(registry, req[p])
  <2>1. req[p] \in Req /\ i # NoId /\ Stage(p, Bind(registry, req[p], i, pin[p]))
    BY <1>7, <1>t DEF JobInv, InstallOffline
  <2>2. i \in registry.installations /\ i \in Accepts[req[p]]
    BY <1>t, <2>1, ResolveType DEF RegistryReadable
  <2> HIDE DEF i
  <2> QED  BY <1>7, <2>1, <2>2, BindStep DEF InstallOffline, Writing
<1>8. ASSUME NEW p \in Proc, NEW i \in Id, Catalog(p, i)  PROVE IInv'
  <2>1. TypeOK'
    BY <1>8, <1>t DEF Catalog, Goto, TypeOK, Phase, files, lock, leases
  <2>2. PICK phase \in {"reuse", "commit"} : Goto(p, phase)
    BY <1>8 DEF Catalog
  <2> QED
    BY <1>8, <1>t, <2>1, <2>2, PhaseStep
       DEF Catalog, Phase, Writing, files, lock, leases, IInv, LockInv, JobInv, TypeOK
<1>9. ASSUME NEW p \in Proc, Reuse(p)  PROVE IInv'
  <2>1. req[p] \in Req /\ inst[p] \in Managed \cap Accepts[req[p]]
    BY <1>9, <1>t DEF JobInv, Reuse
  <2>2. CASE inst[p] \in registry.installations
    BY <1>9, <2>1, <2>2, BindStep DEF Reuse, Writing
  <2>3. CASE inst[p] \notin registry.installations
    <3>1. TypeOK'
      BY <1>9, <1>t, <2>3 DEF Reuse, LockExclusive, Goto, TypeOK, Phase, lock, leases, job
    <3> QED
      BY <1>9, <1>t, <2>1, <2>3, <3>1, PhaseStep
         DEF Reuse, LockExclusive, Phase, Writing, lock, leases, job, TypeOK
  <2> QED  BY <2>2, <2>3
<1>10. ASSUME NEW p \in Proc, Commit(p)  PROVE IInv'
  <2>1. req[p] \in Req /\ inst[p] \in Managed \cap Accepts[req[p]]
    BY <1>10, <1>t DEF JobInv, Commit
  <2>2. CASE inst[p] \in registry.installations
    BY <1>10, <2>1, <2>2, BindStep DEF Commit, Writing
  <2>3. CASE inst[p] \notin registry.installations
    <3>1. /\ pc[p] = "commit" /\ pc' = [pc EXCEPT ![p] = "publish"] /\ lockEx' = p
          /\ leaseFile' = [leaseFile EXCEPT ![inst[p]] = TRUE] /\ lockFile' = TRUE
          /\ lockEx = NoProc /\ lockSh = {}
          /\ UNCHANGED <<registry, lockSh, snap, tree, leases, job>>
      BY <1>10, <2>3 DEF Commit, Goto, LockExclusive
    <3>2. TypeOK'
      BY <1>t, <3>1 DEF TypeOK, Phase, leases, job
    <3>3. pc'[p] = "publish" /\ \A q \in Proc \ {p} : pc'[q] = pc[q]
      BY <1>t, <3>1 DEF TypeOK
    <3>4. \A q \in Proc : pc[q] \notin Writing
      BY <3>1, StoreAssumption DEF IInv, LockInv
    <3>5. LockInv'
      BY <3>1, <3>3, <3>4, StoreAssumption DEF LockInv, Writing
    <3>6. leaseFile'[inst[p]] /\ \A i \in Id : leaseFile[i] => leaseFile'[i]
      BY <1>t, <2>1, <3>1, SdkAssumption DEF TypeOK
    <3>7. JobInv'
      BY <1>t, <2>1, <3>1, <3>3, <3>4, <3>6 DEF JobInv, Writing, leases, job
    <3>8. PendingInv' /\ RemovalInv'
      BY <3>3, <3>4 DEF PendingInv, RemovalInv, Writing
    <3>9. RegistryReadable' /\ RegistryNamesWholeTrees'
      BY <1>t, <3>1, <3>6 DEF IInv, RegistryReadable, RegistryNamesWholeTrees, Registry
    <3> QED  BY <3>2, <3>5, <3>7, <3>8, <3>9 DEF IInv
  <2> QED  BY <2>2, <2>3
<1>11. ASSUME NEW p \in Proc, Publish(p)  PROVE IInv'
  <2>1. /\ req[p] \in Req /\ inst[p] \in Managed \cap Accepts[req[p]]
        /\ leaseFile[inst[p]] /\ removing[p] = NoId /\ inst[p] \in Id
    BY <1>11, <1>t, SdkAssumption DEF JobInv, Publish, TypeOK
  <2>2. tree' = [tree EXCEPT ![inst[p]] = "whole"] /\ UNCHANGED <<lockFile, leaseFile>>
    BY <1>11 DEF Publish
  <2>3. tree' \in [Id -> Tree] /\ leaseFile' \in [Id -> BOOLEAN]
    BY <1>t, <2>1, <2>2 DEF TypeOK, Tree
  <2>4. lockEx = p /\ lockFile' = TRUE
    BY <1>11, <1>t, <2>2, StoreAssumption DEF IInv, LockInv, Writing, Publish, TypeOK
  <2>5. \A j \in Id : (Ready(j) => Ready(j)') /\ (leaseFile[j] => leaseFile'[j])
    BY <1>t, <2>2 DEF Ready, TypeOK
  <2>6. Ready(inst[p])'
    BY <1>11, <1>t, <2>1, <2>2 DEF Ready, TypeOK, Publish, job
  <2>7. pin[p] \in BOOLEAN
    BY <1>t DEF TypeOK
  <2>8. Stage(p, Bind(AddInstallation(registry, inst[p]), req[p], inst[p], pin[p]))
        /\ UNCHANGED <<leases, job>>
    BY <1>11 DEF Publish
  <2>9. ASSUME NEW i \in Id, i = inst[p]  PROVE IInv'
    BY <2>1, <2>3, <2>4, <2>5, <2>6, <2>7, <2>8, <2>9, AddStep DEF Ready, job
  <2> QED  BY <2>1, <2>9
<1>12. ASSUME NEW p \in Proc, InstallReject(p)  PROVE IInv'
  BY <1>12, ReturnStep DEF InstallReject, LockExclusive
<1>13. ASSUME NEW p \in Proc, NEW r \in Req, Update(p, r)  PROVE IInv'
  BY <1>13, <1>t, PhaseStep DEF Update, TypeOK, Goto, Phase, Writing, files, lock,
                            leases, IInv, LockInv
<1>14. ASSUME NEW p \in Proc, NEW r \in Req, NEW i \in Id, Register(p, r, i)
       PROVE  IInv'
  <2>1. \A j \in Id : (Ready(j) => Ready(j)') /\ (leaseFile[j] => leaseFile'[j])
    BY <1>14, <1>t DEF Register, Ready, TypeOK
  <2>2. Ready(i)' /\ removing[p] = NoId
    BY <1>14, <1>t DEF Register, Ready, TypeOK, JobInv
  <2>3. tree' \in [Id -> Tree] /\ leaseFile' \in [Id -> BOOLEAN]
    BY <1>14, <1>t DEF Register, TypeOK
  <2> QED  BY <1>14, <2>1, <2>2, <2>3, AddStep DEF Register, LockExclusive
<1>15. ASSUME NEW p \in Proc, NEW r \in Req, NEW b \in BOOLEAN, SetPin(p, r, b)
       PROVE  IInv'
  <2> DEFINE next == SetPinned(registry, r, b)
  <2>1. Change(registry, next)
    BY <1>15 DEF Change, SetPin
  <2>2. next.installations = registry.installations
    BY <1>t DEF SetPinned, Registry
  <2> HIDE DEF next
  <2> QED  BY <1>15, <2>1, <2>2, RewriteStep DEF SetPin, Writing, next
<1>16. ASSUME NEW p \in Proc, NEW t \in Target, SetDefault(p, t)  PROVE IInv'
  <2> DEFINE d == IF t \in registry.installations
                  THEN [request |-> ExactOf[t], id |-> t]
                  ELSE [request |-> t, id |-> NoId]
             next == InsertDefault(registry, d)
  <2>1. d \in DefaultSelection /\ DefaultInstallation(registry, d) # NoId
        /\ (d.id # NoId => d.request = ExactOf[d.id])
    <3>1. CASE t \in registry.installations
      BY <1>t, <3>1, SdkAssumption DEF DefaultSelection, DefaultInstallation, Registry
    <3>2. CASE t \notin registry.installations
      BY <1>16, <3>2 DEF SetDefault, ResolveIn, DefaultSelection, DefaultInstallation
    <3> QED  BY <3>1, <3>2
  <2>2. Change(registry, next)
    BY <2>1 DEF Change
  <2>3. next.installations = registry.installations
    BY <1>t DEF InsertDefault, Registry
  <2>4. Stage(p, next)
    BY <1>16 DEF SetDefault
  <2> HIDE DEF next
  <2> QED  BY <1>16, <2>2, <2>3, <2>4, RewriteStep DEF SetDefault, Writing
<1>17. ASSUME NEW p \in Proc, NEW k \in Key, ClearDefault(p, k)  PROVE IInv'
  <2> DEFINE next == RemoveDefault(registry, k)
  <2>1. Change(registry, next)
    BY DEF Change
  <2>2. next.installations = registry.installations
    BY <1>t DEF RemoveDefault, Registry
  <2> HIDE DEF next
  <2> QED  BY <1>17, <2>1, <2>2, RewriteStep DEF ClearDefault, Writing, next
<1>18. ASSUME NEW p \in Proc, ExecLock(p)  PROVE IInv'
  <2>1. TypeOK'
    BY <1>18, <1>t DEF ExecLock, LockShared, Goto, TypeOK, Phase, leases, job
  <2> QED
    BY <1>18, <1>t, <2>1, PhaseStep
       DEF ExecLock, LockShared, Phase, Writing, leases, job, IInv, LockInv
<1>19. ASSUME NEW p \in Proc, ExecRead(p)  PROVE IInv'
  <2>1. TypeOK'
    BY <1>19, <1>t DEF ExecRead, Goto, TypeOK, Phase, files, lock, leases, job
  <2> QED
    BY <1>19, <1>t, <2>1, PhaseStep
       DEF ExecRead, Phase, Writing, files, lock, leases, job, IInv, LockInv, TypeOK
<1>20. ASSUME NEW p \in Proc, NEW i \in Id, ExecSelect(p, i)  PROVE IInv'
  <2>1. TypeOK'
    BY <1>20, <1>t DEF ExecSelect, Goto, TypeOK, Phase, files, lock, leases
  <2> QED
    BY <1>20, <1>t, <2>1, PhaseStep
       DEF ExecSelect, Phase, Writing, files, lock, leases, IInv, LockInv, TypeOK
<1>21. ASSUME NEW p \in Proc, ExecLease(p)  PROVE IInv'
  <2>1. inst[p] \in Id
    BY <1>21, <1>t DEF JobInv, ExecLease
  <2>2. TypeOK'
    BY <1>21, <1>t, <2>1 DEF ExecLease, Goto, TypeOK, Phase, files, lock
  <2> QED
    BY <1>21, <1>t, <2>2, PhaseStep
       DEF ExecLease, Phase, Writing, files, lock, IInv, LockInv, TypeOK
<1>22. ASSUME NEW p \in Proc, ExecStart(p)  PROVE IInv'
  <2>1. TypeOK'
    BY <1>22, <1>t, EmptyReadable DEF ExecStart, Goto, TypeOK, Phase, files, leases, job
  <2> QED
    BY <1>22, <1>t, <2>1, PhaseStep
       DEF ExecStart, Phase, Writing, files, leases, job, IInv, LockInv, TypeOK
<1>23. ASSUME NEW p \in Proc, ExecReject(p) \/ ExecEnd(p) \/ Crash(p)  PROVE IInv'
  BY <1>23, ReturnStep DEF ExecReject, ExecEnd, Crash, files
<1>26. ASSUME NEW p \in Proc, ExecProbe(p) \/ ProbeEnd(p)  PROVE IInv'
  <2>1. TypeOK'
    BY <1>26, <1>t DEF ExecProbe, ProbeEnd, Goto, TypeOK, Phase, files, lock, leases, job
  <2>2. PICK phase \in {"probe", "execSelect"} : Goto(p, phase)
    BY <1>26 DEF ExecProbe, ProbeEnd
  <2> QED
    BY <1>26, <1>t, <2>1, <2>2, PhaseStep
       DEF ExecProbe, ProbeEnd, Phase, Writing, files, lock, leases, job, IInv, LockInv
<1>24. ASSUME NEW i \in Id, ExternalHome(i)  PROVE IInv'
  <2>1. TypeOK'
    BY <1>24, <1>t DEF ExternalHome, TypeOK, Tree, lock, leases, job
  <2>2. \A j \in Managed : tree'[j] = tree[j]
    BY <1>24, <1>t DEF ExternalHome, TypeOK
  <2>3. UNCHANGED <<registry, lockFile, lockEx, lockSh, leaseFile, leased, removing,
                    pc, req, inst, snap>>
    BY <1>24 DEF ExternalHome, lock, leases, job
  <2>4. PendingInv' /\ RemovalInv'
    BY <2>2, <2>3 DEF IInv, PendingInv, RemovalInv, Ready
  <2>5. LockInv' /\ JobInv' /\ RegistryReadable' /\ RegistryNamesWholeTrees'
    BY <2>2, <2>3 DEF IInv, LockInv, JobInv, RegistryReadable, RegistryNamesWholeTrees
  <2> QED  BY <2>1, <2>4, <2>5 DEF IInv
<1>25. CASE UNCHANGED vars
  BY <1>25 DEF vars, IInv, TypeOK, LockInv, JobInv, PendingInv, RemovalInv, Ready,
               RegistryReadable, RegistryNamesWholeTrees
<1> QED
  BY <1>1, <1>2, <1>3, <1>4, <1>5, <1>6, <1>7, <1>8, <1>9, <1>10, <1>11, <1>12,
     <1>13, <1>14, <1>15, <1>16, <1>17, <1>18, <1>19, <1>20, <1>21, <1>22, <1>23,
     <1>24, <1>25, <1>26, UninstallStep, SaveStep, RemoveFilesStep, RemoveTreeStep
     DEF Next, Command, Step

\* A fresh home, or one that earlier commands left, satisfies the invariant.
LEMMA InductiveInit == Init => IInv
<1> SUFFICES ASSUME Init PROVE IInv
  OBVIOUS
<1> USE DEF Init
<1>1. TypeOK
  BY EmptyReadable, StoreAssumption, SdkAssumption DEF TypeOK, Phase, Tree
<1>2. LockInv
  BY StoreAssumption DEF LockInv, Writing
<1>3. JobInv /\ PendingInv /\ RemovalInv
  BY DEF JobInv, PendingInv, RemovalInv
<1>4. RegistryReadable /\ RegistryNamesWholeTrees
  BY EmptyReadable DEF RegistryReadable, RegistryNamesWholeTrees, EmptyRegistry
<1> QED  BY <1>1, <1>2, <1>3, <1>4 DEF IInv

(* The state of every process and of the disk is well typed, whatever the  *)
(* number of processes, requests and builds.                               *)
THEOREM StoreInvariant == Spec => []IInv
BY InductiveInit, InductiveStep, PTL DEF Spec

\* Registry, files, locks and the local state of every command keep their types.
THEOREM StoreTypeOK == Spec => []TypeOK
<1>1. IInv => TypeOK
  BY DEF IInv
<1> QED  BY <1>1, StoreInvariant, PTL

(* The registry on disk never names a managed SDK without its complete     *)
(* tree, nor any installation without its lease file, whatever crashes.    *)
THEOREM StoreNamesWholeTrees == Spec => []RegistryNamesWholeTrees
<1>1. IInv => RegistryNamesWholeTrees
  BY DEF IInv
<1> QED  BY <1>1, StoreInvariant, PTL

(* The registry on disk is always accepted by read().                      *)
THEOREM StoreReadable == Spec => []RegistryReadable
<1>1. IInv => RegistryReadable
  BY DEF IInv
<1> QED  BY <1>1, StoreInvariant, PTL

-----------------------------------------------------------------------------
(* Refinement: only Save changes the registry, by the pending command.     *)
LEMMA RegistryStep ==
    ASSUME IInv, [Next]_vars
    PROVE  registry' = registry \/ Change(registry, registry')
<1> USE DEF Stage, files
<1>1. ASSUME NEW p \in Proc, Save(p)  PROVE Change(registry, registry')
  BY <1>1 DEF Save, IInv, PendingInv
<1>2. ASSUME NEW p \in Proc, Step(p), ~ Save(p)  PROVE registry' = registry
  BY <1>2 DEF Step, InstallLock, InstallLookup, InstallBound, Repin, RepinChanged,
              InstallOffline, Catalog, Reuse, Commit, Publish, InstallReject,
              RemoveFiles, RemoveTree, ExecRead, ExecSelect, ExecLease, ExecProbe,
              ExecStart, ExecReject
<1>3. ASSUME NEW p \in Proc, Command(p)  PROVE registry' = registry
  BY <1>3 DEF Command, InstallStart, Update, Register, SetPin, SetDefault,
              ClearDefault, Uninstall, ExecLock
<1>4. ASSUME NEW p \in Proc, ProbeEnd(p) \/ ExecEnd(p) \/ Crash(p)
      PROVE  registry' = registry
  BY <1>4 DEF ProbeEnd, ExecEnd, Crash
<1>5. ASSUME NEW i \in Id, ExternalHome(i)  PROVE registry' = registry
  BY <1>5 DEF ExternalHome
<1>6. CASE UNCHANGED vars
  BY <1>6 DEF vars
<1> QED  BY <1>1, <1>2, <1>3, <1>4, <1>5, <1>6 DEF Next

\* The instance computes the same values from one snapshot.
LEMMA SameQueries ==
    ASSUME NEW reg
    PROVE  /\ \A r : Abstract!Selected(reg, r) = Selected(reg, r)
           /\ \A d : Abstract!DefaultInstallation(reg, d) = DefaultInstallation(reg, d)
           /\ \A i : Abstract!IsDefault(reg, i) = IsDefault(reg, i)
           /\ \A k : Abstract!DefaultAtKey(reg, k) = DefaultAtKey(reg, k)
BY DEF Abstract!Selected, Selected, Abstract!DefaultInstallation, DefaultInstallation,
       Abstract!IsDefault, IsDefault, Abstract!DefaultAtKey, DefaultAtKey,
       Abstract!ResolveRequest, ResolveRequest, Abstract!SelectionOf, SelectionOf,
       Abstract!Newest, Newest

\* ... and the same new registries.
LEMMA SameUpdates ==
    ASSUME NEW reg
    PROVE  /\ \A r, b : Abstract!SetPinned(reg, r, b) = SetPinned(reg, r, b)
           /\ \A r, i, b : Abstract!Bind(reg, r, i, b) = Bind(reg, r, i, b)
           /\ \A i : Abstract!AddInstallation(reg, i) = AddInstallation(reg, i)
           /\ \A d : Abstract!InsertDefault(reg, d) = InsertDefault(reg, d)
           /\ \A k : Abstract!RemoveDefault(reg, k) = RemoveDefault(reg, k)
           /\ \A i : Abstract!Forget(reg, i) = Forget(reg, i)
BY DEF Abstract!SetPinned, SetPinned, Abstract!Bind, Bind, Abstract!AddInstallation,
       AddInstallation, Abstract!InsertDefault, InsertDefault,
       Abstract!RemoveDefault, RemoveDefault, Abstract!Forget, Forget

\* A change of the model is a command of the abstract registry.
LEMMA ChangeIsCommand == Change(registry, registry') => Abstract!Next
BY SameQueries, SameUpdates
   DEF Change, Abstract!Next, Abstract!SetPin, Abstract!BindInstalled,
       Abstract!AddAndBind, Abstract!SetDefault, Abstract!ClearDefault,
       Abstract!Uninstall, Abstract!DefaultSelection, DefaultSelection

(* Crashes, stale reads and interleavings included, the registry file      *)
(* behaves like the atomic registry: no command's update is lost.          *)
THEOREM StoreRefinesRegistry == Spec => RefinesRegistry
<1>1. Init => Abstract!Init
  BY DEF Init, Abstract!Init, Abstract!EmptyRegistry, EmptyRegistry
<1>2. IInv /\ [Next]_vars => [Abstract!Next]_(Abstract!vars)
  BY RegistryStep, ChangeIsCommand DEF Abstract!vars
<1> QED
  BY <1>1, <1>2, StoreInvariant, PTL DEF Spec, RefinesRegistry, Abstract!Spec

-----------------------------------------------------------------------------
(* What the abstract registry promises by itself.                          *)
RegistryInv == registry \in Registry /\ Readable(registry)

\* Every command is one of the changes SdkModelProofs speaks of.
LEMMA CommandIsChange == Abstract!Next => Change(registry, registry')
BY SameQueries, SameUpdates
   DEF Change, Abstract!Next, Abstract!SetPin, Abstract!BindInstalled,
       Abstract!AddAndBind, Abstract!SetDefault, Abstract!ClearDefault,
       Abstract!Uninstall, Abstract!DefaultSelection, DefaultSelection

\* Readability is inductive: every change keeps it.
LEMMA RegistryInvStep ==
    RegistryInv /\ [Abstract!Next]_(Abstract!vars) => RegistryInv'
BY CommandIsChange, ChangeReadable DEF RegistryInv, Abstract!vars

\* The registry is well typed and accepted by read() in every state.
THEOREM RegistryInvariant == Abstract!Spec => []RegistryInv
<1>1. Abstract!Init => RegistryInv
  BY EmptyReadable
     DEF Abstract!Init, Abstract!EmptyRegistry, EmptyRegistry, RegistryInv
<1> QED  BY <1>1, RegistryInvStep, PTL DEF Abstract!Spec

(* Every registry that the commands of state.rs can publish is accepted by *)
(* read(), for any requests, builds and default slots.                     *)
THEOREM AlwaysReadable == Abstract!Spec => []RegistryReadable
<1>1. RegistryInv => RegistryReadable
  BY DEF RegistryInv, RegistryReadable
<1> QED  BY <1>1, RegistryInvariant, PTL

(* uninstall leaves every default slot resolved to the same installation.  *)
THEOREM UninstallSafe == Abstract!Spec => UninstallKeepsDefaults
<1> DEFINE Kept ==
             \A i \in registry.installations :
                ~ IsDefault(registry, i) /\ registry' = Forget(registry, i) =>
                    \A k \in Key : DefaultAtKey(registry', k) = DefaultAtKey(registry, k)
<1>1. ASSUME RegistryInv, NEW i \in registry.installations, ~ IsDefault(registry, i),
             registry' = Forget(registry, i), NEW k \in Key
      PROVE  DefaultAtKey(registry', k) = DefaultAtKey(registry, k)
  <2>0. i \in Id
    BY <1>1 DEF RegistryInv, Registry
  <2>1. CASE k \in DOMAIN registry.defaults
    BY <1>1, <2>0, <2>1, ForgetKeepsDefaults DEF RegistryInv
  <2>2. CASE k \notin DOMAIN registry.defaults
    BY <1>1, <2>2 DEF DefaultAtKey, Forget, RegistryInv, Registry
  <2> QED  BY <2>1, <2>2
<1>2. RegistryInv => Kept
  BY <1>1
<1>3. RegistryInv /\ [Abstract!Next]_(Abstract!vars) => [Kept]_registry
  BY <1>2
<1> HIDE DEF Kept
<1>4. Abstract!Spec => [][Kept]_registry
  BY <1>3, RegistryInvariant, PTL DEF Abstract!Spec
<1> QED  BY <1>4 DEF UninstallKeepsDefaults, Kept

(* And so does it under any interleaving of processes and crashes: a save  *)
(* that removes an installation moves no default.                          *)
THEOREM StoreUninstallSafe == Spec => UninstallKeepsDefaults
BY StoreRefinesRegistry, UninstallSafe, PTL DEF RefinesRegistry

-----------------------------------------------------------------------------
(* Leases, in a home whose lock file exists.                               *)
Selecting == {"execRead", "execSelect", "execLease", "probe"}

\* Executions select under the shared lock, from the registry on disk, and
\* nothing that is leased leaves the registry, now or at the pending save.
LeaseInv ==
    /\ lockFile
    /\ \A p \in Proc :
        /\ pc[p] \in Selecting => p \in lockSh
        /\ pc[p] \in {"execSelect", "execLease", "probe"} => snap[p] = registry
        /\ pc[p] = "execLease" => inst[p] \in registry.installations
        /\ leased[p] \subseteq registry.installations
    /\ \A p, q \in Proc : pc[q] = "save" => leased[p] \subseteq snap[q].installations

\* Steps that change neither the registry nor what is pending.
LEMMA LeaseKept ==
    ASSUME IInv, LeaseInv, NEW p \in Proc, lockFile' = TRUE, registry' = registry,
           pc' = [pc EXCEPT ![p] = pc'[p]], pc'[p] \notin Selecting \cup {"save"},
           \A q \in Proc \ {p} : snap'[q] = snap[q] /\ inst'[q] = inst[q],
           \A q \in Proc \ {p} : q \in lockSh => q \in lockSh',
           \A q \in Proc : leased'[q] \subseteq leased[q]
    PROVE  LeaseInv'
<1>1. \A q \in Proc \ {p} : pc'[q] = pc[q]
  BY DEF IInv, TypeOK
<1>2. SUFFICES ASSUME NEW q \in Proc
               PROVE  /\ pc'[q] \in Selecting => q \in lockSh'
                      /\ pc'[q] \in {"execSelect", "execLease", "probe"} => snap'[q] = registry'
                      /\ pc'[q] = "execLease" => inst'[q] \in registry'.installations
                      /\ leased'[q] \subseteq registry'.installations
                      /\ \A o \in Proc : pc'[q] = "save" =>
                            leased'[o] \subseteq snap'[q].installations
  BY DEF LeaseInv
<1>3. CASE q = p
  BY <1>3 DEF LeaseInv, Selecting
<1>4. CASE q # p
  BY <1>1, <1>4 DEF LeaseInv, Selecting
<1> QED  BY <1>3, <1>4

\* A command that ends, or stops, drops at most its own leases.
LEMMA LeaseReturn ==
    ASSUME IInv, LeaseInv, NEW p \in Proc, Return(p), registry' = registry,
           lockFile' \in {lockFile, TRUE}
    PROVE  LeaseInv'
<1>1. lockFile' = TRUE
  BY DEF LeaseInv
<1>2. pc' = [pc EXCEPT ![p] = pc'[p]] /\ pc'[p] = "idle"
  BY DEF Return, Goto, IInv, TypeOK
<1>3. \A q \in Proc \ {p} : snap'[q] = snap[q] /\ inst'[q] = inst[q]
  BY DEF Return, IInv, TypeOK
<1>4. \A q \in Proc : leased'[q] \subseteq leased[q]
  BY DEF Return, IInv, TypeOK
<1>5. \A q \in Proc \ {p} : q \in lockSh => q \in lockSh'
  BY DEF Return
<1> QED  BY <1>1, <1>2, <1>3, <1>4, <1>5, LeaseKept DEF Selecting

\* A staged registry keeps every leased installation.
LEMMA LeaseStage ==
    ASSUME IInv, LeaseInv, NEW p \in Proc, NEW next, Stage(p, next),
           (lockEx = NoProc /\ lockSh = {}) \/ lockEx = p,
           lockFile' = TRUE, inst' = inst, leased' = leased,
           \A o \in Proc : leased[o] \subseteq next.installations
    PROVE  LeaseInv'
<1>1. /\ registry' = registry /\ lockSh' = lockSh
      /\ pc'[p] = "save" /\ snap'[p] = next
      /\ \A q \in Proc \ {p} : pc'[q] = pc[q] /\ snap'[q] = snap[q]
  BY DEF Stage, Goto, IInv, TypeOK
<1> QED  BY <1>1 DEF LeaseInv, Selecting

\* A leased build stays registered, so no step removes a file of its tree.
LEMMA LeaseStep ==
    ASSUME IInv, LeaseInv, [Next]_vars
    PROVE  LeaseInv'
<1>t. TypeOK /\ JobInv /\ registry \in Registry /\ lockFile
  BY DEF IInv, TypeOK, LeaseInv
<1>g. \A o \in Proc : leased[o] \subseteq registry.installations
  BY DEF LeaseInv
<1>1. ASSUME NEW p \in Proc, NEW r \in Req, NEW b \in BOOLEAN, InstallStart(p, r, b)
      PROVE  LeaseInv'
  BY <1>1, <1>t, LeaseKept
     DEF InstallStart, Goto, TypeOK, files, lock, leases, Selecting
<1>2. ASSUME NEW p \in Proc, InstallLock(p)  PROVE LeaseInv'
  BY <1>2, <1>t, LeaseKept
     DEF InstallLock, LockShared, Goto, TypeOK, leases, job, Selecting
<1>3. ASSUME NEW p \in Proc, InstallLookup(p)  PROVE LeaseInv'
  <2>1. PICK phase \in {"repin", "offline", "catalog"} : Goto(p, phase)
    BY <1>3 DEF InstallLookup
  <2> QED
    BY <1>3, <1>t, <2>1, LeaseKept
       DEF InstallLookup, Goto, TypeOK, files, leases, Selecting
<1>4. ASSUME NEW p \in Proc, InstallBound(p) \/ RepinChanged(p) \/ InstallReject(p)
      PROVE  LeaseInv'
  BY <1>4, LeaseReturn
     DEF InstallBound, RepinChanged, InstallReject, LockExclusive, files
<1>5. ASSUME NEW p \in Proc, Repin(p)  PROVE LeaseInv'
  <2>1. SetPinned(registry, req[p], TRUE).installations = registry.installations
    BY <1>t DEF SetPinned, Registry
  <2> QED
    BY <1>5, <1>g, <2>1, LeaseStage DEF Repin, LockExclusive, leases, job
<1>6. ASSUME NEW p \in Proc, NEW i, Stage(p, Bind(registry, req[p], i, pin[p])),
             LockExclusive(p), UNCHANGED <<leases, job>>
      PROVE  LeaseInv'
  <2>1. Bind(registry, req[p], i, pin[p]).installations = registry.installations
    BY <1>t DEF Bind, Registry
  <2> QED
    BY <1>6, <1>g, <2>1, LeaseStage DEF LockExclusive, leases, job
<1>7. ASSUME NEW p \in Proc, InstallOffline(p)  PROVE LeaseInv'
  BY <1>6, <1>7 DEF InstallOffline
<1>8. ASSUME NEW p \in Proc, NEW i \in Id, Catalog(p, i)  PROVE LeaseInv'
  <2>1. PICK phase \in {"reuse", "commit"} : Goto(p, phase)
    BY <1>8 DEF Catalog
  <2> QED
    BY <1>8, <1>t, <2>1, LeaseKept
       DEF Catalog, Goto, TypeOK, files, lock, leases, Selecting
<1>9. ASSUME NEW p \in Proc, Reuse(p)  PROVE LeaseInv'
  <2>1. CASE inst[p] \in registry.installations
    BY <1>6, <1>9, <2>1 DEF Reuse
  <2>2. CASE inst[p] \notin registry.installations
    BY <1>9, <1>t, <2>2, LeaseKept
       DEF Reuse, Goto, LockExclusive, TypeOK, lock, leases, job, Selecting
  <2> QED  BY <2>1, <2>2
<1>10. ASSUME NEW p \in Proc, Commit(p)  PROVE LeaseInv'
  <2>1. CASE inst[p] \in registry.installations
    BY <1>6, <1>10, <2>1 DEF Commit
  <2>2. CASE inst[p] \notin registry.installations
    BY <1>10, <1>t, <2>2, LeaseKept
       DEF Commit, Goto, LockExclusive, TypeOK, leases, job, Selecting
  <2> QED  BY <2>1, <2>2
<1>11. ASSUME NEW p \in Proc, NEW r, NEW i, NEW b,
              Stage(p, Bind(AddInstallation(registry, i), r, i, b)),
              (lockEx = NoProc /\ lockSh = {}) \/ lockEx = p,
              lockFile' = TRUE, UNCHANGED <<leases, job>>
       PROVE  LeaseInv'
  <2> DEFINE next == Bind(AddInstallation(registry, i), r, i, b)
  <2>1. next.installations = registry.installations \cup {i}
    BY <1>t DEF Bind, AddInstallation, Registry
  <2> HIDE DEF next
  <2> QED  BY <1>11, <1>g, <2>1, LeaseStage DEF leases, job, next
<1>12. ASSUME NEW p \in Proc, Publish(p)  PROVE LeaseInv'
  <2>1. lockEx = p
    BY <1>12 DEF IInv, LockInv, Writing, Publish
  <2> QED  BY <1>11, <1>12, <1>t, <2>1 DEF Publish
<1>13. ASSUME NEW p \in Proc, NEW r \in Req, Update(p, r)  PROVE LeaseInv'
  BY <1>13, <1>t, LeaseKept DEF Update, Goto, TypeOK, files, lock, leases, Selecting
<1>14. ASSUME NEW p \in Proc, NEW r \in Req, NEW i \in Id, Register(p, r, i)
       PROVE  LeaseInv'
  BY <1>11, <1>14 DEF Register, LockExclusive
<1>15. ASSUME NEW p \in Proc, NEW r \in Req, NEW b \in BOOLEAN, SetPin(p, r, b)
       PROVE  LeaseInv'
  <2>1. SetPinned(registry, r, b).installations = registry.installations
    BY <1>t DEF SetPinned, Registry
  <2> QED
    BY <1>15, <1>g, <2>1, LeaseStage DEF SetPin, LockExclusive, leases, job
<1>16. ASSUME NEW p \in Proc, NEW t \in Target, SetDefault(p, t)  PROVE LeaseInv'
  <2>1. PICK d : Stage(p, InsertDefault(registry, d))
    BY <1>16 DEF SetDefault
  <2>2. InsertDefault(registry, d).installations = registry.installations
    BY <1>t DEF InsertDefault, Registry
  <2> QED
    BY <1>16, <1>g, <2>1, <2>2, LeaseStage DEF SetDefault, LockExclusive, leases, job
<1>17. ASSUME NEW p \in Proc, NEW k \in Key, ClearDefault(p, k)  PROVE LeaseInv'
  <2>1. RemoveDefault(registry, k).installations = registry.installations
    BY <1>t DEF RemoveDefault, Registry
  <2> QED
    BY <1>17, <1>g, <2>1, LeaseStage DEF ClearDefault, LockExclusive, leases, job
<1>18. ASSUME NEW p \in Proc, NEW t \in Target, Uninstall(p, t)  PROVE LeaseInv'
  <2> DEFINE i == UninstallTarget(registry, t)
  <2>1. Stage(p, Forget(registry, i)) /\ LeaseFree(i)
    BY <1>18 DEF Uninstall
  <2>2. Forget(registry, i).installations = registry.installations \ {i}
    BY <1>t DEF Forget, Registry
  <2>3. \A o \in Proc : leased[o] \subseteq Forget(registry, i).installations
    BY <1>g, <2>1, <2>2 DEF LeaseFree
  <2> QED
    BY <1>18, <2>1, <2>3, LeaseStage DEF Uninstall, LockExclusive, job
<1>19. ASSUME NEW p \in Proc, Save(p)  PROVE LeaseInv'
  <2>1. /\ lockEx = p /\ lockSh = {} /\ pc[p] = "save" /\ registry' = snap[p]
        /\ \A q \in Proc \ {p} : pc[q] \notin Writing
    BY <1>19, StoreAssumption DEF Save, IInv, LockInv, Writing
  <2>2. \A q \in Proc : pc[q] \notin Selecting
    BY <2>1 DEF LeaseInv
  <2>3. \A o \in Proc : leased[o] \subseteq registry'.installations
    BY <2>1 DEF LeaseInv
  <2>4. /\ pc'[p] \in {"remove", "idle"} /\ \A q \in Proc \ {p} : pc'[q] = pc[q]
        /\ \A o \in Proc : leased'[o] \subseteq leased[o]
        /\ lockFile' = lockFile
    BY <1>19, <1>t DEF Save, Goto, Return, TypeOK, leases, files
  <2> QED  BY <1>t, <2>1, <2>2, <2>3, <2>4 DEF LeaseInv, Selecting, Writing
<1>20. ASSUME NEW p \in Proc, RemoveFiles(p)  PROVE LeaseInv'
  BY <1>20, <1>t, LeaseKept DEF RemoveFiles, Goto, TypeOK, lock, leases, job, Selecting
<1>21. ASSUME NEW p \in Proc, RemoveTree(p)  PROVE LeaseInv'
  BY <1>21, LeaseReturn DEF RemoveTree
<1>22. ASSUME NEW p \in Proc, ExecLock(p)  PROVE LeaseInv'
  <2>1. pc'[p] = "execRead" /\ \A q \in Proc \ {p} : pc'[q] = pc[q]
    BY <1>22, <1>t DEF ExecLock, Goto, TypeOK
  <2>2. lockSh' = lockSh \cup {p} /\ lockFile' = lockFile
        /\ UNCHANGED <<registry, snap, inst, leased>>
    BY <1>22, <1>t DEF ExecLock, LockShared, leases, job
  <2> QED  BY <2>1, <2>2 DEF LeaseInv, Selecting
<1>23. ASSUME NEW p \in Proc, ExecRead(p)  PROVE LeaseInv'
  <2>1. /\ pc[p] = "execRead" /\ pc'[p] = "execSelect" /\ snap'[p] = registry
        /\ \A q \in Proc \ {p} : pc'[q] = pc[q] /\ snap'[q] = snap[q]
    BY <1>23, <1>t DEF ExecRead, Goto, TypeOK
  <2>2. UNCHANGED <<registry, lockFile, lockSh, inst, leased>>
    BY <1>23 DEF ExecRead, files, lock, leases, job
  <2> QED  BY <2>1, <2>2 DEF LeaseInv, Selecting
<1>24. ASSUME NEW p \in Proc, NEW i \in Id, ExecSelect(p, i)  PROVE LeaseInv'
  <2>1. /\ pc[p] = "execSelect" /\ pc'[p] = "execLease" /\ inst'[p] = i
        /\ i \in snap[p].installations
        /\ \A q \in Proc \ {p} : pc'[q] = pc[q] /\ inst'[q] = inst[q]
    BY <1>24, <1>t DEF ExecSelect, Goto, TypeOK
  <2>2. UNCHANGED <<registry, lockFile, lockSh, snap, leased>>
    BY <1>24 DEF ExecSelect, files, lock, leases
  <2> QED  BY <2>1, <2>2 DEF LeaseInv, Selecting
<1>25. ASSUME NEW p \in Proc, ExecLease(p)  PROVE LeaseInv'
  <2>1. /\ pc[p] = "execLease" /\ pc'[p] = "execSelect"
        /\ leased'[p] = leased[p] \cup {inst[p]}
        /\ \A q \in Proc \ {p} : pc'[q] = pc[q] /\ inst'[q] = inst[q]
                                 /\ leased'[q] = leased[q]
    BY <1>25, <1>t DEF ExecLease, Goto, TypeOK
  <2>2. UNCHANGED <<registry, lockFile, lockSh, snap>>
    BY <1>25 DEF ExecLease, files, lock
  <2>3. inst[p] \in registry.installations /\ p \in lockSh
    BY <2>1 DEF LeaseInv, Selecting
  <2>4. \A q \in Proc : pc[q] # "save"
    BY <2>3, StoreAssumption DEF IInv, LockInv, Writing
  <2> QED  BY <2>1, <2>2, <2>3, <2>4 DEF LeaseInv, Selecting
<1>26. ASSUME NEW p \in Proc, ExecStart(p)  PROVE LeaseInv'
  BY <1>26, <1>t, LeaseKept DEF ExecStart, Goto, TypeOK, files, leases, job, Selecting
<1>27. ASSUME NEW p \in Proc, ExecReject(p) \/ ExecEnd(p) \/ Crash(p)  PROVE LeaseInv'
  BY <1>27, LeaseReturn DEF ExecReject, ExecEnd, Crash, files
<1>30. ASSUME NEW p \in Proc, ExecProbe(p) \/ ProbeEnd(p)  PROVE LeaseInv'
  <2>1. /\ pc[p] \in {"execSelect", "probe"} /\ pc'[p] \in {"execSelect", "probe"}
        /\ \A q \in Proc \ {p} : pc'[q] = pc[q]
    BY <1>30, <1>t DEF ExecProbe, ProbeEnd, Goto, TypeOK
  <2>2. UNCHANGED <<registry, lockFile, lockSh, snap, inst, leased>>
    BY <1>30 DEF ExecProbe, ProbeEnd, files, lock, leases, job
  <2> QED  BY <2>1, <2>2 DEF LeaseInv, Selecting
<1>28. ASSUME NEW i \in Id, ExternalHome(i)  PROVE LeaseInv'
  BY <1>28 DEF ExternalHome, LeaseInv, lock, leases, job
<1>29. CASE UNCHANGED vars
  BY <1>29 DEF vars, LeaseInv
<1> QED
  BY <1>1, <1>2, <1>3, <1>4, <1>5, <1>7, <1>8, <1>9, <1>10, <1>12, <1>13, <1>14,
     <1>15, <1>16, <1>17, <1>18, <1>19, <1>20, <1>21, <1>22, <1>23, <1>24, <1>25,
     <1>26, <1>27, <1>28, <1>29, <1>30 DEF Next, Command, Step

(* In a home that has been used before, no SDK tree is removed under a     *)
(* child process, or the probe of a Java, for which it is leased.          *)
THEOREM LeasesProtect == ASSUME ~ FreshHome PROVE Spec => []LeasedTreesWhole
<1>1. Init => LeaseInv
  BY DEF Init, LeaseInv, Selecting
<1>2. IInv /\ LeaseInv /\ [Next]_vars => LeaseInv'
  BY LeaseStep
<1>3. IInv /\ LeaseInv => LeasedTreesWhole
  BY DEF IInv, LeaseInv, LeasedTreesWhole, RegistryNamesWholeTrees
<1> QED  BY <1>1, <1>2, <1>3, StoreInvariant, PTL DEF Spec

-----------------------------------------------------------------------------
(* Without a lock file.                                                    *)

\* A lease is shared by executions or held by one uninstall, and a tree is
\* published where there is none.
ExclusiveInv ==
    /\ \A p, q \in Proc : removing[q] # NoId => removing[q] \notin leased[p]
    /\ \A p \in Proc : pc[p] = "publish" => tree[inst[p]] = "absent"

\* Steps other than uninstall and the taking of a lease take none.
LEMMA LeasesShrink ==
    ASSUME IInv, [Next]_vars,
           ~ \E p \in Proc, t \in Target : Uninstall(p, t),
           ~ \E p \in Proc : ExecLease(p)
    PROVE  \A q \in Proc : leased'[q] \subseteq leased[q]
                           /\ removing'[q] \in {removing[q], NoId}
<1> USE DEF IInv, TypeOK, leases
<1>1. ASSUME NEW p \in Proc, Return(p)
      PROVE  \A q \in Proc : leased'[q] \subseteq leased[q]
                             /\ removing'[q] \in {removing[q], NoId}
  BY <1>1 DEF Return
<1>2. ASSUME NEW p \in Proc, Step(p)  PROVE Return(p) \/ UNCHANGED leases
  BY <1>2 DEF Step, InstallLock, InstallLookup, InstallBound, Repin, RepinChanged,
              InstallOffline, Catalog, Reuse, Commit, Publish, InstallReject, Save,
              RemoveFiles, RemoveTree, ExecRead, ExecSelect, ExecProbe, ExecStart,
              ExecReject
<1>3. ASSUME NEW p \in Proc, Command(p)  PROVE UNCHANGED leases
  BY <1>3 DEF Command, InstallStart, Update, Register, SetPin, SetDefault,
              ClearDefault, ExecLock
<1>4. ASSUME NEW p \in Proc, ProbeEnd(p) \/ ExecEnd(p) \/ Crash(p)
      PROVE  Return(p) \/ UNCHANGED leases
  BY <1>4 DEF ProbeEnd, ExecEnd, Crash
<1>5. CASE UNCHANGED leases
  BY <1>5
<1> QED
  BY <1>1, <1>2, <1>3, <1>4, <1>5 DEF Next, ExternalHome, vars

\* Trees change by publication, removal, and the owners of external homes.
LEMMA TreeChangers ==
    ASSUME Next
    PROVE  \/ UNCHANGED tree
           \/ \E p \in Proc : Publish(p) \/ RemoveFiles(p) \/ RemoveTree(p)
           \/ \E i \in Id : ExternalHome(i)
<1>1. ASSUME NEW p \in Proc, Step(p)
      PROVE  UNCHANGED tree \/ Publish(p) \/ RemoveFiles(p) \/ RemoveTree(p)
  BY <1>1 DEF Step, InstallLock, InstallLookup, InstallBound, Repin, RepinChanged,
              InstallOffline, Catalog, Reuse, Commit, InstallReject, Save, ExecRead,
              ExecSelect, ExecLease, ExecProbe, ExecStart, ExecReject, files
<1>2. ASSUME NEW p \in Proc, Command(p)  PROVE UNCHANGED tree
  BY <1>2 DEF Command, InstallStart, Update, Register, SetPin, SetDefault,
              ClearDefault, Uninstall, ExecLock, files
<1>3. ASSUME NEW p \in Proc, ProbeEnd(p) \/ ExecEnd(p) \/ Crash(p)  PROVE UNCHANGED tree
  BY <1>3 DEF ProbeEnd, ExecEnd, Crash, files
<1> QED  BY <1>1, <1>2, <1>3 DEF Next

\* Only Commit, on finding no tree, goes on to publish one.
LEMMA OnlyCommitPublishes ==
    ASSUME IInv, [Next]_vars, NEW p \in Proc, pc'[p] = "publish"
    PROVE  \/ pc[p] = "publish" /\ inst'[p] = inst[p]
           \/ tree[inst[p]] = "absent" /\ UNCHANGED <<tree, inst>>
<1> DEFINE Goal == \/ pc[p] = "publish" /\ inst'[p] = inst[p]
                   \/ tree[inst[p]] = "absent" /\ UNCHANGED <<tree, inst>>
<1> USE DEF IInv, TypeOK
<1>1. ASSUME NEW q \in Proc, Return(q)  PROVE Goal
  BY <1>1 DEF Return, Goto
<1>2. ASSUME NEW q \in Proc, Commit(q)  PROVE Goal
  BY <1>2 DEF Commit, Stage, Goto, job
<1>3. ASSUME NEW q \in Proc, NEW phase \in Phase \ {"publish"}, Goto(q, phase),
             \A o \in Proc \ {q} : inst'[o] = inst[o]
      PROVE  Goal
  BY <1>3 DEF Goto
<1>4. ASSUME NEW q \in Proc, Step(q)  PROVE Goal
  <2>1. CASE Commit(q)
    BY <1>2, <2>1
  <2>2. CASE Step(q) /\ ~ Commit(q)
    <3>1. Return(q) \/ \A o \in Proc \ {q} : inst'[o] = inst[o]
      BY <2>2 DEF Step, InstallLock, InstallLookup, InstallBound, Repin, RepinChanged,
              InstallOffline, Catalog, Reuse, Publish, InstallReject, Save,
              RemoveFiles, RemoveTree, ExecRead, ExecSelect, ExecLease, ExecProbe,
              ExecStart, ExecReject, job
    <3>2. Return(q) \/ \E phase \in Phase \ {"publish"} : Goto(q, phase)
      BY <2>2 DEF Step, InstallLock, InstallLookup, InstallBound, Repin, RepinChanged,
              InstallOffline, Catalog, Reuse, Publish, InstallReject, Save,
              RemoveFiles, RemoveTree, ExecRead, ExecSelect, ExecLease, ExecProbe,
              ExecStart, ExecReject, Stage, Phase
    <3> QED  BY <1>1, <1>3, <3>1, <3>2
  <2> QED  BY <1>4, <2>1, <2>2
<1>5. ASSUME NEW q \in Proc, Command(q)  PROVE Goal
  <2>1. inst' = inst
    BY <1>5 DEF Command, InstallStart, Update, Register, SetPin, SetDefault,
              ClearDefault, Uninstall, ExecLock, job
  <2>2. \E phase \in Phase \ {"publish"} : Goto(q, phase)
    BY <1>5 DEF Command, InstallStart, Update, Register, SetPin, SetDefault,
              ClearDefault, Uninstall, ExecLock, Stage, Phase
  <2> QED  BY <1>3, <2>1, <2>2
<1>6. ASSUME NEW q \in Proc, ProbeEnd(q) \/ ExecEnd(q) \/ Crash(q)  PROVE Goal
  <2>1. CASE ProbeEnd(q)
    BY <1>3, <2>1 DEF ProbeEnd, Phase, job
  <2> QED  BY <1>1, <1>6, <2>1 DEF ExecEnd, Crash
<1>7. CASE UNCHANGED <<pc, inst>>
  BY <1>7
<1> QED
  BY <1>4, <1>5, <1>6, <1>7 DEF Next, ExternalHome, vars, job

\* The exclusive lock keeps a place for a tree free, leases keep trees.
LEMMA ExclusiveStep ==
    ASSUME IInv, ExclusiveInv, [Next]_vars
    PROVE  ExclusiveInv'
<1>1. \A p, q \in Proc : removing'[q] # NoId => removing'[q] \notin leased'[p]
  <2>1. ASSUME NEW p \in Proc, NEW t \in Target, Uninstall(p, t)
        PROVE  \A o, q \in Proc : removing'[q] # NoId => removing'[q] \notin leased'[o]
    BY <2>1 DEF Uninstall, LeaseFree, ExclusiveInv, IInv, TypeOK
  <2>2. ASSUME NEW p \in Proc, ExecLease(p)
        PROVE  \A o, q \in Proc : removing'[q] # NoId => removing'[q] \notin leased'[o]
    BY <2>2 DEF ExecLease, ExclusiveInv, IInv, TypeOK
  <2>3. CASE /\ ~ \E p \in Proc, t \in Target : Uninstall(p, t)
             /\ ~ \E p \in Proc : ExecLease(p)
    BY <2>3, LeasesShrink DEF ExclusiveInv
  <2> QED  BY <2>1, <2>2, <2>3
<1>2. ASSUME NEW p \in Proc, pc'[p] = "publish"  PROVE tree'[inst'[p]] = "absent"
  <2>1. CASE tree[inst[p]] = "absent" /\ UNCHANGED <<tree, inst>>
    BY <2>1
  <2>2. CASE pc[p] = "publish" /\ inst'[p] = inst[p]
    <3>1. tree[inst[p]] = "absent" /\ inst[p] \in Managed /\ lockEx = p
      BY <2>2 DEF ExclusiveInv, IInv, JobInv, LockInv, Writing
    <3>2. ASSUME NEW q \in Proc, Publish(q) \/ RemoveFiles(q) \/ RemoveTree(q)
          PROVE  FALSE
      <4>1. q = p
        BY <3>1, <3>2 DEF IInv, LockInv, Writing, Publish, RemoveFiles, RemoveTree
      <4> QED
        BY <1>2, <2>2, <3>2, <4>1 DEF Publish, RemoveFiles, RemoveTree, Stage, Goto, IInv, TypeOK
    <3>3. ASSUME NEW i \in Id, ExternalHome(i)  PROVE tree'[inst[p]] = tree[inst[p]]
      BY <3>1, <3>3, SdkAssumption DEF ExternalHome, IInv, TypeOK
    <3>4. tree'[inst[p]] = tree[inst[p]]
      BY <3>2, <3>3, TreeChangers DEF vars
    <3> QED  BY <2>2, <3>1, <3>4
  <2> QED  BY <1>2, <2>1, <2>2, OnlyCommitPublishes
<1> QED  BY <1>1, <1>2 DEF ExclusiveInv

(* In every home, also one that is being created while its first commands  *)
(* read without a lock: nothing is ever taken from a managed tree that is   *)
(* leased; where an unlocked reader leased a build that was already gone,   *)
(* an install may bring it back whole.                                     *)
THEOREM LeasedNeverRemoved ==
    Spec => [][ \A p \in Proc : \A i \in leased[p] \cap Managed :
                    \/ tree'[i] = tree[i]
                    \/ tree[i] = "absent" /\ tree'[i] = "whole" ]_vars
<1> DEFINE A == \A p \in Proc : \A i \in leased[p] \cap Managed :
                    \/ tree'[i] = tree[i]
                    \/ tree[i] = "absent" /\ tree'[i] = "whole"
<1>1. Init => ExclusiveInv
  BY DEF Init, ExclusiveInv
<1>2. IInv /\ ExclusiveInv /\ [Next]_vars => ExclusiveInv'
  BY ExclusiveStep
<1>3. IInv /\ ExclusiveInv /\ [Next]_vars => [A]_vars
  <2> SUFFICES ASSUME IInv, ExclusiveInv, Next, NEW p \in Proc, NEW i \in leased[p] \cap Managed
               PROVE  tree'[i] = tree[i] \/ (tree[i] = "absent" /\ tree'[i] = "whole")
    OBVIOUS
  <2>1. ASSUME NEW q \in Proc, Publish(q)
        PROVE  tree'[i] = tree[i] \/ (tree[i] = "absent" /\ tree'[i] = "whole")
    BY <2>1 DEF Publish, ExclusiveInv, IInv, TypeOK
  <2>2. ASSUME NEW q \in Proc, RemoveFiles(q) \/ RemoveTree(q)  PROVE tree'[i] = tree[i]
    <3>1. removing[q] \in Managed /\ removing[q] # NoId
      BY <2>2, SdkAssumption DEF RemoveFiles, RemoveTree, IInv, JobInv
    <3> QED
      BY <2>2, <3>1 DEF RemoveFiles, RemoveTree, ExclusiveInv, IInv, TypeOK
  <2>3. ASSUME NEW j \in Id, ExternalHome(j)  PROVE tree'[i] = tree[i]
    BY <2>3, SdkAssumption DEF ExternalHome, IInv, TypeOK
  <2> QED  BY <2>1, <2>2, <2>3, TreeChangers
<1> QED  BY <1>1, <1>2, <1>3, StoreInvariant, PTL DEF Spec

-----------------------------------------------------------------------------
(* Waiting.                                                                *)

\* p waits for q: for the registry lock, which q holds, or for a lease q
\* holds exclusively.
Waits(p, q) ==
    \/ pc[p] = "installLock" /\ lockFile /\ lockEx = q
    \/ pc[p] \in {"repin", "offline", "reuse", "commit"} /\ (lockEx = q \/ q \in lockSh)
    \/ pc[p] = "execLease" /\ leaseFile[inst[p]] /\ removing[q] = inst[p]

\* The phases in which the shared registry lock may be held.
Reading == {"installLookup"} \cup Selecting

SharedInv == \A q \in lockSh : pc[q] \in Reading

\* A step in which p goes to another phase, and keeps the lock to read only.
LEMMA SharedMove ==
    ASSUME TypeOK, SharedInv, NEW p \in Proc, NEW phase, Goto(p, phase),
           lockSh' \subseteq lockSh \cup {p}, p \in lockSh' => phase \in Reading
    PROVE  SharedInv'
BY DEF SharedInv, Goto, TypeOK

\* Readers drop the shared lock on their way out of the reading phases.
LEMMA SharedStep ==
    ASSUME IInv, SharedInv, [Next]_vars
    PROVE  SharedInv'
<1>t. TypeOK
  BY DEF IInv
<1>0. ASSUME NEW p \in Proc, pc[p] \notin Reading  PROVE p \notin lockSh
  BY <1>0 DEF SharedInv
<1>1. ASSUME NEW p \in Proc, Return(p)  PROVE SharedInv'
  BY <1>t, <1>1, SharedMove DEF Return
<1>2. ASSUME NEW p \in Proc, NEW next, Stage(p, next),
             lockSh = {} \/ pc[p] \notin Reading
      PROVE  SharedInv'
  BY <1>t, <1>0, <1>2, SharedMove DEF Stage
<1>3. ASSUME NEW p \in Proc, Repin(p) \/ InstallOffline(p)  PROVE SharedInv'
  BY <1>2, <1>3 DEF Repin, InstallOffline, LockExclusive
<1>4. ASSUME NEW p \in Proc, Reuse(p) \/ Commit(p)  PROVE SharedInv'
  <2>1. lockSh = {} /\ lockSh' = lockSh
    BY <1>4 DEF Reuse, Commit, LockExclusive, Stage, lock
  <2> QED  BY <2>1 DEF SharedInv
<1>5. ASSUME NEW p \in Proc, Publish(p)  PROVE SharedInv'
  BY <1>2, <1>5 DEF Publish, Reading, Selecting
<1>6. ASSUME NEW p \in Proc, Save(p) \/ RemoveFiles(p)  PROVE SharedInv'
  <2>1. p \notin lockSh
    BY <1>0, <1>6 DEF Save, RemoveFiles, Reading, Selecting
  <2>2. Return(p) \/ (lockSh' = lockSh /\ \E phase \in Phase : Goto(p, phase))
    BY <1>6 DEF Save, RemoveFiles, lock, Phase
  <2> QED  BY <1>t, <1>1, <2>1, <2>2, SharedMove
<1>7. ASSUME NEW p \in Proc, InstallLock(p) \/ ExecLock(p)  PROVE SharedInv'
  BY <1>t, <1>7, SharedMove DEF InstallLock, ExecLock, LockShared, Reading, Selecting
<1>8. ASSUME NEW p \in Proc, InstallLookup(p) \/ ExecStart(p)  PROVE SharedInv'
  BY <1>t, <1>8, SharedMove DEF InstallLookup, ExecStart
<1>9. ASSUME NEW p \in Proc, NEW i \in Id, Catalog(p, i)  PROVE SharedInv'
  <2>1. p \notin lockSh
    BY <1>0, <1>9 DEF Catalog, Reading, Selecting
  <2> QED  BY <1>t, <1>9, <2>1, SharedMove DEF Catalog, lock
<1>10. ASSUME NEW p \in Proc,
              \/ ExecRead(p) \/ ExecLease(p) \/ \E i \in Id : ExecSelect(p, i)
              \/ ExecProbe(p) \/ ProbeEnd(p)
       PROVE  SharedInv'
  BY <1>t, <1>10, SharedMove
     DEF ExecRead, ExecLease, ExecSelect, ExecProbe, ProbeEnd, lock, Reading, Selecting
<1>11. ASSUME NEW p \in Proc, Command(p)  PROVE SharedInv'
  <2>1. CASE ExecLock(p)
    BY <1>7, <2>1
  <2>2. CASE Command(p) /\ ~ ExecLock(p)
    <3>1. pc[p] = "idle" /\ lockSh' = lockSh
      BY <2>2 DEF Command, InstallStart, Update, Register, SetPin, SetDefault,
                  ClearDefault, Uninstall, Stage, lock
    <3>2. \E phase \in Phase : Goto(p, phase)
      BY <2>2 DEF Command, InstallStart, Update, Register, SetPin, SetDefault,
                  ClearDefault, Uninstall, Stage, Phase
    <3> QED  BY <1>t, <1>0, <3>1, <3>2, SharedMove DEF Reading, Selecting
  <2> QED  BY <1>11, <2>1, <2>2
<1>12. ASSUME NEW p \in Proc,
              \/ InstallBound(p) \/ RepinChanged(p) \/ InstallReject(p)
              \/ RemoveTree(p) \/ ExecReject(p) \/ ExecEnd(p) \/ Crash(p)
       PROVE  SharedInv'
  BY <1>1, <1>12 DEF InstallBound, RepinChanged, InstallReject, RemoveTree, ExecReject,
                     ExecEnd, Crash
<1>13. CASE UNCHANGED <<pc, lockSh>>
  BY <1>13 DEF SharedInv
<1> QED
  BY <1>3, <1>4, <1>5, <1>6, <1>7, <1>8, <1>9, <1>10, <1>11, <1>12, <1>13
     DEF Next, Step, ExternalHome, lock, vars

(* Whoever is waited for waits for no other command: no chain of commands  *)
(* waiting for the registry lock and for leases is longer than one, so     *)
(* none closes to a deadlock, in any home, with any number of processes.   *)
(* (A command that probes a Java waits for that program.)                  *)
THEOREM WaitedForNeverWaits ==
    Spec => [](\A p, q, o \in Proc : Waits(p, q) => ~ Waits(q, o))
<1> DEFINE NoChain == \A p, q, o \in Proc : Waits(p, q) => ~ Waits(q, o)
<1>1. Init => SharedInv
  BY DEF Init, SharedInv
<1>2. IInv /\ SharedInv /\ [Next]_vars => SharedInv'
  BY SharedStep
<1>3. IInv /\ SharedInv => NoChain
  <2> SUFFICES ASSUME IInv, SharedInv, NEW p \in Proc, NEW q \in Proc, NEW o \in Proc,
                      Waits(p, q), Waits(q, o)
               PROVE  FALSE
    OBVIOUS
  <2>1. ASSUME NEW r \in Proc, removing[r] # NoId  PROVE lockEx = r
    BY <2>1 DEF IInv, JobInv, LockInv, Writing
  <2>2. CASE lockEx = q
    <3>1. pc[q] \in Writing
      BY <2>2 DEF IInv, LockInv
    <3> QED  BY <3>1 DEF Waits, Writing
  <2>3. CASE q \in lockSh
    <3>1. pc[q] = "execLease" /\ removing[o] = inst[q]
      BY <2>3 DEF SharedInv, Reading, Selecting, Waits, IInv, LockInv
    <3>2. inst[q] # NoId
      BY <3>1, SdkAssumption DEF IInv, JobInv
    <3>3. lockEx = o /\ lockEx # NoProc
      BY <2>1, <3>1, <3>2, StoreAssumption
    <3> QED  BY <2>3, <3>3 DEF IInv, LockInv
  <2>4. CASE pc[p] = "execLease" /\ removing[q] = inst[p]
    <3>1. inst[p] # NoId
      BY <2>4, SdkAssumption DEF IInv, JobInv
    <3> QED  BY <2>1, <2>2, <2>4, <3>1
  <2> QED  BY <2>2, <2>3, <2>4 DEF Waits
<1> QED  BY <1>1, <1>2, <1>3, StoreInvariant, PTL DEF Spec
=============================================================================
