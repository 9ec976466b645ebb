--------------------------- MODULE AppStoreProofs ---------------------------
(***************************************************************************)
(* AppStore implements AppRegistry and its registry always names releases  *)
(* that are there.  Updates move no pinned request, no command goes to     *)
(* another product, and in a home that has been used before nothing        *)
(* happens to an application while it runs.  No process that another one   *)
(* waits for waits itself.  None of this needs repositories that keep what *)
(* they serve.                                                             *)
(***************************************************************************)
EXTENDS AppStore, AppModelProofs

\* The phases in which the exclusive registry lock is held.
Writing == {"link", "save", "saveInstall", "remove"}

\* One writer, and no reader with a lock beside it.
LockInv ==
    /\ lockEx # NoProc => lockFile /\ lockSh = {}
    /\ \A p \in Proc : pc[p] \in Writing <=> lockEx = p

\* i may be named by the registry.
Ready(i) == i \in leaseFile /\ HasArtifact(i)

\* What each phase knows about its request and its release.
JobKnown(p) ==
    /\ pc[p] \in {"installLock", "installLookup", "reselect", "fetch",
                  "commit", "link", "saveInstall"} => req[p] \in Req
    /\ pc[p] \in {"commit", "link", "saveInstall"} => inst[p] \in Served(req[p])
    /\ pc[p] = "link" => HasArtifact(inst[p])
    /\ pc[p] = "execLease" => inst[p] \in Release
    /\ removing[p] # NoId => pc[p] \in {"save", "remove"}
    /\ pc[p] = "remove" => removing[p] \in Release

\* With the lock, an install may have the command and move the request.
MayBind(p) ==
    pc[p] \in {"link", "saveInstall"} =>
        OwnsCommand(registry, req[p]) /\ ~ PinnedMeanwhile(p)

\* The registry p is about to save is one command applied to the registry on
\* disk, and names nothing that is not ready.
PendingKnown(p) ==
    /\ pc[p] = "save" =>
        Edit(registry, snap[p]) /\ removing[p] \notin snap[p].installations
    /\ pc[p] = "saveInstall" =>
        snap[p] = BindRelease(registry, req[p], inst[p], pin[p]) /\ Ready(inst[p])

\* Directories are removed after their record.
RecordGone(p) == pc[p] = "remove" => removing[p] \notin registry.installations

ProcInv(p) == JobKnown(p) /\ MayBind(p) /\ PendingKnown(p) /\ RecordGone(p)

IInv ==
    /\ TypeOK
    /\ LockInv
    /\ \A p \in Proc : ProcInv(p)
    /\ Sound(registry)
    /\ RegistryNamesArtifacts

-----------------------------------------------------------------------------
\* No empty registry is out of order.
LEMMA EmptySound == EmptyStatus \in AppStatus /\ Sound(EmptyStatus)
BY EmptyGood DEF Good, Readable, Sound

\* What a process knows survives the steps of the others: only the holder of
\* the lock changes what it speaks of.
LEMMA OthersKept ==
    ASSUME IInv, NEW q \in Proc,
           /\ pc'[q] = pc[q] /\ req'[q] = req[q] /\ inst'[q] = inst[q]
           /\ pin'[q] = pin[q] /\ refresh'[q] = refresh[q]
           /\ snap'[q] = snap[q] /\ removing'[q] = removing[q],
           pc[q] \in Writing =>
                /\ registry' = registry
                /\ \A i \in Release : (HasArtifact(i) => HasArtifact(i)')
                                      /\ (Ready(i) => Ready(i)')
    PROVE  ProcInv(q)'
<1>1. ProcInv(q) /\ (pc[q] \in {"link", "saveInstall"} => inst[q] \in Release)
  BY DEF IInv, ProcInv, JobKnown, Served
<1>2. JobKnown(q)'
  BY <1>1 DEF ProcInv, JobKnown, Writing
<1>3. MayBind(q)'
  BY <1>1 DEF ProcInv, MayBind, PinnedMeanwhile, Writing
<1>4. PendingKnown(q)'
  BY <1>1 DEF ProcInv, PendingKnown, Writing
<1>5. RecordGone(q)'
  BY <1>1 DEF ProcInv, RecordGone, Writing
<1> QED  BY <1>2, <1>3, <1>4, <1>5 DEF ProcInv

\* A command that ends leaves nothing behind in its own state.
LEMMA Returned ==
    ASSUME TypeOK, NEW p \in Proc, Return(p)
    PROVE  /\ pc'[p] = "idle" /\ removing'[p] = NoId /\ leased'[p] = NoId
           /\ ProcInv(p)'
           /\ \A q \in Proc \ {p} :
                /\ pc'[q] = pc[q] /\ req'[q] = req[q] /\ inst'[q] = inst[q]
                /\ pin'[q] = pin[q] /\ refresh'[q] = refresh[q]
                /\ snap'[q] = snap[q] /\ removing'[q] = removing[q]
                /\ leased'[q] = leased[q]
<1>1. pc'[p] = "idle" /\ removing'[p] = NoId /\ leased'[p] = NoId
  BY DEF Return, Goto, TypeOK
<1>2. ProcInv(p)'
  BY <1>1 DEF ProcInv, JobKnown, MayBind, PendingKnown, RecordGone
<1> QED  BY <1>1, <1>2 DEF Return, Goto, TypeOK

\* ... and keeps the types and the lock's order.
LEMMA ReturnedTyped ==
    ASSUME IInv, NEW p \in Proc, Return(p), registry' \in AppStatus,
           dir' \in [Release -> Dir], leaseFile' = leaseFile, entry' \subseteq Command,
           lockFile' \in {lockFile, TRUE}
    PROVE  TypeOK' /\ LockInv'
<1>1. TypeOK'
  BY EmptySound, AppStoreAssumption DEF IInv, TypeOK, Return, Goto, Phase
<1>2. LockInv'
  BY AppStoreAssumption DEF IInv, TypeOK, LockInv, Return, Goto, Writing
<1> QED  BY <1>1, <1>2

-----------------------------------------------------------------------------
(* The shapes of a step.  First: a command ends.                           *)
LEMMA ReturnStep ==
    ASSUME IInv, NEW p \in Proc, Return(p), UNCHANGED <<registry, dir, leaseFile>>,
           entry' \subseteq Command, lockFile' \in {lockFile, TRUE}
    PROVE  IInv'
<1>1. TypeOK' /\ LockInv'
  BY ReturnedTyped DEF IInv, TypeOK
<1>2. \A q \in Proc \ {p} : ProcInv(q)'
  BY Returned, OthersKept DEF IInv, HasArtifact, Ready
<1>3. ProcInv(p)'
  BY Returned DEF IInv
<1>4. Sound(registry)' /\ RegistryNamesArtifacts'
  BY DEF IInv, RegistryNamesArtifacts, HasArtifact, Sound
<1> QED  BY <1>1, <1>2, <1>3, <1>4 DEF IInv

(* Second: a command goes to a phase that does not hold the lock.          *)
LEMMA PhaseStep ==
    ASSUME IInv, TypeOK', NEW p \in Proc, NEW phase \in Phase \ Writing,
           pc[p] \notin Writing, Goto(p, phase),
           UNCHANGED <<registry, dir, leaseFile, lockEx, removing, snap>>,
           lockFile' \in {lockFile, TRUE},
           lockEx # NoProc => lockSh' = {},
           \A q \in Proc \ {p} : /\ req'[q] = req[q] /\ inst'[q] = inst[q]
                                 /\ pin'[q] = pin[q] /\ refresh'[q] = refresh[q],
           phase \in {"installLock", "installLookup", "reselect", "fetch", "commit"}
                => req'[p] \in Req,
           phase = "commit" => inst'[p] \in Served(req'[p]),
           phase = "execLease" => inst'[p] \in Release
    PROVE  IInv'
<1>1. pc'[p] = phase /\ \A q \in Proc \ {p} : pc'[q] = pc[q]
  BY DEF Goto, IInv, TypeOK
<1>2. LockInv'
  BY <1>1, AppStoreAssumption DEF IInv, LockInv, TypeOK
<1>3. removing[p] = NoId
  BY DEF IInv, ProcInv, JobKnown, Writing
<1>4. ProcInv(p)'
  BY <1>1, <1>3 DEF ProcInv, JobKnown, MayBind, PendingKnown, RecordGone, Writing
<1>5. \A q \in Proc \ {p} : ProcInv(q)'
  BY <1>1, OthersKept DEF HasArtifact, Ready
<1>6. Sound(registry)' /\ RegistryNamesArtifacts'
  BY DEF IInv, RegistryNamesArtifacts, HasArtifact, Sound
<1> QED  BY <1>2, <1>4, <1>5, <1>6 DEF IInv

(* Third: a command takes the lock and stages an edit of the registry.     *)
LEMMA EditStep ==
    ASSUME IInv, NEW p \in Proc, LockExclusive(p), pc[p] \notin Writing,
           NEW next, Edit(registry, next), Stage(p, next, "save"),
           removing' \in [Proc -> Release \cup {NoId}],
           \A q \in Proc \ {p} : removing'[q] = removing[q],
           removing'[p] \notin next.installations,
           UNCHANGED <<dir, leaseFile, leased, job>>, entry' \subseteq Command
    PROVE  IInv'
<1>1. next \in AppStatus
  BY EditSound DEF IInv, Sound
<1>2. TypeOK'
  BY <1>1 DEF IInv, TypeOK, Stage, Goto, Phase, job, LockExclusive
<1>3. /\ pc'[p] = "save" /\ snap'[p] = next
      /\ \A q \in Proc \ {p} : pc'[q] = pc[q] /\ snap'[q] = snap[q]
      /\ registry' = registry /\ lockEx' = p /\ lockSh' = {} /\ lockFile' = TRUE
      /\ req' = req /\ inst' = inst /\ pin' = pin /\ refresh' = refresh
  BY DEF Stage, Goto, IInv, TypeOK, job, LockExclusive
<1>4. \A q \in Proc \ {p} : pc[q] \notin Writing
  BY AppStoreAssumption DEF IInv, LockInv, LockExclusive
<1>5. LockInv'
  BY <1>3, <1>4, AppStoreAssumption DEF LockInv, Writing
<1>6. ProcInv(p)'
  BY <1>3 DEF ProcInv, JobKnown, MayBind, PendingKnown, RecordGone
<1>7. \A q \in Proc \ {p} : ProcInv(q)'
  BY <1>3, <1>4, OthersKept
<1>8. Sound(registry)' /\ RegistryNamesArtifacts'
  BY <1>3 DEF IInv, RegistryNamesArtifacts, HasArtifact, Sound
<1> QED  BY <1>2, <1>5, <1>6, <1>7, <1>8 DEF IInv

\* An edit that removes no release.
LEMMA RewriteStep ==
    ASSUME IInv, NEW p \in Proc, LockExclusive(p), pc[p] \notin Writing,
           NEW next, Edit(registry, next), Stage(p, next, "save"),
           UNCHANGED <<dir, leaseFile, leases, job>>, entry' \subseteq Command
    PROVE  IInv'
<1>1. removing[p] = NoId
  BY DEF IInv, ProcInv, JobKnown, Writing
<1>2. next \in AppStatus
  BY EditSound DEF IInv, Sound
<1>3. NoId \notin next.installations
  BY <1>2, AppAssumption DEF AppStatus
<1> QED  BY <1>1, <1>3, EditStep DEF IInv, TypeOK, leases

\* check_command admits only a command of the request's product, or no command.
LEMMA CheckedOwns ==
    ASSUME NEW r, CheckCommand(r)
    PROVE  OwnsCommand(registry, r)
BY DEF CheckCommand, OwnsCommand, HasCommand

-----------------------------------------------------------------------------
(* The steps that hold the lock, one by one.                               *)

\* The lock is taken and the directory of the release is there.
LEMMA CommitStep ==
    ASSUME IInv, NEW p \in Proc, Commit(p)
    PROVE  IInv'
<1>1. /\ pc[p] = "commit" /\ pc' = [pc EXCEPT ![p] = "link"]
      /\ lockEx = NoProc /\ lockSh = {} /\ lockFile' = TRUE /\ lockEx' = p
      /\ dir' = [dir EXCEPT ![inst[p]] = IF HasArtifact(inst[p]) THEN @ ELSE "whole"]
      /\ UNCHANGED <<registry, lockSh, leaseFile, entry, leases, job, snap>>
  BY DEF Commit, LockExclusive, Goto
<1>2. req[p] \in Req /\ inst[p] \in Served(req[p]) /\ inst[p] \in Release
  BY <1>1 DEF IInv, ProcInv, JobKnown, Served
<1>3. \A i \in Release : HasArtifact(i) => HasArtifact(i)'
  BY <1>1 DEF IInv, TypeOK, HasArtifact
<1>4. HasArtifact(inst[p])' /\ inst' = inst
  BY <1>1, <1>2 DEF IInv, TypeOK, HasArtifact, job
<1>5. TypeOK'
  BY <1>1, <1>2 DEF IInv, TypeOK, Phase, Dir, leases, job
<1>6. pc'[p] = "link" /\ \A q \in Proc \ {p} : pc'[q] = pc[q] /\ pc[q] \notin Writing
  BY <1>1, AppStoreAssumption DEF IInv, LockInv, TypeOK
<1>7. LockInv'
  BY <1>1, <1>6, AppStoreAssumption DEF LockInv, Writing
<1>8. OwnsCommand(registry, req[p]) /\ ~ PinnedMeanwhile(p)
  BY CheckedOwns DEF Commit
<1>9. ProcInv(p)'
  <2>1. removing[p] = NoId
    BY <1>1 DEF IInv, ProcInv, JobKnown
  <2>2. JobKnown(p)'
    BY <1>1, <1>2, <1>4, <1>6, <2>1 DEF JobKnown, job, leases, HasArtifact
  <2>3. MayBind(p)'
    BY <1>1, <1>8 DEF MayBind, PinnedMeanwhile, job
  <2> QED  BY <1>6, <2>2, <2>3 DEF ProcInv, PendingKnown, RecordGone
<1>10. \A q \in Proc \ {p} : ProcInv(q)'
  BY <1>1, <1>6, OthersKept DEF job, leases
<1>11. Sound(registry)' /\ RegistryNamesArtifacts'
  BY <1>1, <1>3 DEF IInv, RegistryNamesArtifacts, Sound, TypeOK, AppStatus
<1> QED  BY <1>5, <1>7, <1>9, <1>10, <1>11 DEF IInv

\* The lease file is made and the binding staged.
LEMMA LinkStep ==
    ASSUME IInv, NEW p \in Proc, Link(p)
    PROVE  IInv'
<1> DEFINE next == BindRelease(registry, req[p], inst[p], pin[p])
<1>1. /\ pc[p] = "link" /\ pc' = [pc EXCEPT ![p] = "saveInstall"]
      /\ lockEx' = p /\ snap' = [snap EXCEPT ![p] = next]
      /\ leaseFile' = leaseFile \cup {inst[p]}
      /\ UNCHANGED <<registry, lockSh, lockFile, dir, leases, job>>
  BY DEF Link, Stage, Goto
<1>2. /\ req[p] \in Req /\ inst[p] \in Served(req[p]) /\ inst[p] \in Release
      /\ HasArtifact(inst[p]) /\ OwnsCommand(registry, req[p]) /\ ~ PinnedMeanwhile(p)
      /\ removing[p] = NoId /\ pin[p] \in BOOLEAN
  BY <1>1 DEF IInv, TypeOK, ProcInv, JobKnown, MayBind, Served
<1>3. next \in AppStatus
  BY <1>2, BindReleaseSound DEF IInv, Sound
<1> HIDE DEF next
<1>4. entry' \subseteq Command
  BY <1>2, AppAssumption DEF Link, Name, IInv, TypeOK
<1>5. TypeOK'
  BY <1>1, <1>2, <1>3, <1>4 DEF IInv, TypeOK, Phase, leases, job
<1>6. /\ lockEx = p /\ pc'[p] = "saveInstall" /\ snap'[p] = next
      /\ \A q \in Proc \ {p} :
            pc'[q] = pc[q] /\ snap'[q] = snap[q] /\ pc[q] \notin Writing
  BY <1>1 DEF IInv, LockInv, TypeOK, Writing
<1>7. LockInv'
  BY <1>1, <1>6 DEF IInv, LockInv, Writing
<1>8. ProcInv(p)'
  <2>1. JobKnown(p)'
    BY <1>1, <1>2, <1>6 DEF JobKnown, job, leases
  <2>2. MayBind(p)'
    BY <1>1, <1>2 DEF MayBind, PinnedMeanwhile, job
  <2>3. PendingKnown(p)'
    BY <1>1, <1>2, <1>6 DEF PendingKnown, next, Ready, HasArtifact, job
  <2> QED  BY <1>6, <2>1, <2>2, <2>3 DEF ProcInv, RecordGone
<1>9. \A q \in Proc \ {p} : ProcInv(q)'
  BY <1>1, <1>6, OthersKept DEF job, leases
<1>10. Sound(registry)' /\ RegistryNamesArtifacts'
  BY <1>1 DEF IInv, RegistryNamesArtifacts, HasArtifact, Sound
<1> QED  BY <1>5, <1>7, <1>8, <1>9, <1>10 DEF IInv

\* What the holder of the lock saves is a command, and leaves a sound registry
\* in which every release is ready.
LEMMA Saves ==
    ASSUME IInv, NEW p \in Proc, pc[p] \in {"save", "saveInstall"}
    PROVE  /\ Change(registry, snap[p])
           /\ Sound(snap[p])
           /\ OwnersKept(registry, snap[p])
           /\ \A i \in snap[p].installations : Ready(i)
           /\ removing[p] \notin snap[p].installations
<1>r. \A i \in registry.installations : Ready(i)
  BY DEF IInv, RegistryNamesArtifacts, Ready
<1>1. CASE pc[p] = "save"
  <2>1. Edit(registry, snap[p]) /\ removing[p] \notin snap[p].installations
    BY <1>1 DEF IInv, ProcInv, PendingKnown
  <2> QED  BY <1>r, <2>1, EditSound DEF IInv, Change
<1>2. CASE pc[p] = "saveInstall"
  <2>1. /\ snap[p] = BindRelease(registry, req[p], inst[p], pin[p]) /\ Ready(inst[p])
        /\ req[p] \in Req /\ inst[p] \in Served(req[p]) /\ pin[p] \in BOOLEAN
        /\ OwnsCommand(registry, req[p]) /\ removing[p] = NoId
    BY <1>2 DEF IInv, TypeOK, ProcInv, JobKnown, MayBind, PendingKnown
  <2>2. Binding(registry, snap[p])
    BY <2>1 DEF Binding
  <2>3. /\ Sound(snap[p]) /\ OwnersKept(registry, snap[p])
        /\ snap[p].installations = registry.installations \cup {inst[p]}
    BY <2>1, BindReleaseSound DEF IInv
  <2>4. NoId \notin snap[p].installations
    BY <2>3, AppAssumption DEF Sound, AppStatus
  <2> QED  BY <1>r, <2>1, <2>2, <2>3, <2>4 DEF Change
<1> QED  BY <1>1, <1>2

\* save() publishes it.
LEMMA SaveStep ==
    ASSUME IInv, NEW p \in Proc, Save(p)
    PROVE  IInv'
<1>1. /\ pc[p] \in {"save", "saveInstall"} /\ registry' = snap[p]
      /\ UNCHANGED <<lockFile, dir, leaseFile, entry>>
  BY DEF Save, files
<1>2. /\ Sound(registry') /\ registry' \in AppStatus
      /\ \A i \in registry'.installations : Ready(i)
      /\ removing[p] \notin registry'.installations
  BY <1>1, Saves DEF Sound
<1>3. RegistryNamesArtifacts' /\ Sound(registry)'
  BY <1>1, <1>2 DEF RegistryNamesArtifacts, Ready, HasArtifact, Sound
<1>4. \A q \in Proc \ {p} : pc[q] \notin Writing
  BY <1>1 DEF IInv, LockInv, Writing
<1>5. CASE removing[p] # NoId
  <2>1. /\ pc' = [pc EXCEPT ![p] = "remove"]
        /\ UNCHANGED <<lock, leases, job, snap>>
    BY <1>5 DEF Save, Goto
  <2>2. TypeOK'
    BY <1>1, <1>2, <2>1 DEF IInv, TypeOK, Phase, lock, leases, job
  <2>3. pc'[p] = "remove" /\ \A q \in Proc \ {p} : pc'[q] = pc[q]
    BY <2>1 DEF IInv, TypeOK
  <2>4. LockInv'
    BY <1>1, <2>1, <2>3 DEF IInv, LockInv, Writing, lock
  <2>5. ProcInv(p)'
    BY <1>2, <1>5, <2>1, <2>3
       DEF IInv, TypeOK, ProcInv, JobKnown, MayBind, PendingKnown, RecordGone, leases
  <2>6. \A q \in Proc \ {p} : ProcInv(q)'
    BY <1>4, <2>1, <2>3, OthersKept DEF job, leases
  <2> QED  BY <1>3, <2>2, <2>4, <2>5, <2>6 DEF IInv
<1>6. CASE removing[p] = NoId
  <2>1. Return(p)
    BY <1>6 DEF Save
  <2>2. TypeOK' /\ LockInv'
    BY <1>1, <1>2, <2>1, ReturnedTyped DEF IInv, TypeOK
  <2>3. ProcInv(p)' /\ \A q \in Proc \ {p} : ProcInv(q)'
    BY <1>4, <2>1, Returned, OthersKept DEF IInv
  <2> QED  BY <1>3, <2>2, <2>3 DEF IInv
<1> QED  BY <1>5, <1>6

\* remove_dir_all works on a directory the registry no longer names.
LEMMA RemoveFileStep ==
    ASSUME IInv, NEW p \in Proc, RemoveFile(p)
    PROVE  IInv'
<1>1. pc[p] = "remove"
      /\ UNCHANGED <<registry, lockFile, lock, leaseFile, entry, leases, pc, job, snap>>
  BY DEF RemoveFile
<1>2. PICK d \in Dir : dir' = [dir EXCEPT ![removing[p]] = d]
  BY DEF RemoveFile, Dir
<1>3. removing[p] \in Release /\ removing[p] \notin registry.installations
  BY <1>1 DEF IInv, ProcInv, JobKnown, RecordGone
<1>4. TypeOK'
  BY <1>1, <1>2 DEF IInv, TypeOK, lock, leases, job
<1>5. LockInv'
  BY <1>1 DEF IInv, LockInv, lock
<1>6. \A q \in Proc \ {p} : pc[q] \notin Writing
  BY <1>1 DEF IInv, LockInv, Writing
<1>7. ProcInv(p)'
  BY <1>1, <1>3 DEF ProcInv, JobKnown, MayBind, PendingKnown, RecordGone, leases
<1>8. \A q \in Proc \ {p} : ProcInv(q)'
  BY <1>1, <1>6, OthersKept DEF job, leases
<1>9. Sound(registry)' /\ RegistryNamesArtifacts'
  BY <1>1, <1>2, <1>3 DEF IInv, RegistryNamesArtifacts, HasArtifact, Sound, TypeOK, AppStatus
<1> QED  BY <1>4, <1>5, <1>7, <1>8, <1>9 DEF IInv

\* Its last step ends the command.
LEMMA RemoveDirStep ==
    ASSUME IInv, NEW p \in Proc, RemoveDir(p)
    PROVE  IInv'
<1>1. /\ pc[p] = "remove" /\ dir' = [dir EXCEPT ![removing[p]] = "absent"] /\ Return(p)
      /\ UNCHANGED <<registry, lockFile, leaseFile, entry>>
  BY DEF RemoveDir
<1>2. removing[p] \in Release /\ removing[p] \notin registry.installations
  BY <1>1 DEF IInv, ProcInv, JobKnown, RecordGone
<1>3. TypeOK' /\ LockInv'
  BY <1>1, ReturnedTyped DEF IInv, TypeOK, Dir
<1>4. \A q \in Proc \ {p} : pc[q] \notin Writing
  BY <1>1 DEF IInv, LockInv, Writing
<1>5. ProcInv(p)' /\ \A q \in Proc \ {p} : ProcInv(q)'
  BY <1>1, <1>4, Returned, OthersKept DEF IInv
<1>6. Sound(registry)' /\ RegistryNamesArtifacts'
  BY <1>1, <1>2 DEF IInv, RegistryNamesArtifacts, HasArtifact, Sound, TypeOK, AppStatus
<1> QED  BY <1>3, <1>5, <1>6 DEF IInv

\* uninstall stages the registry without the release whose lease it holds.
LEMMA UninstallStep ==
    ASSUME IInv, NEW p \in Proc, NEW t \in Target, Uninstall(p, t)
    PROVE  IInv'
<1> DEFINE i == UninstallTarget(registry, t)
           next == Forget(registry, i)
<1>1. /\ pc[p] = "idle" /\ LockExclusive(p) /\ i # NoId
      /\ removing' = [removing EXCEPT ![p] = i] /\ Stage(p, next, "save")
      /\ entry' \subseteq entry /\ UNCHANGED <<dir, leaseFile, leased, job>>
  BY DEF Uninstall
<1>2. Edit(registry, next)
  BY <1>1 DEF Edit
<1>3. i \in Release
  BY <1>1, TargetType DEF IInv, Sound, AppStatus
<1>4. i \notin next.installations
  BY DEF Forget
<1> HIDE DEF i, next
<1>5. removing' \in [Proc -> Release \cup {NoId}] /\ removing'[p] = i
      /\ (\A q \in Proc \ {p} : removing'[q] = removing[q]) /\ entry' \subseteq Command
  BY <1>1, <1>3 DEF IInv, TypeOK
<1> QED  BY <1>1, <1>2, <1>4, <1>5, EditStep DEF Writing

-----------------------------------------------------------------------------
(* The invariant is inductive.                                             *)
LEMMA InductiveStep == IInv /\ [Next]_vars => IInv'
<1> SUFFICES ASSUME IInv, [Next]_vars PROVE IInv'
  OBVIOUS
<1>t. TypeOK /\ LockInv /\ Sound(registry) /\ \A p \in Proc : JobKnown(p)
  BY DEF IInv, ProcInv
<1>n. \A r \in Req : Name(r) \in Command
  BY AppAssumption DEF Name
<1>1. ASSUME NEW p \in Proc, NEW r \in Req, NEW b \in BOOLEAN,
             InstallStart(p, r, b) \/ Update(p, r, b)
      PROVE  IInv'
  <2>1. TypeOK'
    BY <1>1, <1>t DEF InstallStart, Update, TypeOK, Goto, Phase, files, lock, leases
  <2> QED
    BY <1>1, <1>t, <2>1, PhaseStep
       DEF InstallStart, Update, TypeOK, Phase, Writing, files, lock, leases, LockInv
<1>2. ASSUME NEW p \in Proc, InstallLock(p)  PROVE IInv'
  <2>1. TypeOK'
    BY <1>2, <1>t DEF InstallLock, LockShared, Goto, TypeOK, Phase, leases, job
  <2> QED
    BY <1>2, <1>t, <2>1, PhaseStep
       DEF InstallLock, LockShared, Phase, Writing, leases, job, LockInv, JobKnown
<1>3. ASSUME NEW p \in Proc, InstallLookup(p)  PROVE IInv'
  <2>1. PICK phase \in {"reselect", "fetch"} : Goto(p, phase)
    BY <1>3 DEF InstallLookup
  <2>2. TypeOK'
    BY <1>3, <1>t, <2>1 DEF InstallLookup, Goto, TypeOK, Phase, files, leases, job
  <2> QED
    BY <1>3, <1>t, <2>1, <2>2, PhaseStep
       DEF InstallLookup, Phase, Writing, files, leases, job, LockInv, JobKnown
<1>4. ASSUME NEW p \in Proc, InstallSaved(p)  PROVE IInv'
  <2> DEFINE next == Reselect(registry, req[p], pin[p])
  <2>1. req[p] \in Req /\ pin[p] \in BOOLEAN
    BY <1>4, <1>t DEF InstallSaved, JobKnown, TypeOK
  <2>2. Edit(registry, next)
    BY <1>4, <2>1, CheckedOwns DEF InstallSaved, Edit
  <2>3. entry' \subseteq Command
    BY <1>4, <1>t, <1>n, <2>1 DEF InstallSaved, TypeOK
  <2>4. CASE next = registry
    BY <1>4, <2>3, <2>4, ReturnStep DEF InstallSaved, LockExclusive
  <2>5. CASE next # registry
    BY <1>4, <2>2, <2>3, <2>5, RewriteStep DEF InstallSaved, Writing
  <2> QED  BY <2>4, <2>5
<1>5. ASSUME NEW p \in Proc, NEW i \in Release, Fetch(p, i)  PROVE IInv'
  <2>1. TypeOK'
    BY <1>5, <1>t DEF Fetch, Goto, TypeOK, Phase, files, lock, leases
  <2> QED
    BY <1>5, <1>t, <2>1, PhaseStep
       DEF Fetch, Phase, Writing, files, lock, leases, LockInv, JobKnown, TypeOK
<1>6. ASSUME NEW p \in Proc, InstallReject(p)  PROVE IInv'
  BY <1>6, <1>t, ReturnStep DEF InstallReject, LockExclusive, TypeOK
<1>7. ASSUME NEW p \in Proc, SaveFails(p)  PROVE IInv'
  BY <1>7, <1>t, ReturnStep DEF SaveFails, TypeOK
<1>8. ASSUME NEW p \in Proc, NEW r \in Req, NEW b \in BOOLEAN, SetPin(p, r, b)
      PROVE  IInv'
  <2>1. Edit(registry, SetPinned(registry, r, b))
    BY <1>8 DEF Edit, SetPin
  <2> QED  BY <1>8, <1>t, <2>1, RewriteStep DEF SetPin, Writing, TypeOK
<1>9. ASSUME NEW p \in Proc, NEW t \in Target, SetDefault(p, t)  PROVE IInv'
  <2> DEFINE r == IF t \in Req THEN t ELSE App[t]
  <2>1. r \in Req
    BY AppAssumption DEF Target
  <2>2. Edit(registry, SelectCommand(registry, t))
    BY <1>9, CheckedOwns DEF SetDefault, Edit
  <2>3. entry' \subseteq Command
    BY <1>9, <1>t, <1>n, <2>1 DEF SetDefault, TypeOK
  <2> QED  BY <1>9, <2>2, <2>3, RewriteStep DEF SetDefault, Writing
<1>10. ASSUME NEW p \in Proc, NEW t \in Target, ClearDefault(p, t)  PROVE IInv'
  <2> DEFINE next == DropCommand(registry, Name(App[Resolve(registry, t)]))
  <2>1. Edit(registry, next)
    BY <1>10 DEF ClearDefault, Edit
  <2>2. entry' \subseteq Command /\ Stage(p, next, "save")
    BY <1>10, <1>t DEF ClearDefault, TypeOK
  <2> HIDE DEF next
  <2> QED  BY <1>10, <2>1, <2>2, RewriteStep DEF ClearDefault, Writing
<1>11. ASSUME NEW p \in Proc, ExecLock(p)  PROVE IInv'
  <2>1. TypeOK'
    BY <1>11, <1>t DEF ExecLock, LockShared, Goto, TypeOK, Phase, leases, job
  <2> QED
    BY <1>11, <1>t, <2>1, PhaseStep
       DEF ExecLock, LockShared, Phase, Writing, leases, job, LockInv
<1>12. ASSUME NEW p \in Proc, NEW i \in Release, ExecSelect(p, i)  PROVE IInv'
  <2>1. TypeOK'
    BY <1>12, <1>t DEF ExecSelect, Goto, TypeOK, Phase, files, lock, leases
  <2> QED
    BY <1>12, <1>t, <2>1, PhaseStep
       DEF ExecSelect, Phase, Writing, files, lock, leases, LockInv, TypeOK
<1>13. ASSUME NEW p \in Proc, ExecStart(p)  PROVE IInv'
  <2>1. inst[p] \in Release
    BY <1>13, <1>t DEF JobKnown, ExecStart
  <2>2. TypeOK'
    BY <1>13, <1>t, <2>1 DEF ExecStart, Goto, TypeOK, Phase, files
  <2> QED
    BY <1>13, <1>t, <2>2, PhaseStep
       DEF ExecStart, Phase, Writing, files, LockInv, TypeOK
<1>14. ASSUME NEW p \in Proc, ExecReject(p) \/ ExecEnd(p) \/ Crash(p)  PROVE IInv'
  BY <1>14, <1>t, ReturnStep DEF ExecReject, ExecEnd, Crash, files, TypeOK
<1>15. CASE UNCHANGED vars
  BY <1>15 DEF vars, IInv, TypeOK, LockInv, ProcInv, JobKnown, MayBind, PinnedMeanwhile,
               PendingKnown, RecordGone, Ready, HasArtifact, RegistryNamesArtifacts, Sound
<1> QED
  BY <1>1, <1>2, <1>3, <1>4, <1>5, <1>6, <1>7, <1>8, <1>9, <1>10, <1>11, <1>12, <1>13,
     <1>14, <1>15, CommitStep, LinkStep, SaveStep, RemoveFileStep, RemoveDirStep,
     UninstallStep DEF Next, Start, Step

\* A fresh home, or one that earlier commands left empty, satisfies it.
LEMMA InductiveInit == Init => IInv
<1> SUFFICES ASSUME Init PROVE IInv
  OBVIOUS
<1>1. TypeOK
  BY EmptySound, AppStoreAssumption DEF Init, TypeOK, Phase, Dir
<1>2. LockInv
  BY AppStoreAssumption DEF Init, LockInv, Writing
<1>3. \A p \in Proc : ProcInv(p)
  BY DEF Init, ProcInv, JobKnown, MayBind, PendingKnown, RecordGone
<1>4. Sound(registry) /\ RegistryNamesArtifacts
  BY EmptySound DEF Init, RegistryNamesArtifacts, EmptyStatus
<1> QED  BY <1>1, <1>2, <1>3, <1>4 DEF IInv

(* The inductive invariant, for any number of processes and releases.      *)
THEOREM StoreInvariant == Spec => []IInv
BY InductiveInit, InductiveStep, PTL DEF Spec

\* Registry, files, locks and the local state of every command keep their types.
THEOREM StoreTypeOK == Spec => []TypeOK
<1>1. IInv => TypeOK
  BY DEF IInv
<1> QED  BY <1>1, StoreInvariant, PTL

(* Whatever commands interleave and wherever they crash, every release the *)
(* registry names has its artifact and its lease file.                     *)
THEOREM StoreNamesArtifacts == Spec => []RegistryNamesArtifacts
<1>1. IInv => RegistryNamesArtifacts
  BY DEF IInv
<1> QED  BY <1>1, StoreInvariant, PTL

-----------------------------------------------------------------------------
(* Only Save changes the registry, by the pending command.                 *)
LEMMA OnlySave ==
    ASSUME [Next]_vars
    PROVE  registry' = registry \/ \E p \in Proc : Save(p)
<1> USE DEF Stage, files
<1>1. ASSUME NEW p \in Proc, Step(p), ~ Save(p)  PROVE registry' = registry
  BY <1>1 DEF Step, InstallLock, InstallLookup, InstallSaved, Fetch, Commit, Link,
              InstallReject, RemoveDir, ExecSelect, ExecStart, ExecReject
<1>2. ASSUME NEW p \in Proc, Start(p)  PROVE registry' = registry
  BY <1>2 DEF Start, InstallStart, Update, SetPin, SetDefault, ClearDefault, Uninstall,
              ExecLock
<1>3. ASSUME NEW p \in Proc, ExecEnd(p) \/ SaveFails(p) \/ RemoveFile(p) \/ Crash(p)
      PROVE  registry' = registry
  BY <1>3 DEF ExecEnd, SaveFails, RemoveFile, Crash
<1>4. CASE UNCHANGED vars
  BY <1>4 DEF vars
<1> QED  BY <1>1, <1>2, <1>3, <1>4 DEF Next

\* The instance computes the same values from one snapshot.
LEMMA SameQueries ==
    ASSUME NEW reg
    PROVE  /\ \A r : Abstract!Saved(reg, r) = Saved(reg, r)
           /\ \A r : Abstract!FindRequest(reg, r) = FindRequest(reg, r)
           /\ \A t : Abstract!Resolve(reg, t) = Resolve(reg, t)
           /\ \A t : Abstract!UninstallTarget(reg, t) = UninstallTarget(reg, t)
           /\ \A r : Abstract!OwnsCommand(reg, r) = OwnsCommand(reg, r)
           /\ \A r : Abstract!Served(r) = Served(r)
           /\ \A r : Abstract!Name(r) = Name(r)
           /\ Abstract!Target = Target
BY DEF Abstract!Saved, Saved, Abstract!FindRequest, FindRequest, Abstract!Resolve, Resolve,
       Abstract!UninstallTarget, UninstallTarget, Abstract!OwnsCommand, OwnsCommand,
       Abstract!Served, Served, Abstract!Name, Name, Abstract!Target, Target,
       Abstract!SelectionOf, SelectionOf, Abstract!SameProduct, SameProduct

\* ... and the same new registries.
LEMMA SameUpdates ==
    ASSUME NEW reg
    PROVE  /\ \A r, i, b : Abstract!BindRelease(reg, r, i, b) = BindRelease(reg, r, i, b)
           /\ \A r, b : Abstract!Reselect(reg, r, b) = Reselect(reg, r, b)
           /\ \A r, b : Abstract!SetPinned(reg, r, b) = SetPinned(reg, r, b)
           /\ \A t : Abstract!SelectCommand(reg, t) = SelectCommand(reg, t)
           /\ \A n : Abstract!DropCommand(reg, n) = DropCommand(reg, n)
           /\ \A i : Abstract!Forget(reg, i) = Forget(reg, i)
BY DEF Abstract!BindRelease, BindRelease, Abstract!Reselect, Reselect, Abstract!SetPinned,
       SetPinned, Abstract!SelectCommand, SelectCommand, Abstract!DropCommand, DropCommand,
       Abstract!Forget, Forget, Abstract!AddCommand, AddCommand, Abstract!HasCommand,
       HasCommand, Abstract!Name, Name, Abstract!CommandInstallation, CommandInstallation,
       Abstract!FindRequest, FindRequest, Abstract!Saved, Saved, Abstract!SelectionOf,
       SelectionOf

\* A change of the model is a command of the abstract registry.
LEMMA ChangeIsCommand == Change(registry, registry') => Abstract!Next
<1>1. Binding(registry, registry') => Abstract!Next
  BY SameQueries, SameUpdates DEF Binding, Served, Abstract!Next, Abstract!Install
<1>2. Edit(registry, registry') => Abstract!Next
  BY SameQueries, SameUpdates
     DEF Edit, Abstract!Next, Abstract!InstallSaved, Abstract!SetPin,
         Abstract!SetDefault, Abstract!ClearDefault, Abstract!Uninstall
<1> QED  BY <1>1, <1>2 DEF Change

(* Crashes, stale reads and interleavings included, the registry file      *)
(* behaves like the atomic registry: no command's update is lost.          *)
THEOREM StoreRefinesRegistry == Spec => RefinesRegistry
<1>1. Init => Abstract!Init
  BY DEF Init, Abstract!Init, Abstract!EmptyStatus, EmptyStatus
<1>2. IInv /\ [Next]_vars => [Abstract!Next]_(Abstract!vars)
  BY OnlySave, Saves, ChangeIsCommand DEF Save, Abstract!vars
<1> QED
  BY <1>1, <1>2, StoreInvariant, PTL DEF Spec, RefinesRegistry, Abstract!Spec

(* No install or default takes a command name from another product,        *)
(* whatever it had read before it got the lock.                            *)
THEOREM StoreKeepsOwners == Spec => CommandOwnerKept
<1> DEFINE A == \A c \in registry.commands, d \in registry'.commands :
                    Name(c.request) = Name(d.request) => SameProduct(c.request, d.request)
<1>1. IInv /\ [Next]_vars => [A]_vars
  <2> SUFFICES ASSUME IInv, Next PROVE A
    OBVIOUS
  <2>1. CASE registry' = registry
    BY <2>1 DEF IInv, Sound, CommandsUnique, SameProduct
  <2>2. ASSUME NEW p \in Proc, Save(p)  PROVE A
    <3>1. pc[p] \in {"save", "saveInstall"} /\ registry' = snap[p]
      BY <2>2 DEF Save
    <3> QED  BY <3>1, Saves DEF OwnersKept
  <2> QED  BY <2>1, <2>2, OnlySave
<1> QED  BY <1>1, StoreInvariant, PTL DEF Spec, CommandOwnerKept

(* An update moves no pinned request, also if it was pinned while the      *)
(* update was downloading; an install that moves one keeps the pin.        *)
THEOREM StoreHoldsPins == Spec => PinHeld
<1> DEFINE A == \A s \in registry.selections, t \in registry'.selections :
                    s.pinned /\ t.request = s.request /\ t.installation # s.installation
                        => /\ t.pinned
                           /\ \E p \in Proc : pc[p] = "saveInstall" /\ ~ refresh[p]
                                                /\ snap[p] = registry'
<1>1. IInv /\ [Next]_vars => [A]_vars
  <2> SUFFICES ASSUME IInv, Next,
                      NEW s \in registry.selections, NEW t \in registry'.selections,
                      s.pinned, t.request = s.request, t.installation # s.installation
               PROVE  /\ t.pinned
                      /\ \E p \in Proc : pc[p] = "saveInstall" /\ ~ refresh[p]
                                           /\ snap[p] = registry'
    OBVIOUS
  <2>1. registry' # registry
    BY DEF IInv, Sound, SelectionsUnique
  <2>2. PICK p \in Proc : Save(p)
    BY <2>1, OnlySave
  <2>3. pc[p] \in {"save", "saveInstall"} /\ registry' = snap[p] /\ ProcInv(p)
    BY <2>2 DEF Save, IInv
  <2>4. pc[p] = "saveInstall"
    <3>1. CASE pc[p] = "save"
      BY <2>3, <3>1, EditSound DEF IInv, ProcInv, PendingKnown, BindingsKept
    <3> QED  BY <2>3, <3>1
  <2>5. /\ snap[p] = BindRelease(registry, req[p], inst[p], pin[p])
        /\ req[p] \in Req /\ inst[p] \in Served(req[p]) /\ pin[p] \in BOOLEAN
        /\ ~ PinnedMeanwhile(p)
    BY <2>3, <2>4 DEF IInv, TypeOK, ProcInv, JobKnown, MayBind, PendingKnown
  <2>6. s.request = req[p] /\ t.pinned
    BY <2>3, <2>5, BindReleaseSound DEF IInv
  <2>7. Saved(registry, req[p]) /\ SelectionOf(registry, req[p]) = s
    BY <2>6, FindSaved DEF IInv, Sound, Saved
  <2>8. ~ refresh[p]
    BY <2>5, <2>7 DEF PinnedMeanwhile
  <2> QED  BY <2>3, <2>4, <2>6, <2>8
<1> QED  BY <1>1, StoreInvariant, PTL DEF Spec, PinHeld

-----------------------------------------------------------------------------
(* Leases, in a home whose lock file exists.                               *)
Selecting == {"execSelect", "execLease"}

\* Executions select under the shared lock, and what is leased is registered,
\* now and after the pending save.
LeaseInv ==
    /\ lockFile
    /\ \A p \in Proc :
        /\ pc[p] \in Selecting => p \in lockSh
        /\ pc[p] = "execLease" => inst[p] \in registry.installations
        /\ leased[p] # NoId => leased[p] \in registry.installations
    /\ \A p, q \in Proc : pc[q] \in {"save", "saveInstall"} /\ leased[p] # NoId =>
        leased[p] \in snap[q].installations

\* Steps that change neither the registry nor what is pending, and lease nothing.
LEMMA LeaseKept ==
    ASSUME IInv, LeaseInv, NEW p \in Proc, lockFile' \in {lockFile, TRUE},
           registry' = registry,
           pc'[p] \notin Selecting \cup {"save", "saveInstall"},
           \A q \in Proc \ {p} :
                /\ pc'[q] = pc[q] /\ snap'[q] = snap[q] /\ inst'[q] = inst[q]
                /\ q \in lockSh => q \in lockSh',
           \A q \in Proc : leased'[q] \in {leased[q], NoId}
    PROVE  LeaseInv'
<1>1. SUFFICES ASSUME NEW q \in Proc
               PROVE  /\ pc'[q] \in Selecting => q \in lockSh'
                      /\ pc'[q] = "execLease" => inst'[q] \in registry'.installations
                      /\ leased'[q] # NoId => leased'[q] \in registry'.installations
                      /\ \A o \in Proc : pc'[q] \in {"save", "saveInstall"}
                            /\ leased'[o] # NoId => leased'[o] \in snap'[q].installations
  BY DEF LeaseInv
<1>2. CASE q = p
  BY <1>2 DEF LeaseInv, Selecting
<1>3. CASE q # p
  BY <1>3 DEF LeaseInv, Selecting
<1> QED  BY <1>2, <1>3

\* A command that ends, or stops, drops at most its own lease.
LEMMA LeaseReturn ==
    ASSUME IInv, LeaseInv, NEW p \in Proc, Return(p), registry' = registry,
           lockFile' \in {lockFile, TRUE}
    PROVE  LeaseInv'
<1>1. \A q \in Proc \ {p} : q \in lockSh => q \in lockSh'
  BY DEF Return
<1> QED  BY <1>1, Returned, LeaseKept DEF IInv, Selecting

\* A staged registry keeps every leased release.
LEMMA LeaseStage ==
    ASSUME IInv, LeaseInv, NEW p \in Proc, NEW next,
           NEW phase \in {"save", "saveInstall"}, Stage(p, next, phase),
           lockFile' \in {lockFile, TRUE}, inst' = inst, leased' = leased,
           \A o \in Proc : leased[o] # NoId => leased[o] \in next.installations
    PROVE  LeaseInv'
<1>1. /\ registry' = registry /\ lockSh' = lockSh
      /\ pc'[p] = phase /\ snap'[p] = next
      /\ \A q \in Proc \ {p} : pc'[q] = pc[q] /\ snap'[q] = snap[q]
  BY DEF Stage, Goto, IInv, TypeOK
<1> QED  BY <1>1 DEF LeaseInv, Selecting

\* A leased release stays registered, so nothing removes its directory.
LEMMA LeaseStep ==
    ASSUME IInv, LeaseInv, [Next]_vars
    PROVE  LeaseInv'
<1>t. TypeOK /\ Sound(registry) /\ registry \in AppStatus /\ lockFile
      /\ \A p \in Proc : ProcInv(p)
  BY DEF IInv, TypeOK, LeaseInv
<1>g. \A o \in Proc : leased[o] # NoId => leased[o] \in registry.installations
  BY DEF LeaseInv
<1>1. ASSUME NEW p \in Proc, NEW r \in Req, NEW b \in BOOLEAN,
             InstallStart(p, r, b) \/ Update(p, r, b)
      PROVE  LeaseInv'
  BY <1>1, <1>t, LeaseKept
     DEF InstallStart, Update, Goto, TypeOK, files, lock, leases, Selecting
<1>2. ASSUME NEW p \in Proc, InstallLock(p)  PROVE LeaseInv'
  BY <1>2, <1>t, LeaseKept
     DEF InstallLock, LockShared, Goto, TypeOK, leases, job, Selecting
<1>3. ASSUME NEW p \in Proc, InstallLookup(p)  PROVE LeaseInv'
  <2>1. PICK phase \in {"reselect", "fetch"} : Goto(p, phase)
    BY <1>3 DEF InstallLookup
  <2> QED
    BY <1>3, <1>t, <2>1, LeaseKept
       DEF InstallLookup, Goto, TypeOK, files, leases, job, Selecting
<1>4. ASSUME NEW p \in Proc, NEW next, next.installations = registry.installations,
             LockExclusive(p), Stage(p, next, "save"), UNCHANGED <<leases, job>>
      PROVE  LeaseInv'
  BY <1>4, <1>g, LeaseStage DEF LockExclusive, leases, job
<1>5. ASSUME NEW p \in Proc, InstallSaved(p)  PROVE LeaseInv'
  <2> DEFINE next == Reselect(registry, req[p], pin[p])
  <2>1. CASE next = registry
    BY <1>5, <2>1, LeaseReturn DEF InstallSaved, LockExclusive
  <2>2. CASE next # registry
    <3>1. next.installations = registry.installations
      BY <1>t DEF Reselect, AddCommand, SetPinned, AppStatus
    <3> QED  BY <1>4, <1>5, <2>2, <3>1 DEF InstallSaved
  <2> QED  BY <2>1, <2>2
<1>6. ASSUME NEW p \in Proc, NEW i \in Release, Fetch(p, i)  PROVE LeaseInv'
  BY <1>6, <1>t, LeaseKept DEF Fetch, Goto, TypeOK, files, lock, leases, Selecting
<1>7. ASSUME NEW p \in Proc, Commit(p)  PROVE LeaseInv'
  BY <1>7, <1>t, LeaseKept
     DEF Commit, LockExclusive, Goto, TypeOK, leases, job, Selecting
<1>8. ASSUME NEW p \in Proc, Link(p)  PROVE LeaseInv'
  <2> DEFINE next == BindRelease(registry, req[p], inst[p], pin[p])
  <2>1. req[p] \in Req /\ inst[p] \in Served(req[p]) /\ pin[p] \in BOOLEAN
    BY <1>8, <1>t DEF Link, ProcInv, JobKnown, TypeOK
  <2>2. next.installations = registry.installations \cup {inst[p]}
    BY <1>t, <2>1, BindReleaseSound
  <2>3. Stage(p, next, "saveInstall")
    BY <1>8 DEF Link
  <2> HIDE DEF next
  <2> QED  BY <1>8, <1>g, <2>2, <2>3, LeaseStage DEF Link, leases, job
<1>9. ASSUME NEW p \in Proc, InstallReject(p) \/ SaveFails(p) \/ RemoveDir(p)
      PROVE  LeaseInv'
  BY <1>9, LeaseReturn DEF InstallReject, SaveFails, RemoveDir, LockExclusive
<1>10. ASSUME NEW p \in Proc, NEW r \in Req, NEW b \in BOOLEAN, SetPin(p, r, b)
       PROVE  LeaseInv'
  <2>1. SetPinned(registry, r, b).installations = registry.installations
    BY <1>t DEF SetPinned, AppStatus
  <2> QED  BY <1>4, <1>10, <2>1 DEF SetPin
<1>11. ASSUME NEW p \in Proc, NEW t \in Target, SetDefault(p, t)  PROVE LeaseInv'
  <2>1. SelectCommand(registry, t).installations = registry.installations
    BY <1>t DEF SelectCommand, DropCommand, AppStatus
  <2> QED  BY <1>4, <1>11, <2>1 DEF SetDefault
<1>12. ASSUME NEW p \in Proc, NEW t \in Target, ClearDefault(p, t)  PROVE LeaseInv'
  <2>1. \A n : DropCommand(registry, n).installations = registry.installations
    BY <1>t DEF DropCommand, AppStatus
  <2> QED  BY <1>4, <1>12, <2>1 DEF ClearDefault
<1>13. ASSUME NEW p \in Proc, NEW t \in Target, Uninstall(p, t)  PROVE LeaseInv'
  <2> DEFINE i == UninstallTarget(registry, t)
             next == Forget(registry, i)
  <2>1. Stage(p, next, "save") /\ LeaseFree(i)
    BY <1>13 DEF Uninstall
  <2>2. next.installations = registry.installations \ {i}
    BY <1>t DEF Forget, AppStatus
  <2> HIDE DEF i, next
  <2>3. \A o \in Proc : leased[o] # NoId => leased[o] \in next.installations
    BY <1>g, <2>1, <2>2 DEF LeaseFree
  <2> QED  BY <1>13, <2>1, <2>3, LeaseStage DEF Uninstall, LockExclusive, job
<1>14. ASSUME NEW p \in Proc, Save(p)  PROVE LeaseInv'
  <2>1. /\ lockSh = {} /\ pc[p] \in {"save", "saveInstall"} /\ registry' = snap[p]
        /\ \A q \in Proc \ {p} : pc[q] \notin Writing
    BY <1>14, AppStoreAssumption DEF Save, IInv, LockInv, Writing
  <2>2. \A q \in Proc : pc[q] \notin Selecting
    BY <2>1 DEF LeaseInv
  <2>3. \A o \in Proc : leased[o] # NoId => leased[o] \in registry'.installations
    BY <2>1 DEF LeaseInv
  <2>4. /\ pc'[p] \in {"remove", "idle"} /\ \A q \in Proc \ {p} : pc'[q] = pc[q]
        /\ \A o \in Proc : leased'[o] \in {leased[o], NoId}
        /\ lockFile' = lockFile
    BY <1>14, <1>t DEF Save, Goto, Return, TypeOK, leases, files
  <2> QED  BY <1>t, <2>1, <2>2, <2>3, <2>4 DEF LeaseInv, Selecting, Writing
<1>15. ASSUME NEW p \in Proc, RemoveFile(p)  PROVE LeaseInv'
  BY <1>15 DEF RemoveFile, LeaseInv, lock, leases, job
<1>16. ASSUME NEW p \in Proc, ExecLock(p)  PROVE LeaseInv'
  <2>1. pc'[p] = "execSelect" /\ \A q \in Proc \ {p} : pc'[q] = pc[q]
    BY <1>16, <1>t DEF ExecLock, Goto, TypeOK
  <2>2. lockSh' = lockSh \cup {p} /\ lockFile' = lockFile
        /\ UNCHANGED <<registry, snap, inst, leased>>
    BY <1>16, <1>t DEF ExecLock, LockShared, leases, job
  <2> QED  BY <2>1, <2>2 DEF LeaseInv, Selecting
<1>17. ASSUME NEW p \in Proc, NEW i \in Release, ExecSelect(p, i)  PROVE LeaseInv'
  <2>1. /\ pc[p] = "execSelect" /\ pc'[p] = "execLease" /\ inst'[p] = i
        /\ i \in registry.installations
        /\ \A q \in Proc \ {p} : pc'[q] = pc[q] /\ inst'[q] = inst[q]
    BY <1>17, <1>t DEF ExecSelect, Goto, TypeOK
  <2>2. UNCHANGED <<registry, lockFile, lockSh, snap, leased>>
    BY <1>17 DEF ExecSelect, files, lock, leases
  <2> QED  BY <2>1, <2>2 DEF LeaseInv, Selecting
<1>18. ASSUME NEW p \in Proc, ExecStart(p)  PROVE LeaseInv'
  <2>1. /\ pc[p] = "execLease" /\ pc'[p] = "running" /\ leased'[p] = inst[p]
        /\ \A q \in Proc \ {p} : pc'[q] = pc[q] /\ inst'[q] = inst[q]
                                 /\ leased'[q] = leased[q]
    BY <1>18, <1>t DEF ExecStart, Goto, TypeOK
  <2>2. lockSh' = lockSh \ {p} /\ UNCHANGED <<registry, lockFile, snap>>
    BY <1>18 DEF ExecStart, files
  <2>3. inst[p] \in registry.installations /\ p \in lockSh
    BY <2>1 DEF LeaseInv, Selecting
  <2>4. \A q \in Proc : pc[q] \notin {"save", "saveInstall"}
    BY <2>3, AppStoreAssumption DEF IInv, LockInv, Writing
  <2> QED  BY <2>1, <2>2, <2>3, <2>4 DEF LeaseInv, Selecting
<1>19. ASSUME NEW p \in Proc, ExecReject(p) \/ ExecEnd(p) \/ Crash(p)  PROVE LeaseInv'
  BY <1>19, LeaseReturn DEF ExecReject, ExecEnd, Crash, files
<1>20. CASE UNCHANGED vars
  BY <1>20 DEF vars, LeaseInv
<1> QED
  BY <1>1, <1>2, <1>3, <1>5, <1>6, <1>7, <1>8, <1>9, <1>10, <1>11, <1>12, <1>13,
     <1>14, <1>15, <1>16, <1>17, <1>18, <1>19, <1>20 DEF Next, Start, Step

\* A directory changes by a commit or by a removal.
LEMMA DirChangers ==
    ASSUME [Next]_vars
    PROVE  \/ dir' = dir
           \/ \E p \in Proc : Commit(p) \/ RemoveFile(p) \/ RemoveDir(p)
<1>1. ASSUME NEW p \in Proc, Step(p), ~ Commit(p), ~ RemoveDir(p)  PROVE dir' = dir
  BY <1>1 DEF Step, InstallLock, InstallLookup, InstallSaved, Fetch, Link, InstallReject,
              Save, ExecSelect, ExecStart, ExecReject, files
<1>2. ASSUME NEW p \in Proc, Start(p)  PROVE dir' = dir
  BY <1>2 DEF Start, InstallStart, Update, SetPin, SetDefault, ClearDefault, Uninstall,
              ExecLock, files
<1>3. ASSUME NEW p \in Proc, ExecEnd(p) \/ SaveFails(p) \/ Crash(p)  PROVE dir' = dir
  BY <1>3 DEF ExecEnd, SaveFails, Crash, files
<1>4. CASE UNCHANGED vars
  BY <1>4 DEF vars
<1> QED  BY <1>1, <1>2, <1>3, <1>4 DEF Next

\* The directory of a registered release stays as it is: a commit keeps an
\* artifact that is there, and a removal works on an unregistered release.
LEMMA RegisteredDirKept ==
    ASSUME IInv, [Next]_vars, NEW i \in registry.installations
    PROVE  dir'[i] = dir[i]
<1>1. i \in Release /\ HasArtifact(i)
  BY DEF IInv, TypeOK, AppStatus, RegistryNamesArtifacts
<1>2. ASSUME NEW p \in Proc, Commit(p)  PROVE dir'[i] = dir[i]
  BY <1>1, <1>2 DEF Commit, IInv, TypeOK
<1>3. ASSUME NEW p \in Proc, RemoveFile(p) \/ RemoveDir(p)  PROVE dir'[i] = dir[i]
  <2>1. removing[p] # i
    BY <1>3 DEF RemoveFile, RemoveDir, IInv, ProcInv, RecordGone
  <2>2. PICK d : dir' = [dir EXCEPT ![removing[p]] = d]
    BY <1>3 DEF RemoveFile, RemoveDir
  <2> QED  BY <1>1, <2>1, <2>2 DEF IInv, TypeOK
<1> QED  BY <1>2, <1>3, DirChangers

(* In a home that has been used before, nothing happens to the directory   *)
(* of a release while a child runs from it.                                *)
THEOREM LeasesProtect == ASSUME ~ FreshHome PROVE Spec => RunningKept
<1> DEFINE A == \A p \in Proc, i \in Release :
                    pc[p] = "running" /\ leased[p] = i => dir'[i] = dir[i]
<1>1. Init => LeaseInv
  BY DEF Init, LeaseInv, Selecting
<1>2. IInv /\ LeaseInv /\ [Next]_vars => LeaseInv'
  BY LeaseStep
<1>3. IInv /\ LeaseInv /\ [Next]_vars => [A]_vars
  BY RegisteredDirKept, AppAssumption DEF LeaseInv
<1> QED  BY <1>1, <1>2, <1>3, StoreInvariant, PTL DEF Spec, RunningKept

\* A lease is shared by executions or held by one uninstall.
ExclusiveInv ==
    \A p, q \in Proc : leased[p] # NoId => leased[p] # removing[q]

\* Steps other than uninstall and the start of a child take no lease.
LEMMA LeasesShrink ==
    ASSUME IInv, [Next]_vars,
           ~ \E p \in Proc, t \in Target : Uninstall(p, t),
           ~ \E p \in Proc : ExecStart(p)
    PROVE  \A q \in Proc : leased'[q] \in {leased[q], NoId} /\ removing'[q] \in {removing[q], NoId}
<1> USE DEF Return, leases, IInv, TypeOK
<1>1. ASSUME NEW p \in Proc, Step(p)
      PROVE  \A q \in Proc : leased'[q] \in {leased[q], NoId}
                             /\ removing'[q] \in {removing[q], NoId}
  BY <1>1 DEF Step, InstallLock, InstallLookup, InstallSaved, Fetch, Commit, Link,
              InstallReject, Save, RemoveDir, ExecSelect, ExecReject
<1>2. ASSUME NEW p \in Proc, Start(p)  PROVE UNCHANGED leases
  BY <1>2 DEF Start, InstallStart, Update, SetPin, SetDefault, ClearDefault, ExecLock
<1>3. ASSUME NEW p \in Proc, ExecEnd(p) \/ SaveFails(p) \/ RemoveFile(p) \/ Crash(p)
      PROVE  \A q \in Proc : leased'[q] \in {leased[q], NoId}
                             /\ removing'[q] \in {removing[q], NoId}
  BY <1>3 DEF ExecEnd, SaveFails, RemoveFile, Crash
<1>4. CASE UNCHANGED vars
  BY <1>4 DEF vars
<1> QED  BY <1>1, <1>2, <1>3, <1>4 DEF Next

(* In every home, also one that is being created, no step takes a file     *)
(* from the directory of a running release: only a missing artifact can    *)
(* come back, by an install.                                               *)
THEOREM RunningNeverRemoved ==
    Spec => [][ \A p \in Proc, i \in Release :
                    pc[p] = "running" /\ leased[p] = i =>
                        \/ dir'[i] = dir[i]
                        \/ ~ HasArtifact(i) /\ dir'[i] = "whole" ]_vars
<1> DEFINE A == \A p \in Proc, i \in Release :
                    pc[p] = "running" /\ leased[p] = i =>
                        \/ dir'[i] = dir[i]
                        \/ ~ HasArtifact(i) /\ dir'[i] = "whole"
<1>1. Init => ExclusiveInv
  BY DEF Init, ExclusiveInv
<1>2. IInv /\ ExclusiveInv /\ [Next]_vars => ExclusiveInv'
  <2> SUFFICES ASSUME IInv, ExclusiveInv, [Next]_vars PROVE ExclusiveInv'
    OBVIOUS
  <2>1. ASSUME NEW p \in Proc, NEW t \in Target, Uninstall(p, t)  PROVE ExclusiveInv'
    BY <2>1 DEF Uninstall, LeaseFree, ExclusiveInv, IInv, TypeOK
  <2>2. ASSUME NEW p \in Proc, ExecStart(p)  PROVE ExclusiveInv'
    BY <2>2 DEF ExecStart, ExclusiveInv, IInv, TypeOK
  <2>3. CASE /\ ~ \E p \in Proc, t \in Target : Uninstall(p, t)
             /\ ~ \E p \in Proc : ExecStart(p)
    BY <2>3, LeasesShrink DEF ExclusiveInv
  <2> QED  BY <2>1, <2>2, <2>3
<1>3. IInv /\ ExclusiveInv /\ [Next]_vars => [A]_vars
  <2> SUFFICES ASSUME IInv, ExclusiveInv, Next, NEW p \in Proc, NEW i \in Release,
                      leased[p] = i
               PROVE  dir'[i] = dir[i] \/ (~ HasArtifact(i) /\ dir'[i] = "whole")
    OBVIOUS
  <2>1. ASSUME NEW q \in Proc, Commit(q)
        PROVE  dir'[i] = dir[i] \/ (~ HasArtifact(i) /\ dir'[i] = "whole")
    BY <2>1 DEF Commit, IInv, TypeOK
  <2>2. ASSUME NEW q \in Proc, RemoveFile(q) \/ RemoveDir(q)  PROVE dir'[i] = dir[i]
    <3>1. removing[q] # i
      BY AppAssumption DEF ExclusiveInv
    <3>2. PICK d : dir' = [dir EXCEPT ![removing[q]] = d]
      BY <2>2 DEF RemoveFile, RemoveDir
    <3> QED  BY <3>1, <3>2 DEF IInv, TypeOK
  <2>3. CASE dir' = dir
    BY <2>3
  <2> QED  BY <2>1, <2>2, <2>3, DirChangers
<1> QED  BY <1>1, <1>2, <1>3, StoreInvariant, PTL DEF Spec

-----------------------------------------------------------------------------
(* Waiting.                                                                *)

\* p waits for q: for the registry lock, which q holds, or for a lease q
\* holds exclusively.
Waits(p, q) ==
    \/ pc[p] = "installLock" /\ lockFile /\ lockEx = q
    \/ pc[p] \in {"reselect", "commit"} /\ (lockEx = q \/ q \in lockSh)
    \/ pc[p] = "execLease" /\ inst[p] \in leaseFile /\ removing[q] = inst[p]

\* The phases in which the shared registry lock may be held.
Reading == {"installLookup"} \cup Selecting

SharedInv == \A q \in lockSh : pc[q] \in Reading

\* A step in which p goes to another phase, and keeps the lock to read only.
LEMMA SharedMove ==
    ASSUME TypeOK, SharedInv, NEW p \in Proc, NEW phase, Goto(p, phase),
           lockSh' \subseteq lockSh \cup {p}, p \in lockSh' => phase \in Reading
    PROVE  SharedInv'
BY DEF SharedInv, Goto, TypeOK

\* Readers drop the shared lock on their way out of the reading phases.
LEMMA SharedStep ==
    ASSUME IInv, SharedInv, [Next]_vars
    PROVE  SharedInv'
<1>t. TypeOK
  BY DEF IInv
<1>0. ASSUME NEW p \in Proc, pc[p] \notin Reading  PROVE p \notin lockSh
  BY <1>0 DEF SharedInv
<1>1. ASSUME NEW p \in Proc, Return(p)  PROVE SharedInv'
  BY <1>t, <1>1, SharedMove DEF Return
<1>2. ASSUME NEW p \in Proc, InstallSaved(p) \/ Commit(p)  PROVE SharedInv'
  <2>1. lockSh = {} /\ lockSh' = {}
    BY <1>2 DEF InstallSaved, Commit, LockExclusive, Stage, Return
  <2> QED  BY <2>1 DEF SharedInv
<1>3. ASSUME NEW p \in Proc, Link(p) \/ Save(p)  PROVE SharedInv'
  <2>1. p \notin lockSh
    BY <1>0, <1>3 DEF Link, Save, Reading, Selecting
  <2>2. Return(p) \/ (lockSh' = lockSh /\ \E phase \in Phase : Goto(p, phase))
    BY <1>3 DEF Link, Save, Stage, lock, Phase
  <2> QED  BY <1>t, <1>1, <2>1, <2>2, SharedMove
<1>4. ASSUME NEW p \in Proc, InstallLock(p) \/ ExecLock(p)  PROVE SharedInv'
  BY <1>t, <1>4, SharedMove DEF InstallLock, ExecLock, LockShared, Reading, Selecting
<1>5. ASSUME NEW p \in Proc, InstallLookup(p) \/ ExecStart(p)  PROVE SharedInv'
  BY <1>t, <1>5, SharedMove DEF InstallLookup, ExecStart
<1>6. ASSUME NEW p \in Proc, NEW i \in Release, Fetch(p, i)  PROVE SharedInv'
  <2>1. p \notin lockSh
    BY <1>0, <1>6 DEF Fetch, Reading, Selecting
  <2> QED  BY <1>t, <1>6, <2>1, SharedMove DEF Fetch, lock
<1>7. ASSUME NEW p \in Proc, NEW i \in Release, ExecSelect(p, i)  PROVE SharedInv'
  BY <1>t, <1>7, SharedMove DEF ExecSelect, lock, Reading, Selecting
<1>8. ASSUME NEW p \in Proc, Start(p)  PROVE SharedInv'
  <2>1. CASE ExecLock(p)
    BY <1>4, <2>1
  <2>2. CASE Start(p) /\ ~ ExecLock(p)
    <3>1. pc[p] = "idle" /\ lockSh' = lockSh
      BY <2>2 DEF Start, InstallStart, Update, SetPin, SetDefault, ClearDefault,
                  Uninstall, Stage, lock
    <3>2. \E phase \in Phase : Goto(p, phase)
      BY <2>2 DEF Start, InstallStart, Update, SetPin, SetDefault, ClearDefault,
                  Uninstall, Stage, Phase
    <3> QED  BY <1>t, <1>0, <3>1, <3>2, SharedMove DEF Reading, Selecting
  <2> QED  BY <1>8, <2>1, <2>2
<1>9. ASSUME NEW p \in Proc,
             \/ InstallReject(p) \/ SaveFails(p) \/ RemoveDir(p)
             \/ ExecReject(p) \/ ExecEnd(p) \/ Crash(p)
       PROVE  SharedInv'
  BY <1>1, <1>9 DEF InstallReject, SaveFails, RemoveDir, ExecReject, ExecEnd, Crash
<1>10. CASE UNCHANGED <<pc, lockSh>>
  BY <1>10 DEF SharedInv
<1> QED
  BY <1>2, <1>3, <1>4, <1>5, <1>6, <1>7, <1>8, <1>9, <1>10
     DEF Next, Step, RemoveFile, lock, vars

(* Whoever is waited for waits for nobody: no chain of commands waiting    *)
(* for the registry lock and for leases is longer than one, so none closes *)
(* to a deadlock, in any home, with any number of processes.               *)
THEOREM WaitedForNeverWaits ==
    Spec => [](\A p, q, o \in Proc : Waits(p, q) => ~ Waits(q, o))
<1> DEFINE NoChain == \A p, q, o \in Proc : Waits(p, q) => ~ Waits(q, o)
<1>1. Init => SharedInv
  BY DEF Init, SharedInv
<1>2. IInv /\ SharedInv /\ [Next]_vars => SharedInv'
  BY SharedStep
<1>3. IInv /\ SharedInv => NoChain
  <2> SUFFICES ASSUME IInv, SharedInv, NEW p \in Proc, NEW q \in Proc, NEW o \in Proc,
                      Waits(p, q), Waits(q, o)
               PROVE  FALSE
    OBVIOUS
  <2>1. ASSUME NEW r \in Proc, removing[r] # NoId  PROVE lockEx = r
    BY <2>1 DEF IInv, ProcInv, JobKnown, LockInv, Writing
  <2>2. CASE lockEx = q
    <3>1. pc[q] \in Writing
      BY <2>2 DEF IInv, LockInv
    <3> QED  BY <3>1 DEF Waits, Writing
  <2>3. CASE q \in lockSh
    <3>1. pc[q] = "execLease" /\ removing[o] = inst[q]
      BY <2>3 DEF SharedInv, Reading, Selecting, Waits, IInv, LockInv
    <3>2. inst[q] # NoId
      BY <3>1, AppAssumption DEF IInv, ProcInv, JobKnown
    <3>3. lockEx = o /\ lockEx # NoProc
      BY <2>1, <3>1, <3>2, AppStoreAssumption
    <3> QED  BY <2>3, <3>3 DEF IInv, LockInv
  <2>4. CASE pc[p] = "execLease" /\ removing[q] = inst[p]
    <3>1. inst[p] # NoId
      BY <2>4, AppAssumption DEF IInv, ProcInv, JobKnown
    <3> QED  BY <2>1, <2>2, <2>4, <3>1
  <2> QED  BY <2>2, <2>3, <2>4 DEF Waits
<1> QED  BY <1>1, <1>2, <1>3, StoreInvariant, PTL DEF Spec
=============================================================================
