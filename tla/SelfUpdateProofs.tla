-------------------------- MODULE SelfUpdateProofs --------------------------
(***************************************************************************)
(* The managed executable is never lost, for any number of processes and   *)
(* versions.  BackupInv is the part of the invariant that CopySurvives     *)
(* needs: cleanup() deletes backups, so a backup alone is no guarantee, and*)
(* while the managed path is empty some kept directory has a candidate.    *)
(***************************************************************************)
EXTENDS SelfUpdate, TLAPS

Kept == \E d \in left : d.candidate # 0

Publishing == \E p \in Proc : pc[p] = "publish" /\ old[p] # 0

\* Where a replacement stands, and what may be relied on while it stands there.
BackupInv ==
    /\ left # {} => target # 0 \/ Publishing \/ Kept
    /\ \A p \in Proc :
            /\ pc[p] = "publish" => target = 0
            /\ pc[p] = "drop" => target # 0
            /\ old[p] # 0 => pc[p] \in {"publish", "drop"}

\* A version that is not "none" is a version.
LEMMA NonZero == ASSUME NEW v \in File, v # 0 PROVE v \in Version
  BY SelfAssumption DEF File, Version

\* What a command stages is some version.
LEMMA Source ==
    ASSUME TypeOK, NEW p \in Proc, pc[p] # "idle"
    PROVE  /\ image[p] \in Version /\ latest \in Version
           /\ kind[p] = "given" => want[p] \in Version
<1>1. image[p] \in File /\ image[p] # 0 /\ latest \in Version
  BY DEF TypeOK
<1>2. want[p] \in File /\ (kind[p] = "given" => want[p] # 0)
  BY DEF TypeOK
<1> QED
  BY <1>1, <1>2, NonZero

\* Every step of self install and self update keeps the types, the mutual
\* exclusion of the lock and the candidate that replace() needs.
LEMMA TypeStep == TypeOK /\ [Next]_vars => TypeOK'
<1> SUFFICES ASSUME TypeOK, [Next]_vars PROVE TypeOK'
  OBVIOUS
<1> USE SelfAssumption DEF TypeOK, Version, File, Staging, Kind, Phase, Goto
<1>1. CASE UNCHANGED vars
  BY <1>1 DEF vars
<1>2. ASSUME NEW p \in Proc, NEW k \in Kind, NEW i \in Version, NEW v \in File, Start(p, k, i, v),
             k = "given" => v # 0
      PROVE  TypeOK'
  BY <1>2 DEF Start
<1>3. ASSUME NEW p \in Proc, NEW v \in Version, Install(p, v) \/ UpdateGiven(p, v)
      PROVE  TypeOK'
  BY <1>2, <1>3 DEF Install, UpdateGiven
<1>4. ASSUME NEW p \in Proc, Reinstall(p) \/ UpdateLatest(p) PROVE TypeOK'
  BY <1>2, <1>4 DEF Reinstall, UpdateLatest
<1>5. ASSUME NEW p \in Proc, Return(p), windows' = windows, target' \in File, latest' \in Version, left' \subseteq Staging,
             lock = p \/ lock = NoProc \/ pc[p] = "lock"
      PROVE  TypeOK'
  BY <1>5 DEF Return
<1>6. ASSUME NEW p \in Proc, Keep(p) PROVE left' \subseteq Staging
  BY <1>6 DEF Keep
<1>7. ASSUME NEW p \in Proc, Lock(p) PROVE TypeOK'
  <2>1. left' \subseteq Staging
    <3>1. PICK S \in SUBSET Version : Cleanup(S)
      BY <1>7 DEF Lock
    <3> QED
      BY <3>1 DEF Cleanup
  <2>2. CASE Return(p) /\ UNCHANGED target
    BY <1>5, <1>7, <2>1, <2>2 DEF Lock
  <2>3. CASE lock' = p /\ Goto(p, "acquire") /\ UNCHANGED <<target, kind, image, want, staged, old>>
    BY <1>7, <2>1, <2>3 DEF Lock
  <2> QED
    BY <1>7, <2>2, <2>3 DEF Lock
<1>8. ASSUME NEW p \in Proc, Acquire(p) PROVE TypeOK'
  <2> DEFINE c == CASE kind[p] = "latest" -> latest
                    [] kind[p] = "given"  -> want[p]
                    [] OTHER              -> image[p]
  <2>1. c \in Version
    <3>1. image[p] \in Version /\ latest \in Version /\ (kind[p] = "given" => want[p] \in Version)
      BY <1>8, Source DEF Acquire
    <3> QED
      BY <3>1
  <2>2. staged' = [staged EXCEPT ![p] = c]
    BY <1>8 DEF Acquire
  <2> HIDE DEF c
  <2> QED
    BY <1>8, <2>1, <2>2 DEF Acquire
<1>9. ASSUME NEW p \in Proc, GiveUp(p) PROVE TypeOK'
  BY <1>5, <1>9 DEF GiveUp
<1>10. ASSUME NEW p \in Proc, Replace(p) PROVE TypeOK'
  <2>1. CASE windows
    BY <1>10, <2>1 DEF Replace
  <2>2. CASE ~ windows
    BY <1>5, <1>10, <2>2 DEF Replace
  <2> QED
    BY <2>1, <2>2
<1>11. ASSUME NEW p \in Proc, Publish(p) PROVE TypeOK'
  BY <1>11 DEF Publish
<1>12. ASSUME NEW p \in Proc, PublishFails(p) PROVE TypeOK'
  BY <1>5, <1>6, <1>12 DEF PublishFails
<1>13. ASSUME NEW p \in Proc, Drop(p) PROVE TypeOK'
  BY <1>5, <1>6, <1>13 DEF Drop
<1>14. ASSUME NEW p \in Proc, Crash(p) PROVE TypeOK'
  BY <1>5, <1>6, <1>14 DEF Crash
<1>15. CASE Publication
  BY <1>15 DEF Publication
<1> QED
  BY <1>1, <1>3, <1>4, <1>7, <1>8, <1>9, <1>10, <1>11, <1>12, <1>13, <1>14, <1>15 DEF Next

\* cleanup() leaves every candidate where it is.
LEMMA CleanupKeeps == ASSUME NEW S, Cleanup(S), Kept PROVE Kept'
<1>1. PICK d \in left : d.candidate # 0
  BY DEF Kept
<1> DEFINE e == [candidate |-> d.candidate, old |-> IF d.old \in S THEN d.old ELSE 0]
<1>2. e \in left'
  BY <1>1 DEF Cleanup
<1> QED
  BY <1>1, <1>2 DEF Kept

\* A directory that is kept with something in it is there afterwards.
LEMMA KeepKeeps ==
    ASSUME NEW p \in Proc, Keep(p), staged[p] # 0
    PROVE  Kept' /\ left' # {}
<1> DEFINE e == [candidate |-> staged[p], old |-> old[p]]
<1>1. e.candidate # [candidate |-> 0, old |-> 0].candidate
  OBVIOUS
<1>2. e \in left'
  BY <1>1 DEF Keep
<1> QED
  BY <1>2 DEF Kept

\* No step but the end of a replacement on Windows, and a crash, changes what
\* is in the kept directories other than by cleanup, and then only backups go.
LEMMA BackupStep == TypeOK /\ BackupInv /\ [Next]_vars => BackupInv'
<1> SUFFICES ASSUME TypeOK, BackupInv, [Next]_vars PROVE BackupInv'
  OBVIOUS
<1> USE SelfAssumption DEF TypeOK, BackupInv, Kept, Publishing, Goto, Return
<1>1. CASE UNCHANGED <<target, left, pc, old>>
  BY <1>1
<1>2. ASSUME NEW p \in Proc, NEW k, NEW i, NEW v, Start(p, k, i, v) PROVE BackupInv'
  BY <1>2 DEF Start
<1>3. ASSUME NEW p \in Proc, Lock(p) PROVE BackupInv'
  <2>1. PICK S \in SUBSET Version : Cleanup(S)
    BY <1>3 DEF Lock
  <2>2. target' = target /\ ~ Publishing
    BY <1>3 DEF Lock
  <2>3. left' # {} => left # {}
    BY <2>1 DEF Cleanup
  <2>4. Kept => Kept'
    BY <2>1, CleanupKeeps
  <2> QED
    BY <1>3, <2>2, <2>3, <2>4 DEF Lock
<1>4. ASSUME NEW p \in Proc, Acquire(p) \/ GiveUp(p) PROVE BackupInv'
  BY <1>4 DEF Acquire, GiveUp
<1>5. ASSUME NEW p \in Proc, Replace(p) PROVE BackupInv'
  BY <1>5 DEF Replace, File, Version
<1>6. ASSUME NEW p \in Proc, Publish(p) PROVE BackupInv'
  BY <1>6 DEF Publish
<1>7. ASSUME NEW p \in Proc, Keep(p), staged[p] # 0 PROVE Kept'
  BY <1>7, KeepKeeps
<1>8. ASSUME NEW p \in Proc, PublishFails(p) PROVE BackupInv'
  <2>1. CASE target' = old[p] /\ UNCHANGED left
    BY <1>8, <2>1 DEF PublishFails
  <2>2. CASE Keep(p) /\ UNCHANGED target
    <3>1. Kept'
      BY <1>7, <1>8, <2>2 DEF PublishFails
    <3> QED
      BY <1>8, <2>2, <3>1 DEF PublishFails
  <2> QED
    BY <1>8, <2>1, <2>2 DEF PublishFails
<1>9. ASSUME NEW p \in Proc, Drop(p) PROVE BackupInv'
  BY <1>9 DEF Drop
<1>10. ASSUME NEW p \in Proc, Crash(p) PROVE BackupInv'
  <2>1. CASE staged[p] # 0
    <3>1. Kept'
      BY <1>7, <1>10, <2>1 DEF Crash
    <3> QED
      BY <1>10, <3>1 DEF Crash
  <2>2. CASE staged[p] = 0 /\ old[p] = 0
    <3>1. left' = left
      BY <1>10, <2>2 DEF Crash, Keep
    <3> QED
      BY <1>10, <2>2, <3>1 DEF Crash
  <2>3. CASE staged[p] = 0 /\ old[p] # 0
    BY <1>10, <2>3 DEF Crash
  <2> QED
    BY <2>1, <2>2, <2>3
<1>11. CASE Publication
  BY <1>11, <1>1 DEF Publication
<1> QED
  BY <1>1, <1>2, <1>3, <1>4, <1>5, <1>6, <1>8, <1>9, <1>10, <1>11
     DEF Next, vars, Install, UpdateGiven, Reinstall, UpdateLatest

\* The lock is exclusive, and where every command stands is as BackupInv says.
LEMMA Invariants == Spec => [](TypeOK /\ BackupInv)
<1>1. Init => TypeOK /\ BackupInv
  BY SelfAssumption DEF Init, TypeOK, BackupInv, Version, File, Staging, Kind, Phase
<1> QED
  BY <1>1, TypeStep, BackupStep, PTL DEF Spec

\* On Unix the managed path, once occupied, stays occupied, whatever fails or
\* stops: replace() is one rename of a complete candidate.
THEOREM UnixNeverMissing == Spec => NeverMissing
<1> DEFINE A == ~ windows /\ target # 0 => target' # 0
<1>1. TypeOK /\ BackupInv /\ [Next]_vars => [A]_vars
  <2> SUFFICES ASSUME TypeOK, BackupInv, Next, ~ windows, target # 0 PROVE target' # 0
    OBVIOUS
  <2> USE DEF TypeOK, BackupInv
  <2>1. ASSUME NEW p \in Proc, Replace(p) PROVE target' # 0
    BY <2>1 DEF Replace
  <2>2. ASSUME NEW p \in Proc, Publish(p) \/ PublishFails(p) PROVE target' # 0
    BY <2>2 DEF Publish, PublishFails
  <2>3. ASSUME NEW p \in Proc, Lock(p) PROVE target' = target
    BY <2>3 DEF Lock
  <2>4. ASSUME NEW p \in Proc, Acquire(p) \/ GiveUp(p) \/ Drop(p) \/ Crash(p) PROVE target' = target
    BY <2>4 DEF Acquire, GiveUp, Drop, Crash
  <2> QED
    BY <2>1, <2>2, <2>3, <2>4
       DEF Next, Publication, Install, UpdateGiven, Reinstall, UpdateLatest, Start
<1> QED
  BY <1>1, Invariants, PTL DEF Spec, NeverMissing

\* On either platform no sequence of commands, failed renames, crashes and
\* cleanups of other commands' directories loses the last executable.
THEOREM NothingLost == Spec => CopySurvives
<1> DEFINE A == Recoverable => Recoverable'
<1>1. TypeOK /\ BackupInv /\ [Next]_vars => [A]_vars
  <2> SUFFICES ASSUME TypeOK, BackupInv, Next, Recoverable PROVE Recoverable'
    OBVIOUS
  <2> USE DEF TypeOK, BackupInv, Kept, Publishing, Recoverable
  <2>1. BackupInv'
    BY BackupStep
  <2>2. left' # {} => Recoverable'
    BY <2>1
  <2>3. ASSUME target' = target, left \subseteq left', UNCHANGED <<pc, old>> PROVE Recoverable'
    BY <2>2, <2>3
  <2>4. ASSUME NEW p \in Proc, NEW k, NEW i, NEW v, Start(p, k, i, v) PROVE Recoverable'
    BY <2>2, <2>4 DEF Start, Goto
  <2>5. ASSUME NEW p \in Proc, Lock(p) PROVE Recoverable'
    <3>1. PICK S \in SUBSET Version : Cleanup(S)
      BY <2>5 DEF Lock
    <3>2. target' = target /\ ~ Publishing
      BY SelfAssumption, <2>5 DEF Lock
    <3>3. Kept => Kept'
      BY <3>1, CleanupKeeps
    <3>4. target # 0 \/ Kept
      BY <3>2
    <3> QED
      BY <3>2, <3>3, <3>4
  <2>6. ASSUME NEW p \in Proc, Acquire(p) \/ GiveUp(p) PROVE Recoverable'
    BY <2>2, <2>6 DEF Acquire, GiveUp, Goto, Return
  <2>7. ASSUME NEW p \in Proc, Replace(p) PROVE Recoverable'
    BY <2>2, <2>7 DEF Replace, Goto, Return
  <2>8. ASSUME NEW p \in Proc, Publish(p) PROVE Recoverable'
    BY <2>8 DEF Publish
  <2>9. ASSUME NEW p \in Proc, PublishFails(p) PROVE Recoverable'
    BY <2>2, <2>9, KeepKeeps DEF PublishFails
  <2>10. ASSUME NEW p \in Proc, Drop(p) PROVE Recoverable'
    BY <2>10 DEF Drop
  <2>11. ASSUME NEW p \in Proc, Crash(p) PROVE Recoverable'
    <3>1. left \subseteq left' /\ target' = target
      BY <2>11 DEF Crash, Keep
    <3>2. ASSUME pc[p] = "publish" PROVE left' # {}
      BY <2>11, <3>2, KeepKeeps DEF Crash
    <3> QED
      BY <2>2, <2>11, <3>1, <3>2 DEF Crash, Return, Goto
  <2>12. CASE Publication
    BY <2>3, <2>12 DEF Publication
  <2> QED
    BY <2>4, <2>5, <2>6, <2>7, <2>8, <2>9, <2>10, <2>11, <2>12
       DEF Next, Install, UpdateGiven, Reinstall, UpdateLatest
<1> QED
  BY <1>1, Invariants, PTL DEF Spec, CopySurvives

-----------------------------------------------------------------------------
\* A replacement on Windows ends early by a failed rename or a crash, and both
\* leave the old executable at the managed path or in a directory that stays.
THEOREM OldRestored == Spec => FailureRestores
<1> DEFINE A == \A p \in Proc :
                    pc[p] = "publish" /\ pc'[p] = "idle" /\ old[p] # 0
                        => target' = old[p] \/ \E d \in left' : d.old = old[p]
<1>1. TypeOK /\ BackupInv /\ [Next]_vars => [A]_vars
  <2> SUFFICES ASSUME TypeOK, Next, NEW p \in Proc,
                      pc[p] = "publish", pc'[p] = "idle", old[p] # 0
               PROVE  target' = old[p] \/ \E d \in left' : d.old = old[p]
    OBVIOUS
  <2>1. ASSUME Keep(p)  PROVE \E d \in left' : d.old = old[p]
    <3> DEFINE d == [candidate |-> staged[p], old |-> old[p]]
    <3>1. d.old # [candidate |-> 0, old |-> 0].old
      OBVIOUS
    <3>2. d \in left'
      BY <2>1, <3>1 DEF Keep
    <3> QED  BY <3>2
  <2>2. PublishFails(p) \/ Crash(p)
    <3>1. ASSUME NEW q \in Proc, (\E v \in Version : Install(q, v) \/ UpdateGiven(q, v))
                   \/ Reinstall(q) \/ UpdateLatest(q)
          PROVE  FALSE
      BY <3>1 DEF Install, UpdateGiven, Reinstall, UpdateLatest, Start, Goto, TypeOK
    <3>2. ASSUME NEW q \in Proc, Lock(q) \/ Acquire(q) \/ GiveUp(q) \/ Replace(q) \/ Publish(q)
                   \/ Drop(q)
          PROVE  FALSE
      BY <3>2 DEF Lock, Acquire, GiveUp, Replace, Publish, Drop, Return, Goto, TypeOK
    <3>3. ASSUME NEW q \in Proc, PublishFails(q) \/ Crash(q)  PROVE q = p
      BY <3>3 DEF PublishFails, Crash, Return, Goto, TypeOK
    <3> QED  BY <3>1, <3>2, <3>3 DEF Next, Publication
  <2> QED  BY <2>1, <2>2 DEF PublishFails, Crash
<1> QED
  BY <1>1, Invariants, PTL DEF Spec, FailureRestores

\* An update to the latest release has staged something newer than it runs as.
NewerInv ==
    \A p \in Proc : kind[p] = "latest" /\ pc[p] \in {"replace", "publish"}
                        => staged[p] > image[p]

\* The comparison that Acquire makes stays true until the candidate is in place,
\* because nobody else touches what a command has staged.
LEMMA NewerStep == TypeOK /\ NewerInv /\ [Next]_vars => NewerInv'
<1> SUFFICES ASSUME TypeOK, NewerInv, [Next]_vars PROVE NewerInv'
  OBVIOUS
<1> USE DEF TypeOK, NewerInv, Goto
<1>1. CASE UNCHANGED vars
  BY <1>1 DEF vars
<1>2. ASSUME NEW p \in Proc, NEW k, NEW i, NEW v, Start(p, k, i, v)  PROVE NewerInv'
  BY <1>2 DEF Start
<1>3. ASSUME NEW p \in Proc, Return(p)  PROVE NewerInv'
  BY <1>3 DEF Return
<1>4. ASSUME NEW p \in Proc, Lock(p)  PROVE NewerInv'
  BY <1>3, <1>4 DEF Lock
<1>5. ASSUME NEW p \in Proc, Acquire(p)  PROVE NewerInv'
  <2>1. latest \in Nat /\ image[p] \in Nat
    BY SelfAssumption DEF File, Version
  <2>2. kind[p] = "latest" => staged'[p] = latest /\ latest > image[p]
    BY <1>5, <2>1 DEF Acquire, NotNewer
  <2> QED  BY <1>5, <2>2 DEF Acquire
<1>6. ASSUME NEW p \in Proc, GiveUp(p) \/ PublishFails(p) \/ Drop(p) \/ Crash(p)  PROVE NewerInv'
  BY <1>3, <1>6 DEF GiveUp, PublishFails, Drop, Crash
<1>7. ASSUME NEW p \in Proc, Replace(p)  PROVE NewerInv'
  BY <1>3, <1>7 DEF Replace
<1>8. ASSUME NEW p \in Proc, Publish(p)  PROVE NewerInv'
  BY <1>8 DEF Publish
<1>9. CASE Publication
  BY <1>9 DEF Publication
<1> QED
  BY <1>1, <1>2, <1>4, <1>5, <1>6, <1>7, <1>8, <1>9
     DEF Next, Install, UpdateGiven, Reinstall, UpdateLatest

\* self update without a version never replaces the release it runs as by an
\* older one, or by itself.
THEOREM NoDowngrade == Spec => LatestNeverDowngrades
<1> DEFINE A == \A p \in Proc :
                    LET replaced == IF pc[p] = "replace" THEN target ELSE old[p]
                    IN  kind[p] = "latest" /\ pc[p] \in {"replace", "publish"}
                            /\ target' = staged[p] /\ replaced = image[p]
                        => target' > replaced
<1>1. Init => NewerInv
  BY DEF Init, NewerInv
<1>2. TypeOK /\ NewerInv /\ [Next]_vars => [A]_vars
  BY DEF NewerInv
<1> QED
  BY <1>1, <1>2, NewerStep, Invariants, PTL DEF Spec, LatestNeverDowngrades
=============================================================================
