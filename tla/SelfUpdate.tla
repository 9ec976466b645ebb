----------------------------- MODULE SelfUpdate -----------------------------
(***************************************************************************)
(* Installation and replacement of the managed Janex executable            *)
(* (janex-host/src/self_manage.rs).  Processes serialise on state/self.lock *)
(* and publish a staged, probed candidate to bin/janex: by one rename on   *)
(* Unix, and on Windows, where a running image cannot be replaced, by      *)
(* moving the old executable aside first.  A process may stop anywhere.    *)
(***************************************************************************)
EXTENDS Naturals

CONSTANTS Proc,        \* processes
          NoProc,      \* nobody
          MaxVersion   \* versions are 1 .. MaxVersion, 0 is no executable

ASSUME SelfAssumption ==
    /\ NoProc \notin Proc
    /\ MaxVersion \in Nat \ {0}

Version == 1 .. MaxVersion
File == 0 .. MaxVersion

VARIABLES
    windows, \* the platform, which does not change
    target,  \* version of bin/janex
    latest,  \* newest stable release published
    left,    \* abandoned bin/.janex-update-* directories
    lock,    \* holder of state/self.lock
    pc,      \* phase of the command p runs
    kind,    \* which command
    image,   \* version of the executable p runs
    want,    \* the version given by --version or in the archive
    staged,  \* candidate in p's staging directory
    old      \* old.exe in p's staging directory

vars == <<windows, target, latest, left, lock, pc, kind, image, want, staged, old>>

Staging == [candidate : File, old : File]

Kind == {"none", "install", "reinstall", "latest", "given"}

Phase == {"idle", "lock", "acquire", "replace", "publish", "drop"}

Init ==
    /\ windows \in BOOLEAN
    /\ target = 0
    /\ latest = 1
    /\ left = {}
    /\ lock = NoProc
    /\ pc = [p \in Proc |-> "idle"]
    /\ kind = [p \in Proc |-> "none"]
    /\ image = [p \in Proc |-> 0]
    /\ want = [p \in Proc |-> 0]
    /\ staged = [p \in Proc |-> 0]
    /\ old = [p \in Proc |-> 0]

Goto(p, phase) == pc' = [pc EXCEPT ![p] = phase]

Start(p, k, running, v) ==
    /\ pc[p] = "idle"
    /\ Goto(p, "lock")
    /\ kind' = [kind EXCEPT ![p] = k]
    /\ image' = [image EXCEPT ![p] = running]
    /\ want' = [want EXCEPT ![p] = v]
    /\ UNCHANGED <<windows, target, latest, left, lock, staged, old>>

\* The command ends; dropping the TempDir removes what is still in it.
Return(p) ==
    /\ Goto(p, "idle")
    /\ lock' = IF lock = p THEN NoProc ELSE lock
    /\ kind' = [kind EXCEPT ![p] = "none"]
    /\ image' = [image EXCEPT ![p] = 0]
    /\ want' = [want EXCEPT ![p] = 0]
    /\ staged' = [staged EXCEPT ![p] = 0]
    /\ old' = [old EXCEPT ![p] = 0]

\* The staging directory of p outlives the command.
Keep(p) ==
    left' = left \cup ({[candidate |-> staged[p], old |-> old[p]]}
                        \ {[candidate |-> 0, old |-> 0]})

-----------------------------------------------------------------------------
\* self install, from a copy of some version or from the managed path itself
Install(p, v) == Start(p, "install", v, 0)

Reinstall(p) == target # 0 /\ Start(p, "reinstall", target, 0)

\* self update runs from the managed path, which exists when it starts
UpdateLatest(p) == target # 0 /\ Start(p, "latest", target, 0)

UpdateGiven(p, v) == target # 0 /\ Start(p, "given", target, v)

\* Faulty variant: whatever a directory holds is removed with it.
CleanupTree(S) == left' = {d \in left : d.old \in S}

\* cleanup(): old.exe goes unless its image still runs (S); a directory that
\* holds nothing else goes with it.
Cleanup(S) ==
    left' = {[candidate |-> d.candidate, old |-> IF d.old \in S THEN d.old ELSE 0] : d \in left}
                \ {[candidate |-> 0, old |-> 0]}

\* lock(), cleanup() and, for install, the test for the managed path itself.
Lock(p) ==
    /\ pc[p] = "lock"
    /\ lock = NoProc
    /\ \E S \in SUBSET Version :
            /\ S # {} => windows
            /\ Cleanup(S)
    /\ IF kind[p] = "reinstall" /\ target # 0
       THEN Return(p) /\ UNCHANGED target
       ELSE /\ lock' = p
            /\ Goto(p, "acquire")
            /\ UNCHANGED <<target, kind, image, want, staged, old>>
    /\ UNCHANGED <<windows, latest>>

\* Faulty variant: only the release that runs already is skipped.
NotAnother(p) == kind[p] = "latest" /\ latest = image[p]

\* The release is compared with the version compiled into the running image.
NotNewer(p) == kind[p] = "latest" /\ latest <= image[p]

\* A copy, a verified download or a local archive is staged and probed.  The
\* managed path cannot be copied when it is missing.
Acquire(p) ==
    /\ pc[p] = "acquire"
    /\ kind[p] # "reinstall"
    /\ ~ NotNewer(p)
    /\ staged' = [staged EXCEPT ![p] =
                    CASE kind[p] = "latest" -> latest
                      [] kind[p] = "given"  -> want[p]
                      [] OTHER              -> image[p]]
    /\ Goto(p, "replace")
    /\ UNCHANGED <<windows, target, latest, left, lock, kind, image, want, old>>

\* Nothing newer, or a failed download, extraction, probe or first rename.
GiveUp(p) ==
    /\ pc[p] \in {"acquire", "replace"}
    /\ Return(p)
    /\ UNCHANGED <<windows, target, latest, left>>

\* Faulty variant: the old executable is removed to make room.
ReplaceByRemoval(p) ==
    /\ pc[p] = "replace"
    /\ target' = 0
    /\ Goto(p, "publish")
    /\ UNCHANGED <<windows, latest, left, lock, kind, image, want, staged, old>>

\* replace(): one rename on Unix, the first of two on Windows.
Replace(p) ==
    /\ pc[p] = "replace"
    /\ IF windows
       THEN /\ old' = [old EXCEPT ![p] = target]
            /\ target' = 0
            /\ Goto(p, "publish")
            /\ UNCHANGED <<lock, kind, image, want, staged>>
       ELSE target' = staged[p] /\ Return(p)
    /\ UNCHANGED <<windows, latest, left>>

Publish(p) ==
    /\ pc[p] = "publish"
    /\ target' = staged[p]
    /\ staged' = [staged EXCEPT ![p] = 0]
    /\ Goto(p, "drop")
    /\ UNCHANGED <<windows, latest, left, lock, kind, image, want, old>>

\* Faulty variant: a failed replacement just returns its error.
PublishFailsUnrestored(p) ==
    /\ pc[p] = "publish"
    /\ Return(p)
    /\ UNCHANGED <<windows, target, latest, left>>

\* The second rename fails: the old executable is moved back, or, if that
\* fails too, the directory is kept and the user is told where it is.
PublishFails(p) ==
    /\ pc[p] = "publish"
    /\ \/ /\ target' = old[p]
          /\ UNCHANGED left
       \/ /\ old[p] # 0
          /\ Keep(p)
          /\ UNCHANGED target
    /\ Return(p)
    /\ UNCHANGED <<windows, latest>>

\* old.exe is removed, or kept while its image runs.
Drop(p) ==
    /\ pc[p] = "drop"
    /\ Keep(p) \/ UNCHANGED left
    /\ Return(p)
    /\ UNCHANGED <<windows, target, latest>>

-----------------------------------------------------------------------------
Crash(p) ==
    /\ pc[p] # "idle"
    /\ Keep(p)
    /\ Return(p)
    /\ UNCHANGED <<windows, target, latest>>

\* A new stable release is published.
Publication ==
    /\ latest < MaxVersion
    /\ latest' = latest + 1
    /\ UNCHANGED <<windows, target, left, lock, pc, kind, image, want, staged, old>>

Next ==
    \/ \E p \in Proc :
        \/ \E v \in Version : Install(p, v) \/ UpdateGiven(p, v)
        \/ Reinstall(p) \/ UpdateLatest(p)
        \/ Lock(p) \/ Acquire(p) \/ GiveUp(p)
        \/ Replace(p) \/ Publish(p) \/ PublishFails(p) \/ Drop(p)
        \/ Crash(p)
    \/ Publication

Spec == Init /\ [][Next]_vars

-----------------------------------------------------------------------------
\* Every variable has its type, only the holder of the lock is past lock(), and
\* replace() is reached with a candidate, which some command can name.
TypeOK ==
    /\ windows \in BOOLEAN
    /\ target \in File /\ latest \in Version
    /\ left \subseteq Staging
    /\ lock \in Proc \cup {NoProc}
    /\ pc \in [Proc -> Phase] /\ kind \in [Proc -> Kind]
    /\ image \in [Proc -> File] /\ want \in [Proc -> File]
    /\ staged \in [Proc -> File] /\ old \in [Proc -> File]
    /\ \A p \in Proc : pc[p] \notin {"idle", "lock"} <=> lock = p
    /\ \A p \in Proc : pc[p] \in {"replace", "publish"} => staged[p] # 0
    /\ \A p \in Proc : pc[p] # "idle" => image[p] # 0
    /\ \A p \in Proc : kind[p] = "given" => want[p] # 0

\* On Unix an executable that was installed is never missing again, wherever
\* replace() stops.
NeverMissing == [][~ windows /\ target # 0 => target' # 0]_vars

\* An executable can be found at the managed path, as the backup of a running
\* replacement, or in a directory that an interrupted or failed one kept.
Recoverable ==
    \/ target # 0
    \/ \E p \in Proc : pc[p] = "publish" /\ old[p] # 0
    \/ \E d \in left : d.candidate # 0 \/ d.old # 0

\* On Windows too, no sequence of replacements, failures, crashes and later
\* cleanups loses the last executable.
CopySurvives == [][Recoverable => Recoverable']_vars

\* A failed replacement on Windows moves the old executable back, and where
\* it does not the directory that holds it is kept for the user.
FailureRestores ==
    [][ \A p \in Proc :
            pc[p] = "publish" /\ pc'[p] = "idle" /\ old[p] # 0
                => target' = old[p] \/ \E d \in left' : d.old = old[p] ]_vars

\* "latest-release updates never downgrade": an update to the latest release
\* replaces the version it runs as by a newer one.  The code compares with the
\* running image, so this is all that holds: a version that another command
\* installed while this one waited for the lock may be newer than both.
LatestNeverDowngrades ==
    [][ \A p \in Proc :
            LET replaced == IF pc[p] = "replace" THEN target ELSE old[p]
            IN  kind[p] = "latest" /\ pc[p] \in {"replace", "publish"}
                    /\ target' = staged[p] /\ replaced = image[p]
                => target' > replaced ]_vars
=============================================================================
