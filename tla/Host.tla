-------------------------------- MODULE Host --------------------------------
(***************************************************************************)
(* Five parts of the host that share no state, side by side: a behaviour    *)
(* runs the one that Init has chosen among Parts.                           *)
(*   project    `use --project` beside commands that install and uninstall  *)
(*   download   one archive, from a server that may do anything             *)
(*   integrate  register and unregister, beside edits of other programs     *)
(*   probe      Java runtimes, beside an installer                          *)
(*   cache      dependencies, of the Host and of bootstraps                 *)
(***************************************************************************)
EXTENDS Naturals, Sequences, FiniteSets

CONSTANTS
    Parts,
    Proc,
    Family, Id, FamilyOf, NoTarget,
    Version, Size, Chunk, Limit,
    Entry, Options, Generated, Plan, Foreign, NoProc, MaxEdits, MaxRecord,
    Order, Core, MaxGeneration,
    Jvm, Key, Content, NoContent, Pin, Decays

VARIABLES
    part,
    installed, lockFile, project, readers, found, usePc, updates, seen,
    current, file, offset, total, attempt, reply, downloadPc,
    disk, rule, record, lock, integratePc, command, loaded, todo, edits, edited,
    files, last, entry, probePc, before, result, after,
    meta, contents, locks, writer, sharers, decayed, resolvePc, key, mode, bytes

SP == INSTANCE SdkProject WITH pc <- usePc
AD == INSTANCE ArchiveDownload WITH pc <- downloadPc
DI == INSTANCE Integration WITH pc <- integratePc
RC == INSTANCE RuntimeCache WITH pc <- probePc
DC == INSTANCE DependencyCache WITH pc <- resolvePc, files <- contents, readers <- sharers

ASSUME HostAssumptions ==
    /\ SP!ProjectAssumption
    /\ AD!DownloadAssumption
    /\ DI!IntegrationAssumption
    /\ RC!CacheAssumption
    /\ DC!CacheAssumption

projectVars == <<installed, lockFile, project, readers, found, usePc, updates, seen>>
downloadVars == <<current, file, offset, total, attempt, reply, downloadPc>>
integrateVars == <<disk, rule, record, lock, integratePc, command, loaded, todo, edits, edited>>
probeVars == <<files, last, entry, probePc, before, result, after>>
cacheVars == <<meta, contents, locks, writer, sharers, decayed, resolvePc, key, mode, bytes>>

vars == <<part, projectVars, downloadVars, integrateVars, probeVars, cacheVars>>

\* Only the chosen part has a choice of initial states.
Init ==
    /\ part \in Parts
    /\ SP!Init /\ AD!Init /\ DI!Init /\ RC!Init /\ DC!Init
    /\ part # "download" => current = CHOOSE v \in Version : TRUE
    /\ part # "project" => lockFile
    /\ part # "integrate" => rule = "absent" /\ disk = [e \in Entry |-> "absent"]

Project ==
    /\ part = "project" /\ SP!Next
    /\ UNCHANGED <<part, downloadVars, integrateVars, probeVars, cacheVars>>

DownloadStep ==
    /\ part = "download" /\ AD!Step
    /\ UNCHANGED <<part, projectVars, integrateVars, probeVars, cacheVars>>

Republish ==
    /\ part = "download" /\ AD!Republish
    /\ UNCHANGED <<part, projectVars, integrateVars, probeVars, cacheVars>>

\* A download that has ended.
Ended == part = "download" /\ downloadPc \in {"done", "failed"} /\ UNCHANGED vars

Integrate ==
    /\ part = "integrate" /\ DI!Next
    /\ UNCHANGED <<part, projectVars, downloadVars, probeVars, cacheVars>>

Probe ==
    /\ part = "probe" /\ RC!Next
    /\ UNCHANGED <<part, projectVars, downloadVars, integrateVars, cacheVars>>

Cache ==
    /\ part = "cache" /\ DC!Next
    /\ UNCHANGED <<part, projectVars, downloadVars, integrateVars, probeVars>>

Next == Project \/ DownloadStep \/ Republish \/ Ended \/ Integrate \/ Probe \/ Cache

Spec == Init /\ [][Next]_vars

\* The steps of a download go on: nothing in it waits without a deadline.
FairSpec == Spec /\ WF_vars(DownloadStep)

-----------------------------------------------------------------------------
\* `use --project` keeps the lines of the families it was not asked to change (which
\* overlapping commands do not).
OthersPreserved == SP!OthersPreserved

\* What `use --project` writes resolves at that moment, although other processes install
\* and uninstall, if the lock file existed when it began.
ResolvedWhenWritten == SP!ResolvedWhenWritten

\* download_archive succeeds only with one whole version of the archive, whatever earlier
\* attempts left in the file and whatever the server did in between.
WholeArchive == AD!WholeArchive

\* A retry of download_archive never discards or changes completed bytes.
CompletedKept == AD!CompletedKept

\* download_archive ends, whatever the server does: its retries are bounded.
Ends == part = "download" => AD!Ends

\* Whatever register generated and is still there is in the ownership record, between any
\* two steps and after any failure; a complete registration leaves nothing else behind.
EntriesRecorded == DI!EntriesRecorded

\* register and unregister replace or remove what somebody else wrote only if it appeared
\* after they had looked.
ForeignKept == DI!ForeignKept

\* An entry of the runtime cache describes exactly the files its fingerprint names,
\* although installers replace them while probes run.
EntryTruthful == RC!EntryTruthful

\* A record of the dependency cache names verified content that was published whole
\* before, also while two requests publish the same content and after a crash.
RecordsComplete == DC!RecordsComplete

\* Unless files are damaged, a cache entry that is usable stays usable.
EntryKept == DC!EntryKept

\* As long as calls succeed, damage of a shared content file does not last.
Healed == DC!Healed
=============================================================================
