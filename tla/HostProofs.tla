----------------------------- MODULE HostProofs -----------------------------
(***************************************************************************)
(* What the parts of the host promise, for any processes, files, archives,  *)
(* entries and requests: one inductive invariant for each part.             *)
(***************************************************************************)
EXTENDS Host, SequenceTheorems, TLAPS

\* A step of the host is one of the part chosen, and leaves the others alone.
LEMMA Parted ==
  ASSUME [Next]_vars
  PROVE  /\ SP!Next \/ UNCHANGED projectVars
         /\ AD!Next \/ UNCHANGED downloadVars
         /\ DI!Next \/ UNCHANGED integrateVars
         /\ RC!Next \/ UNCHANGED probeVars
         /\ DC!Next \/ UNCHANGED cacheVars
<1>1. CASE Project
  BY <1>1 DEF Project
<1>2. CASE DownloadStep \/ Republish
  BY <1>2 DEF DownloadStep, Republish, AD!Next
<1>3. CASE Integrate
  BY <1>3 DEF Integrate
<1>4. CASE Probe
  BY <1>4 DEF Probe
<1>5. CASE Cache
  BY <1>5 DEF Cache
<1>6. CASE Ended \/ UNCHANGED vars
  BY <1>6 DEF Ended, vars
<1> QED
  BY <1>1, <1>2, <1>3, <1>4, <1>5, <1>6 DEF Next

-----------------------------------------------------------------------------
(* The dependency cache. *)

\* The content file of c was published and, if nothing decays, is intact.
Published(c) == contents[c] = "intact" \/ (decayed > 0 /\ contents[c] = "damaged")

CacheType ==
    /\ meta \in [Key -> Content \cup {NoContent}]
    /\ contents \in [Content -> {"absent", "intact", "damaged"}]
    /\ decayed \in 0 .. Decays
    /\ resolvePc \in [Proc -> DC!Phase] /\ key \in [Proc -> Key]
    /\ bytes \in [Proc -> Content \cup {NoContent}]

\* What a process has established between its two publications.
PublishInv ==
    \A p \in Proc :
        /\ resolvePc[p] \in {"content", "record"} => bytes[p] \in Content /\ DC!Verifies(key[p], bytes[p])
        /\ resolvePc[p] = "record" => Published(bytes[p])

CacheInv == CacheType /\ PublishInv /\ RecordsComplete

\* There is a request.
LEMMA AnyKeyIn == DC!AnyKey \in Key
  BY HostAssumptions DEF DC!AnyKey, DC!CacheAssumption

\* Every step keeps the record invariant, because PublishContent comes before
\* PublishRecord and nothing removes a content file.
LEMMA CacheStep == CacheInv /\ [Next]_vars => CacheInv'
<1> SUFFICES ASSUME CacheInv, [Next]_vars PROVE CacheInv'
  OBVIOUS
<1> DC!CacheAssumption
  BY HostAssumptions
<1> USE AnyKeyIn DEF DC!CacheAssumption, CacheInv, CacheType, PublishInv, RecordsComplete, DC!RecordsComplete, Published,
        DC!Verifies, DC!Goto, DC!Phase
<1>1. CASE UNCHANGED cacheVars
  BY <1>1 DEF cacheVars
<1>2. ASSUME NEW p \in Proc, DC!Return(p), UNCHANGED <<meta, contents>> PROVE CacheInv'
  BY <1>2 DEF DC!Return
<1>3. ASSUME NEW p \in Proc, NEW k \in Key, NEW m \in DC!Mode, DC!Resolve(p, k, m) PROVE CacheInv'
  BY <1>3 DEF DC!Resolve
<1>4. ASSUME NEW p \in Proc, DC!OpenLock(p) PROVE CacheInv'
  BY <1>2, <1>4 DEF DC!OpenLock
<1>5. ASSUME NEW p \in Proc, DC!Lock(p) PROVE CacheInv'
  BY <1>5 DEF DC!Lock
<1>6. ASSUME NEW p \in Proc, DC!LookUp(p) PROVE CacheInv'
  BY <1>2, <1>6 DEF DC!LookUp
<1>7. ASSUME NEW p \in Proc, DC!Reuse(p) PROVE CacheInv'
  BY <1>7 DEF DC!Reuse
<1>8. ASSUME NEW p \in Proc, DC!Download(p) PROVE CacheInv'
  BY <1>8 DEF DC!Download
<1>9. ASSUME NEW p \in Proc, DC!Fails(p) \/ DC!Crash(p) PROVE CacheInv'
  BY <1>2, <1>9 DEF DC!Fails, DC!Crash
<1>10. ASSUME NEW p \in Proc, DC!PublishContent(p) PROVE CacheInv'
  BY <1>10 DEF DC!PublishContent
<1>11. ASSUME NEW p \in Proc, DC!PublishRecord(p) PROVE CacheInv'
  BY <1>11 DEF DC!PublishRecord, DC!Return
<1>12. CASE DC!Decay
  BY <1>12 DEF DC!Decay
<1> QED
  BY <1>1, <1>3, <1>4, <1>5, <1>6, <1>7, <1>8, <1>9, <1>10, <1>11, <1>12, Parted DEF DC!Next

\* The invariant holds in every behaviour.
LEMMA CacheAlways == Spec => []CacheInv
<1>1. Init => CacheInv
  BY HostAssumptions, AnyKeyIn DEF Init, DC!Init, DC!CacheAssumption, CacheInv, CacheType, PublishInv, RecordsComplete,
     DC!RecordsComplete, DC!Phase
<1> QED
  BY <1>1, CacheStep, PTL DEF Spec

\* Every record names verified content that was published whole before it.
THEOREM CacheComplete == Spec => []RecordsComplete
  BY CacheAlways, PTL DEF CacheInv

\* As long as no file has decayed, an entry that can be used stays usable.
THEOREM UsableStaysUsable == Spec => EntryKept
<1> DEFINE A == decayed' = 0 => \A k \in Key : DC!Hit(k) => DC!Hit(k)'
<1>1. CacheInv /\ [Next]_vars => [A]_(DC!vars)
  <2> SUFFICES ASSUME CacheInv, CacheInv', DC!Next PROVE A
    BY CacheStep, Parted DEF cacheVars, DC!vars
  <2>1. ASSUME NEW k \in Key, DC!Hit(k) PROVE meta'[k] \in Content
    BY <2>1 DEF CacheInv, CacheType, PublishInv, DC!Hit, DC!Intact, DC!Next, DC!Resolve, DC!OpenLock, DC!Lock, DC!LookUp,
           DC!Reuse, DC!Download, DC!Fails, DC!Crash, DC!PublishContent, DC!PublishRecord, DC!Decay
  <2> QED
    BY <2>1, HostAssumptions DEF DC!CacheAssumption, CacheInv, RecordsComplete, DC!RecordsComplete, CacheType, DC!Hit, DC!Intact,
       DC!Verifies
<1> QED
  BY <1>1, CacheAlways, PTL DEF Spec, EntryKept, DC!EntryKept

-----------------------------------------------------------------------------
(* `use --project`. *)

ProjectType ==
    /\ found \subseteq Proc
    /\ project \in SP!Selections
    /\ usePc \in [Proc -> {"idle", "resolve", "read", "write"}]
    /\ updates \in [Proc -> SP!Selections]
    /\ seen \in [Proc -> SP!Selections]

\* A command that has found the lock file holds the lock, and under it its targets
\* resolve until it ends.
ResolvedInv ==
    \A p \in found :
        /\ p \in readers
        /\ usePc[p] \in {"read", "write"} =>
                \A f \in Family : updates[p][f] # NoTarget =>
                        SP!Resolutions(f, updates[p][f]) # {}

ProjectInv == ProjectType /\ ResolvedInv

LEMMA NothingSelected == SP!Nothing \in SP!Selections
  BY DEF SP!Nothing, SP!Selections

\* A command that has returned.
LEMMA ProjectReturn ==
  ASSUME ProjectInv, NEW p \in Proc, SP!Return(p), project' \in SP!Selections, UNCHANGED installed
  PROVE  ProjectInv'
  BY NothingSelected DEF ProjectInv, ProjectType, ResolvedInv, SP!Return, SP!Resolutions

\* Nothing is installed or uninstalled while a command holds the lock.
LEMMA ProjectStep == ProjectInv /\ [Next]_vars => ProjectInv'
<1> SUFFICES ASSUME ProjectInv, [Next]_vars PROVE ProjectInv'
  OBVIOUS
<1> USE DEF ProjectInv, ProjectType, ResolvedInv, SP!Resolutions
<1>1. CASE UNCHANGED projectVars
  BY <1>1 DEF projectVars
<1>7. ASSUME NEW p \in Proc, SP!LockProject(p) PROVE ProjectInv'
  BY <1>7 DEF SP!LockProject
<1>2. ASSUME NEW p \in Proc, SP!UseProject(p) PROVE ProjectInv'
  BY <1>2 DEF SP!UseProject
<1>3. ASSUME NEW p \in Proc, SP!ReadProject(p) PROVE ProjectInv'
  BY <1>3 DEF SP!ReadProject
<1>4. ASSUME NEW p \in Proc, SP!WriteProject(p) PROVE ProjectInv'
  <2>1. SP!Extend(seen[p], updates[p]) \in SP!Selections
    BY DEF SP!Extend, SP!Selections
  <2> QED
    BY <1>4, <2>1, ProjectReturn DEF SP!WriteProject
<1>5. ASSUME NEW p \in Proc, SP!Fails(p) PROVE ProjectInv'
  BY <1>5, ProjectReturn DEF SP!Fails
<1>6. ASSUME NEW i \in Id, SP!Install(i) \/ SP!Uninstall(i) PROVE ProjectInv'
  BY <1>6 DEF SP!Install, SP!Uninstall
<1> QED
  BY <1>1, <1>2, <1>3, <1>4, <1>5, <1>6, <1>7, Parted DEF SP!Next

LEMMA ProjectAlways == Spec => []ProjectInv
<1>1. Init => ProjectInv
  BY NothingSelected DEF Init, SP!Init, ProjectInv, ProjectType, ResolvedInv
<1> QED
  BY <1>1, ProjectStep, PTL DEF Spec

\* The command that writes is the one that returns.
LEMMA OneWriter ==
  ASSUME ProjectInv, SP!Next, NEW p \in Proc, SP!Writes(p)
  PROVE  project' = SP!Extend(seen[p], updates[p])
<1> USE DEF ProjectInv, ProjectType, SP!Writes
<1>1. ASSUME NEW q \in Proc, SP!WriteProject(q) PROVE project' = SP!Extend(seen[p], updates[p])
  BY <1>1 DEF SP!WriteProject, SP!Return
<1> QED
  BY <1>1 DEF SP!Next, SP!LockProject, SP!UseProject, SP!ReadProject, SP!Fails, SP!Install,
             SP!Uninstall

\* Whatever other processes install and uninstall, what a command writes for its families
\* resolves at that moment, if it has found the lock file when it began.
THEOREM ProjectResolved == Spec => ResolvedWhenWritten
<1> DEFINE A == \A p \in Proc : SP!Writes(p) /\ p \in found =>
                    \A f \in Family : updates[p][f] # NoTarget => SP!Resolutions(f, project'[f]) # {}
<1>1. ProjectInv /\ [Next]_vars => [A]_(SP!vars)
  <2> SUFFICES ASSUME ProjectInv, SP!Next PROVE A
    BY Parted DEF projectVars, SP!vars
  <2> QED
    BY OneWriter DEF SP!Extend, ProjectInv, ResolvedInv, SP!Writes
<1> QED
  BY <1>1, ProjectAlways, PTL DEF Spec, ResolvedWhenWritten, SP!ResolvedWhenWritten

-----------------------------------------------------------------------------
(* The runtime cache.  A file only ever moves up: through its generations,   *)
(* and then it is gone.                                                      *)

Rank(g) == IF g = RC!Absent THEN MaxGeneration + 1 ELSE g

FilesInv ==
    /\ files \in [RC!Files -> 0 .. MaxGeneration]
    /\ last \in [RC!Files -> 0 .. MaxGeneration]
    /\ \A f \in RC!Files : IF files[f] = RC!Absent THEN last[f] = MaxGeneration ELSE files[f] <= last[f]

\* A reading of some files, each as it was at some time up to now.
Reading(r) ==
    /\ r = [f \in DOMAIN r |-> r[f]]
    /\ \A f \in RC!Files : f \in DOMAIN r => r[f] \in 0 .. MaxGeneration /\ Rank(r[f]) <= Rank(files[f])

\* What both readings have, the second one has read later.
Later(r, s) == \A f \in RC!Files : f \in DOMAIN r /\ f \in DOMAIN s => Rank(r[f]) <= Rank(s[f])

\* The probe lies between the two fingerprints.
BetweenInv ==
    /\ probePc \in [Proc -> {"idle", "before", "probe", "fresh", "after"}]
    /\ DOMAIN before = Proc /\ DOMAIN result = Proc /\ DOMAIN after = Proc
    /\ before = [p \in Proc |-> before[p]] /\ result = [p \in Proc |-> result[p]] /\ after = [p \in Proc |-> after[p]]
    /\ \A p \in Proc :
        /\ Reading(before[p]) /\ Reading(result[p]) /\ Reading(after[p])
        /\ probePc[p] \in {"idle", "before"} => result[p] = RC!Nothing
        /\ probePc[p] # "after" => after[p] = RC!Nothing
        /\ probePc[p] \in {"probe", "after"} => RC!Whole(before[p]) /\ Later(before[p], result[p])
        /\ probePc[p] = "after" => RC!Whole(result[p]) /\ Later(result[p], after[p])

ProbeInv == FilesInv /\ BetweenInv /\ EntryTruthful

LEMMA NothingRead == Reading(RC!Nothing) /\ DOMAIN RC!Nothing = {}
  BY DEF Reading, RC!Nothing

LEMMA RankType ==
  /\ \A g \in 0 .. MaxGeneration : Rank(g) \in Nat
  /\ \A g, h \in 0 .. MaxGeneration : Rank(g) = Rank(h) => g = h
  BY HostAssumptions DEF RC!CacheAssumption, Rank, RC!Absent

\* Reading one more file.
LEMMA ReadMore ==
  ASSUME FilesInv, NEW r, NEW f, Reading(r)
  PROVE  /\ Reading(RC!Read(r, f))
         /\ \A s : Reading(s) /\ Later(s, r) => Later(s, RC!Read(r, f))
<1>1. /\ DOMAIN RC!Read(r, f) = DOMAIN r \cup {f}
      /\ \A g \in DOMAIN r \cup {f} : RC!Read(r, f)[g] = IF g = f THEN files[f] ELSE r[g]
      /\ RC!Read(r, f) = [g \in DOMAIN RC!Read(r, f) |-> RC!Read(r, f)[g]]
  BY DEF RC!Read
<1>2. \A g \in RC!Files : files[g] \in 0 .. MaxGeneration /\ Rank(files[g]) \in Nat
  BY RankType DEF FilesInv
<1> HIDE DEF RC!Read
<1>3. Reading(RC!Read(r, f))
  BY <1>1, <1>2 DEF Reading
<1>4. ASSUME NEW s, Reading(s), Later(s, r) PROVE Later(s, RC!Read(r, f))
  BY <1>1, <1>2, <1>4 DEF Reading, Later
<1> QED
  BY <1>3, <1>4

\* What an installer does to the files, readings outlast.
LEMMA ReadingKept ==
  ASSUME FilesInv, FilesInv', \A f \in RC!Files : Rank(files[f]) <= Rank(files'[f]), NEW r, Reading(r)
  PROVE  Reading(r)'
<1>1. \A f \in RC!Files : Rank(files[f]) \in Nat /\ Rank(files'[f]) \in Nat
  BY RankType DEF FilesInv
<1>2. \A f \in RC!Files : f \in DOMAIN r => Rank(r[f]) \in Nat
  BY RankType DEF Reading
<1> QED
  BY <1>1, <1>2 DEF Reading

\* Equal fingerprints around a probe: it has seen the very same files.
LEMMA Squeezed ==
  ASSUME NEW b, NEW r, Reading(b), Reading(r), RC!Whole(b), RC!Whole(r), Later(b, r), Later(r, b)
  PROVE  r = b
<1>1. ASSUME NEW f \in RC!Files PROVE r[f] = b[f]
  BY RankType DEF Reading, Later, RC!Whole
<1> QED
  BY <1>1 DEF Reading, RC!Whole

LEMMA ProbeReturn ==
  ASSUME ProbeInv, NEW p \in Proc, RC!Return(p), UNCHANGED <<files, last>>, EntryTruthful'
  PROVE  ProbeInv'
<1>1. FilesInv'
  BY DEF ProbeInv, FilesInv
<1>2. \A r : Reading(r)' = Reading(r)
  BY DEF Reading
<1>3. BetweenInv'
  BY <1>2, NothingRead DEF ProbeInv, BetweenInv, RC!Return
<1> QED
  BY <1>1, <1>3 DEF ProbeInv

\* An entry is saved only when the fingerprint after the probe is the one before it.
LEMMA ProbeStep == ProbeInv /\ [Next]_vars => ProbeInv'
<1> SUFFICES ASSUME ProbeInv, [Next]_vars PROVE ProbeInv'
  OBVIOUS
<1> USE DEF ProbeInv
<1>1. CASE UNCHANGED probeVars
  BY <1>1 DEF probeVars, FilesInv, BetweenInv, Reading, EntryTruthful, RC!EntryTruthful
<1>2. ASSUME UNCHANGED files PROVE \A r : Reading(r)' = Reading(r)
  BY <1>2 DEF Reading
<1>3. ASSUME UNCHANGED <<files, last, entry>> PROVE FilesInv' /\ EntryTruthful'
  BY <1>3 DEF FilesInv, EntryTruthful, RC!EntryTruthful
<1>4. ASSUME NEW p \in Proc, RC!Call(p) \/ RC!NoFingerprint(p) \/ RC!Miss(p) PROVE ProbeInv'
  BY <1>2, <1>3, <1>4, NothingRead DEF RC!Call, RC!NoFingerprint, RC!Miss, BetweenInv, Later
<1>5. ASSUME NEW p \in Proc, RC!ReadBefore(p) PROVE ProbeInv'
  BY <1>2, <1>3, <1>5, ReadMore DEF RC!ReadBefore, BetweenInv
<1>6. ASSUME NEW p \in Proc, RC!Hit(p) \/ RC!FreshDone(p) \/ RC!SaveFails(p) \/ RC!Stop(p) PROVE ProbeInv'
  BY <1>3, <1>6, ProbeReturn DEF RC!Hit, RC!FreshDone, RC!SaveFails, RC!Stop
<1>7. ASSUME NEW p \in Proc, NEW f \in RC!Files, RC!ProbeRead(p, f) PROVE ProbeInv'
  BY <1>2, <1>3, <1>7, ReadMore DEF RC!ProbeRead, BetweenInv
<1>8. ASSUME NEW p \in Proc, RC!ProbeDone(p) PROVE ProbeInv'
  BY <1>2, <1>3, <1>8, NothingRead DEF RC!ProbeDone, BetweenInv, Later
<1>9. ASSUME NEW p \in Proc, RC!ReadAfter(p) PROVE ProbeInv'
  BY <1>2, <1>3, <1>9, ReadMore DEF RC!ReadAfter, BetweenInv
<1>10. ASSUME NEW p \in Proc, RC!Save(p) PROVE ProbeInv'
  <2>1. after[p] = before[p] => result[p] = before[p]
    BY <1>10, Squeezed DEF RC!Save, BetweenInv
  <2>2. EntryTruthful'
    BY <1>10, <2>1 DEF RC!Save, EntryTruthful, RC!EntryTruthful
  <2> QED
    BY <1>10, <2>2, ProbeReturn DEF RC!Save
<1>11. ASSUME NEW f \in RC!Files, RC!Replace(f) \/ RC!Delete(f) PROVE ProbeInv'
  <2>1. FilesInv' /\ \A g \in RC!Files : Rank(files[g]) <= Rank(files'[g])
    BY <1>11, HostAssumptions DEF RC!Replace, RC!Delete, FilesInv, Rank, RC!Absent, RC!CacheAssumption
  <2>2. \A r : Reading(r) => Reading(r)'
    BY <2>1, ReadingKept
  <2> QED
    BY <1>11, <2>1, <2>2 DEF RC!Replace, RC!Delete, BetweenInv, EntryTruthful, RC!EntryTruthful
<1> QED
  BY <1>1, <1>4, <1>5, <1>6, <1>7, <1>8, <1>9, <1>10, <1>11, Parted DEF RC!Next

\* For any number of files, replacements and processes: an entry of the runtime cache
\* describes exactly the files its fingerprint names.
THEOREM ProbeTruthful == Spec => []EntryTruthful
<1>1. Init => ProbeInv
  BY NothingRead, HostAssumptions DEF Init, RC!Init, RC!CacheAssumption, ProbeInv, FilesInv, BetweenInv, EntryTruthful,
     RC!EntryTruthful, RC!Absent
<1> QED
  BY <1>1, ProbeStep, PTL DEF Spec, ProbeInv

-----------------------------------------------------------------------------
(* The download of an archive. *)

\* A byte of an archive: its version and its offset there.
Byte == Version \X Nat

DownloadType ==
    /\ current \in Version
    /\ file \in Seq(Byte)
    /\ offset \in 0 .. Limit
    /\ total \in Nat
    /\ downloadPc \in {"attempt", "request", "body", "done", "failed"}

\* The completed bytes are at their places, each of a version of the announced length.
CompletedInv ==
    /\ offset <= Len(file) /\ Len(file) <= Limit + 1
    /\ offset = 0 <=> total = 0
    /\ \A i \in 1 .. offset : file[i][2] = i - 1 /\ Size[file[i][1]] = total
    /\ downloadPc \in {"request", "body", "done"} => Len(file) = offset
    /\ downloadPc = "done" => offset = total /\ offset # 0

\* The accepted response continues the completed bytes within the archive and the limit.
ReplyInv ==
    downloadPc = "body" =>
        /\ reply.version \in Version
        /\ reply.complete = Size[reply.version]
        /\ total \in {0, reply.complete}
        /\ reply.length \in Nat \ {0}
        /\ offset + reply.length <= reply.complete
        /\ offset + reply.length <= Limit

DownloadInv == DownloadType /\ CompletedInv /\ ReplyInv

LEMMA FunctionIsSeq ==
  ASSUME NEW S, NEW n \in Nat, NEW s \in [1 .. n -> S]
  PROVE  s \in Seq(S) /\ Len(s) = n
  OBVIOUS

\* n bytes of a response after the completed ones.
LEMMA Copied ==
  ASSUME DownloadInv, downloadPc = "body", NEW n \in Nat, AD!Copy(n)
  PROVE  /\ file' \in Seq(Byte)
         /\ Len(file') = offset + n
         /\ \A i \in 1 .. offset : file'[i] = file[i]
         /\ \A i \in 1 .. (offset + n) : i > offset => file'[i] = <<reply.version, i - 1>>
<1> DEFINE more == [i \in 1 .. n |-> <<reply.version, offset + i - 1>>]
<1> USE DEF DownloadInv, DownloadType
<1>1. /\ offset \in Nat /\ Len(file) = offset /\ reply.version \in Version
      /\ file \in [1 .. offset -> Byte]
  BY HostAssumptions, LenProperties DEF CompletedInv, ReplyInv, AD!DownloadAssumption
<1>2. SubSeq(file, 1, offset) = file
  <2>1. /\ SubSeq(file, 1, offset) \in Seq(Byte)
        /\ Len(SubSeq(file, 1, offset)) = offset
        /\ \A i \in 1 .. offset : SubSeq(file, 1, offset)[i] = file[i]
    BY <1>1
  <2> QED
    BY <1>1, <2>1, SeqEqual
<1>3. SubSeq(file, offset + n + 1, Len(file)) = << >>
  BY <1>1, SubSeqEmpty
<1>4. more \in Seq(Byte) /\ Len(more) = n /\ \A i \in 1 .. n : more[i] = <<reply.version, offset + i - 1>>
  <2>1. \A i \in 1 .. n : <<reply.version, offset + i - 1>> \in Byte
    BY <1>1 DEF Byte
  <2>2. more \in [1 .. n -> Byte] /\ \A i \in 1 .. n : more[i] = <<reply.version, offset + i - 1>>
    BY <2>1
  <2> HIDE DEF more
  <2> QED
    BY <2>2, FunctionIsSeq
<1> HIDE DEF more
<1>5. file \o more \in Seq(Byte) /\ (file \o more) \o << >> = file \o more
  BY <1>4, ConcatProperties, ConcatEmptySeq
<1>6. file' = file \o more
  BY <1>2, <1>3, <1>5 DEF AD!Copy, more
<1>7. \A i \in 1 .. (offset + n) : file'[i] = IF i <= offset THEN file[i] ELSE more[i - offset]
  BY <1>1, <1>4, <1>6, ConcatProperties
<1>8. Len(file') = offset + n
  BY <1>1, <1>4, <1>6, ConcatProperties
<1>9. ASSUME NEW i \in 1 .. (offset + n), i > offset PROVE file'[i] = <<reply.version, i - 1>>
  <2>1. i - offset \in 1 .. n /\ offset + (i - offset) - 1 = i - 1
    BY <1>1, <1>9
  <2> QED
    BY <1>1, <1>4, <1>7, <1>9, <2>1
<1>10. file' \in Seq(Byte)
  BY <1>5, <1>6
<1>11. ASSUME NEW i \in 1 .. offset PROVE file'[i] = file[i]
  <2>1. i \in 1 .. (offset + n) /\ i <= offset
    BY <1>1
  <2> QED
    BY <1>7, <2>1
<1> QED
  BY <1>8, <1>9, <1>10, <1>11

\* What an attempt that fails leaves behind, the next one cuts off.
LEMMA Truncated ==
  ASSUME DownloadInv
  PROVE  /\ SubSeq(file, 1, offset) \in Seq(Byte)
         /\ Len(SubSeq(file, 1, offset)) = offset
         /\ \A i \in 1 .. offset : SubSeq(file, 1, offset)[i] = file[i]
<1>1. offset \in Nat /\ \A i \in 1 .. offset : file[i] \in Byte
  BY HostAssumptions, LenProperties DEF DownloadInv, DownloadType, CompletedInv, AD!DownloadAssumption
<1> QED
  BY <1>1, SubSeqProperties

\* A byte of a range is taken only if the complete length is the announced one.
LEMMA DownloadStepInv == DownloadInv /\ [Next]_vars => DownloadInv'
<1> SUFFICES ASSUME DownloadInv, [Next]_vars PROVE DownloadInv'
  OBVIOUS
<1> AD!DownloadAssumption
  BY HostAssumptions
<1>L. Len(file) \in Nat
  BY DEF DownloadInv, DownloadType
<1> USE DEF DownloadInv, DownloadType, CompletedInv, ReplyInv, AD!DownloadAssumption
<1>1. CASE UNCHANGED downloadVars
  BY <1>1 DEF downloadVars
<1>2. CASE AD!Truncate
  <2> DEFINE rest == SubSeq(file, 1, offset)
  <2>1. rest \in Seq(Byte) /\ Len(rest) = offset /\ \A i \in 1 .. offset : rest[i] = file[i]
    BY Truncated
  <2>2. file' = rest
    BY <1>2 DEF AD!Truncate
  <2> HIDE DEF rest
  <2> QED
    BY <1>2, <2>1, <2>2 DEF AD!Truncate
<1>3. CASE AD!TimedOut
  BY <1>3 DEF AD!TimedOut
<1>4. CASE AD!PartialContent
  <2>1. PICK first \in 0 .. (Size[current] - 1), lst \in 0 .. (Size[current] - 1) :
            /\ first <= lst
            /\ AD!AcceptsRange(first, lst, Size[current])
            /\ reply' = [version |-> current, length |-> (lst - first) + 1, complete |-> Size[current]]
    BY <1>4 DEF AD!PartialContent
  <2>2. Size[current] \in Nat \ {0}
    OBVIOUS
  <2>3. offset + ((lst - first) + 1) <= Size[current] /\ offset + ((lst - first) + 1) <= Limit
    BY <2>1, <2>2 DEF AD!AcceptsRange, AD!End
  <2> QED
    BY <1>4, <2>1, <2>2, <2>3 DEF AD!PartialContent, AD!AcceptsRange
<1>5. CASE AD!WholeContent
  BY <1>5 DEF AD!WholeContent
<1>6. CASE AD!Refused
  BY <1>6 DEF AD!Refused, AD!Retry
<1>7. CASE AD!BodyFails
  <2>1. PICK n \in 0 .. (reply.length + 1) : AD!Copy(n)
    BY <1>7 DEF AD!BodyFails
  <2>2. downloadPc = "body" /\ n \in Nat /\ offset + n <= Limit + 1
    BY <1>7 DEF AD!BodyFails
  <2>3. /\ file' \in Seq(Byte) /\ Len(file') = offset + n
        /\ \A i \in 1 .. offset : file'[i] = file[i]
    BY <2>1, <2>2, Copied
  <2>4. downloadPc' \in {"attempt", "failed"} /\ UNCHANGED <<current, offset, total>>
    BY <1>7 DEF AD!BodyFails, AD!Retry
  <2>5. DownloadType'
    BY <1>7, <2>3, <2>4 DEF AD!BodyFails, AD!Retry
  <2>6. ASSUME NEW i \in 1 .. offset' PROVE file'[i][2] = i - 1 /\ Size[file'[i][1]] = total'
    <3>1. i \in 1 .. offset /\ file'[i] = file[i] /\ total' = total
      BY <2>3, <2>4
    <3> QED
      BY <3>1
  <2>7. CompletedInv' /\ ReplyInv'
    BY <2>2, <2>3, <2>4, <2>6
  <2> QED
    BY <2>5, <2>7
<1>8. CASE AD!Body
  <2>1. downloadPc = "body" /\ reply.length \in Nat \ {0} /\ AD!Copy(reply.length)
    BY <1>8 DEF AD!Body
  <2>2. /\ file' \in Seq(Byte) /\ Len(file') = offset + reply.length
        /\ \A i \in 1 .. offset : file'[i] = file[i]
        /\ \A i \in 1 .. (offset + reply.length) : i > offset => file'[i] = <<reply.version, i - 1>>
    BY <2>1, Copied
  <2>3. /\ offset' = offset + reply.length /\ total' = reply.complete
        /\ downloadPc' = IF offset' = reply.complete THEN "done" ELSE "attempt"
        /\ UNCHANGED current
    BY <1>8 DEF AD!Body
  <2>4. DownloadType' /\ offset' # 0 /\ total' # 0
    BY <2>1, <2>2, <2>3
  <2>5. ASSUME NEW i \in 1 .. offset' PROVE file'[i][2] = i - 1 /\ Size[file'[i][1]] = total'
    <3>1. CASE i <= offset
      <4>1. i \in 1 .. offset /\ offset # 0
        BY <3>1, <2>1, <2>3
      <4>2. file'[i] = file[i] /\ file[i][2] = i - 1 /\ Size[file[i][1]] = total
        BY <4>1, <2>2
      <4>3. total = total'
        BY <4>1, <2>1, <2>3
      <4> QED
        BY <4>2, <4>3
    <3>2. CASE i > offset
      <4>1. file'[i] = <<reply.version, i - 1>>
        BY <3>2, <2>2, <2>3
      <4> QED
        BY <4>1, <2>1, <2>3
    <3> QED
      BY <3>1, <3>2
  <2> QED
    BY <2>1, <2>2, <2>3, <2>4, <2>5
<1>9. CASE AD!Republish
  BY <1>9 DEF AD!Republish
<1> QED
  BY <1>1, <1>2, <1>3, <1>4, <1>5, <1>6, <1>7, <1>8, <1>9, Parted DEF AD!Next, AD!Step

LEMMA DownloadAlways == Spec => []DownloadInv
<1>1. Init => DownloadInv
  BY HostAssumptions DEF Init, AD!Init, AD!DownloadAssumption, DownloadInv, DownloadType, CompletedInv, ReplyInv
<1> QED
  BY <1>1, DownloadStepInv, PTL DEF Spec

\* Whatever the sizes, the server and the failures, no attempt discards or changes
\* completed bytes.
THEOREM DownloadKeeps == Spec => CompletedKept
<1> DEFINE A == /\ offset' >= offset
                /\ offset <= Len(file')
                /\ \A i \in 1 .. offset : file'[i] = file[i]
<1>1. DownloadInv /\ [Next]_vars => [A]_(AD!vars)
  <2> SUFFICES ASSUME DownloadInv, AD!Next PROVE A
    BY Parted DEF downloadVars, AD!vars
  <2> USE HostAssumptions DEF DownloadInv, DownloadType, AD!DownloadAssumption
  <2>1. CASE AD!Truncate
    BY <2>1, Truncated DEF AD!Truncate
  <2>2. ASSUME NEW n \in Nat, downloadPc = "body", AD!Copy(n) PROVE offset <= Len(file') /\ \A i \in 1 .. offset : file'[i] = file[i]
    BY <2>2, Copied
  <2>3. CASE AD!BodyFails
    BY <2>2, <2>3 DEF AD!BodyFails, AD!Retry, ReplyInv
  <2>4. CASE AD!Body
    BY <2>2, <2>4 DEF AD!Body, ReplyInv
  <2>5. CASE UNCHANGED <<file, offset>>
    BY <2>5 DEF CompletedInv
  <2> QED
    BY <2>1, <2>3, <2>4, <2>5 DEF AD!Next, AD!Step, AD!TimedOut, AD!PartialContent, AD!WholeContent, AD!Refused, AD!Retry,
       AD!Republish
<1> QED
  BY <1>1, DownloadAlways, PTL DEF Spec, CompletedKept, AD!CompletedKept

\* Two versions of an archive that no request of the code could tell apart.
SameLength(v, w) == Size[v] = Size[w]

\* A finished download has the length of a version, and every byte of it belongs at its
\* place, to a version of that length.
WholeByLength ==
    downloadPc = "done" =>
        \E v \in Version :
            /\ Len(file) = Size[v]
            /\ \A i \in 1 .. Len(file) : \E w \in Version : SameLength(v, w) /\ file[i] = <<w, i - 1>>

\* Whatever happens on the way, a download that succeeds is whole up to what the code
\* compares, which are lengths.
THEOREM DownloadWholeByLength == Spec => []WholeByLength
<1>1. DownloadInv => WholeByLength
  <2> SUFFICES ASSUME DownloadInv, downloadPc = "done" PROVE WholeByLength
    BY DEF WholeByLength
  <2>1. Len(file) = total /\ offset = total /\ total \in Nat \ {0}
    BY HostAssumptions DEF DownloadInv, DownloadType, CompletedInv, AD!DownloadAssumption
  <2>2. ASSUME NEW i \in 1 .. total
        PROVE  file[i][1] \in Version /\ Size[file[i][1]] = total /\ file[i] = <<file[i][1], i - 1>>
    <3>1. file[i] \in Byte
      BY <2>1, LenProperties DEF DownloadInv, DownloadType
    <3>2. file[i][2] = i - 1 /\ Size[file[i][1]] = total
      BY <2>1 DEF DownloadInv, CompletedInv
    <3> QED
      BY <3>1, <3>2 DEF Byte
  <2>3. 1 \in 1 .. total
    BY <2>1
  <2>4. \A i \in 1 .. total : \E w \in Version : SameLength(file[1][1], w) /\ file[i] = <<w, i - 1>>
    BY <2>2, <2>3 DEF SameLength
  <2> QED
    BY <2>1, <2>2, <2>3, <2>4 DEF WholeByLength
<1> QED
  BY <1>1, DownloadAlways, PTL

\* If versions of an archive differ in length, a finished download is one whole version,
\* byte for byte, and the limit is exceeded by no more than the byte that shows it.
THEOREM DownloadWhole ==
  ASSUME \A v, w \in Version : SameLength(v, w) => v = w
  PROVE  Spec => []WholeArchive
<1>1. DownloadInv /\ WholeByLength => WholeArchive
  <2> SUFFICES ASSUME DownloadInv, WholeByLength PROVE WholeArchive
    OBVIOUS
  <2>1. ASSUME NEW v \in Version, Len(file) = Size[v],
               \A i \in 1 .. Len(file) : \E w \in Version : SameLength(v, w) /\ file[i] = <<w, i - 1>>
        PROVE  file = [i \in 1 .. Size[v] |-> <<v, i - 1>>]
    <3>1. file = [i \in 1 .. Len(file) |-> file[i]]
      BY LenProperties DEF DownloadInv, DownloadType
    <3>2. \A i \in 1 .. Len(file) : file[i] = <<v, i - 1>>
      BY <2>1
    <3> QED
      BY <2>1, <3>1, <3>2
  <2> QED
    BY <2>1, HostAssumptions DEF WholeByLength, WholeArchive, AD!WholeArchive, DownloadInv, DownloadType, CompletedInv,
       AD!DownloadAssumption
<1> QED
  BY <1>1, DownloadAlways, DownloadWholeByLength, PTL

-----------------------------------------------------------------------------
(* Desktop integration. *)

Manifest == [files : Seq(DI!Item), registry : Seq(DI!Item), binfmt : BOOLEAN]

\* An entry with a content that register has generated.
Ours(e) == disk[e] \in Generated

NamesOf(items) == {i[1] : i \in items}

\* The entries that p may still write or remove.
Reach(p) == NamesOf(DI!ToSet(todo[p]) \cup DI!Recorded(loaded[p]))

Registers(p) == command[p] # DI!Unregister

IntegrateType ==
    /\ disk \in [Entry -> Generated \cup {DI!Absent, Foreign}]
    /\ rule \in {"absent", "janex", "foreign"}
    /\ record \in Seq(Manifest)
    /\ integratePc \in [Proc -> {"idle", "lock", "preflight", "save", "write", "rule", "obsolete"}]
    /\ command \in [Proc -> Options \cup {DI!Unregister}]
    /\ loaded \in [Proc -> Seq(Manifest)]
    /\ todo \in [Proc -> Seq(DI!Item)]

HolderInv == \A p \in Proc : integratePc[p] \notin {"idle", "lock"} => lock = p

\* The record that p has loaded is at least the one on disk, which has caught up with it
\* before p changes anything.
LoadedInv(p) ==
    /\ integratePc[p] = "save" => Registers(p)
    /\ integratePc[p] = "write" => Registers(p)
    /\ integratePc[p] \in {"preflight", "save"} =>
          /\ DI!Recorded(record) \subseteq DI!Recorded(loaded[p])
          /\ DI!WithRule(record) => DI!WithRule(loaded[p])
    /\ integratePc[p] \in {"write", "rule"} \/ (integratePc[p] = "preflight" /\ ~Registers(p)) => record = loaded[p]
    /\ integratePc[p] \in {"preflight", "save", "write", "rule"} /\ Registers(p) => Plan[command[p]] \in DI!ToSet(loaded[p])

\* What is generated is either desired or still to be replaced or removed.
LeftInv(p) ==
    /\ integratePc[p] \notin {"write", "obsolete"} => todo[p] = << >>
    /\ integratePc[p] = "write" => DI!ToSet(todo[p]) \subseteq DI!Items(Plan[command[p]])
    /\ integratePc[p] \in {"write", "rule"} /\ Registers(p) =>
          \A e \in DI!Names(Plan[command[p]]) :
             Ours(e) => <<e, disk[e]>> \in DI!Items(Plan[command[p]]) \/ e \in NamesOf(DI!ToSet(todo[p]))
    /\ integratePc[p] = "rule" /\ Registers(p) => rule # "janex"
    /\ integratePc[p] = "obsolete" =>
          /\ \A e \in Entry : Ours(e) =>
                IF e \in DI!Kept(p) THEN <<e, disk[e]>> \in DI!Items(Plan[command[p]]) ELSE e \in Reach(p)
          /\ rule = "janex" => Registers(p) /\ Plan[command[p]].binfmt

\* What somebody else wrote where p may still write or remove came after p had looked.
LookedInv(p) ==
    /\ integratePc[p] \in {"save", "write", "rule", "obsolete"} =>
          \A e \in Reach(p) : disk[e] = Foreign => e \in edited
    /\ integratePc[p] \in {"save", "write", "rule"} \/ (integratePc[p] = "preflight" /\ Registers(p)) =>
          (rule = "foreign" /\ DI!WithRule(loaded[p]) => DI!Rule \in edited)

\* Whatever is generated is recorded.
RecordedInv ==
    /\ \A e \in Entry : Ours(e) => <<e, disk[e]>> \in DI!Recorded(record)
    /\ rule = "janex" => DI!WithRule(record)

ProcInv(p) == LoadedInv(p) /\ LeftInv(p) /\ LookedInv(p)

IntegrateInv ==
    /\ IntegrateType /\ HolderInv /\ RecordedInv
    /\ \A p \in Proc : ProcInv(p)

\* Sequences as sets.
LEMMA TailSet ==
  ASSUME NEW S, NEW s \in Seq(S), s # << >>
  PROVE  /\ Head(s) \in S /\ Tail(s) \in Seq(S)
         /\ DI!ToSet(s) = {Head(s)} \cup DI!ToSet(Tail(s))
<1>1. /\ Head(s) \in S /\ Tail(s) \in Seq(S) /\ Head(s) = s[1]
      /\ Len(s) \in Nat \ {0} /\ Len(Tail(s)) = Len(s) - 1 /\ DOMAIN s = 1 .. Len(s) /\ DOMAIN Tail(s) = 1 .. (Len(s) - 1)
      /\ \A i \in 1 .. (Len(s) - 1) : Tail(s)[i] = s[i + 1]
  OBVIOUS
<1> DEFINE t == Tail(s)
<1>2. ASSUME NEW i \in 1 .. Len(s) PROVE s[i] \in {Head(s)} \cup DI!ToSet(t)
  <2>1. CASE i = 1
    BY <1>1, <2>1
  <2>2. CASE i # 1
    <3>1. i - 1 \in 1 .. (Len(s) - 1) /\ (i - 1) + 1 = i
      BY <1>1, <2>2
    <3>2. i - 1 \in DOMAIN t /\ t[i - 1] = s[i]
      BY <1>1, <3>1
    <3> QED
      BY <3>2 DEF DI!ToSet
  <2> QED
    BY <2>1, <2>2
<1>3. ASSUME NEW i \in DOMAIN t PROVE t[i] \in DI!ToSet(s)
  <2>1. i + 1 \in DOMAIN s /\ t[i] = s[i + 1]
    BY <1>1
  <2> QED
    BY <2>1 DEF DI!ToSet
<1>4. Head(s) \in DI!ToSet(s)
  <2>1. 1 \in DOMAIN s
    BY <1>1
  <2> QED
    BY <1>1, <2>1 DEF DI!ToSet
<1> HIDE DEF t
<1>5. DI!ToSet(s) = {Head(s)} \cup DI!ToSet(t)
  BY <1>1, <1>2, <1>3, <1>4 DEF DI!ToSet
<1> QED
  BY <1>1, <1>5 DEF t

LEMMA ConcatSet ==
  ASSUME NEW S, NEW s \in Seq(S), NEW t \in Seq(S)
  PROVE  s \o t \in Seq(S) /\ DI!ToSet(s \o t) = DI!ToSet(s) \cup DI!ToSet(t)
<1>1. /\ s \o t \in Seq(S) /\ Len(s) \in Nat /\ Len(t) \in Nat
      /\ DOMAIN s = 1 .. Len(s) /\ DOMAIN t = 1 .. Len(t) /\ DOMAIN (s \o t) = 1 .. (Len(s) + Len(t))
      /\ \A i \in 1 .. (Len(s) + Len(t)) : (s \o t)[i] = IF i <= Len(s) THEN s[i] ELSE t[i - Len(s)]
  BY ConcatProperties, LenProperties
<1> DEFINE c == s \o t
<1>2. ASSUME NEW i \in DOMAIN s PROVE s[i] \in DI!ToSet(c)
  <2>1. i \in DOMAIN c /\ c[i] = s[i]
    BY <1>1
  <2> QED
    BY <2>1 DEF DI!ToSet
<1>3. ASSUME NEW i \in DOMAIN t PROVE t[i] \in DI!ToSet(c)
  <2>1. i + Len(s) \in 1 .. (Len(s) + Len(t)) /\ ~(i + Len(s) <= Len(s)) /\ (i + Len(s)) - Len(s) = i
    BY <1>1
  <2>2. i + Len(s) \in DOMAIN c /\ c[i + Len(s)] = t[i]
    BY <1>1, <2>1
  <2> QED
    BY <2>2 DEF DI!ToSet
<1>4. ASSUME NEW i \in DOMAIN c PROVE c[i] \in DI!ToSet(s) \cup DI!ToSet(t)
  <2>1. CASE i <= Len(s)
    <3>1. i \in DOMAIN s /\ c[i] = s[i]
      BY <1>1, <2>1
    <3> QED
      BY <3>1 DEF DI!ToSet
  <2>2. CASE ~(i <= Len(s))
    <3>1. i - Len(s) \in DOMAIN t /\ c[i] = t[i - Len(s)]
      BY <1>1, <2>2
    <3> QED
      BY <3>1 DEF DI!ToSet
  <2> QED
    BY <2>1, <2>2
<1>5. c \in Seq(S)
  BY <1>1
<1> HIDE DEF c
<1>6. DI!ToSet(c) = DI!ToSet(s) \cup DI!ToSet(t)
  BY <1>2, <1>3, <1>4 DEF DI!ToSet
<1> QED
  BY <1>5, <1>6 DEF c

LEMMA ReverseSet ==
  ASSUME NEW S, NEW s \in Seq(S)
  PROVE  DI!Reverse(s) \in Seq(S) /\ DI!ToSet(DI!Reverse(s)) = DI!ToSet(s)
<1>1. Len(s) \in Nat /\ DOMAIN s = 1 .. Len(s) /\ \A i \in 1 .. Len(s) : s[i] \in S
  BY LenProperties
<1>2. \A i \in 1 .. Len(s) : (Len(s) - i) + 1 \in 1 .. Len(s) /\ (Len(s) - ((Len(s) - i) + 1)) + 1 = i
  BY <1>1
<1>3. /\ DI!Reverse(s) \in [1 .. Len(s) -> S] /\ DOMAIN DI!Reverse(s) = 1 .. Len(s)
      /\ \A i \in 1 .. Len(s) : DI!Reverse(s)[i] = s[(Len(s) - i) + 1]
  BY <1>1, <1>2 DEF DI!Reverse
<1>4. DI!Reverse(s) \in Seq(S)
  BY <1>1, <1>3, FunctionIsSeq
<1> DEFINE r == DI!Reverse(s)
<1>5. ASSUME NEW i \in 1 .. Len(s) PROVE s[i] \in DI!ToSet(r) /\ r[i] \in DI!ToSet(s)
  <2> HIDE DEF r
  <2> DEFINE j == (Len(s) - i) + 1
  <2>1. j \in 1 .. Len(s) /\ r[j] = s[i] /\ r[i] = s[j]
    BY <1>2, <1>3 DEF r
  <2> HIDE DEF j
  <2> QED
    BY <1>1, <1>3, <2>1 DEF DI!ToSet, r
<1> HIDE DEF r
<1>6. DOMAIN r = 1 .. Len(s)
  BY <1>3 DEF r
<1>7. DI!ToSet(r) = DI!ToSet(s)
  BY <1>1, <1>5, <1>6 DEF DI!ToSet
<1> QED
  BY <1>4, <1>7 DEF r

LEMMA AppendSet ==
  ASSUME NEW S, NEW s \in Seq(S), NEW x \in S
  PROVE  Append(s, x) \in Seq(S) /\ DI!ToSet(Append(s, x)) = DI!ToSet(s) \cup {x}
<1>1. /\ Append(s, x) \in Seq(S) /\ Len(s) \in Nat
      /\ DOMAIN s = 1 .. Len(s) /\ DOMAIN Append(s, x) = 1 .. (Len(s) + 1)
      /\ Append(s, x)[Len(s) + 1] = x /\ \A i \in 1 .. Len(s) : Append(s, x)[i] = s[i]
  OBVIOUS
<1>2. 1 .. (Len(s) + 1) = (1 .. Len(s)) \cup {Len(s) + 1}
  BY <1>1
<1> QED
  BY <1>1, <1>2 DEF DI!ToSet

LEMMA EmptySet == DI!ToSet(<< >>) = {} /\ DI!Recorded(<< >>) = {} /\ ~DI!WithRule(<< >>)
  BY DEF DI!ToSet, DI!Recorded, DI!WithRule

LEMMA ElementsIn == ASSUME NEW S, NEW s \in Seq(S) PROVE DI!ToSet(s) \subseteq S
  BY DEF DI!ToSet

\* Manifests and what they record.
LEMMA ItemsIn == ASSUME NEW m \in Manifest PROVE DI!Items(m) \subseteq DI!Item /\ DI!Names(m) \subseteq Entry
  BY ElementsIn DEF Manifest, DI!Items, DI!Names, DI!Item

LEMMA OneRecorded ==
  ASSUME NEW m \in Manifest
  PROVE  <<m>> \in Seq(Manifest) /\ DI!Recorded(<<m>>) = DI!Items(m) /\ DI!WithRule(<<m>>) = m.binfmt
<1>1. <<m>> \in Seq(Manifest) /\ DI!ToSet(<<m>>) = {m} /\ m.binfmt \in BOOLEAN
  BY DEF DI!ToSet, Manifest
<1> QED
  BY <1>1 DEF DI!Recorded, DI!WithRule

LEMMA ElementRecorded ==
  ASSUME NEW ms, NEW m \in DI!ToSet(ms)
  PROVE  DI!Items(m) \subseteq DI!Recorded(ms) /\ (m.binfmt => DI!WithRule(ms))
  BY DEF DI!Recorded, DI!WithRule

LEMMA RecordedIn ==
  ASSUME NEW ms \in Seq(Manifest)
  PROVE  DI!Recorded(ms) \subseteq DI!Item
  BY ElementsIn, ItemsIn DEF DI!Recorded

LEMMA AppendRecorded ==
  ASSUME NEW ms \in Seq(Manifest), NEW m \in Manifest
  PROVE  /\ Append(ms, m) \in Seq(Manifest) /\ m \in DI!ToSet(Append(ms, m))
         /\ DI!Recorded(ms) \subseteq DI!Recorded(Append(ms, m))
         /\ DI!WithRule(ms) => DI!WithRule(Append(ms, m))
  BY AppendSet DEF DI!Recorded, DI!WithRule

LEMMA TailRecorded ==
  ASSUME NEW ms \in Seq(Manifest), ms # << >>
  PROVE  /\ Head(ms) \in Manifest /\ Tail(ms) \in Seq(Manifest)
         /\ DI!Recorded(ms) = DI!Items(Head(ms)) \cup DI!Recorded(Tail(ms))
  BY TailSet DEF DI!Recorded

LEMMA PlanManifest ==
  /\ \A o \in Options : Plan[o] \in Manifest
  /\ DI!Unregister \notin Options
  BY HostAssumptions DEF DI!IntegrationAssumption, Manifest

\* The orders in which a manifest is written and removed.
LEMMA ManifestOrder ==
  ASSUME NEW m \in Manifest
  PROVE  /\ m.files \o m.registry \in Seq(DI!Item) /\ DI!ToSet(m.files \o m.registry) = DI!Items(m)
         /\ DI!Removals(m) \in Seq(DI!Item) /\ DI!ToSet(DI!Removals(m)) = DI!Items(m)
  BY ConcatSet, ReverseSet DEF Manifest, DI!Items, DI!Removals

LEMMA ReachIn == ASSUME IntegrateInv, NEW p \in Proc PROVE Reach(p) \subseteq Entry
<1>1. DI!ToSet(todo[p]) \subseteq DI!Item /\ DI!Recorded(loaded[p]) \subseteq DI!Item
  BY ElementsIn, RecordedIn DEF IntegrateInv, IntegrateType
<1> QED
  BY <1>1 DEF Reach, NamesOf, DI!Item

\* A process that the step does not concern.
LEMMA Unaffected ==
  ASSUME NEW q \in Proc, ProcInv(q), UNCHANGED <<disk, rule, record, edited>>,
         integratePc'[q] = integratePc[q], command'[q] = command[q], loaded'[q] = loaded[q], todo'[q] = todo[q]
  PROVE  ProcInv(q)'
  BY DEF ProcInv, LoadedInv, LeftInv, LookedInv, Ours, Reach, Registers, NamesOf, DI!Kept

\* A process that waits for the lock while another one holds it.
LEMMA Bystander ==
  ASSUME IntegrateInv, NEW p \in Proc, NEW q \in Proc, lock = p, q # p,
         integratePc'[q] = integratePc[q], todo'[q] = todo[q]
  PROVE  ProcInv(q)'
<1>1. integratePc[q] \in {"idle", "lock"}
  BY DEF IntegrateInv, IntegrateType, HolderInv
<1> QED
  BY <1>1 DEF IntegrateInv, ProcInv, LoadedInv, LeftInv, LookedInv

\* The call of p ends, and if p changed the record it held the lock.
LEMMA IntegrateReturn ==
  ASSUME IntegrateInv, NEW p \in Proc, DI!Return(p), UNCHANGED <<disk, rule>>,
         record' \in Seq(Manifest), RecordedInv', record' = record \/ lock = p
  PROVE  IntegrateInv'
<1>1. IntegrateType'
  BY DEF IntegrateInv, IntegrateType, DI!Return, DI!Goto
<1>2. HolderInv'
  BY DEF IntegrateInv, IntegrateType, HolderInv, DI!Return, DI!Goto
<1>3. ProcInv(p)'
  BY DEF IntegrateInv, IntegrateType, ProcInv, LoadedInv, LeftInv, LookedInv, DI!Return, DI!Goto
<1>4. ASSUME NEW q \in Proc, q # p PROVE ProcInv(q)'
  <2>1. /\ integratePc'[q] = integratePc[q] /\ command'[q] = command[q]
        /\ loaded'[q] = loaded[q] /\ todo'[q] = todo[q]
    BY <1>4 DEF IntegrateInv, IntegrateType, DI!Return, DI!Goto
  <2>2. CASE lock = p
    BY <1>4, <2>1, <2>2, Bystander
  <2>3. CASE lock # p
    BY <2>1, <2>3, Unaffected DEF IntegrateInv, DI!Return
  <2> QED
    BY <2>2, <2>3
<1> QED
  BY <1>1, <1>2, <1>3, <1>4 DEF IntegrateInv

\* A step of the holder of the lock, which keeps it.
LEMMA HolderStep ==
  ASSUME IntegrateInv, NEW p \in Proc, lock = p, UNCHANGED lock,
         \A q \in Proc : q # p => integratePc'[q] = integratePc[q] /\ todo'[q] = todo[q],
         IntegrateType', RecordedInv', ProcInv(p)'
  PROVE  IntegrateInv'
<1>1. \A q \in Proc : ProcInv(q)'
  BY Bystander
<1>2. HolderInv'
  BY DEF IntegrateInv, HolderInv
<1> QED
  BY <1>1, <1>2 DEF IntegrateInv

LEMMA CallStep ==
  ASSUME IntegrateInv, NEW p \in Proc, (\E o \in Options : DI!CallRegister(p, o)) \/ DI!CallUnregister(p)
  PROVE  IntegrateInv'
<1>1. /\ integratePc[p] = "idle" /\ integratePc' = [integratePc EXCEPT ![p] = "lock"]
      /\ command' \in [Proc -> Options \cup {DI!Unregister}]
      /\ \A q \in Proc : q # p => command'[q] = command[q]
      /\ UNCHANGED <<disk, rule, record, lock, loaded, todo, edited>>
  BY DEF IntegrateInv, IntegrateType, DI!CallRegister, DI!CallUnregister, DI!Goto
<1>2. IntegrateType' /\ HolderInv' /\ RecordedInv'
  BY <1>1 DEF IntegrateInv, IntegrateType, HolderInv, RecordedInv, Ours
<1>3. ProcInv(p)'
  BY <1>1 DEF IntegrateInv, IntegrateType, ProcInv, LoadedInv, LeftInv, LookedInv
<1>4. ASSUME NEW q \in Proc, q # p PROVE ProcInv(q)'
  BY <1>1, <1>4, Unaffected DEF IntegrateInv, IntegrateType
<1> QED
  BY <1>2, <1>3, <1>4 DEF IntegrateInv

LEMMA LockStep ==
  ASSUME IntegrateInv, NEW p \in Proc, DI!Lock(p)
  PROVE  IntegrateInv'
<1> DEFINE ms == IF command[p] = DI!Unregister THEN record ELSE Append(record, Plan[command[p]])
<1>1. UNCHANGED <<disk, rule, record>> /\ record \in Seq(Manifest) /\ RecordedInv'
  BY DEF IntegrateInv, IntegrateType, RecordedInv, Ours, DI!Lock
<1>2. CASE DI!Return(p)
  BY <1>1, <1>2, IntegrateReturn
<1>3. CASE ~DI!Return(p)
  <2>1. /\ integratePc[p] = "lock" /\ lock = NoProc /\ lock' = p
        /\ Registers(p) /\ DI!WithRule(ms) => rule # "foreign"
        /\ loaded' = [loaded EXCEPT ![p] = ms]
        /\ integratePc' = [integratePc EXCEPT ![p] = "preflight"]
        /\ UNCHANGED <<command, todo>>
    BY <1>3 DEF DI!Lock, DI!Goto, Registers
  <2>2. /\ ms \in Seq(Manifest)
        /\ DI!Recorded(record) \subseteq DI!Recorded(ms)
        /\ DI!WithRule(record) => DI!WithRule(ms)
        /\ IF Registers(p) THEN Plan[command[p]] \in DI!ToSet(ms) ELSE ms = record
    <3>1. CASE Registers(p)
      BY <3>1, PlanManifest, AppendRecorded DEF Registers, IntegrateInv, IntegrateType
    <3>2. CASE ~Registers(p)
      BY <1>1, <3>2 DEF Registers
    <3> QED
      BY <3>1, <3>2
  <2> HIDE DEF ms
  <2>3. IntegrateType'
    BY <1>1, <2>1, <2>2 DEF IntegrateInv, IntegrateType
  <2>4. NoProc \notin Proc
    BY HostAssumptions DEF DI!IntegrationAssumption
  <2>5. \A q \in Proc : integratePc[q] \in {"idle", "lock"}
    BY <2>1, <2>4 DEF IntegrateInv, IntegrateType, HolderInv
  <2>6. HolderInv'
    BY <2>1, <2>5 DEF HolderInv, IntegrateInv, IntegrateType
  <2>7. ASSUME NEW q \in Proc, q # p PROVE ProcInv(q)'
    BY <2>1, <2>5, <2>7 DEF IntegrateInv, IntegrateType, ProcInv, LoadedInv, LeftInv, LookedInv
  <2>8. integratePc'[p] = "preflight" /\ loaded'[p] = ms /\ todo'[p] = << >> /\ Registers(p)' = Registers(p)
    BY <2>1 DEF IntegrateInv, IntegrateType, ProcInv, LeftInv, Registers
  <2>9. ProcInv(p)'
    BY <1>1, <2>1, <2>2, <2>8 DEF ProcInv, LoadedInv, LeftInv, LookedInv
  <2> QED
    BY <1>1, <2>3, <2>6, <2>7, <2>9 DEF IntegrateInv
<1> QED
  BY <1>2, <1>3

LEMMA PreflightStep ==
  ASSUME IntegrateInv, NEW p \in Proc, DI!Preflight(p)
  PROVE  IntegrateInv'
<1>1. UNCHANGED <<disk, rule, record>> /\ record \in Seq(Manifest) /\ RecordedInv'
  BY DEF IntegrateInv, IntegrateType, RecordedInv, Ours, DI!Preflight
<1>2. CASE DI!Return(p)
  BY <1>1, <1>2, IntegrateReturn
<1>3. CASE ~DI!Return(p)
  <2>1. /\ integratePc[p] = "preflight" /\ DI!Owned(loaded[p])
        /\ ~Registers(p) /\ DI!WithRule(loaded[p]) => rule # "foreign"
        /\ integratePc' = [integratePc EXCEPT ![p] = IF Registers(p) THEN "save" ELSE "rule"]
        /\ edited' = IF Registers(p) THEN edited \ Entry ELSE {}
        /\ UNCHANGED <<lock, command, loaded, todo>>
    BY <1>3 DEF DI!Preflight, DI!Goto, Registers
  <2>2. lock = p /\ todo[p] = << >> /\ DI!Rule \notin Entry
    BY <2>1, HostAssumptions DEF IntegrateInv, HolderInv, ProcInv, LeftInv, DI!IntegrationAssumption
  <2>3. ASSUME NEW e \in Reach(p) PROVE disk[e] # Foreign
    <3>1. PICK i \in DI!Recorded(loaded[p]) : e = i[1]
      BY <2>2, EmptySet DEF Reach, NamesOf
    <3>2. loaded[p] \in Seq(Manifest) /\ DI!Recorded(loaded[p]) \subseteq DI!Item
      BY RecordedIn DEF IntegrateInv, IntegrateType
    <3>3. Foreign \notin Generated /\ Foreign # DI!Absent
      BY HostAssumptions DEF DI!IntegrationAssumption
    <3>4. <<e, disk[e]>> \in DI!Item \/ disk[e] = DI!Absent
      BY <2>1, <3>1, <3>2 DEF DI!Owned
    <3> QED
      BY <3>3, <3>4 DEF DI!Item
  <2>4. IntegrateType'
    BY <1>1, <2>1 DEF IntegrateInv, IntegrateType
  <2>5. /\ integratePc'[p] = IF Registers(p) THEN "save" ELSE "rule"
        /\ Registers(p)' = Registers(p) /\ Reach(p)' = Reach(p)
    BY <2>1 DEF IntegrateInv, IntegrateType, Registers, Reach, NamesOf
  <2>6. LoadedInv(p)' /\ LeftInv(p)'
    BY <1>1, <2>1, <2>2, <2>5 DEF IntegrateInv, ProcInv, LoadedInv, LeftInv
  <2>7. LookedInv(p)'
    BY <1>1, <2>1, <2>2, <2>3, <2>5 DEF IntegrateInv, ProcInv, LookedInv
  <2>8. \A q \in Proc : q # p => integratePc'[q] = integratePc[q] /\ todo'[q] = todo[q]
    BY <2>1 DEF IntegrateInv, IntegrateType
  <2> QED
    BY <1>1, <2>1, <2>2, <2>4, <2>6, <2>7, <2>8, HolderStep DEF ProcInv
<1> QED
  BY <1>2, <1>3

LEMMA SaveStep ==
  ASSUME IntegrateInv, NEW p \in Proc, DI!Save(p)
  PROVE  IntegrateInv'
<1> DEFINE m == Plan[command[p]]
<1> DEFINE s == m.files \o m.registry
<1>1. /\ integratePc[p] = "save" /\ record' = loaded[p] /\ todo' = [todo EXCEPT ![p] = s]
      /\ integratePc' = [integratePc EXCEPT ![p] = "write"]
      /\ UNCHANGED <<disk, rule, lock, command, loaded, edited>>
  BY DEF DI!Save, DI!Goto
<1>2. lock = p /\ Registers(p) /\ m \in DI!ToSet(loaded[p]) /\ loaded[p] \in Seq(Manifest) /\ m \in Manifest
  BY <1>1, PlanManifest DEF IntegrateInv, IntegrateType, HolderInv, ProcInv, LoadedInv, Registers
<1>3. s \in Seq(DI!Item) /\ DI!ToSet(s) = DI!Items(m) /\ DI!Items(m) \subseteq DI!Recorded(loaded[p])
  BY <1>2, ManifestOrder, ElementRecorded
<1> HIDE DEF s
<1>4. IntegrateType'
  BY <1>1, <1>2, <1>3 DEF IntegrateInv, IntegrateType
<1>5. RecordedInv'
  BY <1>1, <1>2 DEF IntegrateInv, RecordedInv, Ours, ProcInv, LoadedInv
<1>6. /\ integratePc'[p] = "write" /\ todo'[p] = s /\ loaded'[p] = loaded[p] /\ command'[p] = command[p]
      /\ \A q \in Proc : q # p => integratePc'[q] = integratePc[q] /\ todo'[q] = todo[q]
  BY <1>1 DEF IntegrateInv, IntegrateType
<1>7. LoadedInv(p)'
  BY <1>1, <1>2, <1>6 DEF LoadedInv, Registers
<1>8. LeftInv(p)'
  BY <1>1, <1>3, <1>6 DEF LeftInv, Registers, NamesOf, DI!Names
<1>9. Reach(p)' \subseteq Reach(p)
  BY <1>3, <1>6 DEF Reach, NamesOf
<1>10. LookedInv(p)'
  BY <1>1, <1>6, <1>9 DEF IntegrateInv, ProcInv, LookedInv
<1> QED
  BY <1>1, <1>2, <1>4, <1>5, <1>6, <1>7, <1>8, <1>10, HolderStep DEF ProcInv

\* Every entry that is written is a desired one, and its record is on disk.
LEMMA WriteStep ==
  ASSUME IntegrateInv, NEW p \in Proc, DI!WriteEntry(p)
  PROVE  IntegrateInv'
<1> DEFINE m == Plan[command[p]]
<1> DEFINE i == Head(todo[p])
<1>1. /\ integratePc[p] = "write" /\ todo[p] # << >>
      /\ disk' = [disk EXCEPT ![i[1]] = i[2]] /\ todo' = [todo EXCEPT ![p] = Tail(@)]
      /\ UNCHANGED <<rule, record, lock, integratePc, command, loaded, edited>>
  BY DEF DI!WriteEntry
<1>2. lock = p /\ Registers(p) /\ m \in DI!ToSet(loaded[p]) /\ record = loaded[p] /\ DI!ToSet(todo[p]) \subseteq DI!Items(m)
  BY <1>1 DEF IntegrateInv, HolderInv, ProcInv, LoadedInv, LeftInv
<1>3. /\ i \in DI!Item /\ Tail(todo[p]) \in Seq(DI!Item)
      /\ DI!ToSet(todo[p]) = {i} \cup DI!ToSet(Tail(todo[p]))
  BY <1>1, TailSet DEF IntegrateInv, IntegrateType
<1>4. i \in DI!Items(m) /\ DI!Items(m) \subseteq DI!Recorded(record)
  BY <1>2, <1>3, ElementRecorded
<1> HIDE DEF i
<1>5. i[1] \in Entry /\ i[2] \in Generated /\ i = <<i[1], i[2]>>
  BY <1>3 DEF DI!Item
<1>6. IntegrateType'
  BY <1>1, <1>3, <1>5 DEF IntegrateInv, IntegrateType
<1>7. \A e \in Entry : disk'[e] = IF e = i[1] THEN i[2] ELSE disk[e]
  BY <1>1, <1>5 DEF IntegrateInv, IntegrateType
<1>8. RecordedInv'
  BY <1>1, <1>4, <1>5, <1>7 DEF IntegrateInv, RecordedInv, Ours
<1>9. /\ todo'[p] = Tail(todo[p])
      /\ \A q \in Proc : q # p => integratePc'[q] = integratePc[q] /\ todo'[q] = todo[q]
  BY <1>1 DEF IntegrateInv, IntegrateType
<1>10. LoadedInv(p)'
  BY <1>1 DEF IntegrateInv, ProcInv, LoadedInv, Registers
<1>11. LeftInv(p)'
  <2>1. DI!ToSet(todo'[p]) \subseteq DI!Items(m)
    BY <1>2, <1>3, <1>9
  <2>2. ASSUME NEW e \in DI!Names(m), Ours(e)'
        PROVE  <<e, disk'[e]>> \in DI!Items(m) \/ e \in NamesOf(DI!ToSet(todo'[p]))
    <3>1. CASE e = i[1]
      BY <1>4, <1>5, <1>7, <3>1
    <3>2. CASE e # i[1]
      <4>1. e \in Entry
        BY ItemsIn, PlanManifest, <1>2 DEF IntegrateInv, IntegrateType, Registers
      <4>2. disk'[e] = disk[e] /\ Ours(e)
        BY <1>7, <2>2, <3>2, <4>1 DEF Ours
      <4>3. <<e, disk[e]>> \in DI!Items(m) \/ e \in NamesOf(DI!ToSet(todo[p]))
        BY <1>1, <1>2, <4>2 DEF IntegrateInv, ProcInv, LeftInv
      <4> QED
        BY <1>3, <1>9, <3>2, <4>2, <4>3 DEF NamesOf
    <3> QED
      BY <3>1, <3>2
  <2> QED
    BY <1>1, <2>1, <2>2 DEF LeftInv, Registers
<1>12. LookedInv(p)'
  <2>1. Reach(p)' \subseteq Reach(p)
    BY <1>1, <1>3, <1>9 DEF Reach, NamesOf
  <2>2. ASSUME NEW e \in Reach(p)', disk'[e] = Foreign PROVE e \in edited
    <3>1. e \in Entry
      BY <2>1, ReachIn
    <3>2. disk[e] = Foreign
      BY <1>5, <1>7, <2>2, <3>1, HostAssumptions DEF DI!IntegrationAssumption
    <3> QED
      BY <1>1, <2>1, <3>2 DEF IntegrateInv, ProcInv, LookedInv
  <2> QED
    BY <1>1, <2>2 DEF IntegrateInv, ProcInv, LookedInv
<1> QED
  BY <1>1, <1>2, <1>6, <1>8, <1>9, <1>10, <1>11, <1>12, HolderStep DEF ProcInv

LEMMA RemoveRuleStep ==
  ASSUME IntegrateInv, NEW p \in Proc, DI!RemoveRule(p)
  PROVE  IntegrateInv'
<1>1. /\ integratePc[p] \in {"write", "rule"} /\ (integratePc[p] = "rule" => ~Registers(p))
      /\ (integratePc[p] = "write" => todo[p] = << >>)
      /\ rule' = IF DI!WithRule(loaded[p]) THEN "absent" ELSE rule
      /\ integratePc' = [integratePc EXCEPT ![p] = IF Registers(p) THEN "rule" ELSE "obsolete"]
      /\ UNCHANGED <<disk, record, lock, command, loaded, todo, edited>>
  BY DEF DI!RemoveRule, DI!Goto, Registers
<1>2. lock = p /\ record = loaded[p] /\ todo[p] = << >> /\ (integratePc[p] = "write" <=> Registers(p))
  BY <1>1 DEF IntegrateInv, HolderInv, ProcInv, LoadedInv, LeftInv
<1>3. rule' # "janex" /\ rule' \in {"absent", "foreign"}
  BY <1>1, <1>2 DEF IntegrateInv, IntegrateType, RecordedInv
<1>4. IntegrateType'
  BY <1>1, <1>3 DEF IntegrateInv, IntegrateType
<1>5. RecordedInv'
  BY <1>1, <1>3 DEF IntegrateInv, RecordedInv, Ours
<1>6. /\ integratePc'[p] = (IF Registers(p) THEN "rule" ELSE "obsolete") /\ Registers(p)' = Registers(p) /\ Reach(p)' = Reach(p)
      /\ \A q \in Proc : q # p => integratePc'[q] = integratePc[q] /\ todo'[q] = todo[q]
  BY <1>1 DEF IntegrateInv, IntegrateType, Registers, Reach, NamesOf
<1>7. LoadedInv(p)'
  BY <1>1, <1>2, <1>6 DEF IntegrateInv, ProcInv, LoadedInv
<1>8. LeftInv(p)'
  <2>1. CASE Registers(p)
    BY <1>1, <1>2, <1>3, <1>6, <2>1 DEF IntegrateInv, ProcInv, LeftInv, Ours
  <2>2. CASE ~Registers(p)
    <3>1. ASSUME NEW e \in Entry, Ours(e) PROVE e \in Reach(p)
      <4>1. <<e, disk[e]>> \in DI!Recorded(loaded[p])
        BY <1>2, <3>1 DEF IntegrateInv, RecordedInv
      <4> QED
        BY <4>1 DEF Reach, NamesOf
    <3>2. DI!Kept(p)' = {}
      BY <1>1, <2>2 DEF DI!Kept, Registers
    <3>3. integratePc'[p] = "obsolete"
      BY <1>6, <2>2
    <3> QED
      BY <1>1, <1>3, <1>6, <3>1, <3>2, <3>3 DEF LeftInv, Ours
  <2> QED
    BY <2>1, <2>2
<1>9. LookedInv(p)'
  BY <1>1, <1>6 DEF IntegrateInv, ProcInv, LookedInv
<1> QED
  BY <1>1, <1>2, <1>4, <1>5, <1>6, <1>7, <1>8, <1>9, HolderStep DEF ProcInv

LEMMA AddRuleStep ==
  ASSUME IntegrateInv, NEW p \in Proc, DI!AddRule(p)
  PROVE  IntegrateInv'
<1> DEFINE m == Plan[command[p]]
<1>1. /\ integratePc[p] = "rule" /\ Registers(p)
      /\ (m.binfmt => rule = "absent") /\ rule' = IF m.binfmt THEN "janex" ELSE rule
      /\ integratePc' = [integratePc EXCEPT ![p] = "obsolete"]
      /\ UNCHANGED <<disk, record, lock, command, loaded, todo, edited>>
  BY DEF DI!AddRule, DI!Goto, Registers
<1>2. lock = p /\ record = loaded[p] /\ todo[p] = << >> /\ m \in DI!ToSet(loaded[p]) /\ rule # "janex"
  BY <1>1 DEF IntegrateInv, HolderInv, ProcInv, LoadedInv, LeftInv
<1>3. IntegrateType'
  BY <1>1 DEF IntegrateInv, IntegrateType
<1>4. RecordedInv'
  BY <1>1, <1>2, ElementRecorded DEF IntegrateInv, RecordedInv, Ours
<1>5. /\ integratePc'[p] = "obsolete" /\ Registers(p)' /\ Reach(p)' = Reach(p) /\ DI!Kept(p)' = DI!Names(m)
      /\ \A q \in Proc : q # p => integratePc'[q] = integratePc[q] /\ todo'[q] = todo[q]
  BY <1>1 DEF IntegrateInv, IntegrateType, Registers, Reach, NamesOf, DI!Kept
<1>6. LoadedInv(p)'
  BY <1>5 DEF LoadedInv
<1>7. LeftInv(p)'
  <2>1. ASSUME NEW e \in Entry, Ours(e), e \in DI!Names(m) PROVE <<e, disk[e]>> \in DI!Items(m)
    BY <1>1, <1>2, <2>1, EmptySet DEF IntegrateInv, ProcInv, LeftInv, NamesOf
  <2>2. ASSUME NEW e \in Entry, Ours(e) PROVE e \in Reach(p)
    <3>1. <<e, disk[e]>> \in DI!Recorded(loaded[p])
      BY <1>2, <2>2 DEF IntegrateInv, RecordedInv
    <3> QED
      BY <3>1 DEF Reach, NamesOf
  <2> QED
    BY <1>1, <1>2, <1>5, <2>1, <2>2 DEF LeftInv, Ours
<1>8. LookedInv(p)'
  BY <1>1, <1>5 DEF IntegrateInv, ProcInv, LookedInv
<1> QED
  BY <1>1, <1>2, <1>3, <1>4, <1>5, <1>6, <1>7, <1>8, HolderStep DEF ProcInv

LEMMA NextManifestStep ==
  ASSUME IntegrateInv, NEW p \in Proc, DI!NextManifest(p)
  PROVE  IntegrateInv'
<1> DEFINE h == Head(loaded[p])
<1>1. /\ integratePc[p] = "obsolete" /\ todo[p] = << >> /\ loaded[p] # << >>
      /\ todo' = [todo EXCEPT ![p] = DI!Removals(h)] /\ loaded' = [loaded EXCEPT ![p] = Tail(@)]
      /\ UNCHANGED <<disk, rule, record, lock, integratePc, command, edited>>
  BY DEF DI!NextManifest
<1>2. /\ h \in Manifest /\ Tail(loaded[p]) \in Seq(Manifest)
      /\ DI!Recorded(loaded[p]) = DI!Items(h) \cup DI!Recorded(Tail(loaded[p]))
  BY <1>1, TailRecorded DEF IntegrateInv, IntegrateType
<1>3. DI!Removals(h) \in Seq(DI!Item) /\ DI!ToSet(DI!Removals(h)) = DI!Items(h)
  BY <1>2, ManifestOrder
<1> HIDE DEF h
<1>4. lock = p /\ IntegrateType'
  BY <1>1, <1>2, <1>3 DEF IntegrateInv, HolderInv, IntegrateType
<1>5. RecordedInv'
  BY <1>1 DEF IntegrateInv, RecordedInv, Ours
<1>6. /\ todo'[p] = DI!Removals(h) /\ loaded'[p] = Tail(loaded[p]) /\ Registers(p)' = Registers(p) /\ DI!Kept(p)' = DI!Kept(p)
      /\ \A q \in Proc : q # p => integratePc'[q] = integratePc[q] /\ todo'[q] = todo[q]
  BY <1>1 DEF IntegrateInv, IntegrateType, Registers, DI!Kept
<1>7. Reach(p)' = Reach(p)
  BY <1>1, <1>2, <1>3, <1>6, EmptySet DEF Reach
<1>8. LoadedInv(p)'
  BY <1>1 DEF LoadedInv
<1>9. LeftInv(p)' /\ LookedInv(p)'
  BY <1>1, <1>6, <1>7 DEF IntegrateInv, ProcInv, LeftInv, LookedInv, Ours
<1> QED
  BY <1>1, <1>4, <1>5, <1>6, <1>8, <1>9, HolderStep DEF ProcInv

\* A desired entry is passed over; any other is gone.
LEMMA RemoveEntryStep ==
  ASSUME IntegrateInv, NEW p \in Proc, DI!RemoveEntry(p)
  PROVE  IntegrateInv'
<1> DEFINE i == Head(todo[p])
<1>1. /\ integratePc[p] = "obsolete" /\ todo[p] # << >>
      /\ disk' = IF i[1] \in DI!Kept(p) THEN disk ELSE [disk EXCEPT ![i[1]] = DI!Absent]
      /\ todo' = [todo EXCEPT ![p] = Tail(@)]
      /\ UNCHANGED <<rule, record, lock, integratePc, command, loaded, edited>>
  BY DEF DI!RemoveEntry
<1>2. /\ i \in DI!Item /\ Tail(todo[p]) \in Seq(DI!Item)
      /\ DI!ToSet(todo[p]) = {i} \cup DI!ToSet(Tail(todo[p]))
  BY <1>1, TailSet DEF IntegrateInv, IntegrateType
<1> HIDE DEF i
<1>3. i[1] \in Entry /\ DI!Absent \notin Generated /\ Foreign # DI!Absent
  BY <1>2, HostAssumptions DEF DI!Item, DI!IntegrationAssumption
<1>4. lock = p /\ IntegrateType'
  BY <1>1, <1>2, <1>3 DEF IntegrateInv, HolderInv, IntegrateType
<1>5. \A e \in Entry : disk'[e] = IF e = i[1] /\ e \notin DI!Kept(p) THEN DI!Absent ELSE disk[e]
  BY <1>1, <1>3 DEF IntegrateInv, IntegrateType
<1>6. RecordedInv'
  BY <1>1, <1>3, <1>5 DEF IntegrateInv, RecordedInv, Ours
<1>7. /\ todo'[p] = Tail(todo[p]) /\ Registers(p)' = Registers(p) /\ DI!Kept(p)' = DI!Kept(p)
      /\ \A q \in Proc : q # p => integratePc'[q] = integratePc[q] /\ todo'[q] = todo[q]
  BY <1>1 DEF IntegrateInv, IntegrateType, Registers, DI!Kept
<1>8. Reach(p) = {i[1]} \cup Reach(p)' /\ Reach(p) \subseteq Entry
  BY <1>1, <1>2, <1>7, ReachIn DEF Reach, NamesOf
<1>9. LoadedInv(p)'
  BY <1>1 DEF LoadedInv
<1>10. LeftInv(p)'
  <2>1. ASSUME NEW e \in Entry, Ours(e)'
        PROVE  IF e \in DI!Kept(p) THEN <<e, disk'[e]>> \in DI!Items(Plan[command[p]]) ELSE e \in Reach(p)'
    <3>1. disk'[e] = disk[e] /\ Ours(e) /\ (e \notin DI!Kept(p) => e # i[1])
      BY <1>3, <1>5, <2>1 DEF Ours
    <3>2. IF e \in DI!Kept(p) THEN <<e, disk[e]>> \in DI!Items(Plan[command[p]]) ELSE e \in Reach(p)
      BY <1>1, <3>1 DEF IntegrateInv, ProcInv, LeftInv
    <3> QED
      BY <1>8, <3>1, <3>2
  <2>2. rule' = "janex" => Registers(p) /\ Plan[command[p]].binfmt
    BY <1>1 DEF IntegrateInv, ProcInv, LeftInv
  <2> QED
    BY <1>1, <1>7, <2>1, <2>2 DEF LeftInv
<1>11. LookedInv(p)'
  <2>1. ASSUME NEW e \in Reach(p)', disk'[e] = Foreign PROVE e \in edited
    BY <1>1, <1>3, <1>5, <1>8, <2>1 DEF IntegrateInv, ProcInv, LookedInv
  <2> QED
    BY <1>1, <2>1 DEF LookedInv
<1> QED
  BY <1>1, <1>4, <1>6, <1>7, <1>9, <1>10, <1>11, HolderStep DEF ProcInv

\* The record shrinks to the desired manifest only when nothing else is left.
LEMMA FinishStep ==
  ASSUME IntegrateInv, NEW p \in Proc, DI!Finish(p)
  PROVE  IntegrateInv'
<1> DEFINE m == Plan[command[p]]
<1>1. /\ integratePc[p] = "obsolete" /\ todo[p] = << >> /\ loaded[p] = << >>
      /\ record' = IF Registers(p) THEN <<m>> ELSE << >>
      /\ DI!Return(p) /\ UNCHANGED <<disk, rule>>
  BY DEF DI!Finish, Registers
<1>2. lock = p /\ Reach(p) = {}
  BY <1>1, EmptySet DEF IntegrateInv, HolderInv, Reach, NamesOf
<1>3. CASE Registers(p)
  <2>1. m \in Manifest
    BY <1>3, PlanManifest DEF Registers, IntegrateInv, IntegrateType
  <2>2. record' = <<m>> /\ record' \in Seq(Manifest) /\ DI!Recorded(record') = DI!Items(m) /\ DI!WithRule(record') = m.binfmt
    BY <1>1, <1>3, <2>1, OneRecorded
  <2>3. RecordedInv'
    BY <1>1, <1>2, <2>2 DEF IntegrateInv, ProcInv, LeftInv, RecordedInv, Ours
  <2> QED
    BY <1>1, <1>2, <2>2, <2>3, IntegrateReturn
<1>4. CASE ~Registers(p)
  <2>1. record' = << >> /\ record' \in Seq(Manifest) /\ DI!Kept(p) = {}
    BY <1>1, <1>4 DEF DI!Kept, Registers
  <2>2. RecordedInv'
    BY <1>1, <1>2, <1>4, <2>1 DEF IntegrateInv, ProcInv, LeftInv, RecordedInv, Ours
  <2> QED
    BY <1>1, <1>2, <2>1, <2>2, IntegrateReturn
<1> QED
  BY <1>3, <1>4

LEMMA IntegrateFails ==
  ASSUME IntegrateInv, NEW p \in Proc, DI!Fails(p)
  PROVE  IntegrateInv'
<1>1. DI!Return(p) /\ UNCHANGED <<disk, rule, record>>
  BY DEF DI!Fails
<1>2. record' \in Seq(Manifest) /\ RecordedInv'
  BY <1>1 DEF IntegrateInv, IntegrateType, RecordedInv, Ours
<1> QED
  BY <1>1, <1>2, IntegrateReturn

\* Edits of other programs.
LEMMA EditStep ==
  ASSUME IntegrateInv, (\E e \in Entry : DI!Edit(e)) \/ DI!EditRule
  PROVE  IntegrateInv'
<1>1. UNCHANGED <<record, lock, integratePc, command, loaded, todo>>
  BY DEF DI!Edit, DI!EditRule
<1>2. DI!Absent \notin Generated /\ Foreign \notin Generated /\ NoProc \notin Proc
  BY HostAssumptions DEF DI!IntegrationAssumption
<1>3. \A e \in Entry : disk'[e] \in {DI!Absent, Foreign} \/ disk'[e] = disk[e]
  BY DEF DI!Edit, DI!EditRule, IntegrateInv, IntegrateType
<1>4. \A e \in Entry : Ours(e)' => Ours(e) /\ disk'[e] = disk[e]
  BY <1>2, <1>3 DEF Ours
<1>5. rule' \in {"absent", "foreign"} \/ rule' = rule
  BY DEF DI!Edit, DI!EditRule
<1>6. IntegrateType' /\ HolderInv'
  BY <1>1, <1>5 DEF DI!Edit, DI!EditRule, IntegrateInv, IntegrateType, HolderInv
<1>7. RecordedInv'
  BY <1>1, <1>4, <1>5 DEF IntegrateInv, RecordedInv
<1>8. ASSUME NEW p \in Proc PROVE ProcInv(p)'
  <2>1. Registers(p)' = Registers(p) /\ Reach(p)' = Reach(p) /\ Reach(p) \subseteq Entry /\ DI!Kept(p)' = DI!Kept(p)
    BY <1>1, ReachIn DEF Registers, Reach, NamesOf, DI!Kept
  <2>2. LoadedInv(p)'
    BY <1>1, <2>1 DEF IntegrateInv, ProcInv, LoadedInv
  <2>3. Registers(p) => DI!Names(Plan[command[p]]) \subseteq Entry
    BY ItemsIn, PlanManifest DEF IntegrateInv, IntegrateType, Registers
  <2>4. LeftInv(p)'
    BY <1>1, <1>4, <1>5, <2>1, <2>3 DEF IntegrateInv, ProcInv, LeftInv
  <2>5. integratePc[p] \notin {"idle", "lock"} =>
          /\ edited \subseteq edited'
          /\ \A e \in Entry : disk'[e] = Foreign => disk[e] = Foreign \/ e \in edited'
          /\ rule' = "foreign" => rule = "foreign" \/ DI!Rule \in edited'
    BY <1>2 DEF DI!Edit, DI!EditRule, IntegrateInv, IntegrateType, HolderInv
  <2>6. LookedInv(p)'
    BY <1>1, <2>1, <2>5 DEF IntegrateInv, ProcInv, LookedInv
  <2> QED
    BY <2>2, <2>4, <2>6 DEF ProcInv
<1> QED
  BY <1>6, <1>7, <1>8 DEF IntegrateInv

\* Every step keeps what is generated on record, because the record is saved before the
\* first entry is written and shortened after the last obsolete one is gone.
LEMMA IntegrateStep == IntegrateInv /\ [Next]_vars => IntegrateInv'
<1> SUFFICES ASSUME IntegrateInv, [Next]_vars PROVE IntegrateInv'
  OBVIOUS
<1>1. CASE UNCHANGED integrateVars
  <2>1. UNCHANGED <<disk, rule, record, lock, integratePc, command, loaded, todo, edited>>
    BY <1>1 DEF integrateVars
  <2> QED
    BY <2>1, Unaffected DEF IntegrateInv, IntegrateType, HolderInv, RecordedInv, Ours
<1>2. ASSUME NEW p \in Proc, DI!Step(p) PROVE IntegrateInv'
  BY <1>2, CallStep, LockStep, PreflightStep, SaveStep, WriteStep, RemoveRuleStep, AddRuleStep, NextManifestStep, RemoveEntryStep,
     FinishStep, IntegrateFails DEF DI!Step
<1> QED
  BY <1>1, <1>2, EditStep, Parted DEF DI!Next

LEMMA IntegrateAlways == Spec => []IntegrateInv
<1>1. Init => IntegrateInv
  <2> SUFFICES ASSUME Init PROVE IntegrateInv
    OBVIOUS
  <2>1. DI!Init /\ DI!IntegrationAssumption
    BY HostAssumptions DEF Init
  <2>2. IntegrateType /\ HolderInv
    BY <2>1 DEF DI!Init, IntegrateType, HolderInv
  <2>3. RecordedInv
    BY <2>1 DEF DI!Init, DI!IntegrationAssumption, RecordedInv, Ours
  <2>4. ASSUME NEW p \in Proc PROVE ProcInv(p)
    BY <2>1 DEF DI!Init, ProcInv, LoadedInv, LeftInv, LookedInv
  <2> QED
    BY <2>2, <2>3, <2>4 DEF IntegrateInv
<1> QED
  BY <1>1, IntegrateStep, PTL DEF Spec

\* For any plans, entries and processes, and any failures, crashes and edits: whatever
\* register generated and is still there is in the ownership record.
THEOREM IntegrationRecorded == Spec => []EntriesRecorded
<1>1. IntegrateInv => EntriesRecorded
  <2> SUFFICES ASSUME IntegrateInv PROVE EntriesRecorded
    OBVIOUS
  <2>1. \A e \in Entry : disk[e] \in {DI!Absent, Foreign} \/ <<e, disk[e]>> \in DI!Recorded(record)
    BY DEF IntegrateInv, IntegrateType, RecordedInv, Ours
  <2>2. ASSUME Len(record) = 1 PROVE DI!Recorded(record) = DI!Items(record[1])
    <3>1. DI!ToSet(record) = {record[1]}
      BY <2>2 DEF IntegrateInv, IntegrateType, DI!ToSet
    <3> QED
      BY <3>1 DEF DI!Recorded
  <2> QED
    BY <2>1, <2>2 DEF EntriesRecorded, DI!EntriesRecorded, DI!StatusComplete, IntegrateInv, RecordedInv
<1> QED
  BY <1>1, IntegrateAlways, PTL

\* Edits are counted, so that a step that is not one leaves the number alone.
EditsInv == edits \in Nat

LEMMA EditsCounted == Spec => []EditsInv
<1>1. Init => EditsInv
  BY DEF Init, DI!Init, EditsInv
<1>2. EditsInv /\ [Next]_vars => EditsInv'
  <2> SUFFICES ASSUME edits \in Nat, [Next]_vars PROVE edits' \in Nat
    BY DEF EditsInv
  <2>1. ASSUME NEW p \in Proc, DI!Step(p) PROVE edits' = edits
    BY <2>1 DEF DI!Step, DI!CallRegister, DI!CallUnregister, DI!Lock, DI!Preflight, DI!Save, DI!WriteEntry, DI!RemoveRule,
       DI!AddRule, DI!NextManifest, DI!RemoveEntry, DI!Finish, DI!Fails
  <2> QED
    BY <2>1, Parted DEF integrateVars, DI!Next, DI!Edit, DI!EditRule
<1> QED
  BY <1>1, <1>2, PTL DEF Spec

\* register and unregister replace or remove what somebody else wrote only where it
\* appeared after they had looked.
THEOREM IntegrationKeepsForeign == Spec => ForeignKept
<1> DEFINE A == edits' = edits =>
                  /\ \A e \in Entry : disk[e] = Foreign /\ disk'[e] # Foreign => e \in edited
                  /\ rule = "foreign" /\ rule' # "foreign" => DI!Rule \in edited
<1>1. IntegrateInv /\ EditsInv /\ [Next]_vars => [A]_(DI!vars)
  <2> SUFFICES ASSUME IntegrateInv, edits \in Nat, DI!Next, edits' = edits PROVE A
    BY Parted DEF EditsInv, integrateVars, DI!vars
  <2>1. ASSUME NEW p \in Proc, DI!WriteEntry(p) \/ DI!RemoveEntry(p) PROVE A
    <3> DEFINE i == Head(todo[p])
    <3>1. /\ integratePc[p] \in {"write", "obsolete"} /\ todo[p] # << >> /\ UNCHANGED rule
          /\ \A e \in Entry : disk'[e] # disk[e] => e = i[1]
      BY <2>1 DEF DI!WriteEntry, DI!RemoveEntry, IntegrateInv, IntegrateType
    <3>2. i \in DI!ToSet(todo[p])
      BY <3>1, TailSet DEF IntegrateInv, IntegrateType
    <3>3. i[1] \in Reach(p)
      BY <3>2 DEF Reach, NamesOf
    <3> QED
      BY <3>1, <3>3 DEF IntegrateInv, ProcInv, LookedInv
  <2>2. ASSUME NEW p \in Proc, DI!RemoveRule(p) PROVE A
    <3>1. integratePc[p] \in {"write", "rule"} /\ UNCHANGED disk /\ (rule' # rule => DI!WithRule(loaded[p]))
      BY <2>2 DEF DI!RemoveRule
    <3> QED
      BY <3>1 DEF IntegrateInv, ProcInv, LookedInv
  <2>3. ASSUME NEW p \in Proc, DI!AddRule(p) PROVE A
    BY <2>3 DEF DI!AddRule
  <2>4. CASE UNCHANGED <<disk, rule>>
    BY <2>4
  <2>5. CASE (\E e \in Entry : DI!Edit(e)) \/ DI!EditRule
    BY <2>5 DEF DI!Edit, DI!EditRule
  <2> QED
    BY <2>1, <2>2, <2>3, <2>4, <2>5 DEF DI!Next, DI!Step, DI!CallRegister, DI!CallUnregister, DI!Lock, DI!Preflight, DI!Save,
       DI!NextManifest, DI!Finish, DI!Fails
<1> QED
  BY <1>1, IntegrateAlways, EditsCounted, PTL DEF Spec, ForeignKept, DI!ForeignKept
=============================================================================
