---------------------------- MODULE RuntimeCache ----------------------------
(***************************************************************************)
(* The cache of Java runtime probes: an entry is the result of a probe and  *)
(* the fingerprint of the installation, read file by file before and after  *)
(* it, while an installer replaces the files one at a time.                 *)
(*                                                                         *)
(* A file is its generation, which its stamp tells apart from every other   *)
(* one of the same file: a stamp has the length, both times and the inode.  *)
(* A probe runs the launcher, which reads the files in some order too.      *)
(***************************************************************************)
EXTENDS Naturals, Sequences, FiniteSets, SequencesExt

CONSTANTS Proc,            \* processes that probe one executable
          Order,           \* files of the installation in the order a fingerprint reads them
          Core,            \* the core library, without which there is no fingerprint
          MaxGeneration    \* replacements of a file

\* A file that is not there.
Absent == 0

Files == ToSet(Order)

CacheAssumption ==
    /\ Core \in Files
    /\ MaxGeneration \in Nat \ {0}

VARIABLES
    files,     \* the generation of every file
    last,      \* the last generation of every file
    entry,     \* the cache entry, at most one
    pc,
    before,    \* the first fingerprint, as far as it is read
    result,    \* what the probe has read so far
    after      \* the second fingerprint, as far as it is read

vars == <<files, last, entry, pc, before, result, after>>

\* A partial reading of the installation, nothing read yet.
Nothing == [f \in {} |-> Absent]

Init ==
    /\ files = [f \in Files |-> 1]
    /\ last = [f \in Files |-> 1]
    /\ entry = {}
    /\ pc = [p \in Proc |-> "idle"]
    /\ before = [p \in Proc |-> Nothing]
    /\ result = [p \in Proc |-> Nothing]
    /\ after = [p \in Proc |-> Nothing]

Read(reading, f) == [g \in DOMAIN reading \cup {f} |-> IF g = f THEN files[f] ELSE reading[g]]
Upcoming(reading) == Order[Cardinality(DOMAIN reading) + 1]
Whole(reading) == DOMAIN reading = Files

\* The call ends.
Return(p) ==
    /\ pc' = [pc EXCEPT ![p] = "idle"]
    /\ before' = [before EXCEPT ![p] = Nothing]
    /\ result' = [result EXCEPT ![p] = Nothing]
    /\ after' = [after EXCEPT ![p] = Nothing]

-----------------------------------------------------------------------------
\* probe_with: the first Fingerprint::read, one file after the other.
Call(p) ==
    /\ pc[p] = "idle"
    /\ pc' = [pc EXCEPT ![p] = "before"]
    /\ UNCHANGED <<files, last, entry, before, result, after>>

ReadBefore(p) ==
    /\ pc[p] = "before" /\ ~Whole(before[p])
    /\ before' = [before EXCEPT ![p] = Read(@, Upcoming(@))]
    /\ UNCHANGED <<files, last, entry, pc, result, after>>

\* load: an entry with this very fingerprint answers the call.
Hit(p) ==
    /\ pc[p] = "before" /\ Whole(before[p]) /\ before[p][Core] # Absent
    /\ \E e \in entry : e.fingerprint = before[p]
    /\ Return(p)
    /\ UNCHANGED <<files, last, entry>>

\* No matching entry: a fresh probe, and after it the fingerprint once more.
Miss(p) ==
    /\ pc[p] = "before" /\ Whole(before[p]) /\ before[p][Core] # Absent
    /\ \A e \in entry : e.fingerprint # before[p]
    /\ pc' = [pc EXCEPT ![p] = "probe"]
    /\ UNCHANGED <<files, last, entry, before, result, after>>

\* Without a fingerprint the probe is fresh and its result is not kept.
NoFingerprint(p) ==
    /\ pc[p] = "before"
    /\ Whole(before[p]) => before[p][Core] = Absent
    /\ pc' = [pc EXCEPT ![p] = "fresh"]
    /\ UNCHANGED <<files, last, entry, before, result, after>>

ProbeRead(p, f) ==
    /\ pc[p] \in {"probe", "fresh"} /\ f \notin DOMAIN result[p]
    /\ result' = [result EXCEPT ![p] = Read(@, f)]
    /\ UNCHANGED <<files, last, entry, pc, before, after>>

ProbeDone(p) ==
    /\ pc[p] = "probe" /\ Whole(result[p])
    /\ pc' = [pc EXCEPT ![p] = "after"]
    /\ UNCHANGED <<files, last, entry, before, result, after>>

FreshDone(p) ==
    /\ pc[p] = "fresh" /\ Whole(result[p])
    /\ Return(p)
    /\ UNCHANGED <<files, last, entry>>

ReadAfter(p) ==
    /\ pc[p] = "after" /\ ~Whole(after[p])
    /\ after' = [after EXCEPT ![p] = Read(@, Upcoming(@))]
    /\ UNCHANGED <<files, last, entry, pc, before, result>>

\* Keeps the result under the fingerprint read after the probe, unseen before.
SaveAfter(p) ==
    /\ pc[p] = "after" /\ Whole(after[p])
    /\ entry' = {[fingerprint |-> after[p], result |-> result[p]]}
    /\ Return(p)
    /\ UNCHANGED <<files, last>>

\* save, if nothing has changed around the probe; the rename replaces the entry.
Save(p) ==
    /\ pc[p] = "after" /\ Whole(after[p])
    /\ entry' = IF after[p] = before[p]
                THEN {[fingerprint |-> before[p], result |-> result[p]]} ELSE entry
    /\ Return(p)
    /\ UNCHANGED <<files, last>>

\* The entry cannot be written or read, or the second fingerprint fails.
SaveFails(p) ==
    /\ pc[p] = "after"
    /\ Return(p)
    /\ UNCHANGED <<files, last, entry>>

\* The probe fails, or the process stops.
Stop(p) ==
    /\ pc[p] # "idle"
    /\ Return(p)
    /\ UNCHANGED <<files, last, entry>>

\* An installer replaces or removes a file.  A file does not come back after its removal:
\* absence has no stamp, so one that is there only during a probe is not noticed.
Replace(f) ==
    /\ last[f] < MaxGeneration
    /\ last' = [last EXCEPT ![f] = @ + 1]
    /\ files' = [files EXCEPT ![f] = last[f] + 1]
    /\ UNCHANGED <<entry, pc, before, result, after>>

Delete(f) ==
    /\ files[f] # Absent
    /\ files' = [files EXCEPT ![f] = Absent]
    /\ last' = [last EXCEPT ![f] = MaxGeneration]
    /\ UNCHANGED <<entry, pc, before, result, after>>

Next ==
    \/ \E p \in Proc :
         \/ Call(p) \/ Hit(p) \/ Miss(p) \/ NoFingerprint(p) \/ ProbeDone(p) \/ FreshDone(p)
         \/ ReadBefore(p) \/ ReadAfter(p) \/ Save(p) \/ SaveFails(p) \/ Stop(p)
         \/ \E f \in Files : ProbeRead(p, f)
    \/ \E f \in Files : Replace(f) \/ Delete(f)

Spec == Init /\ [][Next]_vars

-----------------------------------------------------------------------------
\* "Caches only successful probes with a stable fingerprint across the probe interval":
\* whatever installers do meanwhile, an entry describes exactly the files its fingerprint
\* names, so that a later hit with the same files returns what a probe of them would.
EntryTruthful == \A e \in entry : e.result = e.fingerprint
=============================================================================
