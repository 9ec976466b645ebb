--------------------------- MODULE DependencyCache ---------------------------
(***************************************************************************)
(* The dependency cache of janex-host/src/dependency.rs.  A request (key)   *)
(* has a metadata record that names content by digest, and content files    *)
(* are shared by all requests.  Updates of a request are serialised by a    *)
(* lock file of its own, so two requests publish the same content at once.  *)
(* The bootstrap's Dependencies.resolve takes the same steps on the same     *)
(* files; its threads are serialised in the JVM, which counts as a process.  *)
(* The lock of a JVM and that of a Host need not exclude one another (fcntl  *)
(* and flock on Linux), so here they never do.                               *)
(* A process may stop anywhere and a content file may decay on disk.        *)
(***************************************************************************)
EXTENDS Naturals, FiniteSets

CONSTANTS Proc,     \* processes
          Jvm,      \* those that are JVMs with the bootstrap
          Key,      \* requests
          Content,  \* artifacts; a digest and the bytes it names
          NoContent,
          Pin,      \* the SHA-256 checksum a request declares, or NoContent
          Decays    \* how often a content file is damaged

CacheAssumption ==
    /\ Jvm \subseteq Proc
    /\ Key # {}
    /\ NoContent \notin Content
    /\ Pin \in [Key -> Content \cup {NoContent}]
    /\ Decays \in Nat

VARIABLES
    meta,    \* content named by the record of a request, NoContent if none
    files,   \* state of the content file of a digest
    locks,   \* requests that have a lock file
    writer,  \* processes that hold a request's lock exclusively
    readers, \* processes that hold it shared
    decayed, \* damages so far
    pc,      \* phase of resolve_address in p
    key,     \* its request
    mode,    \* "online", "offline" or "refresh"
    bytes    \* the artifact p has, verified

vars == <<meta, files, locks, writer, readers, decayed, pc, key, mode, bytes>>

\* The request of a process that resolves nothing does not matter.
AnyKey == CHOOSE k \in Key : TRUE

Mode == {"online", "offline", "refresh"}

Phase == {"idle", "open", "lock", "lookup", "reuse", "download", "content", "record"}

Init ==
    /\ meta = [k \in Key |-> NoContent]
    /\ files = [c \in Content |-> "absent"]
    /\ locks = {}
    /\ writer = [k \in Key |-> {}]
    /\ readers = [k \in Key |-> {}]
    /\ decayed = 0
    /\ pc = [p \in Proc |-> "idle"]
    /\ key = [p \in Proc |-> AnyKey]
    /\ mode = [p \in Proc |-> "online"]
    /\ bytes = [p \in Proc |-> NoContent]

Goto(p, phase) == pc' = [pc EXCEPT ![p] = phase]

\* The call returns or fails, and the lock is released.
Return(p) ==
    /\ Goto(p, "idle")
    /\ writer' = [k \in Key |-> writer[k] \ {p}]
    /\ readers' = [k \in Key |-> readers[k] \ {p}]
    /\ bytes' = [bytes EXCEPT ![p] = NoContent]
    /\ key' = [key EXCEPT ![p] = AnyKey]
    /\ mode' = [mode EXCEPT ![p] = "online"]
    /\ UNCHANGED <<locks, decayed>>

\* verify(): the bytes have the declared checksum.
Verifies(k, c) == Pin[k] \in {NoContent, c}

\* read_content(): the file is there and has the digest it is named by.
Intact(c) == c \in Content /\ files[c] = "intact"

\* A cached record whose content can be used.
Hit(k) == Intact(meta[k]) /\ Verifies(k, meta[k])

-----------------------------------------------------------------------------
Resolve(p, k, m) ==
    /\ pc[p] = "idle"
    /\ key' = [key EXCEPT ![p] = k]
    /\ mode' = [mode EXCEPT ![p] = m]
    /\ Goto(p, "open")
    /\ UNCHANGED <<meta, files, locks, writer, readers, decayed, bytes>>

\* The lock file is created, but not offline.
OpenLock(p) ==
    /\ pc[p] = "open"
    /\ IF mode[p] = "offline" /\ key[p] \notin locks
       THEN Return(p)
       ELSE /\ locks' = locks \cup {key[p]}
            /\ Goto(p, "lock")
            /\ UNCHANGED <<writer, readers, decayed, key, mode, bytes>>
    /\ UNCHANGED <<meta, files>>

\* The processes with the same kind of lock.
Peers(p) == IF p \in Jvm THEN Jvm ELSE Proc \ Jvm

\* Offline readers share the lock.
Lock(p) ==
    /\ pc[p] = "lock"
    /\ writer[key[p]] \cap Peers(p) = {}
    /\ IF mode[p] = "offline"
       THEN /\ readers' = [readers EXCEPT ![key[p]] = @ \cup {p}]
            /\ UNCHANGED writer
       ELSE /\ readers[key[p]] \cap Peers(p) = {}
            /\ writer' = [writer EXCEPT ![key[p]] = @ \cup {p}]
            /\ UNCHANGED readers
    /\ Goto(p, "lookup")
    /\ UNCHANGED <<meta, files, locks, decayed, key, mode, bytes>>

\* Faulty variant: a refresh discards the entry it is going to replace.
LookUpDiscards(p) ==
    /\ pc[p] = "lookup"
    /\ IF (mode[p] # "refresh" /\ Hit(key[p])) \/ mode[p] = "offline"
       THEN Return(p) /\ UNCHANGED meta
       ELSE /\ meta' = [meta EXCEPT ![key[p]] = NoContent]
            /\ Goto(p, "reuse")
            /\ UNCHANGED <<locks, writer, readers, decayed, key, mode, bytes>>
    /\ UNCHANGED files

\* A usable entry is returned; offline there is nothing else to try.
LookUp(p) ==
    /\ pc[p] = "lookup"
    /\ IF (mode[p] # "refresh" /\ Hit(key[p])) \/ mode[p] = "offline"
       THEN Return(p)
       ELSE /\ Goto(p, "reuse")
            /\ UNCHANGED <<locks, writer, readers, decayed, key, mode, bytes>>
    /\ UNCHANGED <<meta, files>>

\* Content with the pinned digest is used if another request has brought it,
\* or if the local Maven repository has it.
Reuse(p) ==
    /\ pc[p] = "reuse"
    /\ \/ /\ mode[p] # "refresh" /\ Pin[key[p]] # NoContent
          /\ bytes' = [bytes EXCEPT ![p] = Pin[key[p]]]
          /\ Goto(p, "content")
       \/ /\ ~ (mode[p] # "refresh" /\ Intact(Pin[key[p]]))
          /\ Goto(p, "download")
          /\ UNCHANGED bytes
    /\ UNCHANGED <<meta, files, locks, writer, readers, decayed, key, mode>>

\* Whatever the server has is downloaded completely, and verified.
Download(p) ==
    /\ pc[p] = "download"
    /\ \E c \in Content :
            /\ Verifies(key[p], c)
            /\ bytes' = [bytes EXCEPT ![p] = c]
    /\ Goto(p, "content")
    /\ UNCHANGED <<meta, files, locks, writer, readers, decayed, key, mode>>

\* The request, the size or the checksum fails; or a file cannot be written.
Fails(p) ==
    /\ pc[p] \in {"download", "content", "record"}
    /\ Return(p)
    /\ UNCHANGED <<meta, files>>

\* Faulty variant: a damaged file counts as published.
PublishContentOnce(p) ==
    /\ pc[p] = "content"
    /\ files' = [files EXCEPT ![bytes[p]] = IF @ = "absent" THEN "intact" ELSE @]
    /\ Goto(p, "record")
    /\ UNCHANGED <<meta, locks, writer, readers, decayed, key, mode, bytes>>

\* Faulty variant: the record is written first.
PublishContentLast(p) ==
    /\ pc[p] = "content"
    /\ meta' = [meta EXCEPT ![key[p]] = bytes[p]]
    /\ Goto(p, "record")
    /\ UNCHANGED <<files, locks, writer, readers, decayed, key, mode, bytes>>

\* Content that is not already there intact is renamed into place.
PublishContent(p) ==
    /\ pc[p] = "content"
    /\ files' = [files EXCEPT ![bytes[p]] = "intact"]
    /\ Goto(p, "record")
    /\ UNCHANGED <<meta, locks, writer, readers, decayed, key, mode, bytes>>

\* Then the record is.
PublishRecord(p) ==
    /\ pc[p] = "record"
    /\ meta' = [meta EXCEPT ![key[p]] = bytes[p]]
    /\ Return(p)
    /\ UNCHANGED files

-----------------------------------------------------------------------------
Crash(p) ==
    /\ pc[p] # "idle"
    /\ Return(p)
    /\ UNCHANGED <<meta, files>>

\* A content file is damaged.
Decay ==
    /\ decayed < Decays
    /\ decayed' = decayed + 1
    /\ \E c \in Content : files[c] = "intact" /\ files' = [files EXCEPT ![c] = "damaged"]
    /\ UNCHANGED <<meta, locks, writer, readers, pc, key, mode, bytes>>

Next ==
    \/ \E p \in Proc :
        \/ \E k \in Key, m \in Mode : Resolve(p, k, m)
        \/ OpenLock(p) \/ Lock(p) \/ LookUp(p) \/ Reuse(p)
        \/ Download(p) \/ Fails(p) \/ PublishContent(p) \/ PublishRecord(p)
        \/ Crash(p)
    \/ Decay

Spec == Init /\ [][Next]_vars

-----------------------------------------------------------------------------
\* Every variable has its type, and a kind of lock has one writer or readers.
TypeOK ==
    /\ meta \in [Key -> Content \cup {NoContent}]
    /\ files \in [Content -> {"absent", "intact", "damaged"}]
    /\ locks \subseteq Key
    /\ writer \in [Key -> SUBSET Proc] /\ readers \in [Key -> SUBSET Proc]
    /\ decayed \in 0 .. Decays
    /\ pc \in [Proc -> Phase] /\ key \in [Proc -> Key] /\ mode \in [Proc -> Mode]
    /\ bytes \in [Proc -> Content \cup {NoContent}]
    /\ \A k \in Key : \A p \in writer[k] : (writer[k] \cup readers[k]) \cap Peers(p) = {p} /\ p \notin readers[k]

\* "Complete downloads are published atomically; failures never publish
\* partial bytes": a record names content that has the declared checksum and
\* whose file was published whole before, also while two requests publish the
\* same content and after a crash between the two files.
RecordsComplete ==
    \A k \in Key : meta[k] # NoContent =>
        /\ Verifies(k, meta[k])
        /\ files[meta[k]] = "intact" \/ (decayed > 0 /\ files[meta[k]] = "damaged")

\* Unless files are damaged, an entry that is usable stays usable: a refresh
\* "atomically replaces an entry after successful verification", and until
\* then, and if it stops on the way, the old one serves.
EntryKept == [][decayed' = 0 => \A k \in Key : Hit(k) => Hit(k)']_vars

\* A call that returns an artifact for request k.
Succeeds(k) ==
    \E p \in Proc :
        /\ key[p] = k /\ pc'[p] = "idle"
        /\ \/ pc[p] = "lookup" /\ Hit(k)
           \/ pc[p] = "record" /\ meta'[k] = bytes[p]

\* "Corrupt entries are refreshed online": as long as calls succeed, damage
\* does not last, although other requests share the damaged file.
Healed == \A k \in Key : ([]<><<Succeeds(k)>>_vars) => <>[]Hit(k)
=============================================================================
