--------------------------- MODULE ArchiveDownload ---------------------------
(***************************************************************************)
(* download_archive of janex-host/src/sdk/catalog.rs: an archive is fetched *)
(* in bounded ranges, each tried Attempts times, into one file.  A byte is  *)
(* named by the version of the archive it belongs to and its offset there.  *)
(* The server may break off, answer with another range, ignore ranges, send *)
(* too much, and replace the archive by another version at any time.        *)
(***************************************************************************)
EXTENDS Naturals, Sequences

CONSTANTS Version,   \* representations of the archive
          Size,      \* their lengths
          Chunk,     \* bytes requested at once, 8 MiB in the code
          Limit      \* max_download_bytes

DownloadAssumption ==
    /\ Size \in [Version -> Nat \ {0}]
    /\ Chunk \in Nat \ {0}
    /\ Limit \in Nat \ {0}

Attempts == 3

VARIABLES
    current,  \* the version the server has now
    file,     \* the output file
    offset,   \* completed bytes
    total,    \* length announced with the last completed range, 0 is unknown
    attempt,  \* attempts made for this range
    reply,    \* the accepted response: its version, length and complete length
    pc

vars == <<current, file, offset, total, attempt, reply, pc>>

NoReply == [version |-> "none", length |-> 0, complete |-> 0]

Init ==
    /\ current \in Version
    /\ file = << >>
    /\ offset = 0
    /\ total = 0
    /\ attempt = 0
    /\ reply = NoReply
    /\ pc = "attempt"

\* The last byte asked for: min(offset + Chunk, Limit) - 1
End == IF offset + Chunk <= Limit THEN offset + Chunk - 1 ELSE Limit - 1

-----------------------------------------------------------------------------
\* Faulty variant: an attempt starts over.
TruncateAll ==
    /\ pc = "attempt"
    /\ pc' = "request"
    /\ attempt' = attempt + 1
    /\ file' = << >>
    /\ UNCHANGED <<current, offset, total, reply>>

\* A new attempt first drops what the last one left behind.
Truncate ==
    /\ pc = "attempt"
    /\ pc' = "request"
    /\ attempt' = attempt + 1
    /\ file' = SubSeq(file, 1, offset)
    /\ UNCHANGED <<current, offset, total, reply>>

\* The deadline is shared by all attempts.
TimedOut ==
    /\ pc = "attempt"
    /\ pc' = "failed"
    /\ UNCHANGED <<current, file, offset, total, attempt, reply>>

\* Faulty variant: the complete length is not compared.
AcceptsRangeOfAny(first, last, complete) ==
    first = offset /\ last <= End /\ complete <= Limit

\* The test of a 206 response, content_range having checked the bounds.
AcceptsRange(first, last, complete) ==
    /\ first = offset
    /\ last <= End
    /\ complete <= Limit
    /\ total \in {0, complete}

\* Status 206 with some range of the current version.
PartialContent ==
    /\ pc = "request"
    /\ \E first, last \in 0 .. (Size[current] - 1) :
            /\ first <= last
            /\ AcceptsRange(first, last, Size[current])
            /\ reply' = [version |-> current, length |-> (last - first) + 1,
                         complete |-> Size[current]]
    /\ pc' = "body"
    /\ UNCHANGED <<current, file, offset, total, attempt>>

\* Faulty variant: the announced length is not limited.
WholeContentUnlimited ==
    /\ pc = "request"
    /\ offset = 0
    /\ reply' = [version |-> current, length |-> Size[current], complete |-> Size[current]]
    /\ pc' = "body"
    /\ UNCHANGED <<current, file, offset, total, attempt>>

\* Status 200 from a server without ranges, for the first request only.
WholeContent ==
    /\ pc = "request"
    /\ offset = 0
    /\ Size[current] <= Limit
    /\ reply' = [version |-> current, length |-> Size[current], complete |-> Size[current]]
    /\ pc' = "body"
    /\ UNCHANGED <<current, file, offset, total, attempt>>

\* Faulty variant: the attempts are not counted.
RetryForever ==
    /\ pc' = "attempt"
    /\ attempt' = 0
    /\ reply' = NoReply
    /\ UNCHANGED <<current, offset, total>>

\* The attempt is lost; the last one decides.
Retry ==
    /\ pc' = IF attempt = Attempts THEN "failed" ELSE "attempt"
    /\ reply' = NoReply
    /\ UNCHANGED <<current, offset, total, attempt>>

\* No response, another status, or a range that is not accepted.
Refused ==
    /\ pc = "request"
    /\ Retry
    /\ UNCHANGED file

\* n bytes of the response arrive at the offset, at most one too many is read.
Copy(n) ==
    file' = SubSeq(file, 1, offset)
                \o [i \in 1 .. n |-> <<reply.version, offset + i - 1>>]
                \o SubSeq(file, offset + n + 1, Len(file))

\* The body breaks off, is too short, or too long.
BodyFails ==
    /\ pc = "body"
    /\ \E n \in 0 .. (reply.length + 1) : Copy(n)
    /\ Retry

\* The range is complete.
Body ==
    /\ pc = "body"
    /\ Copy(reply.length)
    /\ offset' = offset + reply.length
    /\ total' = reply.complete
    /\ attempt' = 0
    /\ reply' = NoReply
    /\ pc' = IF offset' = reply.complete THEN "done" ELSE "attempt"
    /\ UNCHANGED current

\* The provider replaces the archive.
Republish ==
    /\ pc \notin {"done", "failed"}
    /\ \E v \in Version \ {current} : current' = v
    /\ UNCHANGED <<file, offset, total, attempt, reply, pc>>

Step ==
    \/ Truncate \/ TimedOut
    \/ PartialContent \/ WholeContent \/ Refused
    \/ BodyFails \/ Body

Next == Step \/ Republish

Spec == Init /\ [][Next]_vars /\ WF_vars(Step)

-----------------------------------------------------------------------------
\* A successful download is one whole version of the archive, byte for byte,
\* whatever the attempts before left in the file and whatever the server did
\* in between.  Versions are told apart by their lengths only, as in the code.
\* At no time does the file exceed the limit by more than the byte that shows it.
WholeArchive ==
    /\ pc = "done" =>
         \E v \in Version : file = [i \in 1 .. Size[v] |-> <<v, i - 1>>]
    /\ Len(file) <= Limit + 1 /\ offset <= Limit

\* "a stalled archive request can be retried without discarding completed
\* bytes": what is completed stays as it is.
CompletedKept ==
    [][ /\ offset' >= offset
        /\ offset <= Len(file')
        /\ \A i \in 1 .. offset : file'[i] = file[i] ]_vars

\* Retries are bounded: the download ends, whatever the server does.
Ends == <>(pc \in {"done", "failed"})
=============================================================================
