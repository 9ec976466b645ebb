------------------------------- MODULE JarTail -------------------------------
(***************************************************************************)
(* janex-format/src/wrapper.rs and Reader::open_auto: finding where a       *)
(* container ends when a JAR follows it.  The records of a ZIP are one cell *)
(* each, with the name and the extra field of a header inside the cell.     *)
(***************************************************************************)
EXTENDS Container

CONSTANTS MAX,      \* the placeholder that a ZIP64 field replaces
          Window    \* cells read at the end of the file, 65557 bytes in the code

\* expand_zip64: extra is a sequence of [id, values], fields the values of
\* the header in their prescribed order.
Zip64Fields(extra) == SelectSeq(extra, LAMBDA e : e.id = 1)

Placeholders(fields) == Cardinality({i \in 1 .. Len(fields) : fields[i] = MAX})

ExpandFails(extra, fields) ==
    LET zip64 == Zip64Fields(extra)
    IN  \/ Len(zip64) > 1
        \/ zip64 = << >> /\ Placeholders(fields) > 0
        \/ zip64 # << >> /\ Len(zip64[1].values) < Placeholders(fields)

\* Every placeholder takes the next value of the extra field.
Expand(extra, fields) ==
    LET values == Zip64Fields(extra)[1].values
    IN  [i \in 1 .. Len(fields) |->
            IF fields[i] # MAX THEN fields[i]
            ELSE values[Placeholders(SubSeq(fields, 1, i))]]

\* coordinates: where the directory and the JAR begin, when both are in the
\* file.
Coordinates(end, length, offset, count) ==
    IF length + offset > end THEN {}
    ELSE {[jar |-> (end - length) - offset, start |-> end - length, end |-> end, count |-> count]}

\* zip64_records: ZIP64 end records that reach to the locator.
Zip64Records(file, lower, locator) ==
    {p \in lower .. (locator - 1) :
        file[p + 1].t = "end64" /\ p + 1 + file[p + 1].size = locator}

\* The end record, field by field, is a placeholder or agrees with the ZIP64
\* record.
Agrees(r, r64) ==
    /\ r64.disk = 0 /\ r64.diskCount = r64.count
    /\ r.count \in {MAX, r64.count} /\ r.diskCount \in {MAX, r64.count}
    /\ r.length \in {MAX, r64.length} /\ r.offset \in {MAX, r64.offset}

\* directories, for the end record after eocd cells.
Directories(file, eocd) ==
    LET r == file[eocd + 1]
        locator == file[eocd]
    IN  IF eocd = 0 \/ locator.t # "locator"
        THEN IF r.count # r.diskCount \/ MAX \in {r.count, r.length, r.offset}
             THEN {} ELSE Coordinates(eocd, r.length, r.offset, r.count)
        ELSE IF locator.disk # 0 THEN {}
        ELSE UNION {
                {d \in Coordinates(p, file[p + 1].length, file[p + 1].offset, file[p + 1].count) :
                    d.jar + locator.record = p} :
                p \in {q \in Zip64Records(file, locator.record, eocd - 1) : Agrees(r, file[q + 1])}}

\* validate_local: the local header that a central header points at.
ValidLocal(file, d, position, c, compressed, uncompressed) ==
    LET h == file[position + 1]
        dataEnd == position + 1 + compressed
        sizes == <<h.uncompressed, h.compressed>>
        descriptor == file[dataEnd + 1]
    IN  /\ position + 1 <= d.start
        /\ h.t = "local" /\ h.streamed = c.streamed /\ h.name = c.name
        /\ dataEnd <= d.start
        /\ IF ~h.streamed
           THEN /\ ~ExpandFails(h.extra, sizes)
                /\ Expand(h.extra, sizes) = <<uncompressed, compressed>>
                /\ h.crc = c.crc
           ELSE /\ dataEnd < d.start
                /\ descriptor.t = "descriptor"
                /\ descriptor.crc = c.crc
                /\ descriptor.compressed = compressed
                /\ descriptor.uncompressed = uncompressed

\* One central header of validate_directory.
ValidCentral(file, d, position) ==
    LET c == file[position + 1]
        raw == <<c.uncompressed, c.compressed, c.local, c.disk>>
        f == Expand(c.extra, raw)
    IN  /\ position < d.end
        /\ c.t = "central"
        /\ ~ExpandFails(c.extra, raw)
        /\ f[4] = 0
        /\ d.jar + f[3] < d.start
        /\ ValidLocal(file, d, d.jar + f[3], c, f[2], f[1])

\* validate_directory: the headers fill the directory, except for one
\* signature record at its end.
ValidDirectory(file, d) ==
    LET last == d.start + d.count
    IN  /\ \A i \in 1 .. d.count : ValidCentral(file, d, d.start + i - 1)
        /\ last <= d.end
        /\ last < d.end => last + 1 = d.end /\ file[last + 1].t = "signature"

\* End records whose comment reaches to the end of the file.
EndRecords(file) ==
    {p \in 0 .. (Len(file) - 1) :
        /\ p >= Len(file) - Window
        /\ file[p + 1].t = "eocd"
        /\ p + 1 + file[p + 1].comment = Len(file)
        /\ file[p + 1].disk = 0}

\* candidate_ends
CandidateEnds(file) ==
    {d.jar : d \in {d \in UNION {Directories(file, p) : p \in EndRecords(file)} :
                        ValidDirectory(file, d)}}

\* Faulty variant: the first boundary that opens is taken.
DecideFirst(opened, failed) ==
    IF opened = {} THEN Fail("Invalid")
    ELSE [ok |-> TRUE, end |-> CHOOSE e \in opened : \A f \in opened : e <= f]

\* Exactly one boundary opens; an error that is not a format error ends the
\* search.
Decide(opened, failed) ==
    IF failed # {} THEN Fail("Unsupported")
    ELSE IF Cardinality(opened) # 1 THEN Fail("Invalid")
    ELSE [ok |-> TRUE, end |-> CHOOSE e \in opened : TRUE]

\* open_auto
OpenAuto(file) ==
    LET ends == CandidateEnds(file) \cup {Len(file)}
        result == [e \in ends |-> Open(file, Len(file) - e)]
    IN  Decide({e \in ends : result[e].ok},
               {e \in ends : ~result[e].ok /\ result[e].kind # "Invalid"})
=============================================================================
