------------------------------ MODULE Container ------------------------------
(***************************************************************************)
(* Reader and Writer of janex-format/src/container.rs, with checksum.rs.    *)
(* A file is a sequence of cells.  The container magic, the magic of a      *)
(* section, the metadata and the footer are one cell each, every other byte *)
(* is a data cell.  An optional value is a sequence of at most one element, *)
(* a result is [ok |-> TRUE, ...] or Fail(kind).                            *)
(***************************************************************************)
EXTENDS Naturals, Sequences, FiniteSets, SequencesExt

Fail(kind) == [ok |-> FALSE, kind |-> kind]

-----------------------------------------------------------------------------
\* Algorithm and Checksum.  A digest of a secure algorithm determines the
\* cells, one of the others need not: here it only tells the length.
Secure == {"Sha256", "Sha512", "Sm3"}

Algorithm == Secure \cup {"Xxh3_64", "Xxh3_128"}

\* from_id: the reserved identifier is invalid, any other one unsupported.
ChecksumFault(c) ==
    IF c.algorithm = "zero" \/ c.truncated THEN "Invalid"
    ELSE IF c.algorithm \notin Algorithm THEN "Unsupported"
    ELSE "none"

Digest(algorithm, cells) ==
    IF algorithm \in Secure THEN cells ELSE <<Len(cells)>>

Compute(algorithm, cells) ==
    [algorithm |-> algorithm, truncated |-> FALSE, digest |-> Digest(algorithm, cells)]

Verifies(c, cells) == Compute(c.algorithm, cells).digest = c.digest

-----------------------------------------------------------------------------
\* The kinds whose sections begin with a magic of their own.
Tagged == {"BLOBPOOL", "JANEXAPP"}

MAGIC == [t |-> "JANEX"]
SectionMagic(kind) == [t |-> "section", kind |-> kind]
Byte(b) == [t |-> "data", byte |-> b]

\* What the verification covers: the metadata up to the verification type.
VerificationInput(meta) ==
    [version |-> meta.version, table |-> meta.table, header |-> meta.header,
     tail |-> meta.tail, package |-> meta.package, verification |-> meta.verification.kind]

\* Verification::decode
VerificationFault(v) ==
    CASE v.kind = "none"     -> IF v.payload = << >> THEN "none" ELSE "Invalid"
      [] v.kind = "checksum" -> IF v.payload = << >> THEN "Invalid" ELSE ChecksumFault(v.payload[1])
      [] v.kind \in {"openpgp", "cms"} -> IF v.payload # << >> THEN "none" ELSE "Invalid"
      [] OTHER -> "Invalid"

\* validate_metadata: the external regions and the package name.
RegionFault(region) ==
    IF region # << >> /\ region[1].checksum # << >>
    THEN ChecksumFault(region[1].checksum[1]) ELSE "none"

MetadataFault(meta) ==
    IF RegionFault(meta.header) # "none" THEN RegionFault(meta.header)
    ELSE IF RegionFault(meta.tail) # "none" THEN RegionFault(meta.tail)
    ELSE IF meta.package = <<"">> THEN "Invalid"
    ELSE "none"

\* read_at
ReadAt(file, offset, length) == SubSeq(file, offset + 1, offset + length)

\* SectionInfo::from_value
SectionFault(info) ==
    IF info.checksum # << >> /\ ChecksumFault(info.checksum[1]) # "none"
    THEN ChecksumFault(info.checksum[1])
    ELSE IF info.kind \in Tagged /\ info.length < 1 THEN "Invalid"
    ELSE "none"

\* Offset of the i-th section of a table whose first one is at base: the loop
\* over the table keeps the end of what it has passed.
SectionOffset(table, base, i) ==
    LET end[n \in 0 .. Len(table)] == IF n = 0 THEN base ELSE end[n - 1] + table[n].length
    IN  end[i - 1]

\* What the loop over the section table finds wrong with the i-th entry.
EntryFault(file, table, base, limit, i) ==
    LET info == table[i]
        offset == SectionOffset(table, base, i)
    IN  IF SectionFault(info) # "none" THEN SectionFault(info)
        ELSE IF \/ \E j \in 1 .. (i - 1) : table[j].id = info.id
                \/ offset + info.length > limit
                \/ /\ info.kind \in Tagged
                   /\ ReadAt(file, offset, 1) # <<SectionMagic(info.kind)>>
        THEN "Invalid" ELSE "none"

TableFault(file, table, base, limit) ==
    LET faulty == {i \in 1 .. Len(table) : EntryFault(file, table, base, limit, i) # "none"}
        first == CHOOSE i \in faulty : \A j \in faulty : i <= j
    IN  IF faulty # {} THEN EntryFault(file, table, base, limit, first)
        ELSE IF SectionOffset(table, base, Len(table) + 1) # limit THEN "Invalid"
        ELSE "none"

\* The recorded sizes of the external regions.
RegionSizes(meta, start, tail) ==
    /\ meta.header # << >> => meta.header[1].size = start
    /\ meta.tail # << >> => meta.tail[1].size = tail

\* Reader::open
Open(file, tail) ==
    LET end == Len(file) - tail
        footer == file[end]
        metadataStart == end - footer.metadata
        start == end - footer.file
        meta == file[metadataStart + 1]
    IN  IF \/ tail >= Len(file) \/ footer.t # "end"
           \/ footer.metadata > end \/ footer.file > end
           \/ metadataStart < start + 1 \/ footer.metadata < 1
           \/ ReadAt(file, start, 1) # <<MAGIC>>
           \/ footer.metadata # 2 \/ meta.t # "metadata"
        THEN Fail("Invalid")
        ELSE IF meta.version # <<0, 1>> THEN Fail("Unsupported")
        ELSE IF MetadataFault(meta) # "none" THEN Fail(MetadataFault(meta))
        ELSE IF VerificationFault(meta.verification) # "none"
        THEN Fail(VerificationFault(meta.verification))
        ELSE IF TableFault(file, meta.table, start + 1, metadataStart) # "none"
        THEN Fail(TableFault(file, meta.table, start + 1, metadataStart))
        ELSE IF ~RegionSizes(meta, start, tail) THEN Fail("Invalid")
        ELSE [ok |-> TRUE, file |-> file, start |-> start, end |-> end, meta |-> meta]

\* section_range of the section with an ID, section having found it.
SectionRange(reader, id) ==
    LET table == reader.meta.table
        i == CHOOSE i \in 1 .. Len(table) : table[i].id = id
        offset == SectionOffset(table, reader.start + 1, i)
    IN  [start |-> offset, length |-> table[i].length]

\* read_section_range, of which read_section asks for the whole.
ReadSection(reader, id, offset, length) ==
    IF \A i \in 1 .. Len(reader.meta.table) : reader.meta.table[i].id # id
    THEN Fail("Invalid")
    ELSE IF offset + length > SectionRange(reader, id).length THEN Fail("Invalid")
    ELSE [ok |-> TRUE, bytes |-> ReadAt(reader.file, SectionRange(reader, id).start + offset, length)]

\* An external region for verify_checksums: its record and its cells.
HeaderRegion(reader) == <<reader.meta.header, ReadAt(reader.file, 0, reader.start)>>
TailRegion(reader) ==
    <<reader.meta.tail, ReadAt(reader.file, reader.end, Len(reader.file) - reader.end)>>

\* Faulty variant: a region without a record counts as covered.
RegionCoveredByDefault(region) ==
    LET record == region[1] cells == region[2]
    IN  record = << >> \/ cells = << >>
            \/ (record[1].checksum # << >> /\ record[1].checksum[1].algorithm \in Secure)

RegionCovered(region) ==
    LET record == region[1] cells == region[2]
    IN  record # << >> /\ (cells = << >>
            \/ (record[1].checksum # << >> /\ record[1].checksum[1].algorithm \in Secure))

RegionVerifies(region) ==
    region[1] # << >> /\ region[1][1].checksum # << >>
        => Verifies(region[1][1].checksum[1], region[2])

\* verify_checksums: whether every recorded checksum verifies, and whether
\* secure ones cover everything outside the metadata.
VerifyChecksums(reader) ==
    LET table == reader.meta.table
        regions == {HeaderRegion(reader), TailRegion(reader)}
        bytes(info) == ReadSection(reader, info.id, 0, info.length).bytes
    IN  IF \/ /\ reader.meta.verification.kind = "checksum"
              /\ ~Verifies(reader.meta.verification.payload[1], <<VerificationInput(reader.meta)>>)
           \/ \E i \in 1 .. Len(table) : table[i].checksum # << >>
                  /\ ~Verifies(table[i].checksum[1], bytes(table[i]))
           \/ \E r \in regions : ~RegionVerifies(r)
        THEN Fail("Verification")
        ELSE [ok |-> TRUE, complete_secure_coverage |->
                /\ \A i \in 1 .. Len(table) : table[i].checksum # << >>
                                              /\ table[i].checksum[1].algorithm \in Secure
                /\ \A r \in regions : RegionCovered(r)]

-----------------------------------------------------------------------------
\* write_section: a section is [id, kind, bytes]; the result is the next
\* writer, with the table and the cells written so far, or a failure.
NewWriter == [ok |-> TRUE, table |-> << >>, cells |-> <<MAGIC>>]

WriteSection(w, s) ==
    IF \/ \E i \in 1 .. Len(w.table) : w.table[i].id = s.id
       \/ s.kind \in Tagged /\ ~IsPrefix(<<SectionMagic(s.kind)>>, s.bytes)
    THEN Fail("Invalid")
    ELSE [ok |-> TRUE, cells |-> w.cells \o s.bytes,
          table |-> Append(w.table, [id |-> s.id, kind |-> s.kind, length |-> Len(s.bytes),
                                     checksum |-> <<Compute("Sha256", s.bytes)>>])]

\* The writer stops at the first section it rejects.
WriteSections(sections) ==
    LET w[n \in 0 .. Len(sections)] ==
            IF n = 0 THEN NewWriter
            ELSE IF w[n - 1].ok THEN WriteSection(w[n - 1], sections[n]) ELSE w[n - 1]
    IN  w[Len(sections)]

\* The metadata with its verification.
Sealed(w, metadata, kind, payload) ==
    [t |-> "metadata", version |-> <<0, 1>>, table |-> w.table, header |-> metadata.header,
     tail |-> metadata.tail, package |-> metadata.package,
     verification |-> [kind |-> kind, payload |-> payload]]

\* What finish_with shows to the maker of the payload.
InputOf(w, metadata, kind) == VerificationInput(Sealed(w, metadata, kind, << >>))

\* finish_with, given the payload that was made over InputOf.
FinishWith(w, metadata, kind, payload) ==
    LET meta == Sealed(w, metadata, kind, payload) IN
    IF MetadataFault(meta) # "none" THEN Fail(MetadataFault(meta))
    ELSE IF VerificationFault(meta.verification) # "none" THEN Fail(VerificationFault(meta.verification))
    ELSE IF kind = "checksum" /\ ~Verifies(payload[1], <<VerificationInput(meta)>>)
    THEN Fail("Verification")
    ELSE [ok |-> TRUE, cells |-> w.cells \o
            <<meta, [t |-> "end", metadata |-> 2, file |-> Len(w.cells) + 2]>>]

\* finish: a SHA-256 checksum.
Finish(w, metadata) ==
    FinishWith(w, metadata, "checksum", <<Compute("Sha256", <<InputOf(w, metadata, "checksum")>>)>>)
=============================================================================
