----------------------------- MODULE FormatCases -----------------------------
(***************************************************************************)
(* Inputs of the algorithms of the format, of resource roots, Java versions *)
(* and imported JARs for TLC, and what is expected of them.                 *)
(***************************************************************************)
EXTENDS Integers, Sequences, FiniteSets, SequencesExt, FiniteSetsExt

J == INSTANCE JarTail WITH MAX <- 99, Window <- 12

-----------------------------------------------------------------------------
(* Containers: what is before, in and after them. *)

Sections == {
    << >>,
    <<[id |-> 7, kind |-> "PADDING", bytes |-> << >>]>>,
    <<[id |-> 7, kind |-> "JANEXAPP", bytes |-> <<J!SectionMagic("JANEXAPP"), J!Byte(1)>>],
      [id |-> 0, kind |-> "OTHER", bytes |-> <<J!Byte(0), J!Byte(1)>>]>> }

\* A JAR with one entry of n data cells; its offsets are relative to its start.
Jar(n, streamed, zip64, comment) ==
    LET big(x) == IF zip64 THEN 99 ELSE x
        size == IF streamed THEN 0 ELSE n
        descriptor == IF streamed
            THEN <<[t |-> "descriptor", crc |-> 5, compressed |-> n, uncompressed |-> n]>>
            ELSE << >>
        local == [t |-> "local", name |-> "f", streamed |-> streamed,
                  crc |-> IF streamed THEN 0 ELSE 5, compressed |-> size,
                  uncompressed |-> size, extra |-> <<[id |-> 9, values |-> << >>]>>]
        central == [t |-> "central", name |-> "f", streamed |-> streamed, crc |-> 5,
                    compressed |-> big(n), uncompressed |-> n, local |-> big(0), disk |-> 0,
                    extra |-> IF zip64 THEN <<[id |-> 1, values |-> <<n, 0>>]>> ELSE << >>]
        data == <<local>> \o [i \in 1 .. n |-> J!Byte(i % 2)] \o descriptor
        offset == Len(data)
        records == IF ~zip64 THEN << >>
            ELSE <<[t |-> "end64", size |-> 0, disk |-> 0, diskCount |-> 1, count |-> 1,
                    length |-> 1, offset |-> offset],
                   [t |-> "locator", disk |-> 0, record |-> offset + 1]>>
    IN  data \o <<central>> \o records
             \o <<[t |-> "eocd", disk |-> 0, diskCount |-> 1, count |-> big(1), length |-> big(1),
                   offset |-> big(offset), comment |-> Len(comment)]>> \o comment

Region(cells, how) ==
    CASE how = "absent" -> << >>
      [] how = "size"   -> <<[size |-> Len(cells), checksum |-> << >>]>>
      [] how = "weak"   -> <<[size |-> Len(cells), checksum |-> <<J!Compute("Xxh3_64", cells)>>]>>
      [] how = "secure" -> <<[size |-> Len(cells), checksum |-> <<J!Compute("Sm3", cells)>>]>>

Written(header, sections, tail, how) ==
    LET metadata == [header |-> Region(header, how), tail |-> Region(tail, how), package |-> << >>]
        w == J!WriteSections(sections)
    IN  IF how = "secure"
        THEN J!FinishWith(w, metadata, "openpgp", <<J!InputOf(w, metadata, "openpgp")>>)
        ELSE J!Finish(w, metadata)

Older == Written(<< >>, <<[id |-> 1, kind |-> "OTHER", bytes |-> <<J!Byte(1)>>]>>, << >>, "absent").cells

Headers == {<< >>, <<J!Byte(0)>>, Older}

Tails == {<< >>, <<J!Byte(1)>>}
    \cup {Jar(n, s, z, c) : n \in {0, 2}, s \in BOOLEAN, z \in BOOLEAN, c \in {<< >>, <<J!Byte(0)>>}}
    \cup {Jar(0, FALSE, FALSE, Older)}

ContainerCases ==
    {[call |-> "container", header |-> h, sections |-> s, tail |-> t, how |-> how] :
        h \in Headers, s \in Sections, t \in Tails, how \in {"absent", "size", "weak", "secure"}}

FileOf(c) == c.header \o Written(c.header, c.sections, c.tail, c.how).cells \o c.tail

OpenContainer(c) == J!OpenAuto(FileOf(c))

\* A JAR whose comment is a container itself has two boundaries; a tail that
\* is no JAR has none.
Plain(c) == c.tail = << >> \/ (c.tail # <<J!Byte(1)>> /\ J!OpenAuto(c.tail).ok = FALSE)

\* A written container is found again, whatever precedes it and whichever JAR
\* follows it, all its sections are read back and verify; a file with more
\* than one boundary is refused rather than guessed.
ContainerOpensFor(c, out) ==
    LET w == Written(c.header, c.sections, c.tail, c.how)
        r == J!Open(FileOf(c), Len(c.tail))
    IN  IF ~Plain(c) THEN ~out.ok
        ELSE /\ out = [ok |-> TRUE, end |-> Len(c.header) + Len(w.cells)]
             /\ \A i \in 1 .. Len(c.sections) :
                    LET s == c.sections[i]
                    IN  J!ReadSection(r, s.id, 0, Len(s.bytes)) = [ok |-> TRUE, bytes |-> s.bytes]
             /\ J!VerifyChecksums(r).ok
             /\ J!VerifyChecksums(r).complete_secure_coverage
                    <=> \/ c.how = "secure"
                        \/ c.how # "absent" /\ c.header = << >> /\ c.tail = << >>

-----------------------------------------------------------------------------
(* Files that were changed after they were signed. *)

Junk == {J!Byte(0), J!Byte(1), J!MAGIC, J!SectionMagic("JANEXAPP")}

Changes(f) ==
    {[f EXCEPT ![i] = x] : i \in 1 .. Len(f), x \in Junk}
    \cup {RemoveAt(f, i) : i \in 1 .. Len(f)}
    \cup {InsertAt(f, i, x) : i \in 1 .. (Len(f) + 1), x \in Junk}
    \cup {[f EXCEPT ![i] = f[j], ![j] = f[i]] : i, j \in 1 .. Len(f)}

Originals ==
    {[call |-> "tamper", header |-> h, sections |-> s, tail |-> t, how |-> how] :
        h \in {<< >>, <<J!Byte(0), J!Byte(1)>>}, s \in Sections,
        t \in {<< >>, Jar(1, FALSE, FALSE, << >>)}, how \in {"absent", "size", "weak", "secure"}}

TamperCases ==
    UNION {{[call |-> "tamper", original |-> FileOf(o), file |-> f] : f \in Changes(FileOf(o))} :
                o \in Originals}

\* The metadata of the original, as far as its signature covers it.
SignedBy(file) ==
    LET i == CHOOSE i \in 1 .. Len(file) : file[i].t = "metadata" IN J!VerificationInput(file[i])

CheckTampered(c) ==
    LET opened == J!OpenAuto(c.file)
        r == J!Open(c.file, Len(c.file) - opened.end)
        report == J!VerifyChecksums(r)
    IN  IF ~opened.ok THEN "refused"
        ELSE IF J!VerificationInput(r.meta) # SignedBy(c.original) THEN "refused"
        ELSE IF ~report.ok THEN "refused"
        ELSE IF report.complete_secure_coverage THEN "covered" ELSE "partial"

\* What verify_checksums reports as completely and securely covered, under an
\* authentic signature of the metadata, is the original file to the last cell:
\* header, sections and tail.
TamperEvidentFor(c, out) == out = "covered" => c.file = c.original
-----------------------------------------------------------------------------
(* Class files that share strings. *)

P == INSTANCE ClassPool WITH VuintBase <- 3

Text(value, valid) == [tag |-> "utf8", value |-> value, valid |-> valid]

\* b/bb, Lb/bb;, b/, /b and texts without a class name; b is 8.
Texts == {
    << >>, <<8, 8, 8, 8>>,
    <<8, P!Slash, 8, 8>>, <<8, P!Slash>>, <<P!Slash, 8, 8, 8>>, <<8, 8, P!Slash, P!Slash, 8, 8>>,
    <<P!Ell, 8, P!Slash, 8, 8, 8, P!Semi>>, <<P!Ell, 8, 8, 8, 8, P!Semi>>,
    <<P!Paren, P!Ell, 8, 8, P!Slash, 8, 8, P!Semi, P!Ell, 8, 8, 8, 8, 8, P!Semi>>,
    <<P!Ell, P!Slash, 8, 8, 8, P!Semi>>, <<P!Ell, 8, 8, 8, 8, P!Paren>> }

Classes ==
    {[constants |-> <<Text(t, TRUE), [tag |-> "class", text |-> 1]>>, body |-> 1] : t \in Texts}
    \cup {[constants |-> <<Text(t, v), [tag |-> "long"], Text(u, TRUE)>>, body |-> 1] :
            t \in Texts, u \in Texts, v \in BOOLEAN}

\* A builder may begin with a decoded pool, which may have equal entries.
StartPools == {P!NewPool, << << >>, <<8>>, <<8>> >>, << <<8>> >>}

ClassCases ==
    {[call |-> "class", pool |-> p, first |-> c, second |-> d] :
        p \in StartPools, c \in Classes, d \in {d \in Classes : Len(d.constants) = 2}}

\* Two class files one after the other, with the names of their resources.
TransformBoth(c) ==
    LET start == P!DecodePool(Len(c.pool), c.pool)
        one == P!Transform(c.first, P!FromPool(start.pool))
        named == P!WriteName(one.builder, <<8, 8, P!Class>>)
        two == P!Transform(c.second, named.builder)
    IN  IF start.ok THEN [ok |-> TRUE, one |-> one, named |-> named, two |-> two] ELSE start

RestoresTo(result, class, pool) ==
    result.transformed => P!Restore(result.class, pool) = [ok |-> TRUE, class |-> class]

\* Both classes and the name are restored, byte for byte, from the final pool:
\* entries keep their indices while later ones are added and undone.  A class
\* that is not transformed leaves the pool as it was, and the reverse index
\* always names equal entries.
ClassesRestoreFor(c, out) ==
    LET pool == P!DecodePool(Len(out.two.builder.pool), out.two.builder.pool).pool
    IN  IF c.pool[1] # << >> THEN ~out.ok ELSE
        /\ RestoresTo(out.one, c.first, pool)
        /\ RestoresTo(out.two, c.second, pool)
        /\ P!ReadName(pool, out.named.name) = [ok |-> TRUE, value |-> <<8, 8, P!Class>>]
        /\ ~out.one.transformed => out.one.builder = P!FromPool(c.pool)
        /\ \A v \in DOMAIN out.two.builder.indices :
               P!Get(pool, out.two.builder.indices[v]) = [ok |-> TRUE, value |-> v]
-----------------------------------------------------------------------------
(* Blob pools. *)

B == INSTANCE Blob WITH PageShifts <- {0, 1}, Limit <- 9

Bytes(n) == [i \in 1 .. n |-> B!Byte(i)]

Extent(index, offset, length) == [index |-> index, offset |-> offset, length |-> length]

\* What a caller of the builder adds: bytes or extents.
Additions ==
    {[kind |-> "bytes", bytes |-> Bytes(n)] : n \in {0, 2, 6}}
    \cup {[kind |-> "extents", extents |-> e] :
            e \in {<<Extent(0, 1, 1)>>, <<Extent(0, 0, 6)>>, <<Extent(1, 3, 3), Extent(0, 0, 1)>>,
                   <<Extent(2, 0, 1)>>, << >>, <<Extent(0, 2, 0)>>}}

BlobCases ==
    {[call |-> "blob", add |-> a, shift |-> s, order |-> o] :
        a \in [1 .. 3 -> Additions], s \in {0, 1, 2},
        o \in {<<0, 1, 2>>, <<2, 1, 0>>, <<1, 2, 0>>}}

AddTo(b, a) ==
    IF ~b.ok THEN b
    ELSE IF a.kind = "bytes" THEN B!Push(b.value, a.bytes) ELSE B!PushExtents(b.value, a.extents)

\* The blobs are looked up in some order by one reader, whose cache grows.
ResolveInOrder(store, order) ==
    FoldLeft(LAMBDA r, i : LET x == B!Resolve(r.store, i, FALSE)
                           IN  [store |-> IF x.ok THEN x.value.store ELSE r.store,
                                results |-> [r.results EXCEPT ![i] = IF x.ok THEN B!Ok(x.value.bytes) ELSE x]],
             [store |-> store, results |-> [i \in 0 .. 2 |-> B!Fail("none")]], order)

\* The bytes an addition stands for, those before it given.
Meaning(add, i) ==
    LET source(e) == add[e.index + 1].bytes
    IN  IF add[i].kind = "bytes" THEN add[i].bytes
        ELSE FlattenSeq([k \in 1 .. Len(add[i].extents) |->
                LET e == add[i].extents[k] IN SubSeq(source(e), e.offset + 1, e.offset + e.length)])

\* A class file transformed twice, first with the default pool and then with the blob of
\* this index as its pool.
TwiceTransformed(i, meaning) ==
    [source |-> [t |-> "inline",
                 bytes |-> <<[t |-> "class", pool |-> meaning,
                              of |-> <<[t |-> "class", pool |-> Bytes(2), of |-> Bytes(1)]>>]>>],
     transforms |-> <<[method |-> 1, pool |-> << >>, input_size |-> 1],
                      [method |-> 1, pool |-> <<i>>, input_size |-> 1]>>]

OfBlob(i) == [source |-> [t |-> "blob", index |-> i], transforms |-> << >>]

BuildAndResolve(c) ==
    LET built == FoldLeft(AddTo, B!Ok(B!NewBuilder), c.add)
        pool == B!Finish(built.value, c.shift)
        store == B!OpenPool(pool.value.bytes, pool.value.info)
    IN  IF ~built.ok THEN [stage |-> "refused"]
        ELSE IF ~pool.ok THEN [stage |-> "shift"]
        ELSE IF ~store.ok THEN [stage |-> "unreadable"]
        ELSE [stage |-> "resolved", valid |-> B!ValidatePool(store.value),
              results |-> ResolveInOrder(store.value, c.order).results,
              entries |-> [i \in 0 .. 2 |-> B!ResolveEntries(store.value, OfBlob(i))],
              files |-> [i \in 0 .. 2 |-> B!ResolveFile(store.value, TwiceTransformed(i, Meaning(c.add, i + 1)), Bytes(2))]]

\* An addition is refused unless its extents are nonempty parts of blobs that
\* were added as bytes before.
Meaningful(add, i) ==
    add[i].kind = "extents" =>
        /\ add[i].extents # << >>
        /\ \A k \in 1 .. Len(add[i].extents) :
               LET e == add[i].extents[k]
               IN  /\ e.index + 1 < i /\ e.length > 0
                   /\ add[e.index + 1].kind = "bytes"
                   /\ e.offset + e.length <= Len(add[e.index + 1].bytes)

\* A pool that was built validates, and every blob resolves to the bytes that
\* were added, through pages, compression and extents, in whatever order the
\* cache is filled; a result beyond the byte limit is refused.  A file that was
\* transformed twice is restored through the pools in the opposite order.
BlobsResolveFor(c, out) ==
    IF \E i \in 1 .. 3 : ~Meaningful(c.add, i) THEN out.stage = "refused"
    ELSE IF c.shift = 2 THEN out.stage = "shift"
    ELSE /\ out.stage = "resolved" /\ out.valid
         /\ \A i \in 1 .. 3 :
                IF Len(Meaning(c.add, i)) > 9
                THEN B!Fail("Limit") = out.results[i - 1] /\ ~out.files[i - 1].ok
                ELSE /\ out.results[i - 1] = B!Ok(Meaning(c.add, i))
                     /\ out.entries[i - 1].value.bytes = Meaning(c.add, i)
                     /\ out.files[i - 1].value.bytes = Bytes(1)

\* Pools as they may come from a file: two entries on two pages, anywhere.
StoredAt(offset, size) ==
    [kind |-> "stored", offset |-> offset,
     encoding |-> [stored_size |-> size, filters |-> << >>]]

FoundEntries ==
    {StoredAt(o, n) : o \in 0 .. 4, n \in 0 .. 3}
    \cup {[kind |-> "extents", extents |-> <<Extent(i, o, 1)>>] : i \in {0, 1, 2}, o \in {0, 2}}
    \cup {[kind |-> "other"]}

PageAt(offset, entry) ==
    [offset |-> offset, encoding |-> [stored_size |-> 1, filters |-> << >>],
     checksum |-> << <<B!EntryCell(entry)>> >>]

FoundCases ==
    {[call |-> "found", entries |-> <<a, b>>, second |-> p, order |-> o] :
        a \in FoundEntries, b \in FoundEntries, p \in {3, 4},
        o \in {<<0, 1>>, <<1, 0>>, <<0, 0>>, <<1, 1>>}}

\* Three bytes, the first page, and the second page either on the first or
\* behind it.
FoundStore(c) ==
    B!OpenPool(Bytes(3) \o <<B!EntryCell(c.entries[1]), B!EntryCell(c.entries[2])>>,
               [count |-> 2, shift |-> 0,
                pages |-> <<PageAt(3, c.entries[1]), PageAt(c.second, c.entries[2])>>])

ReadFound(c) ==
    LET store == FoundStore(c)
    IN  IF ~store.ok THEN [opened |-> FALSE]
        ELSE [opened |-> TRUE, valid |-> B!ValidatePool(store.value),
              store |-> ResolveInOrder(store.value, c.order).store,
              results |-> ResolveInOrder(store.value, c.order).results]

Disjoint(ranges) == \A r, s \in ranges : r # s => r[2] <= s[1] \/ s[2] <= r[1]

\* What is registered.
Expected(c, page) == {<<3, 4>>, <<4, 5>>} \cup
    {<<e.offset, e.offset + e.encoding.stored_size>> :
        e \in {e \in {c.entries[i] : i \in page} :
                  IF e.kind = "stored" THEN e.encoding.stored_size > 0 ELSE FALSE}}

\* An empty blob fits anywhere in the pool, any other one beside the pages.
Fits(e) ==
    e.offset + e.encoding.stored_size <= IF e.encoding.stored_size = 0 THEN 5 ELSE 3

Apart(a, b) ==
    \/ 0 \in {a.encoding.stored_size, b.encoding.stored_size}
    \/ a.offset + a.encoding.stored_size <= b.offset
    \/ b.offset + b.encoding.stored_size <= a.offset

\* Whatever a file says, no two pages or blobs that a reader accepts share a
\* byte and none leaves the pool, although the pages are checked one by one, in
\* the order in which they happen to be needed; and a pool that validates as a
\* whole gives every blob that has a known kind, in any order.
FoundPoolsFor(c, out) ==
    /\ out.opened = (c.second = 4)
    /\ out.opened =>
        /\ out.store.ranges = Expected(c, out.store.loaded)
        /\ Disjoint(out.store.ranges)
        /\ \A r \in out.store.ranges : r[2] <= 5
        /\ out.valid => \A i \in ToSet(c.order) :
               out.results[i].ok \/ c.entries[i + 1].kind = "other"
        /\ (\A i \in {1, 2} : c.entries[i].kind = "stored") =>
               out.valid = ((\A i \in {1, 2} : Fits(c.entries[i])) /\ Apart(c.entries[1], c.entries[2]))

-----------------------------------------------------------------------------
(* Encoded items and numbers: short sequences of cells, the larger maps and *)
(* arrays made of them, and every integer near a width.                     *)

E == INSTANCE Encoding WITH Base <- 6, Direct <- 4, Widths <- <<1, 2>>, Group <- 4, Groups <- 3, LastGroup <- 2,
                            MaxBytes <- 9, MaxElements <- 3, MaxDepth <- 2

Cells == {E!Header(m, a) : m \in {0, 1, 2, 4, 5}, a \in {0, 1, 2}} \cup {E!Header(0, 4), E!Header(0, 5), E!Header(0, 6)}
         \cup {E!Header(3, 1), E!Header(2, 4), E!Header(6, 2), E!Header(6, 3), E!Header(6, 4), E!Header(7, 1)}
         \cup {E!Header(7, a) : a \in 4 .. 8} \cup {0, 3, 5, E!Half, E!Nan, E!Double}

Keys == {<<E!Header(0, 0)>>, <<E!Header(0, 2)>>, <<E!Header(0, 4), 5>>, <<E!Header(1, 0)>>, <<E!Header(3, 1), 2>>,
         <<E!Header(4, 1), E!Header(0, 0)>>}

Maps == {<<E!Header(5, n)>> \o k \o <<E!Header(0, 1)>> \o l \o v : n \in {1, 2}, k, l \in Keys,
            v \in {<<E!Header(0, 3)>>, <<E!Header(5, 0)>>, <<E!Header(4, 1), E!Header(4, 0)>>, <<E!Header(7, 5), E!Nan>>, << >>}}

Bignums == {<<E!Header(6, t), E!Header(2, 3), a, 0, b>> : t \in {1, 2, 3}, a \in {0, 1, 5}, b \in {0, 5}}
           \cup {<<E!Header(6, 2), E!Header(2, 4), 4, a, b, 5, 5>> : a \in {0, 2, 3, 5}, b \in {0, 5}}

\* Arguments after a header are bytes.
Plausible(bytes) ==
    \A i \in 1 .. Len(bytes), j \in 1 .. 2 :
       /\ E!IsHeader(bytes[i]) /\ E!Major(bytes[i]) < 7 /\ E!Additional(bytes[i]) \in (3 + j) .. 5
       /\ i + j <= Len(bytes)
       => bytes[i + j] < 6

CborCases == {[call |-> "cbor", bytes |-> bytes] :
                bytes \in {b \in UNION {[1 .. n -> Cells] : n \in 0 .. 2} \cup Maps \cup Bignums
                          \cup {<<a, b, c>> : a \in {E!Header(0, 5), E!Header(4, 2), E!Header(5, 1), E!Header(2, 2), E!Header(6, 2)},
                                              b, c \in Cells} : Plausible(b)}}

NumberCases == {[call |-> "number", n |-> n] : n \in -648 .. 647}

ReadCbor(c) ==
    LET value == E!FromBytes(c.bytes)
    IN  [value |-> value,
         again |-> IF value.ok THEN E!EncodeValue(value.value) ELSE << >>,
         sized |-> E!ReadSizedValue(E!WriteSizedValue(c.bytes), 1),
         integer |-> IF value.ok THEN E!AsInteger(value.value) ELSE value,
         keyed |-> IF value.ok THEN E!GetKey(value.value, 2) ELSE value]

\* A number and, for the natural ones that fit, its ULEB128 form and one with
\* padding.
WriteNumber(c) ==
    LET bytes == E!Integer(c.n)
        short == E!WriteVuint(c.n % 32)
    IN  [integer |-> E!AsInteger(E!FromBytes(bytes).value),
         short |-> E!Vuint(short \o <<0>>, 1),
         padded |-> E!Vuint([i \in 1 .. Len(short) |-> IF i = Len(short) THEN short[i] + 4 ELSE short[i]] \o <<0>>, 1),
         length |-> Len(short)]

\* Every item has one accepted encoding, the one its constructors write; the
\* sized form is accepted for the same items, and a key is found by value.
CborFor(c, out) ==
    /\ out.value.ok =>
         /\ out.again = c.bytes
         /\ out.sized.ok /\ out.sized.value = out.value.value
         /\ out.integer.ok => E!Integer(out.integer.value) = c.bytes
         /\ out.keyed.ok => \A pair \in ToSet(out.value.value.map) :
               E!EncodeValue(pair[1]) = <<E!Header(0, 2)>> <=> out.keyed.value = <<pair[2]>> /\ pair[1] = [unsigned |-> 2]
    /\ c.bytes # << >> /\ Len(c.bytes) <= 9 => out.sized.ok = out.value.ok

NumberFor(c, out) ==
    /\ out.integer = E!Ok(c.n)
    /\ out.short = E!At(c.n % 32, out.length + 1)
    /\ IF out.length < 3 THEN out.padded = E!At(c.n % 32, out.length + 2) ELSE ~out.padded.ok

-----------------------------------------------------------------------------
(* Resource roots, Java versions and imported JARs.                        *)

Im == INSTANCE JarImport WITH VuintBase <- 3, Elements <- 12, Depth <- 4, IntMax <- 20,
                             MaxTotal <- 7, MaxBytes <- 8

LOCAL Sl == Im!Slash
TA == <<10>>
TB == <<11>>
TAClass == <<10, Im!Class>>
TAB == <<10, Sl, 11>>

NoMetadata == << >>
File(name, content) == [kind |-> "file", name |-> name, content |-> content, metadata |-> NoMetadata]
Link(name, target) == [kind |-> "link", name |-> name, target |-> target, metadata |-> NoMetadata]
Tomb(name) == [kind |-> "tombstone", name |-> name]

-----------------------------------------------------------------------------
(* Roots of two or three layers, and a runtime that matches all or the first
   ones only. *)

EntryLists == {<< >>, <<File(TA, <<1>>)>>, <<Tomb(TA)>>, <<Link(TA, TB)>>, <<Link(TA, Im!Up)>>,
               <<Tomb(TA), Link(TB, TA)>>, <<File(TA, <<2>>), File(TAClass, <<3>>)>>, <<File(TB, <<4>>)>>}

Dir(path, entries) == [path |-> path, metadata |-> NoMetadata, entries |-> entries]
RootOnly == {<<Dir(Im!Root, e)>> : e \in EntryLists}
Nested == {<<Dir(TA, e)>> : e \in EntryLists} \cup {<<Dir(TAB, e)>> : e \in {<< >>, <<File(TA, <<5>>)>>}}
Both == {<<Dir(Im!Root, e), Dir(TA, f)>> : e \in EntryLists, f \in {<<Tomb(TB)>>, <<Link(TB, <<8, 8, Sl, 11>>)>>}}

Layer(condition, directories) == [condition |-> condition, directories |-> directories]
Always == Im!Unconditional
FromNine == Im!JavaAtLeast(9)

RootsOf(S, T) == {<<Layer(Always, s), Layer(FromNine, t)>> : s \in S, t \in T}
LayerLists ==
    RootsOf(RootOnly \cup Nested \cup Both, RootOnly \cup Nested \cup Both)
    \cup {<<Layer(Always, s), Layer(FromNine, t), Layer(Always, u)>> : s, t, u \in RootOnly}

Runtime(release) ==
    [names |-> [os |-> <<"linux">>, arch |-> <<"x86-64">>, invocation |-> << >>],
     runtime |-> <<[type |-> "janex.java", vendor |-> "",
                    version |-> <<[numbers |-> <<release>>, pre |-> << >>]>>]>>]

RootCases == {[call |-> "root", layers |-> layers, release |-> release] :
                layers \in LayerLists, release \in {8, 11}}

Queries == {Im!Root, TA, TB, TAB, <<10, Sl, 8, 8>>, <<8, Sl, 10>>, <<10, Sl, 8, 8, Sl, 11>>, <<8, 8>>, <<10, Sl, 10>>,
            <<11, Sl, 11>>, <<10, Sl, 11, Sl, 8, 8>>}

RootOf(c) == [name |-> << >>, layers |-> c.layers]

MergeAndResolve(c) ==
    LET encoded == Im!Encode(RootOf(c), Im!NewPool)
        decoded == IF encoded.ok THEN Im!Decode(encoded.value) ELSE encoded
        tree == IF decoded.ok THEN Im!Merge(decoded.value, Runtime(c.release)) ELSE decoded
    IN  [encoded |-> encoded.ok, decoded |-> decoded,
         tree |-> tree,
         found |-> [q \in Queries |-> IF tree.ok THEN Im!Resolve(tree.value, q) ELSE tree]]

-----------------------------------------------------------------------------
(* What the merged tree should be, path by path. *)

Matching(c) == SelectSeq(c.layers, LAMBDA layer : layer.condition = Always \/ c.release >= 9)

PathsOf(layer, kinds) ==
    UNION {{Im!Joined(d.path, e.name) : e \in {e \in ToSet(d.entries) : e.kind \in kinds}}
           : d \in ToSet(layer.directories)}
Adds(layer, p) == p \in PathsOf(layer, {"file", "link"})
Buries(layer, p) == p \in PathsOf(layer, {"tombstone"})
Opens(layer, p) == p \in Im!LayerDirectories(layer)

\* The layer whose entry p has after the first n layers, as a set.
Owner(layers, p, n) ==
    {i \in 1 .. n : /\ Adds(layers[i], p)
                    /\ \A j \in (i + 1) .. n : ~Adds(layers[j], p) /\ ~Buries(layers[j], p)}

AllPaths(layers) == UNION {Im!LayerDirectories(l) \cup PathsOf(l, {"file", "link"}) : l \in ToSet(layers)}

\* A directory never meets an entry that an earlier layer left, nor an entry a
\* directory.
Mergeable(layers) ==
    \A p \in AllPaths(layers), n \in 1 .. Len(layers) :
       /\ Opens(layers[n], p) => \A i \in Owner(layers, p, n - 1) : Buries(layers[n], p)
       /\ Adds(layers[n], p) => \A i \in 1 .. n : ~Opens(layers[i], p)

EntryAt(layer, p) ==
    CHOOSE e \in UNION {{e \in ToSet(d.entries) : Im!Joined(d.path, e.name) = p} : d \in ToSet(layer.directories)} : TRUE

ExpectedKind(layers, p) ==
    IF \E i \in 1 .. Len(layers) : Opens(layers[i], p) THEN "directory"
    ELSE EntryAt(layers[CHOOSE i \in Owner(layers, p, Len(layers)) : TRUE], p).kind

ExpectedPaths(layers) ==
    {Im!Root} \cup {p \in AllPaths(layers) : \/ \E i \in 1 .. Len(layers) : Opens(layers[i], p)
                                            \/ Owner(layers, p, Len(layers)) # {}}

\* What resolution promises: a canonical path names itself, ".." leads to the
\* parent, and a link stands for its target seen from its directory.
ResolvesWell(nodes, q) ==
    LET r == Im!Resolve(nodes, q)
    IN  r.ok =>
        /\ r.value \in DOMAIN nodes /\ nodes[r.value].kind # "link"
        /\ Im!Resolve(nodes, r.value) = r
        /\ \A p \in Im!Ancestry(r.value) \ {r.value} : nodes[p].kind = "directory"
        /\ nodes[r.value].kind = "directory" /\ r.value # Im!Root =>
              Im!Resolve(nodes, Im!Joined(q, Im!Up)) = Im!Ok(Im!Parent(r.value))

LinkStandsForTarget(nodes, p) ==
    LET direct == Im!Resolve(nodes, p)
        target == Im!Resolve(nodes, Im!Joined(Im!Parent(p), nodes[p].target))
    IN  nodes[p].kind = "link" /\ direct.ok => direct = target

RootsMergeFor(c, out) ==
    LET layers == Matching(c)
    IN  /\ out.encoded = Im!Validates(RootOf(c))
        /\ out.encoded => /\ out.decoded = Im!Ok(RootOf(c))
                          /\ out.tree.ok = Mergeable(layers)
        /\ out.tree.ok =>
             /\ DOMAIN out.tree.value = ExpectedPaths(layers)
             /\ \A p \in ExpectedPaths(layers) : out.tree.value[p].kind = ExpectedKind(layers, p)
             /\ \A p \in ExpectedPaths(layers) : out.tree.value[p].kind = "file" =>
                   out.tree.value[p].content = EntryAt(layers[CHOOSE i \in Owner(layers, p, Len(layers)) : TRUE], p).content
             /\ \A q \in Queries : ResolvesWell(out.tree.value, q)
             /\ \A p \in ExpectedPaths(layers) : LinkStandsForTarget(out.tree.value, p)

-----------------------------------------------------------------------------
(* JARs of a manifest and a few members, imported and materialized for some
   releases. *)

Member(name, mode, content) ==
    [name |-> name, mode |-> mode, content |-> content, metadata |-> NoMetadata, encrypted |-> FALSE]

Versioned(digits, path) == Im!VersionsPrefix \o [i \in 1 .. Len(digits) |-> Im!Digit(digits[i])] \o <<Sl>> \o path
Info == <<Im!ModuleInfo, Im!Class>>

Manifests == {<< >>, <<Member(Im!ManifestPath, "none", <<Im!ReleaseTrue, Im!ClassPath, Im!Blank, 60, Im!Digest>>)>>,
              <<Member(Im!ManifestPath, "none", <<Im!ReleaseTrue, Im!ReleaseFalse>>)>>,
              <<Member(<<Im!MetaLower, Sl, Im!ManifestMf>>, "none", <<Im!Other, Im!ReleaseTrue>>)>>}

Members == {Member(TA, "file", <<1>>), Member(Info, "none", <<2>>), Member(Versioned(<<9>>, TA), "none", <<3>>),
            Member(Versioned(<<1, 0>>, TA), "none", <<4>>), Member(Versioned(<<8>>, TA), "none", <<5>>),
            Member(Versioned(<<9>>, Info), "none", <<6>>), Member(Versioned(<<9>>, << >>), "none", << >>),
            Member(Versioned(<<9>>, <<Im!Meta, Sl, 10>>), "none", <<7>>),
            Member(Versioned(<<1, 0>>, TAB), "none", <<8>>), Member(TAB, "file", <<9>>),
            Member(<<Im!MetaLower, Sl, Im!SignatureSf>>, "none", <<9, 9>>),
            Member(<<12>>, "link", TA), Member(<<10, Sl>>, "directory", << >>), Member(<<10, Sl, 12>>, "link", Im!Here)}

JarCases == {[call |-> "jar", entries |-> m \o SetToSeq(S)] :
               m \in Manifests, S \in UNION {kSubset(k, Members) : k \in 0 .. 3}}

Releases == {8, 9, 10, 11}

\* The directory that a JAR unpacks to, parents included.
Above(entries) == UNION {Im!Ancestry(Im!ItemPath(m.name)) \ {m.name} : m \in ToSet(entries)}
Unpackable(entries) == Above(entries) \cap {m.name : m \in ToSet(entries)} = {}
Unpacked(entries) ==
    [p \in Above(entries) \cup {m.name : m \in {m \in ToSet(entries) : ~Im!IsDirectoryName(m.name)}} |->
       IF p \in Above(entries) THEN [kind |-> "directory", metadata |-> NoMetadata]
       ELSE LET m == CHOOSE m \in ToSet(entries) : m.name = p
            IN  IF m.mode = "link" THEN [kind |-> "link", target |-> m.content, absolute |-> FALSE, metadata |-> NoMetadata]
                ELSE [kind |-> "file", content |-> m.content, metadata |-> NoMetadata]]

Descriptor(root, v) == Im!ReadFile(Im!Merge(root, Runtime(v)).value, Info)

\* For each release what comes of the JAR, of its directory and of its module descriptor.
ImportAndMaterialize(c) ==
    LET whole == Im!ImportJar(c.entries, FALSE, 7)
        modules == Im!ImportJar(c.entries, TRUE, 7)
        unpacked == IF Unpackable(c.entries) THEN Im!ImportDirectory(Unpacked(c.entries)) ELSE whole
        Jars(root) == [v \in Releases |-> IF root.ok THEN Im!Materialize(root.value, Runtime(v)) ELSE root]
        Descriptors(root) == IF root.ok THEN [v \in Releases |-> Descriptor(root.value, v)] ELSE << >>
    IN  [imported |-> whole.ok, jars |-> Jars(whole), others |-> Jars(unpacked),
         mergeable |-> whole.ok => \A v \in Releases : Im!Merge(whole.value, Runtime(v)).ok,
         descriptors |-> Descriptors(whole), modules |-> Descriptors(modules)]

\* The members that a JVM of release v sees in the JAR, by logical path.
IsMulti(entries) ==
    \E m \in ToSet(entries) : m.name = Im!ManifestPath /\ Im!MultiRelease(Im!ParseManifest(m.content).value)
Effective(entries, multi, path, v) ==
    LET named == {m \in ToSet(entries) : Im!Logical(m.name, multi) = path /\ Im!VersionOf(m.name, multi) <= v}
    IN  {m \in named : \A n \in named : Im!VersionOf(n.name, multi) <= Im!VersionOf(m.name, multi)}

SeenFiles(entries, multi, v) ==
    {p \in {Im!Logical(m.name, multi) : m \in ToSet(entries)} :
        \E m \in Effective(entries, multi, p, v) : ~Im!IsDirectoryName(m.name) /\ m.mode # "link"}

WrittenTo(jar, path) == {m.content : m \in {m \in ToSet(jar.members) : m.name = path}}

\* The runtime manifest keeps everything but class paths and signatures.
RuntimeManifest(lines) ==
    LET manifest == Im!ParseManifest(lines).value
    IN  (manifest.main \ {Im!ClassPath, Im!Digest}) \cup {Im!Version}

JarMatches(entries, multi, jar, v) ==
    /\ \A p \in SeenFiles(entries, multi, v) :
         IF Im!JarSignature(p) THEN WrittenTo(jar, p) = {}
         ELSE IF Im!Lower(p) = Im!ManifestPath
         THEN \A lines \in WrittenTo(jar, p) :
                 /\ Im!ParseManifest(lines).value.main = RuntimeManifest((CHOOSE m \in Effective(entries, multi, p, v) : TRUE).content)
                 /\ Im!Digest \notin ToSet(lines)
         ELSE WrittenTo(jar, p) = {m.content : m \in Effective(entries, multi, p, v)}
    /\ (\A m \in ToSet(entries) : m.mode # "link") =>
         {m.name : m \in {m \in ToSet(jar.members) : ~Im!IsDirectoryName(m.name)}} =
           {p \in SeenFiles(entries, multi, v) : ~Im!JarSignature(p)}
    /\ <<12>> \in {m.name : m \in ToSet(entries)} =>
         WrittenTo(jar, <<12>>) = WrittenTo(jar, TA)

FilesOf(jar) == {m \in ToSet(jar.members) : ~Im!IsDirectoryName(m.name)}

JarsMaterializeFor(c, out) ==
    /\ \A v \in Releases : out.jars[v].ok /\ out.others[v].ok => FilesOf(out.others[v]) = FilesOf(out.jars[v])
    /\ out.mergeable
    /\ out.imported => \A v \in Releases :
         /\ out.jars[v].ok => \E multi \in {IsMulti(c.entries)} : JarMatches(c.entries, multi, out.jars[v], v)
         /\ (\A m \in ToSet(c.entries) : m.mode # "link") /\ Im!Total(c.entries) <= 3 => out.jars[v].ok
    /\ out.descriptors # << >> /\ out.modules # << >> => out.descriptors = out.modules

-----------------------------------------------------------------------------
(* Written versions, and ranges over them. *)

Jv == INSTANCE JavaVersions WITH IntMax <- 20

Spelled(numbers, pre) == [alias |-> "none", numbers |-> [i \in 1 .. Len(numbers) |-> Jv!Decimal(numbers[i])],
                        pre |-> pre, optional |-> << >>, build |-> << >>]
Alias(name, update, pre) == [alias |-> name, numbers |-> [i \in 1 .. Len(update) |-> Jv!Decimal(update[i])],
                             pre |-> pre, optional |-> << >>, build |-> << >>]
Build(v, number, optional) == [v EXCEPT !.build = <<[number |-> number, optional |-> optional]>>]

Spellings ==
    {Spelled(<<9>>, << >>), Spelled(<<9, 0>>, << >>), Spelled(<<9, 0, 1>>, << >>), Spelled(<<7>>, << >>), Spelled(<<11>>, << >>),
     Spelled(<<9>>, <<<<1, 0>>>>), Spelled(<<9>>, <<<<0, 9>>>>), Spelled(<<9>>, <<<<12>>>>), Spelled(<<9>>, <<<<1, 12>>>>),
     Spelled(<<9>>, <<<< >>>>), Spelled(<<21>>, << >>), Spelled(<<8, 0, 5>>, << >>), Spelled(<<8>>, << >>),
     Alias("8u", <<5>>, << >>), Alias("1.8.0", << >>, << >>), Alias("1.8.0", <<5>>, <<<<12>>>>),
     Build(Spelled(<<9>>, << >>), <<Jv!Decimal(3)>>, << >>), Build(Spelled(<<9>>, << >>), << >>, << >>),
     Build(Spelled(<<11>>, << >>), << >>, <<"lts">>), Build(Spelled(<<9>>, << >>), <<[zeros |-> 1, value |-> 3]>>, << >>)}

Few == {Spelled(<<8>>, << >>), Alias("8u", <<5>>, << >>), Spelled(<<9>>, <<<<0, 9>>>>), Spelled(<<9>>, << >>), Spelled(<<11, 0>>, << >>)}
Item(comparator, written) == [comparator |-> comparator, written |-> written]
Items(S) == {Item(c, w) : c \in Jv!Comparators, w \in S}

RangeCases ==
    {[call |-> "range", items |-> items] :
        items \in {<<i>> : i \in Items(Spellings)} \cup {<<i, j>> : i, j \in Items(Few)}
                  \cup {<<Item(c, Spelled(<<8>>, << >>)), Item(d, Spelled(<<9>>, <<<<0, 9>>>>)), Item(e, Spelled(<<9>>, << >>)), Item(f, Spelled(<<11>>, << >>))>> :
                          c, d, e, f \in Jv!Comparators}}

Parsed == {v \in {Jv!Parse(w) : w \in Spellings} : v.ok}
Candidates == {v.value : v \in Parsed}

TestRange(c) ==
    LET range == Jv!ParseRange(c.items)
    IN  [range |-> range,
         inside |-> {v \in Candidates : range.ok /\ Jv!RangeContains(range.value, v)}]

\* A version as numbers that compare as it does: a release follows all of its
\* pre-releases, and a numeric identifier precedes the others.
PreKey(pre) == IF pre = << >> THEN <<2, 0>>
               ELSE IF Jv!Numeric(pre[1]) THEN <<0, FoldLeft(LAMBDA n, d : 10 * n + d, 0, pre[1])>>
               ELSE <<1, FoldLeft(LAMBDA n, d : 100 * n + d, 0, pre[1]) * 100 ^ (3 - Len(pre[1]))>>
VersionKey(v) == Jv!Padded(v.numbers, 3) \o PreKey(v.pre)
Precedes(v, w) == Jv!FirstDifference(VersionKey(v), VersionKey(w)) < 0

\* The versions a timeline stands for: its inclusive points, and those between
\* two points that a lower bound opens or an upper bound closes.
Within(constraints, v) ==
    LET below == {i \in 1 .. Len(constraints) : constraints[i].comparator \in Jv!Boundaries /\ Precedes(constraints[i].version, v)}
        above == {i \in 1 .. Len(constraints) : constraints[i].comparator \in Jv!Boundaries /\ Precedes(v, constraints[i].version)}
        at == {i \in 1 .. Len(constraints) : constraints[i].version = v}
    IN  IF at # {} THEN \A i \in at : constraints[i].comparator \in {"=", ">=", "<="}
        ELSE IF below \cup above = {} THEN \A i \in 1 .. Len(constraints) : constraints[i].comparator = "!="
        ELSE /\ below # {} => Jv!Greater(constraints[Max(below)].comparator)
             /\ above # {} => Jv!Lesser(constraints[Min(above)].comparator)

RangesHoldFor(c, out) ==
    /\ \A v, w \in Candidates : /\ Jv!Compare(v, w) < 0 <=> Precedes(v, w)
                                /\ Jv!Compare(v, w) = 0 <=> v = w
    /\ out.range.ok => out.inside = {v \in Candidates : Within(out.range.value, v)}
=============================================================================
