-------------------------------- MODULE Blob --------------------------------
(***************************************************************************)
(* BlobStore and PoolBuilder of janex-format/src/blob.rs, and content.rs.   *)
(* A pool section is a sequence of cells: a byte, a whole Zstandard frame,  *)
(* a skippable frame or, in a table page, one entry.  A reader is a record  *)
(* [bytes, info, loaded, ranges]: the section, its page directory, the      *)
(* pages in the cache and the ranges that were registered so far.           *)
(***************************************************************************)
EXTENDS Naturals, Sequences, FiniteSets, SequencesExt

CONSTANTS PageShifts,  \* permitted logarithms of the page size, 8..12 in the code
          Limit        \* max_bytes

Fail(kind) == [ok |-> FALSE, kind |-> kind]
Ok(value) == [ok |-> TRUE, value |-> value]

Byte(b) == [t |-> "byte", byte |-> b]
EntryCell(entry) == [t |-> "entry", entry |-> entry]

-----------------------------------------------------------------------------
(* Encoding: a stored size and filters [input_size, method, dictionary]; the
   dictionary is a sequence of at most one blob index. *)

DecodedSize(encoding) ==
    IF encoding.filters = << >> THEN encoding.stored_size ELSE encoding.filters[1].input_size

HasDictionary(encoding) ==
    \E i \in 1 .. Len(encoding.filters) : encoding.filters[i].dictionary # << >>

EncodingFails(encoding) ==
    \E i \in 1 .. Len(encoding.filters) : encoding.filters[i].method # 1

\* encode_bytes: compressed if that is smaller with its longer descriptor.
DescriptorCost == 3

EncodeBytes(bytes) ==
    IF 1 + DescriptorCost < Len(bytes)
    THEN [stored |-> <<[t |-> "frame", of |-> bytes, dictionary |-> << >>]>>,
          encoding |-> [stored_size |-> 1,
                        filters |-> <<[input_size |-> Len(bytes), method |-> 1,
                                       dictionary |-> << >>]>>]]
    ELSE [stored |-> bytes, encoding |-> [stored_size |-> Len(bytes), filters |-> << >>]]

\* decode_zstd: frames are decoded, skippable ones are skipped, and the result
\* has exactly the expected size.
DecodeZstd(cells, dictionary, expected) ==
    LET frames == SelectSeq(cells, LAMBDA c : c.t = "frame")
        output == FlattenSeq([i \in 1 .. Len(frames) |-> frames[i].of])
    IN  IF \/ \E i \in 1 .. Len(cells) : cells[i].t \notin {"frame", "skip"}
           \/ \E i \in 1 .. Len(frames) : frames[i].dictionary \notin {<< >>, dictionary}
           \/ frames = << >> \/ Len(output) # expected
        THEN Fail("Invalid") ELSE Ok(output)

-----------------------------------------------------------------------------
(* register_ranges: ranges are pairs <<offset, end>>. *)

Before(existing, offset) == {r \in existing : r[1] <= offset}
After(existing, offset) == {r \in existing : r[1] >= offset}

\* Faulty variant: only earlier ranges are compared.
LeftOverlaps(existing, r) ==
    /\ Before(existing, r[1]) # {}
    /\ LET b == CHOOSE b \in Before(existing, r[1]) :
                    \A c \in Before(existing, r[1]) : c[1] <= b[1]
       IN  b[2] > r[1]

\* A range overlaps a neighbour among the registered ones.
Overlaps(existing, r) ==
    \/ Before(existing, r[1]) # {} /\
           LET b == CHOOSE b \in Before(existing, r[1]) :
                        \A c \in Before(existing, r[1]) : c[1] <= b[1]
           IN  b[2] > r[1]
    \/ After(existing, r[1]) # {} /\
           LET a == CHOOSE a \in After(existing, r[1]) :
                        \A c \in After(existing, r[1]) : a[1] <= c[1]
           IN  a[1] < r[2]

\* The new ranges, a sequence, are checked in order of their offsets against
\* one another and against the existing ones, and registered all or none.
RegisterRanges(existing, ranges, size) ==
    LET order == SortSeq(ranges, LAMBDA r, s : r[1] < s[1] \/ (r[1] = s[1] /\ r[2] < s[2]))
        nonempty == SelectSeq(order, LAMBDA r : r[1] < r[2])
    IN  IF \/ \E i \in 1 .. Len(order) : order[i][2] > size
           \/ \E i \in 2 .. Len(nonempty) : nonempty[i][1] < nonempty[i - 1][2]
           \/ \E i \in 1 .. Len(nonempty) : Overlaps(existing, nonempty[i])
        THEN Fail("Invalid") ELSE Ok(existing \cup ToSet(nonempty))

-----------------------------------------------------------------------------
(* The reader of a pool. *)

PageCount(count, shift) == IF count = 0 THEN 0 ELSE 1 + ((count - 1) \div (2 ^ shift))

StoredRange(offset, encoding) == <<offset, offset + encoding.stored_size>>

\* open_pool
OpenPool(bytes, info) ==
    LET step(r, page) ==
            IF ~r.ok THEN r
            ELSE IF EncodingFails(page.encoding) THEN Fail("Unsupported")
            ELSE IF HasDictionary(page.encoding) THEN Fail("Invalid")
            ELSE RegisterRanges(r.value, <<StoredRange(page.offset, page.encoding)>>, Len(bytes))
        ranges == FoldLeft(step, Ok({}), info.pages)
    IN  IF \/ info.shift \notin PageShifts
           \/ Len(info.pages) # PageCount(info.count, info.shift)
        THEN Fail("Invalid")
        ELSE IF ~ranges.ok THEN ranges
        ELSE Ok([bytes |-> bytes, info |-> info, loaded |-> {}, ranges |-> ranges.value])

PageOf(store, index) == 1 + (index \div (2 ^ store.info.shift))

\* Where an entry is in its page.
SlotOf(store, index) == 1 + (index % (2 ^ store.info.shift))

PageLength(store, page) ==
    LET rest == store.info.count - ((page - 1) * (2 ^ store.info.shift))
    IN  IF rest <= 2 ^ store.info.shift THEN rest ELSE 2 ^ store.info.shift

\* decode without dictionaries, which is how pages are read.
RECURSIVE Unfilter(_, _)
Unfilter(cells, filters) ==
    IF filters = << >> THEN Ok(cells)
    ELSE IF Last(filters).input_size > Limit THEN Fail("Limit")
    ELSE LET output == DecodeZstd(cells, << >>, Last(filters).input_size)
         IN  IF ~output.ok THEN output ELSE Unfilter(output.value, Front(filters))

Stored(store, offset, encoding) ==
    SubSeq(store.bytes, offset + 1, offset + encoding.stored_size)

PageCells(store, page) ==
    LET p == store.info.pages[page]
    IN  Unfilter(Stored(store, p.offset, p.encoding), p.encoding.filters)

\* The entries of a page, in a form that load_page accepts.
EntryFails(entry) ==
    \/ entry.kind = "stored" /\ EncodingFails(entry.encoding)
    \/ entry.kind = "extents"
        /\ \/ entry.extents = << >>
           \/ \E i \in 1 .. Len(entry.extents) : entry.extents[i].length = 0

PageEntries(store, page) ==
    [i \in 1 .. PageLength(store, page) |-> PageCells(store, page).value[i].entry]

\* Faulty variant: the page is published before its ranges are checked.
LoadPageEarly(store, page) ==
    IF page \in store.loaded THEN Ok(store)
    ELSE IF ~PageCells(store, page).ok THEN PageCells(store, page)
    ELSE Ok([store EXCEPT !.loaded = store.loaded \cup {page}])

\* load_page: a page is published to the cache after all its checks, and a
\* page that fails leaves the store unchanged.
LoadPage(store, page) ==
    LET cells == PageCells(store, page)
        entries == PageEntries(store, page)
        stored == SelectSeq(entries, LAMBDA e : e.kind = "stored")
        ranges == RegisterRanges(store.ranges,
                        [i \in 1 .. Len(stored) |-> StoredRange(stored[i].offset, stored[i].encoding)],
                        Len(store.bytes))
    IN  IF page \in store.loaded THEN Ok(store)
        ELSE IF ~cells.ok THEN cells
        ELSE IF \/ Len(cells.value) # PageLength(store, page)
                \/ \E i \in 1 .. Len(cells.value) : cells.value[i].t # "entry"
        THEN Fail("Invalid")
        ELSE IF store.info.pages[page].checksum \notin {<< >>, <<cells.value>>}
        THEN Fail("Verification")
        ELSE IF \E i \in 1 .. Len(entries) : EntryFails(entries[i]) THEN Fail("Invalid")
        ELSE IF ~ranges.ok THEN ranges
        ELSE Ok([store EXCEPT !.loaded = store.loaded \cup {page}, !.ranges = ranges.value])

\* entry: the store after loading the page, with the entry.
Entry(store, index) ==
    LET loaded == LoadPage(store, PageOf(store, index))
    IN  IF index >= store.info.count THEN Fail("Invalid")
        ELSE IF ~loaded.ok THEN loaded
        ELSE Ok([store |-> loaded.value,
                 entry |-> PageEntries(store, PageOf(store, index))[SlotOf(store, index)]])

\* extent_encoding: the source of an extent is a stored entry that holds it.
ExtentFails(store, extent) ==
    LET source == Entry(store, extent.index)
    IN  \/ ~source.ok
        \/ source.value.entry.kind # "stored"
        \/ extent.length = 0
        \/ extent.offset + extent.length > DecodedSize(source.value.entry.encoding)

\* The store after the lookups of a list of extents, in order.
LookupAll(store, extents) ==
    FoldLeft(LAMBDA s, e : IF s.ok /\ ~ExtentFails(s.value, e)
                           THEN Ok(Entry(s.value, e.index).value.store)
                           ELSE Fail("Invalid"),
             Ok(store), extents)

\* resolve_inner and decode: the store afterwards and the bytes.  A dictionary
\* is resolved with dictionaries forbidden.
RECURSIVE Resolve(_, _, _)
RECURSIVE ResolveFilters(_, _, _, _)
RECURSIVE ResolveExtents(_, _, _)

ResolveFilters(store, cells, filters, inDictionary) ==
    IF filters = << >> THEN Ok([store |-> store, bytes |-> cells])
    ELSE LET f == Last(filters)
             dictionary == IF f.dictionary = << >> THEN Ok([store |-> store, bytes |-> << >>])
                           ELSE Resolve(store, f.dictionary[1], TRUE)
         IN  IF f.input_size > Limit THEN Fail("Limit")
             ELSE IF f.dictionary # << >> /\ inDictionary THEN Fail("Invalid")
             ELSE IF ~dictionary.ok THEN dictionary
             ELSE LET output == DecodeZstd(cells, dictionary.value.bytes, f.input_size)
                  IN  IF ~output.ok THEN output
                      ELSE ResolveFilters(dictionary.value.store, output.value,
                                          Front(filters), inDictionary)

ResolveExtents(store, extents, inDictionary) ==
    IF extents = << >> THEN Ok([store |-> store, bytes |-> << >>])
    ELSE LET e == Head(extents)
             source == Resolve(store, e.index, inDictionary)
         IN  IF ~source.ok THEN source
             ELSE LET rest == ResolveExtents(source.value.store, Tail(extents), inDictionary)
                  IN  IF ~rest.ok THEN rest
                      ELSE Ok([store |-> rest.value.store,
                               bytes |-> SubSeq(source.value.bytes, e.offset + 1, e.offset + e.length)
                                            \o rest.value.bytes])

Resolve(store, index, inDictionary) ==
    LET found == Entry(store, index)
        entry == found.value.entry
        after == found.value.store
    IN  IF ~found.ok THEN found
        ELSE CASE entry.kind = "stored" ->
                    IF DecodedSize(entry.encoding) > Limit THEN Fail("Limit")
                    ELSE IF inDictionary /\ HasDictionary(entry.encoding) THEN Fail("Invalid")
                    ELSE ResolveFilters(after, Stored(store, entry.offset, entry.encoding),
                                        entry.encoding.filters, inDictionary)
               [] entry.kind = "extents" ->
                    IF ~LookupAll(after, entry.extents).ok THEN Fail("Invalid")
                    ELSE IF FoldLeft(LAMBDA n, e : n + e.length, 0, entry.extents) > Limit
                    THEN Fail("Limit")
                    ELSE ResolveExtents(LookupAll(after, entry.extents).value,
                                        entry.extents, inDictionary)
               [] OTHER -> Fail("Unsupported")

\* validate_pool: every page, then every extent.
ValidatePool(store) ==
    LET pages == FoldLeft(LAMBDA s, p : IF s.ok THEN LoadPage(s.value, p) ELSE s, Ok(store),
                          [p \in 1 .. Len(store.info.pages) |-> p])
    IN  /\ pages.ok
        /\ \A i \in 0 .. (store.info.count - 1) :
               LET e == Entry(pages.value, i).value.entry
               IN  e.kind = "extents" => LookupAll(pages.value, e.extents).ok

-----------------------------------------------------------------------------
(* PoolBuilder: the stored cells and the entries so far. *)

NewBuilder == [bytes |-> << >>, entries |-> << >>]

Push(b, bytes) ==
    LET e == EncodeBytes(bytes)
    IN  Ok([bytes |-> b.bytes \o e.stored,
            entries |-> Append(b.entries, [kind |-> "stored", offset |-> Len(b.bytes),
                                           encoding |-> e.encoding])])

PushExtents(b, extents) ==
    LET fails(e) == \/ e.index >= Len(b.entries)
                    \/ b.entries[e.index + 1].kind # "stored"
                    \/ e.length = 0
                    \/ e.offset + e.length > DecodedSize(b.entries[e.index + 1].encoding)
    IN  IF extents = << >> \/ \E i \in 1 .. Len(extents) : fails(extents[i])
        THEN Fail("Invalid")
        ELSE Ok([b EXCEPT !.entries = Append(@, [kind |-> "extents", extents |-> extents])])

\* finish: the pages follow the stored cells, each with its checksum.
Finish(b, shift) ==
    LET pages == PageCount(Len(b.entries), shift)
        entries(p) == SubSeq(b.entries, 1 + (p - 1) * (2 ^ shift),
                             IF p * (2 ^ shift) < Len(b.entries) THEN p * (2 ^ shift)
                             ELSE Len(b.entries))
        cells(p) == [i \in 1 .. Len(entries(p)) |-> EntryCell(entries(p)[i])]
        add(r, p) == LET e == EncodeBytes(cells(p))
                     IN  [bytes |-> r.bytes \o e.stored,
                          pages |-> Append(r.pages, [offset |-> Len(r.bytes),
                                                     encoding |-> e.encoding,
                                                     checksum |-> <<cells(p)>>])]
        built == FoldLeft(add, [bytes |-> b.bytes, pages |-> << >>], [p \in 1 .. pages |-> p])
    IN  IF shift \notin PageShifts THEN Fail("Invalid")
        ELSE Ok([bytes |-> built.bytes,
                 info |-> [count |-> Len(b.entries), shift |-> shift, pages |-> built.pages]])

-----------------------------------------------------------------------------
(* Content: an inline or stored source, and transforms that are reversed from
   the last to the first.  A transformed file is a cell [t, pool, of]. *)

TransformFails(transform) == transform.method # 1

ResolveSource(store, content) ==
    IF content.source.t = "inline"
    THEN IF Len(content.source.bytes) > Limit THEN Fail("Limit")
         ELSE Ok([store |-> store, bytes |-> content.source.bytes])
    ELSE Resolve(store, content.source.index, FALSE)

\* resolve_entries
ResolveEntries(store, content) ==
    IF content.transforms # << >> THEN Fail("Invalid") ELSE ResolveSource(store, content)

\* resolve_file: one transform reversed with its own pool or the default one.
RestoreOne(r, transform, defaultPool) ==
    LET named == Resolve(r.value.store, transform.pool[1], FALSE)
        pool == IF transform.pool = << >> THEN Ok(defaultPool)
                ELSE IF named.ok THEN Ok(named.value.bytes) ELSE named
        cell == r.value.bytes[1]
    IN  IF ~r.ok THEN r
        ELSE IF TransformFails(transform) THEN Fail("Invalid")
        ELSE IF transform.input_size > Limit THEN Fail("Limit")
        ELSE IF ~pool.ok THEN pool
        ELSE IF r.value.bytes = << >> THEN Fail("Invalid")
        ELSE IF cell.t # "class" THEN Fail("Invalid")
        ELSE IF cell.pool # pool.value THEN Fail("Invalid")
        ELSE IF Len(cell.of) # transform.input_size THEN Fail("Invalid")
        ELSE Ok([store |-> IF transform.pool = << >> THEN r.value.store ELSE named.value.store,
                 bytes |-> cell.of])

ResolveFile(store, content, defaultPool) ==
    FoldLeft(LAMBDA r, t : RestoreOne(r, t, defaultPool),
             ResolveSource(store, content), Reverse(content.transforms))
=============================================================================
