------------------------------ MODULE JarImport ------------------------------
(***************************************************************************)
(* From a JAR or a directory to resource layers, and from the merged layers *)
(* back to a runtime JAR: manifest.rs and the member reader of jar.rs in    *)
(* janex-java, import.rs and materialize.rs in janex-host. The bytes of a   *)
(* manifest are header lines, one code each; lower case is another code.    *)
(***************************************************************************)
EXTENDS Resource

CONSTANTS MaxTotal, MaxBytes   \* bytes per imported input and per output

Meta == 20         \* META-INF
MetaLower == 25    \* meta-inf
Versions == 21     \* versions
ManifestMf == 22   \* MANIFEST.MF
SignatureSf == 23  \* a name with a suffix of JAR signatures
ModuleInfo == 24   \* module-info, before .class

Digit(d) == 30 + d
IsDigitCode(c) == c \in 30 .. 39

Lower(text) == [i \in 1 .. Len(text) |-> IF text[i] = MetaLower THEN Meta ELSE text[i]]

ManifestPath == <<Meta, Slash, ManifestMf>>

-----------------------------------------------------------------------------
(* Manifest: header lines, blank lines and lines that do not parse. *)

Version == 49
ReleaseTrue == 50
ReleaseFalse == 51
ClassPath == 52
Digest == 53       \* one of the signature attributes
Other == 54
Blank == 44
BadLine == 45
IsNameLine(h) == h \in 60 .. 69

Key(h) == IF h = ReleaseFalse THEN ReleaseTrue ELSE h

\* Of equal headers the last one counts.
Attributes(lines) ==
    {lines[i] : i \in {i \in 1 .. Len(lines) : \A j \in (i + 1) .. Len(lines) : Key(lines[j]) # Key(lines[i])}}

Sections(lines) ==
    LET blanks == InOrder({i \in 1 .. Len(lines) : lines[i] = Blank}, <)
        cuts == <<0>> \o blanks \o <<Len(lines) + 1>>
    IN  [k \in 1 .. (Len(cuts) - 1) |-> SubSeq(lines, cuts[k] + 1, cuts[k + 1] - 1)]

\* add_section: the main section has no Name, the others start with one.
\* Sections of one name are merged, later headers replacing earlier ones.
ParseManifest(lines) ==
    LET sections == Sections(lines)
        entries == SelectSeq(Tail(sections), LAMBDA s : s # << >>)
        named(n) == FlattenSeq([i \in 1 .. Len(entries) |->
                                  IF entries[i][1] = n THEN Tail(entries[i]) ELSE << >>])
    IN  IF \/ BadLine \in ToSet(lines)
           \/ \E h \in ToSet(sections[1]) : IsNameLine(h)
           \/ \E s \in ToSet(entries) : ~IsNameLine(s[1]) \/ \E h \in ToSet(Tail(s)) : IsNameLine(h)
        THEN Fail("Invalid")
        ELSE Ok([main |-> Attributes(sections[1]),
                 entries |-> [n \in {s[1] : s \in ToSet(entries)} |-> Attributes(named(n))]])

MultiRelease(manifest) == ReleaseTrue \in manifest.main

Lines(headers) == InOrder(headers, <)

\* for_runtime: no class path, no signature attribute, no section left empty.
ForRuntime(manifest) ==
    LET kept(headers) == headers \ {Digest}
        named == {n \in DOMAIN manifest.entries : kept(manifest.entries[n]) # {}}
        section(n) == <<n>> \o Lines(kept(manifest.entries[n])) \o <<Blank>>
    IN  <<Version>> \o Lines(kept(manifest.main) \ {Version, ClassPath}) \o <<Blank>>
        \o FlattenSeq([i \in 1 .. Cardinality(named) |-> section(Lines(named)[i])])

-----------------------------------------------------------------------------
(* read_entries: archive members [name, mode, content, metadata, encrypted],
   all of them or only those that modules are read from. *)

Total(entries) == FoldLeft(LAMBDA n, e : n + Len(e.content), 0, entries)

DescribesModule(name) ==
    \/ Lower(name) = ManifestPath
    \/ name = <<ModuleInfo, Class>>
    \/ IsPrefix(<<Meta, Slash, Versions, Slash>>, name) /\ IsSuffix(<<Slash, ModuleInfo, Class>>, name)

\* A link needs the whole tree: there is no metadata-only reading then.
ReadEntries(entries, metadataOnly, maxTotal) ==
    LET fails(i) == entries[i].encrypted \/ Total(SubSeq(entries, 1, i)) > maxTotal
        link(i) == metadataOnly /\ entries[i].mode = "link"
        stops == {i \in 1 .. Len(entries) : fails(i) \/ link(i)}
        first == CHOOSE i \in stops : \A j \in stops : i <= j
    IN  IF \E i, j \in 1 .. Len(entries) : i # j /\ entries[i].name = entries[j].name
        THEN Fail("Invalid")
        ELSE IF stops # {} THEN IF fails(first) THEN Fail("Invalid") ELSE Fail("None")
        ELSE Ok(SelectSeq(entries, LAMBDA e : ~metadataOnly \/ DescribesModule(e.name)))

-----------------------------------------------------------------------------
(* Items: a function from paths to what an imported path holds. *)

ImportPathFails(path) == {Nul} \cap ToSet(path) # {} \/ {<< >>, Here, Up} \cap ToSet(Split(path)) # {}
TargetFails(target) == Nul \in ToSet(target) \/ << >> \in ToSet(Split(target))

IsDirectoryName(name) == name # << >> /\ Last(name) = Slash
ItemPath(name) == IF IsDirectoryName(name) THEN Front(name) ELSE name

MemberFails(e) ==
    \/ ImportPathFails(ItemPath(e.name))
    \/ e.mode = "other"
    \/ IsDirectoryName(e.name) /\ (e.mode \notin {"none", "directory"} \/ e.content # << >>)
    \/ ~IsDirectoryName(e.name) /\ e.mode = "directory"
    \/ ~IsDirectoryName(e.name) /\ e.mode = "link" /\ TargetFails(e.content)

ItemOf(e) ==
    CASE IsDirectoryName(e.name) -> [kind |-> "directory", metadata |-> e.metadata]
      [] e.mode = "link" -> [kind |-> "link", target |-> e.content, metadata |-> << >>]
      [] OTHER -> [kind |-> "file", content |-> e.content, metadata |-> e.metadata]

\* jar_items: a file and a directory of one path are a conflict too.
JarItems(entries) ==
    LET paths == {ItemPath(e.name) : e \in ToSet(entries)}
    IN  IF \/ \E e \in ToSet(entries) : MemberFails(e)
           \/ Cardinality(paths) # Len(entries)
        THEN Fail("Invalid")
        ELSE Ok([p \in paths |-> ItemOf(CHOOSE e \in ToSet(entries) : ItemPath(e.name) = p)])

\* read_directory: the tree of a directory, links kept as links.
DirectoryItems(files) ==
    IF \/ \E p \in DOMAIN files : files[p].kind = "other"
       \/ \E p \in DOMAIN files : Len(Split(p)) - (IF files[p].kind = "directory" THEN 0 ELSE 1) > Depth
       \/ \E p \in DOMAIN files : files[p].kind = "link" /\ (files[p].absolute \/ TargetFails(files[p].target))
       \/ FoldSet(LAMBDA p, n : n + (IF files[p].kind = "file" THEN Len(files[p].content) ELSE 0),
                  0, DOMAIN files) > MaxTotal
       \/ Cardinality(DOMAIN files) >= Elements
    THEN Fail("Invalid")
    ELSE Ok(With(files, Root, [kind |-> "directory", metadata |-> << >>]))

-----------------------------------------------------------------------------
(* build_layers: the base, and a layer per valid version directory. *)

VersionsPrefix == <<Meta, Slash, Versions, Slash>>

Value(digits) == FoldLeft(LAMBDA n, d : 10 * n + (d - 30), 0, digits)

\* The version of a path, 0 for the base.
VersionOf(path, multi) ==
    LET number == Split(path)[3]
    IN  IF /\ multi /\ IsPrefix(VersionsPrefix, path)
           /\ number # << >> /\ number[1] # Digit(0)
           /\ \A i \in 1 .. Len(number) : IsDigitCode(number[i])
           /\ Value(number) \in 9 .. IntMax
        THEN Value(number) ELSE 0

Logical(path, multi) ==
    IF VersionOf(path, multi) = 0 THEN path
    ELSE LET parts == Split(path) IN JoinAll(SubSeq(parts, 4, Len(parts)))

VersionFails(items, path, multi) ==
    /\ VersionOf(path, multi) # 0
    /\ \/ Split(Logical(path, multi))[1] = <<Meta>>
       \/ Logical(path, multi) = Root /\ items[path].kind # "directory"

JavaAtLeast(version) ==
    V!ConditionOf([reserved |-> FALSE, selectors |-> << >>,
                   runtime |-> <<[type |-> "janex.java", vendor |-> << >>,
                                  range |-> <<<<[comparator |-> ">=",
                                                 written |-> [alias |-> "none", numbers |-> <<V!Decimal(version)>>,
                                                              pre |-> << >>, optional |-> << >>, build |-> << >>]]>>>>]>>]).value

Unconditional == [selectors |-> << >>, runtime |-> << >>, java_range |-> << >>]

Sorted(texts) == InOrder(texts, LAMBDA a, b : V!CompareText(a, b) < 0)

EntryOf(path, item) ==
    IF item.kind = "file"
    THEN [kind |-> "file", name |-> NameOf(path), content |-> item.content, metadata |-> item.metadata]
    ELSE [kind |-> "link", name |-> NameOf(path), target |-> item.target, metadata |-> item.metadata]

\* The directory records of one layer: explicit ones and parents of entries.
LayerOf(condition, items) ==
    LET leaves == {p \in DOMAIN items : items[p].kind # "directory"}
        paths == Sorted((DOMAIN items \ leaves) \cup {Parent(p) : p \in leaves})
        entries(d) == LET inside == Sorted({p \in leaves : Parent(p) = d})
                      IN  [i \in 1 .. Len(inside) |-> EntryOf(inside[i], items[inside[i]])]
    IN  [condition |-> condition,
         directories |-> [i \in 1 .. Len(paths) |->
            [path |-> paths[i],
             metadata |-> IF paths[i] \in DOMAIN items THEN items[paths[i]].metadata ELSE << >>,
             entries |-> entries(paths[i])]]]

Newest == [names |-> [os |-> <<"">>, arch |-> <<"">>, invocation |-> << >>],
           runtime |-> <<[type |-> "janex.java", vendor |-> "",
                          version |-> <<[numbers |-> <<IntMax>>, pre |-> << >>]>>]>>]

\* Faulty variant: a versioned entry stays in the base layer as well.
LayersKeepingBase(items, multi, versions) ==
    [k \in 1 .. Len(versions) |->
       LET paths == {p \in DOMAIN items : VersionOf(p, multi) = versions[k] \/ versions[k] = 0}
           chosen(l) == CHOOSE p \in paths : Logical(p, multi) = l
       IN  LayerOf(IF versions[k] = 0 THEN Unconditional ELSE JavaAtLeast(versions[k]),
                   [l \in {Logical(p, multi) : p \in paths} |-> items[chosen(l)]])]

Layers(items, multi, versions) ==
    [k \in 1 .. Len(versions) |->
       LET paths == {p \in DOMAIN items : VersionOf(p, multi) = versions[k]}
           chosen(l) == CHOOSE p \in paths : Logical(p, multi) = l
       IN  LayerOf(IF versions[k] = 0 THEN Unconditional ELSE JavaAtLeast(versions[k]),
                   [l \in {Logical(p, multi) : p \in paths} |-> items[chosen(l)]])]

\* The result is accepted when it merges with every layer matching.
BuildLayers(items) ==
    LET manifest == ParseManifest(items[ManifestPath].content)
        multi == ManifestPath \in DOMAIN items /\ MultiRelease(manifest.value)
        versions == InOrder({0} \cup {VersionOf(p, multi) : p \in DOMAIN items}, <)
        root == [name |-> << >>, layers |-> Layers(items, multi, versions)]
    IN  IF ManifestPath \in DOMAIN items /\ items[ManifestPath].kind # "file" THEN Fail("Invalid")
        ELSE IF ManifestPath \in DOMAIN items /\ ~manifest.ok THEN manifest
        ELSE IF \E p \in DOMAIN items : VersionFails(items, p, multi) THEN Fail("Invalid")
        ELSE IF Len(versions) > Elements THEN Fail("Limit")
        ELSE IF ~Merge(root, Newest).ok THEN Merge(root, Newest)
        ELSE Ok(root)

ImportJar(entries, metadataOnly, maxTotal) ==
    LET members == ReadEntries(entries, metadataOnly, maxTotal)
        items == JarItems(members.value)
    IN  IF ~members.ok THEN members
        ELSE IF ~items.ok THEN items
        ELSE BuildLayers(items.value)

ImportDirectory(files) ==
    LET items == DirectoryItems(files) IN IF items.ok THEN BuildLayers(items.value) ELSE items

-----------------------------------------------------------------------------
(* materialize_tree: links expand, signatures are left out and the manifest
   is rewritten. The state is what write_directory carries along. *)

JarSignature(path) ==
    LET parts == Split(Lower(path))
    IN  Len(parts) = 2 /\ parts[1] = <<Meta>> /\ SignatureSf \in ToSet(parts[2])

FileBytes(nodes, canonical, destination) ==
    LET manifest == ParseManifest(nodes[canonical].content)
    IN  IF Lower(destination) # ManifestPath THEN Ok(nodes[canonical].content)
        ELSE IF manifest.ok THEN Ok(ForRuntime(manifest.value)) ELSE manifest

RECURSIVE WriteInto(_, _, _, _, _)
WriteInto(s, nodes, source, output, depth) ==
    LET children == Sorted({p \in DOMAIN nodes \ {Root} : Parent(p) = source})
        emit(t, path) ==
            LET destination == Joined(output, NameOf(path))
                found == Resolve(nodes, path)
                canonical == found.value
                counted == [t EXCEPT !.count = @ + 1]
                bytes == FileBytes(nodes, canonical, destination)
            IN  IF ~t.ok THEN t
                ELSE IF ~found.ok THEN found
                ELSE IF nodes[canonical].kind = "file" /\ JarSignature(destination) THEN t
                ELSE IF counted.count > Elements THEN Fail("Limit")
                ELSE IF nodes[canonical].kind = "directory"
                THEN WriteInto([counted EXCEPT !.members = Append(@, [name |-> destination \o <<Slash>>, content |-> << >>])],
                               nodes, canonical, destination, depth + 1)
                ELSE IF ~bytes.ok THEN bytes
                ELSE IF t.bytes + Len(bytes.value) > MaxBytes THEN Fail("Limit")
                ELSE [counted EXCEPT !.bytes = @ + Len(bytes.value),
                                     !.members = Append(@, [name |-> destination, content |-> bytes.value])]
        entered == [s EXCEPT !.active = @ \cup {source}]
        done == FoldLeft(emit, entered, children)
    IN  IF depth > Depth THEN Fail("Limit")
        ELSE IF source \in s.active THEN Fail("Cycle")
        ELSE IF done.ok THEN [done EXCEPT !.active = @ \ {source}] ELSE done

Materialize(root, context) ==
    LET tree == Merge(root, context)
    IN  IF ~tree.ok THEN tree
        ELSE WriteInto([ok |-> TRUE, active |-> {}, count |-> 0, bytes |-> 0, members |-> << >>],
                       tree.value, Root, Root, 0)
=============================================================================
