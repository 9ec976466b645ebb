------------------------------ MODULE Resource ------------------------------
(***************************************************************************)
(* Resource roots of resource.rs: conditional layers of directories, their  *)
(* encoding over the shared data pool, the merge of the layers that match   *)
(* and the resolution of paths and links in the merged tree.                *)
(*                                                                          *)
(* A path is a text, a sequence of the byte codes of ClassPool, and is      *)
(* ordered as one. Metadata is a function from the known fields present to  *)
(* "good" or "bad". Of the limits, the ones on counts are kept: Elements    *)
(* bounds every collection and Depth the links that one lookup follows.     *)
(***************************************************************************)
EXTENDS ClassPool, Integers

CONSTANTS Elements, Depth, IntMax

V == INSTANCE JavaVersions

Ok(value) == [ok |-> TRUE, value |-> value]

Dot == 8
Root == << >>
Up == <<Dot, Dot>>
Here == <<Dot>>

\* The members of S by increasing rank.
InOrder(S, Before(_, _)) ==
    [i \in 1 .. Cardinality(S) |-> CHOOSE x \in S : Cardinality({y \in S : Before(y, x)}) = i - 1]

Split(text) ==
    LET slashes == InOrder({i \in 1 .. Len(text) : text[i] = Slash}, <)
        cuts == <<0>> \o slashes \o <<Len(text) + 1>>
    IN  [k \in 1 .. (Len(cuts) - 1) |-> SubSeq(text, cuts[k] + 1, cuts[k + 1] - 1)]

Joined(parent, name) == IF parent = Root THEN name ELSE parent \o <<Slash>> \o name

JoinAll(names) == FoldLeft(LAMBDA text, name : Joined(text, name), Root, names)

Parent(path) == JoinAll(Front(Split(path)))
NameOf(path) == Last(Split(path))

\* The path and the directories it passes through, the root left out.
Ancestry(path) == IF path = Root THEN {}
                  ELSE {JoinAll(SubSeq(Split(path), 1, n)) : n \in 1 .. Len(Split(path))}

PathFails(path, root, navigation) ==
    LET parts == Split(path)
    IN  /\ ~(root /\ path = Root)
        /\ \/ << >> \in ToSet(parts)
           \/ ~navigation /\ {Here, Up} \cap ToSet(parts) # {}
           \/ Len(parts) > Elements

MetadataFails(metadata, file, permissions) ==
    \/ "bad" \in {metadata[k] : k \in DOMAIN metadata}
    \/ "checksum" \in DOMAIN metadata /\ ~file
    \/ "mode" \in DOMAIN metadata /\ ~permissions

RootNameFails(name) ==
    name \in {<< >>, Here, Up} \/ Slash \in ToSet(name) \/ Nul \in ToSet(name)

-----------------------------------------------------------------------------
(* validate: the structure of every layer, whether it matches or not. *)

Increasing(texts) == \A i \in 2 .. Len(texts) : V!CompareText(texts[i - 1], texts[i]) < 0

EntryFails(entry) ==
    \/ entry.name \in {<< >>, Here, Up} \/ Slash \in ToSet(entry.name)
    \/ entry.kind = "file" /\ MetadataFails(entry.metadata, TRUE, TRUE)
    \/ /\ entry.kind = "link"
       /\ PathFails(entry.target, FALSE, TRUE) \/ MetadataFails(entry.metadata, FALSE, FALSE)

Names(entries) == [i \in 1 .. Len(entries) |-> entries[i].name]

DirectoryFails(directory) ==
    \/ PathFails(directory.path, TRUE, FALSE)
    \/ MetadataFails(directory.metadata, FALSE, TRUE)
    \/ Len(directory.entries) > Elements
    \/ \E i \in 1 .. Len(directory.entries) : EntryFails(directory.entries[i])
    \/ ~Increasing(Names(directory.entries))

\* The directories of a layer, the implicit ones included, and its files.
LayerDirectories(layer) == {Root} \cup UNION {Ancestry(d.path) : d \in ToSet(layer.directories)}
LayerFiles(layer) ==
    UNION {{Joined(d.path, e.name) : e \in {e \in ToSet(d.entries) : e.kind # "tombstone"}}
           : d \in ToSet(layer.directories)}

LayerFails(layer) ==
    \/ Len(layer.directories) > Elements
    \/ \E d \in ToSet(layer.directories) : DirectoryFails(d)
    \/ ~Increasing([i \in 1 .. Len(layer.directories) |-> layer.directories[i].path])
    \/ Cardinality(LayerDirectories(layer)) > Elements
    \/ Cardinality(LayerFiles(layer)) > Elements
    \/ LayerDirectories(layer) \cap LayerFiles(layer) # {}

Validates(root) ==
    /\ root.name = << >> \/ ~RootNameFails(root.name[1])
    /\ Len(root.layers) <= Elements
    /\ \A i \in 1 .. Len(root.layers) : ~LayerFails(root.layers[i])

-----------------------------------------------------------------------------
(* merge_validated: a tree is a function from paths to nodes. *)

DirectoryNode(metadata) == [kind |-> "directory", metadata |-> metadata]
NodeOf(entry) ==
    IF entry.kind = "file"
    THEN [kind |-> "file", metadata |-> entry.metadata, content |-> entry.content]
    ELSE [kind |-> "link", metadata |-> entry.metadata, target |-> entry.target]

IsDirectory(nodes, path) == path \in DOMAIN nodes /\ nodes[path].kind = "directory"

With(nodes, path, node) == [p \in DOMAIN nodes \cup {path} |-> IF p = path THEN node ELSE nodes[p]]

\* Faulty variant: a tombstone removes a directory too.
RemovedWhatever(nodes, layer) ==
    LET tombs == UNION {{Joined(d.path, e.name) : e \in {e \in ToSet(d.entries) : e.kind = "tombstone"}}
                        : d \in ToSet(layer.directories)}
    IN  [p \in DOMAIN nodes \ tombs |-> nodes[p]]

Removed(nodes, layer) ==
    LET tombs == UNION {{Joined(d.path, e.name) : e \in {e \in ToSet(d.entries) : e.kind = "tombstone"}}
                        : d \in ToSet(layer.directories)}
        gone == {p \in tombs : ~IsDirectory(nodes, p)}
    IN  [p \in DOMAIN nodes \ gone |-> nodes[p]]

\* add_directory goes up from the path to the first node that exists.
AddDirectory(nodes, path) ==
    LET there == Ancestry(path) \cap DOMAIN nodes
        nearest == {p \in there : \A q \in there : Len(q) <= Len(p)}
        missing == {p \in Ancestry(path) : \A q \in nearest : Len(p) > Len(q)}
    IN  IF \E p \in nearest : ~IsDirectory(nodes, p) THEN Fail("Invalid")
        ELSE IF missing # {} /\ Cardinality(DOMAIN nodes \cup missing) > Elements THEN Fail("Limit")
        ELSE Ok([p \in DOMAIN nodes \cup missing |->
                   IF p \in missing THEN DirectoryNode(<< >>) ELSE nodes[p]])

\* The entries of a directory are added in order, up to a failure.
AddEntry(r, directory, entry) ==
    LET path == Joined(directory.path, entry.name)
        added == With(r.value, path, NodeOf(entry))
    IN  IF ~r.ok \/ entry.kind = "tombstone" THEN r
        ELSE IF IsDirectory(r.value, path) THEN Fail("Invalid")
        ELSE IF Cardinality(DOMAIN added) > Elements THEN Fail("Limit")
        ELSE Ok(added)

AddRecord(r, directory) ==
    LET made == AddDirectory(r.value, directory.path)
    IN  IF ~r.ok THEN r
        ELSE IF ~made.ok THEN made
        ELSE FoldLeft(LAMBDA s, entry : AddEntry(s, directory, entry),
                      Ok(With(made.value, directory.path, DirectoryNode(<<directory.metadata>>))),
                      directory.entries)

\* All removals of a layer come before its additions.
ApplyLayer(nodes, layer) == FoldLeft(AddRecord, Ok(Removed(nodes, layer)), layer.directories)

MergeStep(r, layer, context) ==
    LET matched == V!Matches(layer.condition, context)
    IN  IF ~r.ok THEN r
        ELSE IF ~matched.ok THEN matched
        ELSE IF matched.value THEN ApplyLayer(r.value, layer) ELSE r

EmptyTree == [p \in {Root} |-> DirectoryNode(<< >>)]

MergeValidated(root, context) ==
    FoldLeft(LAMBDA r, layer : MergeStep(r, layer, context), Ok(EmptyTree), root.layers)

Merge(root, context) == IF Validates(root) THEN MergeValidated(root, context) ELSE Fail("Invalid")

-----------------------------------------------------------------------------
(* ResourceTree::resolve: pending components, the current directory and the
   links that were followed. *)

RECURSIVE Walk(_, _, _, _)
Walk(nodes, pending, current, followed) ==
    LET parent == JoinAll(current)
        component == Head(pending)
        candidate == Joined(parent, component)
        parts == Split(nodes[candidate].target)
    IN  IF pending = << >>
        THEN IF parent \in DOMAIN nodes THEN Ok(parent) ELSE Fail("Missing")
        ELSE IF ~IsDirectory(nodes, parent) THEN Fail("Invalid")
        ELSE IF component = Here THEN Walk(nodes, Tail(pending), current, followed)
        ELSE IF component = Up
        THEN IF current = << >> THEN Fail("Escapes")
             ELSE Walk(nodes, Tail(pending), Front(current), followed)
        ELSE IF candidate \notin DOMAIN nodes THEN Fail("Missing")
        ELSE IF nodes[candidate].kind # "link"
        THEN Walk(nodes, Tail(pending), Append(current, component), followed)
        ELSE IF followed = Depth \/ Len(pending) - 1 + Len(parts) > Elements THEN Fail("Limit")
        ELSE Walk(nodes, parts \o Tail(pending), current, followed + 1)

Resolve(nodes, path) ==
    IF PathFails(path, TRUE, TRUE) THEN Fail("Invalid")
    ELSE Walk(nodes, IF path = Root THEN << >> ELSE Split(path), << >>, 0)

\* read_file: the checksum of the metadata is "good", or it was refused.
ReadFile(nodes, path) ==
    LET found == Resolve(nodes, path)
    IN  IF ~found.ok THEN found
        ELSE IF nodes[found.value].kind # "file" THEN Fail("Invalid")
        ELSE Ok(nodes[found.value].content)

-----------------------------------------------------------------------------
(* encode and decode: names and targets are written through the data pool,
   directory paths as pool indices; what else a record holds is kept. *)

WriteEntry(b, entry) ==
    LET name == WriteName(b, entry.name)
        target == WriteName(name.builder, entry.target)
    IN  IF entry.kind = "link"
        THEN [builder |-> target.builder,
              entry |-> [entry EXCEPT !.name = name.name, !.target = target.name]]
        ELSE [builder |-> name.builder, entry |-> [entry EXCEPT !.name = name.name]]

WriteEntries(b, entries) ==
    FoldLeft(LAMBDA s, entry : LET w == WriteEntry(s.builder, entry)
                               IN  [builder |-> w.builder, entries |-> Append(s.entries, w.entry)],
             [builder |-> b, entries |-> << >>], entries)

WriteDirectory(s, directory) ==
    LET w == WriteEntries(Intern(s.builder, directory.path), directory.entries)
    IN  [builder |-> w.builder,
         directories |-> Append(s.directories,
                                [directory EXCEPT !.path = Index(s.builder, directory.path),
                                                  !.entries = w.entries])]

WriteLayer(s, layer) ==
    LET w == FoldLeft(WriteDirectory, [builder |-> s.builder, directories |-> << >>], layer.directories)
    IN  [builder |-> w.builder,
         layers |-> Append(s.layers, [layer EXCEPT !.directories = w.directories])]

Encode(root, pool) ==
    IF ~Validates(root) THEN Fail("Invalid")
    ELSE LET w == FoldLeft(WriteLayer, [builder |-> FromPool(pool), layers |-> << >>], root.layers)
         IN  Ok([pool |-> w.builder.pool, name |-> root.name, layers |-> w.layers])

\* Every name index resolves in the pool that is decoded first.
ReadEntry(pool, entry) ==
    IF entry.kind = "link"
    THEN [entry EXCEPT !.name = ReadName(pool, entry.name).value,
                       !.target = ReadName(pool, entry.target).value]
    ELSE [entry EXCEPT !.name = ReadName(pool, entry.name).value]

ReadDirectory(pool, directory) ==
    [directory EXCEPT !.path = Get(pool, directory.path).value,
                      !.entries = [i \in DOMAIN directory.entries |-> ReadEntry(pool, directory.entries[i])]]

\* Some index or name of the encoded root is not in the pool.
ReferencesFail(encoded) ==
    \E layer \in ToSet(encoded.layers) : \E d \in ToSet(layer.directories) :
       \/ ~Get(encoded.pool, d.path).ok
       \/ \E e \in ToSet(d.entries) :
             \/ ~ReadName(encoded.pool, e.name).ok
             \/ e.kind = "link" /\ ~ReadName(encoded.pool, e.target).ok

Decode(encoded) ==
    LET root == [name |-> encoded.name,
                 layers |-> [l \in DOMAIN encoded.layers |->
                               [encoded.layers[l] EXCEPT !.directories =
                                  [d \in DOMAIN @ |-> ReadDirectory(encoded.pool, @[d])]]]]
    IN  IF ReferencesFail(encoded) THEN Fail("Invalid")
        ELSE IF ~Validates(root) THEN Fail("Invalid")
        ELSE Ok(root)
=============================================================================
