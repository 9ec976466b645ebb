-------------------------------- MODULE Maven --------------------------------
(***************************************************************************)
(* Collection of the runtime dependencies of a Maven application: maven/    *)
(* mod.rs and maven/model.rs. A group and artifact identifier is one name;  *)
(* coordinates are <<name, version>>. A value in Properties is a reference  *)
(* to the property of that name. A repository maps coordinates to POMs:     *)
(*   [parent, properties, profiles, managed, dependencies, own, relocated], *)
(* own being the coordinates that the POM itself declares, as options.      *)
(***************************************************************************)
EXTENDS Naturals, Sequences, FiniteSets, SequencesExt

CONSTANTS Properties, Nesting, EdgeLimit   \* 64 and 100_000 in the code

Fail(kind) == [ok |-> FALSE, kind |-> kind]
Ok(value) == [ok |-> TRUE, value |-> value]

\* The first failure of a sequence of results, or their values.
Collect(results) ==
    LET failed == {i \in 1 .. Len(results) : ~results[i].ok}
    IN  IF failed = {} THEN Ok([i \in 1 .. Len(results) |-> results[i].value])
        ELSE results[CHOOSE i \in failed : \A j \in failed : i <= j]

-----------------------------------------------------------------------------
(* Dependency: [name, version, kind, scope, optional, exclusions], fields
   that may be absent as options. *)

OrElse(option, value) == IF option = << >> THEN value ELSE option[1]

Kinds == {"jar", "test-jar", "pom", "java-source"}
OnClasspath(d) == d.kind \notin {<<"pom">>, <<"java-source">>}

DependencyKey(d) == <<d.name, OrElse(d.kind, "jar")>>

\* manage: the fields of the managed entry, replacing declared ones on demand.
Manage(d, managed, override) ==
    [d EXCEPT !.version = IF (override \/ @ = << >>) /\ managed.version # << >> THEN managed.version ELSE @,
              !.scope = IF (override \/ @ = << >>) /\ managed.scope # << >> THEN managed.scope ELSE @,
              !.exclusions = IF override \/ @ = {} THEN @ \cup managed.exclusions ELSE @]

\* The artifact handler: a file and classifier per type. Its key has no version.
ArtifactOf(d) ==
    LET kind == OrElse(d.kind, "jar")
    IN  IF kind \notin Kinds THEN Fail("Unsupported")
        ELSE IF d.version = << >> THEN Fail("NoVersion")
        ELSE IF d.version[1] = "SNAPSHOT" THEN Fail("Unsupported")
        ELSE Ok([name |-> d.name, kind |-> kind, version |-> d.version[1]])

ArtifactKey(a) == <<a.name, a.kind>>
PomOf(a) == <<a.name, a.version>>

\* expand: properties replace their references, at most Nesting times.
RECURSIVE Expand(_, _, _)
Expand(value, properties, steps) ==
    IF value \notin Properties THEN Ok(value)
    ELSE IF steps = 0 THEN Fail("Cyclic")
    ELSE IF value \notin DOMAIN properties THEN Fail("Unresolved")
    ELSE Expand(properties[value], properties, steps - 1)

ExpandField(option, properties) ==
    IF option = << >> THEN Ok(<< >>)
    ELSE LET e == Expand(option[1], properties, Nesting) IN IF e.ok THEN Ok(<<e.value>>) ELSE e

Interpolate(d, properties) ==
    LET version == ExpandField(d.version, properties)
        scope == ExpandField(d.scope, properties)
        optional == ExpandField(d.optional, properties)
    IN  IF ~version.ok THEN version
        ELSE IF ~scope.ok THEN scope
        ELSE IF ~optional.ok THEN optional
        ELSE IF optional.value \notin {<< >>, <<"true">>, <<"false">>} THEN Fail("Invalid")
        ELSE Ok([d EXCEPT !.version = version.value, !.scope = scope.value, !.optional = optional.value])

FindKey(list, key) == {i \in 1 .. Len(list) : DependencyKey(list[i]) = key}
FirstIndex(S) == CHOOSE i \in S : \A j \in S : i <= j

\* merge: dominant declarations first, missing fields filled in.
MergeOne(dominant, d) ==
    LET found == FindKey(dominant, DependencyKey(d))
        i == FirstIndex(found)
        kept == Manage(dominant[i], d, FALSE)
    IN  IF found = {} THEN Append(dominant, d)
        ELSE [dominant EXCEPT ![i] = [kept EXCEPT !.optional = IF @ = << >> THEN d.optional ELSE @,
                                                  !.exclusions = @ \cup d.exclusions]]

MergeLists(dominant, recessive) == FoldLeft(MergeOne, dominant, recessive)

-----------------------------------------------------------------------------
(* Models: inheritance, then interpolation, BOM imports and management. *)

Override(base, over) == [k \in DOMAIN base \cup DOMAIN over |-> IF k \in DOMAIN over THEN over[k] ELSE base[k]]

NoModel == [properties |-> << >>, managed |-> << >>, dependencies |-> << >>]

\* A build-only profile matters when a default profile has dependencies.
Relevant(pom) ==
    IF \E i \in 1 .. Len(pom.profiles) : pom.profiles[i].relevant /\ pom.profiles[i].default
    THEN 1 .. Len(pom.profiles) ELSE {i \in 1 .. Len(pom.profiles) : pom.profiles[i].relevant}

ActiveProfiles(pom) == SelectSeq(pom.profiles, LAMBDA p : p.relevant /\ p.default)

\* Coordinates default to those of the parent, and must be the requested ones.
Mismatched(pom, coordinates, properties) ==
    LET version == IF pom.own.version # << >> THEN pom.own.version
                   ELSE IF pom.parent # << >> THEN <<pom.parent[1][2]>> ELSE << >>
        expanded == ExpandField(version, properties)
    IN  \/ pom.own.name # coordinates[1]
        \/ version = << >>
        \/ ~expanded.ok
        \/ expanded.ok /\ expanded.value # <<coordinates[2]>>

RECURSIVE Inherit(_, _, _)

\* load: the POM over the raw model of its parent.
Load(repository, coordinates, parents) ==
    LET pom == repository[coordinates]
        parent == IF pom.parent = << >> THEN Ok(NoModel) ELSE Inherit(repository, pom.parent[1], parents)
        sections == <<pom>> \o ActiveProfiles(pom)
        declared == FoldLeft(LAMBDA p, s : Override(p, s.properties), parent.value.properties, sections)
        properties == Override(declared, ("project.version" :> coordinates[2])
                                         @@ (IF pom.parent = << >> THEN << >> ELSE ("parent.version" :> pom.parent[1][2])))
        managed == FoldLeft(LAMBDA l, s : MergeLists(s.managed, l), << >>, sections)
        dependencies == FoldLeft(LAMBDA l, s : MergeLists(s.dependencies, l), << >>, sections)
    IN  IF coordinates \notin DOMAIN repository THEN Fail("Missing")
        ELSE IF pom.relocated THEN Fail("Unsupported")
        ELSE IF ~parent.ok THEN parent
        ELSE IF \E i \in Relevant(pom) : pom.profiles[i].environment THEN Fail("Unsupported")
        ELSE IF Mismatched(pom, coordinates, properties) THEN Fail("Mismatch")
        ELSE Ok([properties |-> properties,
                 managed |-> MergeLists(managed, parent.value.managed),
                 dependencies |-> MergeLists(dependencies, parent.value.dependencies)])

Inherit(repository, coordinates, parents) ==
    IF Cardinality(parents) >= Nesting THEN Fail("Limit")
    ELSE IF coordinates \in parents THEN Fail("Cyclic")
    ELSE Load(repository, coordinates, parents \cup {coordinates})

IsImport(d) == d.scope = <<"import">>

\* Faulty variant: an imported entry goes before the declared ones.
AddImportedFirst(managed, imported) == imported \o managed

AddImported(managed, imported) ==
    FoldLeft(LAMBDA l, d : IF FindKey(l, DependencyKey(d)) = {} THEN Append(l, d) ELSE l, managed, imported)

Managed(d, managed, override) ==
    LET found == FindKey(managed, DependencyKey(d))
    IN  IF found = {} THEN d ELSE Manage(d, managed[FirstIndex(found)], override)

RECURSIVE Model(_, _, _)

\* effective: explicit management, the inherited one included, before BOMs.
Effective(repository, coordinates, active) ==
    LET raw == Inherit(repository, coordinates, {})
        interpolated(list) == Collect([i \in 1 .. Len(list) |-> Interpolate(list[i], raw.value.properties)])
        dependencies == interpolated(raw.value.dependencies)
        entries == interpolated(raw.value.managed)
        boms == SelectSeq(entries.value, IsImport)
        artifacts == Collect([i \in 1 .. Len(boms) |->
                                IF boms[i].kind = <<"pom">> THEN ArtifactOf(boms[i]) ELSE Fail("Invalid")])
        models == Collect([i \in 1 .. Len(boms) |-> Model(repository, PomOf(artifacts.value[i]), active)])
        managed == FoldLeft(LAMBDA l, m : AddImported(l, m.managed),
                            SelectSeq(entries.value, LAMBDA d : ~IsImport(d)), models.value)
    IN  IF ~raw.ok THEN raw
        ELSE IF ~dependencies.ok THEN dependencies
        ELSE IF ~entries.ok THEN entries
        ELSE IF ~artifacts.ok THEN artifacts
        ELSE IF ~models.ok THEN models
        ELSE Ok([managed |-> managed,
                 dependencies |-> [i \in 1 .. Len(dependencies.value) |->
                                     Managed(dependencies.value[i], managed, FALSE)]])

\* Models::get, with the imports that are being evaluated.
Model(repository, coordinates, active) ==
    IF Cardinality(active) >= Nesting THEN Fail("Limit")
    ELSE IF coordinates \in active THEN Fail("Cyclic")
    ELSE Effective(repository, coordinates, active \cup {coordinates})

-----------------------------------------------------------------------------
(* runtime_dependencies: scopes by precedence, edges in queue order. *)

Scopes == <<"test", "provided", "runtime", "compile">>
ScopeFails(scope) == OrElse(scope, "compile") \notin ToSet(Scopes)
Scope(option) == CHOOSE n \in 1 .. 4 : Scopes[n] = OrElse(option, "compile")
RuntimeScope == 3
CompileScope == 4

Derive(parent, scope) == IF parent \in {<< >>, <<CompileScope>>} THEN scope ELSE parent[1]

Excluded(exclusions, name) == {"*", name} \cap exclusions # {}

\* The edges of a model below the selected node `parent' (none for the root).
Kept(d, exclusions, parent) ==
    /\ parent # << >> => d.optional # <<"true">> /\ Scope(d.scope) >= RuntimeScope
    /\ ~Excluded(exclusions, d.name)

EdgesOf(model, exclusions, parent, root) ==
    LET candidates == [i \in 1 .. Len(model.dependencies) |->
                         IF parent = << >> THEN model.dependencies[i]
                         ELSE Managed(model.dependencies[i], root.managed, TRUE)]
        kept == SelectSeq(candidates, LAMBDA d : Kept(d, exclusions, parent))
    IN  IF \E d \in ToSet(candidates) : (parent = << >> \/ d.optional # <<"true">>) /\ ScopeFails(d.scope)
        THEN Fail("Unsupported")
        ELSE Ok([i \in 1 .. Len(kept) |-> [dependency |-> kept[i], parent |-> parent,
                                           exclusions |-> exclusions \cup kept[i].exclusions]])

\* Faulty variant: an edge to a winner is dropped with its scope.
SeenIgnored(selected, i, edge) == selected

\* Another path to a winner only counts for its scope.
Seen(selected, i, edge) ==
    [selected EXCEPT ![i].paths = Append(@, <<edge.parent, Scope(edge.dependency.scope)>>)]

RECURSIVE Collected(_, _, _, _, _)
Collected(repository, root, queue, selected, edges) ==
    LET edge == Head(queue)
        artifact == ArtifactOf(edge.dependency)
        winner == {i \in 1 .. Len(selected) : ArtifactKey(selected[i].artifact) = ArtifactKey(artifact.value)}
        scope == Scope(edge.dependency.scope)
        node == [artifact |-> artifact.value, onClasspath |-> OnClasspath(edge.dependency),
                 scope |-> Derive(IF edge.parent = << >> THEN << >> ELSE <<selected[edge.parent[1]].scope>>, scope),
                 paths |-> <<<<edge.parent, scope>>>>]
        child == Model(repository, PomOf(artifact.value), {})
        below == EdgesOf(child.value, edge.exclusions, <<Len(selected) + 1>>, root.model)
    IN  IF queue = << >> THEN Ok(selected)
        ELSE IF edges = EdgeLimit THEN Fail("Limit")
        ELSE IF ~artifact.ok THEN artifact
        ELSE IF ArtifactKey(artifact.value) = ArtifactKey(root.artifact)
        THEN Collected(repository, root, Tail(queue), selected, edges + 1)
        ELSE IF winner # {}
        THEN Collected(repository, root, Tail(queue), Seen(selected, FirstIndex(winner), edge), edges + 1)
        ELSE IF ~child.ok THEN child
        ELSE IF ~below.ok THEN below
        ELSE Collected(repository, root, Tail(queue) \o below.value, Append(selected, node), edges + 1)

ScopeOf(selected, i) ==
    LET derived == {Derive(IF p[1] = << >> THEN << >> ELSE <<selected[p[1][1]].scope>>, p[2]) : p \in ToSet(selected[i].paths)}
    IN  IF selected[i].paths[1][1] = << >> THEN selected[i].paths[1][2]
        ELSE CHOOSE s \in derived : \A t \in derived : t <= s

\* Promotions spread until no scope changes; their order does not matter.
RECURSIVE Mediated(_)
Mediated(selected) ==
    LET changed == {i \in 1 .. Len(selected) : ScopeOf(selected, i) # selected[i].scope}
    IN  IF changed = {} THEN selected
        ELSE LET i == FirstIndex(changed) IN Mediated([selected EXCEPT ![i].scope = ScopeOf(selected, i)])

Select(repository, root) ==
    LET model == Model(repository, PomOf(root), {})
        queue == EdgesOf(model.value, {}, << >>, model.value)
        selected == Collected(repository, [artifact |-> root, model |-> model.value], queue.value, << >>, 0)
    IN  IF ~model.ok THEN model
        ELSE IF ~queue.ok THEN queue
        ELSE IF ~selected.ok THEN selected
        ELSE Ok(Mediated(selected.value))

RuntimeDependencies(repository, root) ==
    LET selected == Select(repository, root)
        kept == SelectSeq(selected.value, LAMBDA n : n.onClasspath /\ n.scope >= RuntimeScope)
    IN  IF selected.ok THEN Ok([i \in 1 .. Len(kept) |-> kept[i].artifact]) ELSE selected
=============================================================================
