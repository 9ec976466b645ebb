------------------------------- MODULE Launch -------------------------------
(***************************************************************************)
(* Preparing a launch: run.rs, roots.rs and application_runtimes of         *)
(* janex-host, application.rs of janex-format, and the discovery and the    *)
(* module checks of janex-java.                                             *)
(*                                                                          *)
(* A package is its verification, the signers that its proof holds for,     *)
(* what its checksums say, and its applications.  A path is a tuple; the    *)
(* files of the world give the identity of an existing one, which canonical *)
(* paths share.  A condition is the set of Java features it accepts.  An    *)
(* absent option is the empty sequence.                                     *)
(***************************************************************************)
EXTENDS Integers, Sequences, FiniteSets, SequencesExt

CONSTANTS MaxDepth,      \* limits.max_depth
          MaxElements,   \* limits.max_elements
          MaxBytes,      \* max_materialized_bytes; archives are stored, imported at their size
          Native         \* the architecture of the system

Fail == [ok |-> FALSE]
Ok(value) == [ok |-> TRUE, value |-> value]

-----------------------------------------------------------------------------
(* Candidates and runtimes. *)

JavaIn(home) == <<home, "bin", "java">>
Exists(path, world) == path \in DOMAIN world.files
Canonical(path, world) == IF Exists(path, world) THEN <<world.files[path]>> ELSE path

IsExplicit(options) == options.java # << >> \/ options.javaHome # << >>

\* A sequence without the later paths of an identity that came before.
Unrepeated(paths, world) ==
    LET first == SelectSeq([i \in DOMAIN paths |-> i], LAMBDA i :
                    \A j \in 1 .. i - 1 : Canonical(paths[j], world) # Canonical(paths[i], world))
    IN  [i \in DOMAIN first |-> paths[first[i]]]

\* candidates_from: the override, or JAVA_HOME, present or not, before what is on PATH.
Candidates(options, world) ==
    LET OnPath(name) == SelectSeq([i \in DOMAIN world.path |-> <<world.path[i], name>>],
                                  LAMBDA p : Exists(p, world))
        home == SelectSeq(world.javaHome, LAMBDA h : h # "")
    IN  IF options.java # << >> /\ options.javaHome # << >> THEN Fail
        ELSE IF options.javaHome # << >> THEN Ok(<<JavaIn(options.javaHome[1])>>)
        ELSE IF options.java = << >>
        THEN Ok(Unrepeated([i \in DOMAIN home |-> JavaIn(home[i])] \o OnPath("java"), world))
        ELSE IF Len(options.java[1]) > 1 THEN Ok(options.java)
        ELSE IF OnPath(options.java[1][1]) = << >> THEN Fail
        ELSE Ok(<<OnPath(options.java[1][1])[1]>>)

\* A stable sort by the keys of the items.
Sorted(items, key) ==
    LET order == SetToSortSeq(DOMAIN items, LAMBDA i, j : key[i] < key[j] \/ (key[i] = key[j] /\ i < j))
    IN  [i \in DOMAIN order |-> items[order[i]]]

PreferNative(items) == Sorted(items, [i \in DOMAIN items |-> IF items[i].arch = Native THEN 0 ELSE 1])

\* The default, then this system's installations: native ones first, newer ones first.
Managed(world) ==
    LET here == SelectSeq(world.installations, LAMBDA i : i.here)
        order == PreferNative(Sorted(here, [i \in DOMAIN here |-> -here[i].version]))
    IN  [i \in DOMAIN world.default |-> JavaIn(world.default[i])]
        \o [i \in DOMAIN order |-> JavaIn(order[i].home)]

\* The lease of a candidate, if it is the executable of an installation.
Leased(path, world) ==
    LET owners == SelectSeq(world.installations, LAMBDA i :
                    Exists(path, world) /\ Canonical(path, world) = Canonical(JavaIn(i.home), world))
    IN  IF ~world.managed \/ owners = << >> THEN << >> ELSE <<owners[1].home>>

\* Probing every candidate; of an explicit one a failure is final.
Probed(paths, world, explicit) ==
    LET Probe(path) == IF Exists(path, world) THEN world.probes[world.files[path]] ELSE << >>
        usable == SelectSeq(paths, LAMBDA p : Probe(p) # << >>)
    IN  IF usable = << >> \/ (explicit /\ \E p \in ToSet(paths) : Probe(p) = << >>) THEN Fail
        ELSE Ok([i \in DOMAIN usable |-> [runtime |-> Probe(usable[i])[1], lease |-> Leased(usable[i], world),
                                          arch |-> Probe(usable[i])[1].arch]])

\* runtime.rs, runtimes: without a manager of SDKs.
Runtimes(options, world) ==
    LET paths == Candidates(options, world)
        found == Probed(paths.value, world, IsExplicit(options))
    IN  IF ~paths.ok THEN Fail ELSE IF ~found.ok THEN Fail
        ELSE Ok(IF IsExplicit(options) THEN found.value ELSE PreferNative(found.value))

\* application_runtimes: managed SDKs come after the executable of JAVA_HOME.  A JAVA_HOME
\* that is set counts for the position even when it is empty.
ApplicationRuntimes(options, world) ==
    LET paths == Candidates(options, world)
        position == IF world.javaHome # << >> /\ paths.value # << >> THEN 1 ELSE 0
        all == IF IsExplicit(options) THEN paths.value
               ELSE SubSeq(paths.value, 1, position) \o Managed(world)
                    \o SubSeq(paths.value, position + 1, Len(paths.value))
        found == Probed(Unrepeated(all, world), world, IsExplicit(options))
    IN  IF ~world.managed THEN Runtimes(options, world)
        ELSE IF ~paths.ok THEN Fail ELSE IF ~found.ok THEN Fail
        ELSE Ok(IF IsExplicit(options) \/ world.default # << >> THEN found.value
                ELSE PreferNative(found.value))

-----------------------------------------------------------------------------
(* The launch configuration. *)

\* EntryPoint::from_value, list, and validate_uri: an entry point names a class or a module,
\* a list is limited, and only the module path holds module requirements.
EntryPointFails(entry) == entry.class = << >> /\ entry.module = << >>
ListFails(change) == Len(change.items) > MaxElements
UriFails(entry, modulePath) == entry.kind = "requirement" /\ ~modulePath

\* LaunchConfig::parse, of every subtree.
RECURSIVE ConfigFails(_, _)
ConfigFails(config, depth) ==
    \/ depth > MaxDepth
    \/ \E entry \in UNION ToSet(config.entry) : EntryPointFails(entry)
    \/ Len(config.overlays) > MaxElements
    \/ \E f \in DOMAIN config.lists : ListFails(config.lists[f])
    \/ \E f \in {"module_path", "class_path", "agents"} :
          \E e \in ToSet(config.lists[f].items) : UriFails(e, f = "module_path")
    \/ \E o \in ToSet(config.overlays) : ConfigFails(o, depth + 1)

\* ListChange::apply.
Applied(change, items) ==
    CASE change.kind = "clear"  -> << >>
      [] change.kind = "append" -> items \o change.items
      [] OTHER                  -> items

\* The stack of evaluate: depth first, in order, without the subtrees that do not match.
RECURSIVE EvaluateFrom(_, _, _)
EvaluateFrom(pending, feature, launch) ==
    LET config == Last(pending)
        rest == Front(pending)
        lists == [f \in DOMAIN launch.lists |-> Applied(config.lists[f], launch.lists[f])]
    IN  IF pending = << >> THEN Ok(launch)
        ELSE IF feature \notin config.condition THEN EvaluateFrom(rest, feature, launch)
        ELSE IF (\E f \in DOMAIN lists : config.lists[f].kind = "append" /\ Len(lists[f]) > MaxElements)
                \/ Len(rest) + Len(config.overlays) > MaxElements
        THEN Fail
        ELSE EvaluateFrom(rest \o Reverse(config.overlays), feature,
                          [entry |-> IF config.entry = << >> THEN launch.entry ELSE config.entry[1],
                           lists |-> lists])

\* evaluate_java; a root that does not match is a failure of the candidate.
Evaluate(config, feature) ==
    LET end == EvaluateFrom(<<config>>, feature,
                            [entry |-> {}, lists |-> [f \in DOMAIN config.lists |-> << >>]])
    IN  IF feature \notin config.condition \/ ~end.ok THEN Fail
        ELSE IF end.value.entry = {} THEN Fail
        ELSE Ok([entry |-> CHOOSE e \in end.value.entry : TRUE, lists |-> end.value.lists])

\* read_applications and select_application.
SelectApplication(applications, id) ==
    LET found == SelectSeq(applications, LAMBDA a : id = << >> \/ id = <<a.id>>)
    IN  IF \/ \E a \in ToSet(applications) : a.type = "janex.java" /\ ConfigFails(a.launch, 0)
           \/ \E i, j \in DOMAIN applications : i < j /\ applications[i].id = applications[j].id
           \/ Len(found) # 1
        THEN Fail ELSE Ok(found[1])

-----------------------------------------------------------------------------
(* Dependencies and modules. *)

\* Faulty variant: a dependency is identified by its name alone.
RootKeyByName(entry) == <<entry.kind, entry.id>>

\* RootKey::of.
RootKey(entry) == <<entry.kind, entry.id, entry.checksum>>

\* dependency::resolve, as far as a launch depends on it.
ResolveFails(entry, world, secure, allowance) ==
    \/ /\ secure \/ world.scheme[entry.id] = "http"
       /\ ~\E sum \in ToSet(entry.checksum) : sum.secure
    \/ \E sum \in ToSet(entry.checksum) : sum.digest # world.content[entry.id].digest
    \/ world.content[entry.id].size > allowance

\* acquire: roots are [archives, bytes, fails].  The candidates share the archives and the
\* allowance, which the limit of a single dependency does not go below.
Acquire(roots, entries, world, secure) ==
    FoldLeft(LAMBDA r, entry :
        IF r.fails \/ entry.kind # "external" \/ RootKey(entry) \in r.archives THEN r
        ELSE IF ResolveFails(entry, world, secure, MaxBytes - r.bytes) THEN [r EXCEPT !.fails = TRUE]
        ELSE [archives |-> r.archives \cup {RootKey(entry)}, fails |-> FALSE,
              bytes |-> r.bytes + world.content[entry.id].size],
        roots, entries)

\* inventory of the module path, requirements apart.
Inventory(entries, world) ==
    LET present == SelectSeq(entries, LAMBDA e : e.kind # "requirement")
    IN  [i \in DOMAIN present |-> world.content[present[i].id].module]

\* system_roots: every module once and apart from the runtime's, requirements met in their
\* exact version, mandatory dependencies present; the roots are those of the runtime.
SystemRoots(system, modules, requirements, main) ==
    LET names == {m.name : m \in ToSet(modules)}
        needed == UNION {m.requires : m \in ToSet(modules)} \cup ToSet(main)
        Version(name) == IF name \in DOMAIN system THEN system[name]
                         ELSE (CHOOSE m \in ToSet(modules) : m.name = name).version
    IN  IF \/ names \cap DOMAIN system # {}
           \/ \E i, j \in DOMAIN modules : i < j /\ modules[i].name = modules[j].name
           \/ \E r \in ToSet(requirements) :
                 \/ r.id \notin names \cup DOMAIN system
                 \/ r.version # << >> /\ Version(r.id) # r.version
           \/ ~(needed \subseteq names \cup DOMAIN system)
        THEN Fail ELSE Ok(needed \cap DOMAIN system)

\* Paths::local for each entry: a root is materialized once for a candidate.
Materialize(entries, world) ==
    FoldLeft(LAMBDA r, entry :
        IF r.fails \/ RootKey(entry) \in r.paths THEN r
        ELSE IF world.content[entry.id].size > r.remaining THEN [r EXCEPT !.fails = TRUE]
        ELSE [paths |-> r.paths \cup {RootKey(entry)}, fails |-> FALSE,
              remaining |-> r.remaining - world.content[entry.id].size],
        [paths |-> {}, fails |-> FALSE, remaining |-> MaxBytes], entries)

-----------------------------------------------------------------------------
(* Preparation. *)

\* prepare_runtime: the plan or a failure, and the roots that the next candidate finds.
PrepareRuntime(options, application, candidate, roots, world, authentication) ==
    LET runtime == candidate.runtime
        launch == Evaluate(application.launch, runtime.feature)
        lists == launch.value.lists
        acquired == Acquire(roots, lists.class_path \o lists.module_path \o lists.agents, world,
                            authentication # "unsigned")
        local == SelectSeq(lists.module_path, LAMBDA e : e.kind # "requirement")
        system == SystemRoots(runtime.modules, Inventory(lists.module_path, world),
                              SelectSeq(lists.module_path, LAMBDA e : e.kind = "requirement"),
                              launch.value.entry.module)
        made == Materialize((IF options.direct THEN lists.class_path \o local ELSE << >>) \o lists.agents, world)
    IN  IF application.type # "janex.java" \/ ~launch.ok THEN [plan |-> << >>, roots |-> roots]
        ELSE IF runtime.feature < 9 /\ (lists.module_path # << >> \/ launch.value.entry.module # << >>)
        THEN [plan |-> << >>, roots |-> roots]
        ELSE IF \/ acquired.fails \/ ~system.ok \/ made.fails
                \/ Len(lists.arguments) + options.arguments > MaxElements
        THEN [plan |-> << >>, roots |-> [acquired EXCEPT !.fails = FALSE]]
        ELSE [plan |-> <<[runtime |-> runtime, lease |-> candidate.lease, launch |-> launch.value,
                          authentication |-> authentication,
                          addModules |-> IF options.direct THEN {} ELSE system.value]>>,
              roots |-> acquired]

\* Faulty variant: unsigned packages run whenever they are allowed.
AuthorizeUnsigned(options, package) ==
    IF package.verification \in {"None", "Checksum"} THEN
        IF options.allowUnsigned THEN Ok("unsigned") ELSE Fail
    ELSE IF package.verification = "OpenPgp" THEN
        IF options.openpgp # << >> /\ ToSet(options.openpgp) \subseteq package.signers THEN Ok("openpgp") ELSE Fail
    ELSE IF options.openpgp = << >> /\ options.cms # {} /\ options.cms \subseteq package.signers
         THEN Ok("cms") ELSE Fail

\* The match on the verification: pins refuse what is not signed in their format.
Authorize(options, package) ==
    IF package.verification \in {"None", "Checksum"} THEN
        IF options.allowUnsigned /\ options.cms = {} /\ options.openpgp = << >> THEN Ok("unsigned") ELSE Fail
    ELSE IF package.verification = "OpenPgp" THEN
        IF options.openpgp # << >> /\ ToSet(options.openpgp) \subseteq package.signers THEN Ok("openpgp") ELSE Fail
    ELSE IF options.openpgp = << >> /\ options.cms # {} /\ options.cms \subseteq package.signers
         THEN Ok("cms") ELSE Fail

\* prepare_snapshot.
Prepare(options, package, world) ==
    LET authentication == Authorize(options, package)
        application == SelectApplication(package.applications, options.application)
        runtimes == ApplicationRuntimes(options, world)
        Try(state, candidate) ==
            IF state.plan # << >> \/ state.final THEN state
            ELSE LET tried == PrepareRuntime(options, application.value, candidate, state.roots, world,
                                             authentication.value)
                 IN  [plan |-> tried.plan, roots |-> tried.roots, final |-> IsExplicit(options)]
    IN  IF options.openpgp # << >> /\ options.cms # {} THEN << >>
        ELSE IF ~authentication.ok \/ ~package.checksumsHold THEN << >>
        ELSE IF authentication.value # "unsigned" /\ ~package.complete THEN << >>
        ELSE IF ~application.ok \/ ~runtimes.ok THEN << >>
        ELSE FoldLeft(Try, [plan |-> << >>, final |-> FALSE,
                            roots |-> [archives |-> {}, bytes |-> 0, fails |-> FALSE]],
                      runtimes.value).plan
=============================================================================
