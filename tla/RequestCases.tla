---------------------------- MODULE RequestCases ----------------------------
(***************************************************************************)
(* Selectors, versions and application targets, and what reading them must *)
(* satisfy; packages to launch, and which launches may be prepared; small   *)
(* Maven repositories, and what a class path collected from them must       *)
(* satisfy.                                                                  *)
(***************************************************************************)
EXTENDS Integers, Sequences, FiniteSets, SequencesExt

Sdk == INSTANCE SdkRequests WITH
    Products <- ("liberica" :> [family |-> "java", variants |-> <<"standard", "full">>, specific |-> TRUE])
                @@ ("temurin" :> [family |-> "java", variants |-> <<"standard">>, specific |-> TRUE])
                @@ ("gradle/gradle" :> [family |-> "gradle", variants |-> <<"bin", "all">>, specific |-> FALSE]),
    Aliases <- "gradle" :> "gradle/gradle",
    Arches <- "arm64" :> "aarch64",
    HostLibc <- "glibc",
    NumberMax <- 30

\* The tables have what the theorem about targets asks of them.
ASSUME TablesAssumption == Sdk!TablesAgree

-----------------------------------------------------------------------------
(* Selectors on two hosts. *)

Num(value) == [value |-> value, zeros |-> 0, digits |-> TRUE]
Padded(value) == [Num(value) EXCEPT !.zeros = 1]
Ver(values, build) == [numbers |-> [i \in DOMAIN values |-> Num(values[i])],
                       build |-> [i \in DOMAIN build |-> Num(build[i])]]
AsPreview(v) == [v EXCEPT !.numbers[1].digits = FALSE]

SdkHosts == {[os |-> "linux", arch |-> "x86-64", libc |-> "glibc"],
             [os |-> "windows", arch |-> "aarch64", libc |-> "native"]}

\* At most one qualifier of each key, in two orders, and faulty ones.
Chosen(key, values) == {<< >>} \cup {<<<<key, v>>>> : v \in values}
QualifierLists ==
    {v \o o \o a \o l : v \in Chosen("variant", {"standard", "full", "all"}), o \in Chosen("os", {"linux", "windows", "plan9"}),
                        a \in Chosen("arch", {"arm64", "aarch64"}), l \in Chosen("libc", {"musl", "native"})}
FaultyLists == {<<<<"arch", "arm64">>, <<"arch", "arm64">>>>, <<<<"variant", "">>>>, <<<<"vendor", "x">>>>}

SelectCases ==
    {[call |-> "select", host |-> h, selector |-> [prefix |-> p, id |-> i, version |-> v, qualifiers |-> q]] :
        h \in SdkHosts, p \in {"sdk"}, i \in {"liberica", "temurin", "gradle", "gradle/gradle", "kotlin"},
        v \in {<< >>, <<Sdk!Latest>>, <<Ver(<<9>>, << >>)>>, <<Ver(<<9, 1>>, <<3>>)>>, <<Ver(<<7>>, << >>)>>},
        q \in QualifierLists \cup FaultyLists \cup {Reverse(l) : l \in QualifierLists}}
    \cup {[call |-> "select", host |-> h, selector |-> [prefix |-> "", id |-> "gradle", version |-> << >>, qualifiers |-> << >>]] :
              h \in SdkHosts}

SelectAndRepeat(c) ==
    LET r == Sdk!Parse(c.selector, c.host)
    IN  [parsed |-> r, again |-> IF r.ok THEN {Sdk!Parse(Sdk!Target(r.value), h) : h \in SdkHosts} ELSE {}]

QualifierOf(selector, key) == {q[2] : q \in {q \in ToSet(selector.qualifiers) : q[1] = key}}

\* The operating systems and libcs that a selector may name together.
OsOf(c) == IF QualifierOf(c.selector, "os") = {} THEN {c.host.os} ELSE QualifierOf(c.selector, "os")
LibcAgrees(c) ==
    \A os \in OsOf(c) : QualifierOf(c.selector, "libc")
                         \subseteq (IF os = "linux" THEN {"glibc", "musl"} ELSE {"native"})

WellFormed(c) ==
    /\ c.selector.prefix = "sdk" /\ c.selector.qualifiers \notin FaultyLists
    /\ \/ /\ c.selector.id \in {"gradle", "gradle/gradle"}
          /\ {q[1] : q \in ToSet(c.selector.qualifiers)} \subseteq {"variant"}
          /\ QualifierOf(c.selector, "variant") \subseteq {"all"}
          /\ \A v \in ToSet(c.selector.version) : v.build = << >>
       \/ /\ c.selector.id \in {"liberica", "temurin"}
          /\ QualifierOf(c.selector, "variant")
                \subseteq (IF c.selector.id = "liberica" THEN {"standard", "full"} ELSE {"standard"})
          /\ OsOf(c) \subseteq {"linux", "windows"} /\ LibcAgrees(c)
          /\ \A v \in ToSet(c.selector.version) : v = Sdk!Latest \/ v.numbers[1].value >= 8

\* Exactly the well-formed selectors are accepted, whatever the order of the qualifiers; what
\* a qualifier says is what the request says; and the target of a request reads as that
\* request on every host.
SelectFor(c, out) ==
    /\ out.parsed.ok <=> WellFormed(c)
    /\ out.parsed.ok =>
        /\ out.again = {out.parsed}
        /\ out.parsed.value.platform # << >> =>
            /\ out.parsed.value.platform[1].os \in OsOf(c)
            /\ QualifierOf(c.selector, "arch") # {} => out.parsed.value.platform[1].arch = "aarch64"
            /\ QualifierOf(c.selector, "libc") \subseteq {out.parsed.value.platform[1].libc}
            /\ c.selector.qualifiers = << >> => out.parsed.value.platform[1] = c.host

-----------------------------------------------------------------------------
(* A requirement and the releases of a catalog. *)

JavaReleases == {Ver(<<9>>, << >>), Ver(<<9>>, <<1>>), Ver(<<9, 0, 1>>, << >>), Ver(<<9, 0, 1>>, <<2>>), Ver(<<9, 1>>, <<1>>),
                 Ver(<<9, 1, 0>>, <<2>>), Ver(<<9, 1, 0, 1>>, << >>), Ver(<<10>>, <<1>>), Ver(<<10, 0, 2, 1>>, <<1>>), AsPreview(Ver(<<11>>, << >>)),
                 Ver(<<31>>, << >>)}
ToolReleases == {Ver(<<9>>, << >>), Ver(<<9, 0>>, << >>), Ver(<<9, 0, 1>>, << >>), Ver(<<9, 1>>, << >>), Ver(<<9, 1, 0>>, << >>),
                 Ver(<<9, 1, 2>>, << >>), Ver(<<10>>, << >>), Ver(<<10, 2, 1>>, << >>), AsPreview(Ver(<<11>>, << >>)), Ver(<<10, 2, 1, 3>>, << >>)}

Requirement(id, version) ==
    [product |-> id, version |-> version, variant |-> "standard", platform |-> << >>]
WantedNumbers == {<<9>>, <<9, 0>>, <<9, 0, 1>>, <<9, 1>>, <<9, 1, 0>>, <<10>>, <<10, 0>>}
Wanted == {Sdk!Latest} \cup {Ver(n, b) : n \in WantedNumbers, b \in {<< >>, <<1>>, <<2>>}}
          \cup {[numbers |-> <<Num(9), Padded(1)>>, build |-> << >>]}

VersionCases ==
    {[call |-> "versions", id |-> id, wanted |-> w, a |-> a, b |-> b, between |-> m] :
        id \in {"liberica"}, w \in Wanted, a \in JavaReleases, b \in JavaReleases, m \in {v \in JavaReleases : ~Sdk!NumericFails(v)}}
    \cup
    {[call |-> "versions", id |-> id, wanted |-> w, a |-> a, b |-> b, between |-> m] :
        id \in {"gradle/gradle"}, w \in {v \in Wanted : v.build = << >>},
        a \in ToolReleases, b \in ToolReleases, m \in {v \in ToolReleases : ~Sdk!ToolFails(v)}}

AcceptedBy(c, v) == Sdk!Accepts(Requirement(c.id, c.wanted), Requirement(c.id, v))
AcceptRelease(c) == [a |-> AcceptedBy(c, c.a), b |-> AcceptedBy(c, c.b), between |-> AcceptedBy(c, c.between)]

Ordered(c, v, w) == Sdk!Compare(Requirement(c.id, v), Requirement(c.id, w)) <= 0

\* The release of a version, without the zeros that say nothing.
ReleaseOf(v) == LET values == Sdk!Values(v.numbers)
                    last == {i \in DOMAIN values : values[i] # 0}
                IN  SubSeq(values, 1, CHOOSE i \in last : \A j \in last : j <= i)

\* A requirement accepts a contiguous part of the order of releases, no preview, and of one
\* Java release all builds or the one it names; a chosen release, written as the requirement,
\* accepts itself and nothing that the requirement did not.
VersionsFor(c, out) ==
    LET java == Sdk!Family(Requirement(c.id, c.wanted)) = "java"
        Exactly(v) == IF java THEN Len(v.numbers) > 1 \/ v.build # << >> ELSE TRUE
    IN  /\ out.a => ~\E n \in ToSet(c.a.numbers) : ~n.digits
        /\ (out.a /\ out.b /\ Ordered(c, c.a, c.between) /\ Ordered(c, c.between, c.b)) =>
                out.between
        /\ (java /\ c.wanted # Sdk!Latest /\ Exactly(c.wanted)) =>
                /\ (out.a /\ out.b) => ReleaseOf(c.a) = ReleaseOf(c.b)
                /\ (out.a /\ c.wanted.build = << >> /\ ReleaseOf(c.b) = ReleaseOf(c.a)) => out.b
        /\ (out.a /\ Exactly(c.a)) =>
                /\ AcceptedBy([c EXCEPT !.wanted = c.a], c.a)
                /\ AcceptedBy([c EXCEPT !.wanted = c.a], c.b) => out.b

-----------------------------------------------------------------------------
(* Application targets. *)

Normalized == ("central" :> "central") @@ ("https://repo/m" :> "https://repo/m/") @@ ("https://repo/m/" :> "https://repo/m/")

App == INSTANCE AppRequests WITH
    Components <- {"org.x", "Tool", "tool", "1.0", "1+b", "1-SNAPSHOT", "all"}, Releases <- {"1.0", "1+b"},
    Reserved <- {"1+b", "https://repo/m/"}, Commands <- {"tool", "t"},
    Keys <- {"classifier", "Classifier", "type", "repository_url", "vcs_url"}, MainClasses <- {"x.Main"},
    Lower <- [t \in {"Tool", "tool", "Classifier", "classifier", "type", "repository_url", "vcs_url", "Maven", "maven", "npm"} |->
                CASE t = "Tool" -> "tool" [] t = "Classifier" -> "classifier" [] t = "Maven" -> "maven" [] OTHER -> t],
    Repositories <- Normalized,
    Central <- "central"

Literal(value) == [value |-> value, escape |-> "plain"]
Broken(value) == [value |-> value, escape |-> "broken"]

QueryLists == {<< >>, <<<<"classifier", Literal("all")>>>>, <<<<"Classifier", Literal("all")>>, <<"type", Literal("janex")>>>>,
               <<<<"type", Literal("jar")>>, <<"repository_url", Literal("https://repo/m")>>>>,
               <<<<"repository_url", Literal("central")>>, <<"classifier", Literal("")>>>>,
               <<<<"classifier", Literal("all")>>, <<"Classifier", Literal("all")>>>>,
               <<<<"vcs_url", Literal("x")>>>>, <<<<"type", Broken("jar")>>>>}
OptionLists == {<< >>, <<<<"command", "t">>>>, <<<<"main-class", "x.Main">>, <<"dependencies", "none">>>>,
                <<<<"dependencies", "none">>>>, <<<<"dependencies", "some">>>>, <<<<"command", "t">>, <<"command", "t">>>>,
                <<<<"command", "">>>>, <<<<"command", "T">>>>, <<<<"main-class", "-x">>>>,
                <<<<"repository", "https://repo/m">>>>, <<<<"type", "janex">>, <<"command", "t">>>>}

Tree(form, type, artifact, version, query, options, subpath) ==
    [form |-> form, type |-> type, group |-> Literal("org.x"), artifact |-> artifact, version |-> version,
     query |-> query, options |-> options, subpath |-> subpath]

AppCases ==
    {[call |-> "app", mirror |-> m, tree |-> Tree(f, t, a, v, q, o, s)] :
        m \in {"central", "https://repo/m"}, f \in {"pkg", "maven"}, t \in {"Maven"}, a \in {Literal("Tool"), Literal("tool")},
        v \in {<< >>, <<Literal("")>>, <<Literal("1.0")>>, <<[value |-> "1+b", escape |-> "escaped"]>>, <<Literal("1+b")>>, <<Literal("1-SNAPSHOT")>>},
        q \in QueryLists, o \in OptionLists, s \in {FALSE}}
    \cup {[call |-> "app", mirror |-> "central", tree |-> Tree(f, t, a, << >>, << >>, << >>, s)] :
              f \in {"pkg", "maven", "other"}, t \in {"maven", "npm"}, a \in {Literal("tool"), Broken("tool")}, s \in BOOLEAN}

\* The same target in the other spelling: qualifiers as options of the shorthand.
Respelled(r) ==
    [App!Target(r) EXCEPT !.form = "maven", !.query = << >>,
        !.options = @ \o [i \in DOMAIN App!PurlOf(r).query |->
                            <<App!PurlOf(r).query[i][1], App!PurlOf(r).query[i][2].value>>]]

ParseAndStore(c) ==
    LET r == App!Parse(c.tree, c.mirror)
    IN  [parsed |-> r,
         again |-> IF r.ok THEN {App!Parse(App!Target(r.value), "central"), App!Parse(Respelled(r.value), "central"),
                                 App!Deserialize(App!Serialize(r.value))} ELSE {},
         exact |-> IF r.ok THEN App!Exact(r.value, "1.0") ELSE r]

\* The target of a request, its shorthand and its stored form read as that request; the
\* repository is the one that the target names and otherwise the configured one; an exact
\* release differs from its request in the version alone.
AppFor(c, out) ==
    LET named == {q[2].value : q \in {q \in ToSet(c.tree.query) : q[1] = "repository_url"}}
                 \cup {o[2] : o \in {o \in ToSet(c.tree.options) : o[1] = "repository"}}
    IN  out.parsed.ok =>
            /\ out.again = {out.parsed}
            /\ out.parsed.value.repository
                \in {Normalized[u] : u \in IF named = {} THEN {c.mirror} ELSE named}
            /\ out.exact.ok
            /\ out.exact.value.version = <<"1.0">>
            /\ App!PurlOf(out.exact.value) = App!PurlOf(out.parsed.value) <=> out.parsed.value.version = <<"1.0">>
            /\ App!Deserialize(App!Serialize(out.exact.value)) = out.exact

-----------------------------------------------------------------------------
(* Launches.  The files: an SDK of the environment "E", two managed ones "A"  *)
(* and "B", and one on the path, "P"; the directory "links" leads to "A".     *)

La == INSTANCE Launch WITH MaxDepth <- 2, MaxElements <- 3, MaxBytes <- 5, Native <- "x86-64"

Jre(exe, feature, arch) ==
    <<[exe |-> exe, feature |-> feature, arch |-> arch,
       modules |-> IF feature < 9 THEN << >> ELSE ("java.base" :> <<"9">>) @@ ("java.sql" :> <<"9">>)]>>

LaunchFiles == (La!JavaIn("env") :> "E") @@ (La!JavaIn("sdkA") :> "A") @@ (La!JavaIn("sdkB") :> "B")
               @@ (<<"usr", "java">> :> "P") @@ (<<"links", "java">> :> "A")
Installed(home, arch, version, here) == [home |-> home, arch |-> arch, version |-> version, here |-> here]


Unchanged == [kind |-> "unchanged", items |-> << >>]
Clears == [kind |-> "clear", items |-> << >>]
Appends(items) == [kind |-> "append", items |-> items]
Unlisted == [f \in {"class_path", "module_path", "agents", "jvm_options", "arguments"} |-> Unchanged]
MainOf(class, module) == [class |-> class, module |-> module]
Config(condition, entry, lists, overlays) == [condition |-> condition, entry |-> entry, lists |-> lists, overlays |-> overlays]

Own(id) == [kind |-> "local", id |-> id, checksum |-> << >>, version |-> << >>]
External(id, checksum) == [kind |-> "external", id |-> id, checksum |-> checksum, version |-> << >>]
Requires(id, version) == [kind |-> "requirement", id |-> id, checksum |-> << >>, version |-> version]
Sum(secure, digest) == <<[secure |-> secure, digest |-> digest]>>

ModuleOf(name, requires) == [name |-> name, version |-> <<"1">>, requires |-> requires]
Contents == ("a" :> [digest |-> "da", size |-> 2, module |-> ModuleOf("m.a", {"java.sql"})])
            @@ ("b" :> [digest |-> "db", size |-> 2, module |-> ModuleOf("m.b", {"m.a"})])
            @@ ("c" :> [digest |-> "dc", size |-> 4, module |-> ModuleOf("java.sql", {})])

Simple == Config({8, 9, 11}, <<{MainOf(<<"Main">>, << >>)}>>, Unlisted, << >>)
With(field, change) == [Simple EXCEPT !.lists[field] = change]

World == [javaHome |-> << >>, path |-> <<"usr">>, files |-> LaunchFiles, managed |-> TRUE, default |-> << >>,
          installations |-> << >>, content |-> Contents, scheme |-> ("a" :> "https") @@ ("b" :> "http") @@ ("c" :> "https"),
          probes |-> ("E" :> Jre("E", 9, "x86-64")) @@ ("A" :> Jre("A", 9, "x86-64")) @@ ("B" :> Jre("B", 11, "x86-64"))
                     @@ ("P" :> Jre("P", 8, "x86-64"))]
Choice == [java |-> << >>, javaHome |-> << >>, application |-> << >>, direct |-> FALSE, allowUnsigned |-> TRUE, arguments |-> 0,
           cms |-> {}, openpgp |-> << >>]
Applied1(config) == <<[id |-> "app", type |-> "janex.java", launch |-> config]>>
Package(verification, signers, config) ==
    [verification |-> verification, signers |-> signers, checksumsHold |-> TRUE, complete |-> TRUE, applications |-> Applied1(config)]
Unsigned(config) == Package("None", {}, config)

LaunchCase(options, package, world) == [call |-> "launch", options |-> options, package |-> package, world |-> world]

\* Who signed and who is trusted.
TrustCases ==
    {LaunchCase([Choice EXCEPT !.allowUnsigned = a, !.cms = m, !.openpgp = k],
                [Package(v, s, g) EXCEPT !.checksumsHold = h, !.complete = t], World) :
        a \in BOOLEAN, m \in {{}, {"x"}, {"x", "y"}}, k \in {<< >>, <<"x">>}, v \in {"None", "Checksum", "OpenPgp", "Cms"},
        s \in {{"x"}, {"y"}, {"x", "y"}}, h \in BOOLEAN, t \in BOOLEAN,
        g \in {Simple, With("class_path", Appends(<<External("a", << >>)>>)), With("agents", Appends(<<External("a", Sum(TRUE, "da"))>>)),
               With("class_path", Appends(<<External("a", Sum(FALSE, "da"))>>))}}

\* Which Java runs: what the environment, the SDKs of Janex and the path offer, and a choice.
SdkLists(b) ==
    LET sdkA == Installed("sdkA", "x86-64", 9, TRUE)
        sdkB == Installed("sdkB", IF b = << >> THEN "x86-64" ELSE b[1].arch, 11, TRUE)
    IN  {<<<< >>, <<[sdkA EXCEPT !.here = FALSE]>>>>}
        \cup {<<f, i>> : f \in {<< >>, <<"sdkA">>}, i \in {<<sdkA, sdkB>>, <<sdkB, sdkA>>}}
JavaWorlds ==
    UNION {{[World EXCEPT !.javaHome = e, !.path = p, !.default = l[1], !.installations = l[2], !.managed = m,
                          !.probes["B"] = b, !.probes["E"] = x] :
               e \in {<< >>, <<"env">>, <<"gone">>}, p \in {<<"usr">>, <<"links", "usr">>, << >>}, l \in SdkLists(b),
               m \in BOOLEAN, x \in {Jre("E", 9, "arm"), << >>}} :
           b \in {Jre("B", 11, "x86-64"), Jre("B", 11, "arm"), << >>}}
JavaChoices == {[Choice EXCEPT !.java = j, !.javaHome = h] :
                j \in {<< >>, <<<<"java">>>>, <<<<"usr", "java">>>>, <<<<"other">>>>}, h \in {<< >>, <<"env">>, <<"gone">>}}
JavaCases ==
    {LaunchCase(Choice, Unsigned([Simple EXCEPT !.condition = d]), w) : d \in {{9}, {8, 9, 11}}, w \in JavaWorlds}
    \cup {LaunchCase(o, Unsigned([Simple EXCEPT !.condition = d]), w) :
              o \in JavaChoices, d \in {{9}, {8, 9, 11}}, w \in {v \in JavaWorlds : v.javaHome # <<"gone">> /\ v.managed /\ v.probes["B"] = World.probes["B"]}}

\* What the configuration says for a runtime.
Overlay == {Config(d, e, [Unlisted EXCEPT !.arguments = a], << >>) :
                d \in {{9}, {8}}, e \in {<< >>, <<{}>>, <<{MainOf(<<"Other">>, << >>)}>>},
                a \in {Unchanged, Clears, Appends(<<"x">>)}}
ConfigCases ==
    {LaunchCase(Choice, Unsigned([Simple EXCEPT !.lists.arguments = Appends(<<"r">>),
                                     !.overlays = <<[o EXCEPT !.overlays = n], l>>]), [World EXCEPT !.javaHome = <<"env">>]) :
        o \in Overlay, l \in Overlay, n \in {<< >>} \cup {<<q>> : q \in {q \in Overlay : 9 \in q.condition}}}

\* Dependencies and modules.
EntryLists1 == UNION {[1 .. n -> {Own("a"), Own("b"), External("a", Sum(TRUE, "da")), External("a", Sum(TRUE, "db")), External("b", Sum(TRUE, "db")), External("b", << >>), Own("c")}] :
                        n \in 0 .. 2}
DependencyCases ==
    {LaunchCase([Choice EXCEPT !.direct = d],
                Unsigned([Simple EXCEPT !.entry = <<{MainOf(<<"Main">>, m)}>>, !.lists.module_path = Appends(p \o r), !.lists.class_path = Appends(l)]),
                [World EXCEPT !.javaHome = <<"env">>]) :
        d \in BOOLEAN, m \in {<< >>, <<"m.a">>}, p \in EntryLists1, l \in {<< >>, <<Own("a")>>, <<External("a", << >>)>>, <<Requires("m.a", << >>)>>},
        r \in {<< >>, <<Requires("m.a", <<"1">>)>>, <<Requires("java.sql", <<"8">>)>>}}

\* Applications of a package, by identity.
SeveralCases ==
    {LaunchCase([Choice EXCEPT !.application = i, !.arguments = n], [Unsigned(Simple) EXCEPT !.applications = a], World) :
        i \in {<< >>, <<"app">>, <<"none">>}, n \in {3, 4},
        a \in {<< >>, Applied1(Simple), Applied1(Simple) \o Applied1(Simple), Applied1(Simple) \o <<[id |-> "web", type |-> "web", launch |-> Simple]>>,
               <<[id |-> "app", type |-> "web", launch |-> Simple]>>}}

PrepareLaunch(c) == La!Prepare(c.options, c.package, c.world)

\* The runtimes that a case offers: the chosen one, or those of the environment, Janex and
\* the path, without those that do not run or not the application.
Explicitly(c) == c.options.java # << >> \/ c.options.javaHome # << >>
ChosenJava(c) ==
    IF c.options.javaHome # << >> THEN IF c.options.java = << >> /\ c.options.javaHome = <<"env">> THEN {"E"} ELSE {}
    ELSE CASE c.options.java[1] = <<"java">>        -> {LaunchFiles[<<c.world.path[i], "java">>] : i \in DOMAIN c.world.path \cap {1}}
           [] c.options.java[1] = <<"usr", "java">> -> {"P"}
           [] OTHER                                 -> {}
InHome(c) == IF c.world.javaHome = <<"env">> THEN {"E"} ELSE {}
OnPaths(c) == {LaunchFiles[<<d, "java">>] : d \in ToSet(c.world.path)}
HomesOf(c, installations) == IF c.world.managed THEN {LaunchFiles[La!JavaIn(i.home)] : i \in installations} ELSE {}
ManagedHere(c) == HomesOf(c, {i \in ToSet(c.world.installations) : i.here})
Default(c) == HomesOf(c, {i \in ToSet(c.world.installations) : c.world.default = <<i.home>>})
Offered(c) ==
    {x \in IF Explicitly(c) THEN ChosenJava(c) ELSE InHome(c) \cup ManagedHere(c) \cup OnPaths(c) :
        /\ c.world.probes[x] # << >>
        /\ c.world.probes[x][1].feature \in c.package.applications[1].launch.condition}

\* The preference: the environment's runtime, the default, the managed ones, the path in its
\* order; the newer of two managed ones; without a default, native ones before all others.
Tier(c, x) == CASE x \in InHome(c) -> 0 [] x \in Default(c) -> 1 [] x \in ManagedHere(c) -> 2 [] x = "A" -> 3 [] OTHER -> 4
PreferredJava(c, x, y) ==
    LET Emulated(z) == c.world.probes[z][1].arch # "x86-64"
    IN  IF Emulated(x) # Emulated(y) /\ (Default(c) = {} \/ (Tier(c, x) = 2 /\ Tier(c, y) = 2)) THEN ~Emulated(x)
        ELSE \/ Tier(c, x) < Tier(c, y)
             \/ Tier(c, x) = 2 /\ Tier(c, y) = 2 /\ c.world.probes[x][1].feature > c.world.probes[y][1].feature

\* A plan runs on a runtime that nothing offered is preferred to, with its lease.
JavaFor(c, plan) ==
    /\ plan.runtime.exe \in Offered(c)
    /\ \A x \in Offered(c) : c.package.applications[1].launch = Simple => ~PreferredJava(c, x, plan.runtime.exe)
    /\ plan.runtime.exe \in HomesOf(c, ToSet(c.world.installations)) <=> plan.lease # << >>
    /\ \A home \in ToSet(plan.lease) : LaunchFiles[La!JavaIn(home)] = plan.runtime.exe

\* The configurations that hold for a feature, in the order of the descriptor.
RECURSIVE InOrder(_, _)
InOrder(config, feature) ==
    IF feature \notin config.condition THEN << >>
    ELSE <<config>> \o FlattenSeq([i \in DOMAIN config.overlays |-> InOrder(config.overlays[i], feature)])

ConfiguredAs(c, plan) ==
    LET configs == InOrder(c.package.applications[1].launch, plan.runtime.feature)
        entries == SelectSeq(configs, LAMBDA g : g.entry # << >>)
        Since(f) == LET clears == {i \in DOMAIN configs : configs[i].lists[f].kind = "clear"}
                        start == IF clears = {} THEN 1 ELSE CHOOSE i \in clears : \A j \in clears : j <= i
                    IN  SubSeq(configs, start, Len(configs))
    IN  /\ {plan.launch.entry} = Last(entries).entry[1]
        /\ \A f \in DOMAIN plan.launch.lists :
              plan.launch.lists[f] = FlattenSeq([i \in DOMAIN Since(f) |-> Since(f)[i].lists[f].items])

\* What the launch consists of: every external archive is the one its entry describes, once
\* and within the bytes; no module is missing or there twice.
ComposedOf(c, plan) ==
    LET lists == plan.launch.lists
        entries == ToSet(lists.class_path \o lists.module_path \o lists.agents)
        external == {e \in entries : e.kind = "external"}
        names == [i \in DOMAIN lists.module_path |-> IF lists.module_path[i].kind = "requirement" THEN "-"
                                                     ELSE Contents[lists.module_path[i].id].module.name]
        all == ToSet(names) \cup DOMAIN plan.runtime.modules
    IN  /\ \A e \in external : \A s \in ToSet(e.checksum) : s.digest = Contents[e.id].digest
        /\ \A e \in external : (plan.authentication # "unsigned" \/ e.id = "b") => \E s \in ToSet(e.checksum) : s.secure
        /\ \A e \in entries : e.kind # "requirement" => Contents[e.id].size <= 5
        /\ \A i, j \in DOMAIN names : i # j /\ names[i] # "-" => names[i] # names[j] /\ names[i] \notin DOMAIN plan.runtime.modules
        /\ \A e \in entries : e.kind = "requirement" => e.id \in all
        /\ \A i \in DOMAIN names : names[i] # "-" => Contents[lists.module_path[i].id].module.requires \subseteq all
        /\ ToSet(plan.launch.entry.module) \subseteq all

\* A plan exists only for a package whose signers are pinned, completely covered by secure
\* checksums, or for an unsigned one that is allowed and no pin speaks against; and it
\* always exists then for an application without dependencies that an offered runtime runs.
TrustedLaunch(c) ==
    /\ c.package.checksumsHold
    /\ \/ /\ c.package.verification \in {"None", "Checksum"}
          /\ c.options.allowUnsigned /\ c.options.cms = {} /\ c.options.openpgp = << >>
       \/ /\ c.package.verification = "OpenPgp" /\ c.package.complete
          /\ c.options.cms = {} /\ c.options.openpgp # << >> /\ ToSet(c.options.openpgp) \subseteq c.package.signers
       \/ /\ c.package.verification = "Cms" /\ c.package.complete
          /\ c.options.openpgp = << >> /\ c.options.cms # {} /\ c.options.cms \subseteq c.package.signers
PlainLaunch(c) ==
    /\ Len(c.package.applications) = 1 /\ c.options.application = << >> /\ c.options.arguments <= 3
    /\ c.package.applications[1].type = "janex.java"
    /\ c.package.applications[1].launch.lists = Unlisted /\ c.package.applications[1].launch.overlays = << >>

LaunchFor(c, out) ==
    /\ (PlainLaunch(c) /\ TrustedLaunch(c) /\ Offered(c) # {}) => out # << >>
    /\ \A plan \in ToSet(out) :
          /\ TrustedLaunch(c)
          /\ plan.authentication = "unsigned" <=> c.package.verification \in {"None", "Checksum"}
          /\ JavaFor(c, plan)
          /\ ConfiguredAs(c, plan)
          /\ ComposedOf(c, plan)
          /\ Len(plan.launch.lists.arguments) + c.options.arguments <= 3

-----------------------------------------------------------------------------

M == INSTANCE Maven WITH Properties <- {"${v}", "${w}", "project.version", "parent.version"}, Nesting <- 4, EdgeLimit <- 20

Dependency(name, version, scope) ==
    [name |-> name, version |-> version, kind |-> << >>, scope |-> scope, optional |-> << >>, exclusions |-> {}]
D(name, version) == Dependency(name, <<version>>, << >>)
Excluding(d, names) == [d EXCEPT !.exclusions = names]
Optional(d) == [d EXCEPT !.optional = <<"true">>]
Scoped(d, scope) == [d EXCEPT !.scope = <<scope>>]

Pom(name, version, dependencies) ==
    [parent |-> << >>, properties |-> << >>, profiles |-> << >>, managed |-> << >>, dependencies |-> dependencies,
     own |-> [name |-> name, version |-> <<version>>], relocated |-> FALSE]

RootArtifact == [name |-> "r", kind |-> "jar", version |-> "1"]

-----------------------------------------------------------------------------
(* Graphs over a, b and c, two versions of c. *)

OfRoot == {<<D("a", "1"), D("b", "1")>>, <<D("b", "1"), D("a", "1")>>, <<Scoped(D("a", "1"), "provided"), D("b", "1")>>,
           <<Scoped(D("a", "1"), "test"), Scoped(D("b", "1"), "runtime")>>,
           <<Excluding(D("a", "1"), {"c"}), D("b", "1")>>, <<Excluding(D("a", "1"), {"*"}), D("b", "1")>>,
           <<Optional(D("a", "1")), D("b", "1")>>, <<Scoped(D("c", "2"), "test"), D("a", "1")>>,
           <<Scoped(D("a", "1"), "provided"), D("c", "1")>>}
OfA == {<< >>, <<D("c", "1")>>, <<Scoped(D("c", "1"), "runtime")>>, <<D("b", "1"), D("c", "1")>>,
        <<Optional(D("c", "1"))>>, <<Excluding(D("c", "1"), {"b"})>>}
OfB == {<< >>, <<D("c", "2")>>, <<D("a", "1")>>, <<Scoped(D("c", "2"), "runtime"), D("a", "1")>>, <<Scoped(D("c", "1"), "provided")>>}
OfC == {<< >>, <<D("b", "1")>>, <<D("a", "1")>>, <<D("r", "1")>>}
Managements == {<< >>, <<D("c", "2")>>, <<Scoped(D("c", "2"), "provided")>>, <<Excluding(Dependency("c", << >>, << >>), {"a"})>>}

GraphCases ==
    {[call |-> "graph", r |-> r, a |-> a, b |-> b, c |-> c, managed |-> m] :
        r \in OfRoot, a \in OfA, b \in OfB, c \in OfC, m \in Managements}

RepositoryOf(c) ==
    (<<"r", "1">> :> [Pom("r", "1", c.r) EXCEPT !.managed = c.managed]) @@ (<<"a", "1">> :> Pom("a", "1", c.a))
    @@ (<<"b", "1">> :> Pom("b", "1", c.b)) @@ (<<"c", "1">> :> Pom("c", "1", c.c)) @@ (<<"c", "2">> :> Pom("c", "2", << >>))

\* The dependencies of the POM of a node that its consumers inherit.
Inherited(c, node) ==
    LET model == M!Model(RepositoryOf(c), M!PomOf(node.artifact), {}).value
        managed(d) == M!Managed(d, c.managed, TRUE)
    IN  {d \in {managed(d) : d \in ToSet(model.dependencies)} :
            d.optional # <<"true">> /\ d.scope \in {<< >>, <<"compile">>, <<"runtime">>}}

Resolve(c) ==
    LET selected == M!Select(RepositoryOf(c), RootArtifact) IN
    [selected |-> selected, result |-> M!RuntimeDependencies(RepositoryOf(c), RootArtifact),
     inherited |-> IF selected.ok
                   THEN [i \in 1 .. Len(selected.value) |-> Inherited(c, selected.value[i])] ELSE << >>]

-----------------------------------------------------------------------------
(* What the selection must be, told from the nodes and the POMs. *)

IsDirect(n) == n.paths[1][1] = << >>
ParentsOf(n) == {p[1][1] : p \in {p \in ToSet(n.paths) : p[1] # << >>}}

\* Nodes that a chain of runtime edges leads to.
RECURSIVE Needed(_, _)
Needed(nodes, S) ==
    LET more == {i \in 1 .. Len(nodes) : ~IsDirect(nodes[i]) /\ ParentsOf(nodes[i]) \cap S # {}} \ S
    IN  IF more = {} THEN S ELSE Needed(nodes, S \cup more)

\* The dependency that the winning path of node i ends with, and everything
\* that path excludes.
Declared(c, out, i) ==
    LET node == out.selected.value[i]
    IN  CHOOSE d \in IF IsDirect(node) THEN {M!Managed(d, c.managed, FALSE) : d \in ToSet(c.r)}
                     ELSE out.inherited[node.paths[1][1][1]] : d.name = node.artifact.name

RECURSIVE Exclusions(_, _, _)
Exclusions(c, out, i) ==
    LET node == out.selected.value[i]
    IN  Declared(c, out, i).exclusions
          \cup (IF IsDirect(node) THEN {} ELSE Exclusions(c, out, node.paths[1][1][1]))

RECURSIVE DepthOf(_, _)
DepthOf(nodes, i) == IF IsDirect(nodes[i]) THEN 1 ELSE 1 + DepthOf(nodes, nodes[i].paths[1][1][1])

\* One version of each artifact, from a nearest declaration; an edge that
\* counts leads to a node and no other does; on the class path is what a chain
\* of runtime edges needs; and the root's management decides the version.
ClasspathsFor(c, out) ==
    out.selected.ok =>
      LET nodes == out.selected.value
          N == 1 .. Len(nodes)
          roots == {i \in N : IsDirect(nodes[i]) /\ nodes[i].paths[1][2] >= M!RuntimeScope}
      IN  /\ \A i, j \in N : i # j => nodes[i].artifact.name # nodes[j].artifact.name
          /\ \A i \in N : nodes[i].artifact.name # "r"
          /\ \A i \in N : \A p \in ParentsOf(nodes[i]) : DepthOf(nodes, i) <= DepthOf(nodes, p) + 1
          /\ \A i, j \in N :
               (\E d \in out.inherited[i] : d.name = nodes[j].artifact.name /\ ~M!Excluded(Exclusions(c, out, i), d.name))
               <=> i \in ParentsOf(nodes[j])
          /\ \A i \in N : \A d \in out.inherited[i] :
               d.name # "r" /\ ~M!Excluded(Exclusions(c, out, i), d.name) => \E j \in N : nodes[j].artifact.name = d.name
          /\ {a.name : a \in ToSet(out.result.value)} = {nodes[i].artifact.name : i \in Needed(nodes, roots)}
          /\ \A i \in N : nodes[i].artifact.version =
               IF ~IsDirect(nodes[i]) /\ nodes[i].artifact.name = "c" /\ c.managed # << >> /\ c.managed[1].version # << >>
               THEN c.managed[1].version[1] ELSE Declared(c, out, i).version[1]

-----------------------------------------------------------------------------
(* Where the version of a dependency comes from: its declaration, or the
   management of the POM, of an active profile, of the parent, of a BOM. *)

Options(S) == {<< >>} \cup {<<v>> : v \in S}

ModelCases ==
    {[call |-> "model", explicit |-> e, own |-> o, profile |-> f, above |-> p, bom |-> b,
      v |-> v, parentV |-> w, cycle |-> x, environment |-> n] :
        e \in Options({"1"}), o \in Options({"2", "${v}"}), f \in Options({"7"}), p \in Options({"3", "${v}", "project.version"}),
        b \in Options({"4"}), v \in Options({"5", "${w}"}), w \in Options({"6"}), x \in {"none", "parent", "import"}, n \in BOOLEAN}

Entry(option) == IF option = << >> THEN << >> ELSE <<Dependency("a", option, << >>)>>
PropertiesOf(option) == IF option = << >> THEN << >> ELSE ("${v}" :> option[1])
Import(name) == [Dependency(name, <<"1">>, <<"import">>) EXCEPT !.kind = <<"pom">>]
Profile(entry, environment) ==
    [relevant |-> TRUE, default |-> TRUE, environment |-> environment, properties |-> << >>, managed |-> entry, dependencies |-> << >>]

ModelRepository(c) ==
    (<<"r", "1">> :> [Pom("r", "1", <<Dependency("a", c.explicit, << >>)>>) EXCEPT
                        !.parent = <<<<"p", "9">>>>, !.properties = PropertiesOf(c.v), !.managed = Entry(c.own) \o <<Import("m")>>,
                        !.profiles = IF c.profile = << >> THEN << >> ELSE <<Profile(Entry(c.profile), c.environment)>>])
    @@ (<<"p", "9">> :> [Pom("p", "9", << >>) EXCEPT !.properties = PropertiesOf(c.parentV), !.managed = Entry(c.above),
                           !.parent = IF c.cycle = "parent" THEN <<<<"p", "9">>>> ELSE << >>])
    @@ (<<"m", "1">> :> [Pom("m", "1", << >>) EXCEPT !.managed = Entry(c.bom) \o (IF c.cycle = "import" THEN <<Import("r")>> ELSE << >>)])

ReadModel(c) == M!Model(ModelRepository(c), <<"r", "1">>, {})

\* The declaration, then management from the nearest on, with the properties of
\* the POM that is asked for, also in what the parent declares.
Sources(c) == c.explicit \o c.profile \o c.own \o c.above \o c.bom
PropertyV(c) == IF c.v # << >> THEN c.v ELSE c.parentV
Expanded(c, value) ==
    CASE value = "${v}" -> PropertyV(c) [] value = "project.version" -> <<"1">> [] OTHER -> <<value>>

ModelFor(c, out) ==
    IF c.cycle # "none" \/ (c.profile # << >> /\ c.environment) THEN ~out.ok
    ELSE /\ out.ok => out.value.dependencies[1].version =
                         IF Sources(c) = << >> THEN << >> ELSE Expanded(c, Sources(c)[1])
         /\ ("${v}" \notin ToSet(Sources(c)) \/ PropertyV(c) \in {<<"5">>, <<"6">>}) => out.ok
=============================================================================
