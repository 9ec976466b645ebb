----------------------------- MODULE AppRequests -----------------------------
(***************************************************************************)
(* Application targets, janex-host/src/app/request.rs: Package URLs and    *)
(* Maven shorthands with local options, their canonical form and what the  *)
(* registry stores of them.                                                *)
(*                                                                         *)
(* A target is the syntax tree of its text.  A component [value, escape]   *)
(* is written "plain", with "escaped" characters or with a "broken"        *)
(* escape; a qualifier is a key and a component, an option a key and a     *)
(* value.  What characters a name consists of is told by the constants.    *)
(***************************************************************************)
EXTENDS Integers, Sequences, SequencesExt

CONSTANTS Components,    \* texts that are Maven coordinate components
          Releases,      \* those of them that are exact releases
          Reserved,      \* those of them with characters that are escaped
          Commands,      \* texts that are command names
          Keys,          \* texts that are qualifier keys
          MainClasses,   \* texts that are class names
          Lower,         \* Lower[t]: a text in lower case
          Repositories,  \* Repositories[t]: the normalized URL of an accepted one
          Central        \* Maven Central

Fail == [ok |-> FALSE]
Ok(value) == [ok |-> TRUE, value |-> value]

DefaultJar == [main |-> << >>, dependencies |-> "maven"]

\* decode and encode of one component.
DecodeFails(component) == component.escape = "broken"
Encode(value) == [value |-> value, escape |-> IF value \in Reserved THEN "escaped" ELSE "plain"]

\* insert_qualifier: keys are compared in lower case.
InsertQualifier(r, key, value) ==
    IF ~r.ok \/ key \notin Keys THEN Fail
    ELSE IF Lower[key] \in DOMAIN r.value THEN Fail
    ELSE Ok([k \in DOMAIN r.value \cup {Lower[key]} |-> IF k = Lower[key] THEN value ELSE r.value[k]])

NoQualifiers == Ok([k \in {} |-> ""])

\* query_qualifiers: empty values are left out.
QueryQualifiers(query) ==
    FoldLeft(LAMBDA r, q : IF q[2].value = "" THEN r
                           ELSE IF DecodeFails(q[2]) THEN Fail
                           ELSE InsertQualifier(r, q[1], q[2].value),
             NoQualifiers, query)

-----------------------------------------------------------------------------
(* The canonical Package URL. *)

\* AppRequest::encode: defaults are omitted, keys are in order.
PurlOf(r) ==
    [form |-> "pkg", type |-> "maven", group |-> Encode(r.group), artifact |-> Encode(r.artifact),
     version |-> [i \in DOMAIN r.version |-> Encode(r.version[i])], subpath |-> FALSE,
     query |-> [i \in DOMAIN r.classifier |-> <<"classifier", Encode(r.classifier[i])>>]
               \o (IF r.repository = Central THEN << >> ELSE <<<<"repository_url", Encode(r.repository)>>>>)
               \o (IF r.kind = "jar" THEN << >> ELSE <<<<"type", Encode(r.kind)>>>>)]

\* from_parts.  A qualifier that is no coordinate is refused.
FromParts(group, artifact, version, qualifiers, command, defaultRepository) ==
    LET Get(key) == IF key \in DOMAIN qualifiers THEN <<qualifiers[key]>> ELSE << >>
        OrElse(option, default) == IF option = << >> THEN default ELSE option[1]
        kind == OrElse(Get("type"), "jar")
        url == OrElse(Get("repository_url"), defaultRepository)
        name == OrElse(command, Lower[artifact])
    IN  IF \/ ~(ToSet(Get("classifier")) \cup {group, artifact} \subseteq Components)
           \/ ~(ToSet(version) \subseteq Releases)
           \/ kind \notin {"jar", "janex"}
           \/ url \notin DOMAIN Repositories
           \/ ~(DOMAIN qualifiers \subseteq {"classifier", "type", "repository_url"})
           \/ name \notin Commands
        THEN Fail
        ELSE Ok([group |-> group, artifact |-> artifact, version |-> version,
                 classifier |-> Get("classifier"), kind |-> kind,
                 repository |-> Repositories[url], command |-> name, jar |-> DefaultJar])

\* from_purl: an empty version is no version, subpaths and other types are refused.
FromPurl(purl, command, defaultRepository) ==
    LET version == SelectSeq(purl.version, LAMBDA v : v.value # "")
        qualifiers == QueryQualifiers(purl.query)
    IN  IF \/ purl.subpath \/ Lower[purl.type] # "maven" \/ ~qualifiers.ok
           \/ \E c \in {purl.group, purl.artifact} \cup ToSet(version) : DecodeFails(c)
        THEN Fail
        ELSE FromParts(purl.group.value, purl.artifact.value,
                       [i \in DOMAIN version |-> version[i].value],
                       qualifiers.value, command, defaultRepository)

\* validate: what the local options of a request may say.
Invalid(r) ==
    \/ r.command \notin Commands
    \/ r.kind # "jar" /\ r.jar # DefaultJar
    \/ ~(ToSet(r.jar.main) \subseteq MainClasses)

-----------------------------------------------------------------------------
(* Targets with options. *)

Local == {"command", "main-class", "dependencies"}

\* The loop over the options: local ones apart from qualifiers.
ReadOption(r, option) ==
    LET key == option[1]
        value == option[2]
        qualifiers == InsertQualifier(Ok(r.value.qualifiers),
                                      IF key = "repository" THEN "repository_url" ELSE key, value)
    IN  IF ~r.ok \/ value = "" THEN Fail
        ELSE IF key \notin Local
        THEN IF qualifiers.ok THEN Ok([r.value EXCEPT !.qualifiers = qualifiers.value]) ELSE Fail
        ELSE IF key \in r.value.seen \/ (key = "dependencies" /\ value \notin {"maven", "none"}) THEN Fail
        ELSE LET seen == [r.value EXCEPT !.seen = @ \cup {key}]
             IN  CASE key = "command"    -> Ok([seen EXCEPT !.command = <<value>>])
                   [] key = "main-class" -> Ok([seen EXCEPT !.jar.main = <<value>>])
                   [] OTHER              -> Ok([seen EXCEPT !.jar.dependencies = value])

ReadOptions(options) ==
    FoldLeft(ReadOption, Ok([command |-> << >>, jar |-> DefaultJar,
                             qualifiers |-> NoQualifiers.value, seen |-> {}]), options)

\* The shorthand: its options may repeat no qualifier of its query.
FromShorthand(target, read, defaultRepository) ==
    LET query == QueryQualifiers(target.query)
    IN  IF \/ ~query.ok
           \/ \E c \in {target.group, target.artifact} \cup ToSet(target.version) : DecodeFails(c)
           \/ DOMAIN query.value \cap DOMAIN read.qualifiers # {}
        THEN Fail
        ELSE FromParts(target.group.value, target.artifact.value,
                       [i \in DOMAIN target.version |-> target.version[i].value],
                       [k \in DOMAIN query.value \cup DOMAIN read.qualifiers |->
                           IF k \in DOMAIN query.value THEN query.value[k] ELSE read.qualifiers[k]],
                       read.command, defaultRepository)

\* parse_with_repository.
Parse(target, defaultRepository) ==
    LET read == ReadOptions(target.options)
        parsed == IF target.form = "pkg" THEN FromPurl(target, read.value.command, defaultRepository)
                  ELSE FromShorthand(target, read.value, defaultRepository)
        request == [parsed.value EXCEPT !.jar = read.value.jar]
    IN  IF ~read.ok \/ target.form = "other" THEN Fail
        ELSE IF target.form = "pkg" /\ DOMAIN read.value.qualifiers # {} THEN Fail
        ELSE IF ~parsed.ok THEN Fail
        ELSE IF Invalid(request) THEN Fail ELSE Ok(request)

Extended(purl, options) ==
    [field \in DOMAIN purl \cup {"options"} |-> IF field = "options" THEN options ELSE purl[field]]

\* Faulty variant: the dependency mode is left out.
TargetWithoutMode(r) ==
    Extended(PurlOf(r),
        (IF r.command = Lower[r.artifact] THEN << >> ELSE <<<<"command", r.command>>>>)
        \o [i \in DOMAIN r.jar.main |-> <<"main-class", r.jar.main[i]>>])

\* target: the Package URL and the options that are not defaults.
Target(r) ==
    Extended(PurlOf(r),
        (IF r.command = Lower[r.artifact] THEN << >> ELSE <<<<"command", r.command>>>>)
        \o [i \in DOMAIN r.jar.main |-> <<"main-class", r.jar.main[i]>>]
        \o (IF r.jar.dependencies = "none" THEN <<<<"dependencies", "none">>>> ELSE << >>))

-----------------------------------------------------------------------------
(* What the registry stores. *)

Serialize(r) == [purl |-> PurlOf(r), command |-> r.command, jar |-> r.jar]

Deserialize(stored) ==
    LET parsed == FromPurl(stored.purl, <<stored.command>>, Central)
        request == [parsed.value EXCEPT !.jar = stored.jar]
    IN  IF ~parsed.ok THEN Fail ELSE IF Invalid(request) THEN Fail ELSE Ok(request)

Exact(r, version) == IF version \in Releases THEN Ok([r EXCEPT !.version = <<version>>]) ELSE Fail
=============================================================================
