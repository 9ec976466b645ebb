----------------------------- MODULE SdkRequests -----------------------------
(***************************************************************************)
(* SDK selectors and version requirements: sdk/request.rs, sdk/product.rs, *)
(* sdk/platform.rs and the version rules of sdk/mod.rs in janex-host.      *)
(*                                                                         *)
(* A selector is the syntax tree of its text: the prefix, the product, an  *)
(* optional version and the qualifiers in order.  A version text is its    *)
(* numbers and an optional build number; no numbers stand for `latest`.  A *)
(* number is [value, zeros, digits]: leading zeros and whether it consists *)
(* of digits at all.                                                       *)
(***************************************************************************)
EXTENDS Integers, Sequences, SequencesExt

CONSTANTS Products,   \* id -> [family, variants, specific], the default variant first
          Aliases,    \* tool name -> id
          Arches,     \* alias -> normalized architecture
          HostLibc,   \* the libc of Linux targets
          NumberMax   \* u32::MAX

Fail == [ok |-> FALSE]
Ok(value) == [ok |-> TRUE, value |-> value]

NoText == ""
Latest == [numbers |-> << >>, build |-> << >>]
Values(numbers) == [i \in DOMAIN numbers |-> numbers[i].value]

-----------------------------------------------------------------------------
(* Versions. *)

NumberFails(n) == ~n.digits \/ n.value > NumberMax

\* numeric_version: up to five numbers from Java 8 on.
NumericFails(v) ==
    \/ v.numbers = << >> \/ Len(v.numbers) > 5
    \/ \E n \in ToSet(v.numbers \o v.build) : NumberFails(n)
    \/ v.numbers[1].value < 8

\* tool_version: one to three canonical numbers.
ToolFails(v) ==
    \/ v.numbers = << >> \/ Len(v.numbers) > 3 \/ v.build # << >>
    \/ \E n \in ToSet(v.numbers) : NumberFails(n) \/ n.zeros > 0
    \/ v.numbers[1].value = 0

Component(v, i) == IF i <= Len(v.numbers) THEN v.numbers[i].value ELSE 0

\* Faulty variant: the numbers that the request leaves out do not count.
JavaMatchesPrefix(wanted, actual) ==
    /\ ~NumericFails(actual)
    /\ wanted = Latest \/ (~NumericFails(wanted) /\ \A i \in DOMAIN wanted.numbers :
                                Component(wanted, i) = Component(actual, i))

\* java_matches: one number selects a series, more numbers one release, with any build
\* unless the request has one.
JavaMatches(wanted, actual) ==
    /\ ~NumericFails(actual)
    /\ \/ wanted = Latest
       \/ /\ ~NumericFails(wanted)
          /\ IF Len(wanted.numbers) = 1 /\ wanted.build = << >>
             THEN Component(actual, 1) = Component(wanted, 1)
             ELSE /\ \A i \in DOMAIN (wanted.numbers \o actual.numbers) :
                        Component(wanted, i) = Component(actual, i)
                  /\ wanted.build = << >> \/ Values(actual.build) = Values(wanted.build)

ToolMatches(wanted, actual) ==
    /\ ~ToolFails(actual)
    /\ \/ wanted = Latest
       \/ /\ ~ToolFails(wanted)
          /\ IF Len(wanted.numbers) < 3
             THEN IsPrefix(Values(wanted.numbers), Values(actual.numbers))
             ELSE Values(actual.numbers) = Values(wanted.numbers)

\* The order of Vec<u32>: -1, 0 or 1.
Lexicographic(a, b) ==
    LET differ == {i \in DOMAIN a : i \notin DOMAIN b \/ (i \in DOMAIN b /\ a[i] # b[i])}
        first == CHOOSE i \in differ : \A j \in differ : i <= j
    IN  IF differ = {} THEN (IF Len(a) < Len(b) THEN -1 ELSE 0)
        ELSE IF first \in DOMAIN b /\ a[first] < b[first] THEN -1 ELSE 1

\* version_order: missing numbers and a missing build are zero.
OrderKey(v) ==
    [i \in 1 .. 5 |-> Component(v, i)] \o (IF v.build = << >> THEN <<0>> ELSE Values(v.build))

Family(request) == Products[request.product].family

\* matches and compare.
Matches(request, version) ==
    IF Family(request) = "java" THEN JavaMatches(request.version, version)
    ELSE ToolMatches(request.version, version)

Compare(request, other) ==
    IF Family(request) = "java" THEN Lexicographic(OrderKey(request.version), OrderKey(other.version))
    ELSE Lexicographic(Values(request.version.numbers), Values(other.version.numbers))

Accepts(request, actual) ==
    /\ request.product = actual.product /\ request.variant = actual.variant
    /\ request.platform = actual.platform
    /\ Matches(request, actual.version)

-----------------------------------------------------------------------------
(* Platforms and selectors. *)

DefaultLibc(os) == IF os = "linux" THEN HostLibc ELSE "native"

KnownArches == {"x86", "x86-64", "aarch64", "arm", "ppc64le", "s390x", "riscv64"}

PlatformFails(p) ==
    \/ p.os \notin {"windows", "linux", "macos", "freebsd"}
    \/ p.arch \notin KnownArches
    \/ IF p.os = "linux" THEN p.libc \notin {"glibc", "musl"} ELSE p.libc # "native"

PlatformKey(p) == IF p.os = "linux" THEN <<p.os, p.arch, p.libc>> ELSE <<p.os, p.arch>>

DefaultKey(request) ==
    <<Family(request)>> \o (IF request.platform = << >> THEN << >> ELSE PlatformKey(request.platform[1]))

\* product: an id or the name of a tool.
ProductId(id) == IF id \in DOMAIN Aliases THEN Aliases[id] ELSE id

NormalizeArch(arch) == IF arch \in DOMAIN Arches THEN Arches[arch] ELSE arch

\* The tables of product.rs and platform.rs: no name of a tool is the id of another
\* product, variants have names, and the names of architectures are their own.
TablesAgree ==
    /\ \A id \in DOMAIN Products \cap DOMAIN Aliases : Aliases[id] = id
    /\ \A id \in DOMAIN Products : NoText \notin ToSet(Products[id].variants)
    /\ \A a \in KnownArches \cap DOMAIN Arches : Arches[a] = a

\* split_selector.
QualifiersFail(qualifiers) ==
    \/ \E q \in ToSet(qualifiers) : q[1] \notin {"variant", "os", "arch", "libc"} \/ q[2] = NoText
    \/ \E i, j \in DOMAIN qualifiers : i < j /\ qualifiers[i][1] = qualifiers[j][1]

\* validate.
RequestFails(r) ==
    \/ r.variant \notin ToSet(Products[r.product].variants)
    \/ (r.platform # << >>) # Products[r.product].specific
    \/ \E p \in ToSet(r.platform) : PlatformFails(p)
    \/ /\ r.version # Latest
       /\ IF Family(r) = "java" THEN NumericFails(r.version) ELSE ToolFails(r.version)

\* The value of a qualifier, if it is given; a repeated one is refused.
Qualifier(selector, key, default) ==
    LET given == {q \in ToSet(selector.qualifiers) : q[1] = key}
    IN  IF given = {} THEN default ELSE (CHOOSE q \in given : TRUE)[2]

\* Faulty variant: a libc of the host is kept for a foreign operating system.
TargetedKeepingLibc(selector, host) ==
    [os |-> Qualifier(selector, "os", host.os),
     arch |-> NormalizeArch(Qualifier(selector, "arch", host.arch)),
     libc |-> Qualifier(selector, "libc", host.libc)]

\* The host's platform as far as no qualifier replaces it; another operating system brings
\* its own libc.
Targeted(selector, host) ==
    LET os == Qualifier(selector, "os", NoText)
        libc == IF os = NoText THEN host.libc ELSE DefaultLibc(os)
    IN  [os |-> Qualifier(selector, "os", host.os),
         arch |-> NormalizeArch(Qualifier(selector, "arch", host.arch)),
         libc |-> Qualifier(selector, "libc", libc)]

\* SdkRequest::parse on a host.
Parse(selector, host) ==
    LET id == ProductId(selector.id)
        product == Products[id]
        request == [product |-> id,
                    version |-> IF selector.version = << >> THEN Latest ELSE selector.version[1],
                    variant |-> Qualifier(selector, "variant", product.variants[1]),
                    platform |-> IF product.specific THEN <<Targeted(selector, host)>> ELSE << >>]
    IN  IF selector.prefix # "sdk" \/ QualifiersFail(selector.qualifiers) \/ id \notin DOMAIN Products
        THEN Fail
        ELSE IF ~product.specific /\ \E q \in ToSet(selector.qualifiers) : q[1] # "variant" THEN Fail
        ELSE IF RequestFails(request) THEN Fail ELSE Ok(request)

\* target: the selector that says everything.
Target(r) ==
    [prefix |-> "sdk", id |-> r.product, version |-> <<r.version>>,
     qualifiers |-> <<<<"variant", r.variant>>>> \o
        (IF r.platform = << >> THEN << >>
         ELSE <<<<"os", r.platform[1].os>>, <<"arch", r.platform[1].arch>>, <<"libc", r.platform[1].libc>>>>)]
=============================================================================
