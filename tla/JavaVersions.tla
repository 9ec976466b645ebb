---------------------------- MODULE JavaVersions ----------------------------
(***************************************************************************)
(* Java versions, the vers:jep322 ranges over them, and the conditions that *)
(* select layers and launch alternatives: version.rs and condition.rs.      *)
(* A decimal is [zeros, value]: its superfluous leading zeros, its value. A *)
(* pre-release identifier is a sequence of characters, the digits being     *)
(* 0 .. 9. Absent parts are the empty sequence, present ones <<part>>.      *)
(***************************************************************************)
EXTENDS Integers, Sequences, FiniteSets, SequencesExt

CONSTANT IntMax   \* i32::MAX in the code

Fail(kind) == [ok |-> FALSE, kind |-> kind]
Ok(value) == [ok |-> TRUE, value |-> value]

IsDigit(c) == c \in 0 .. 9

Numeric(text) == text # << >> /\ \A i \in 1 .. Len(text) : IsDigit(text[i])

DecimalFails(d) == d.zeros > 0 \/ d.value > IntMax

\* trim_start_matches('0'), an identifier of zeros only being 0.
TrimZeros(text) ==
    LET significant == {i \in 1 .. Len(text) : text[i] # 0}
    IN  IF significant = {} THEN <<0>>
        ELSE SubSeq(text, CHOOSE i \in significant : \A j \in significant : i <= j, Len(text))

\* Numbers without their trailing zeros, the first one kept.
Trimmed(numbers) ==
    LET kept == {i \in 1 .. Len(numbers) : i = 1 \/ numbers[i] # 0}
    IN  SubSeq(numbers, 1, CHOOSE i \in kept : \A j \in kept : j <= i)

\* What follows the numbers: -pre, then -optional or a build with its own
\* optional text. In optional text only its presence matters.
SuffixFails(v) ==
    \/ v.pre = <<<< >>>>
    \/ \E b \in ToSet(v.build) :
          \/ v.optional # << >>
          \/ b.number = << >> /\ (v.pre # << >> \/ b.optional = << >>)
          \/ b.number # << >> /\ DecimalFails(b.number[1])

\* parse of a version that is no alias.
ParseNumbers(v) ==
    LET numbers == [i \in 1 .. Len(v.numbers) |-> v.numbers[i].value]
    IN  IF \/ \E i \in 1 .. Len(v.numbers) : DecimalFails(v.numbers[i])
           \/ numbers[1] < 8 \/ SuffixFails(v)
        THEN Fail("Invalid")
        ELSE [ok |-> TRUE,
              canonical |-> Len(numbers) = 1 \/ Last(numbers) # 0,
              value |-> [numbers |-> Trimmed(numbers),
                         pre |-> [i \in 1 .. Len(v.pre) |->
                                    IF Numeric(v.pre[i]) THEN TrimZeros(v.pre[i]) ELSE v.pre[i]]]]

Decimal(n) == [zeros |-> 0, value |-> n]

\* The two Java 8 aliases expand to 8.0.update, or to 8 without an update.
Expanded(v) ==
    [alias |-> "none",
     numbers |-> <<Decimal(8)>> \o (IF v.numbers = << >> THEN << >> ELSE <<Decimal(0), v.numbers[1]>>),
     pre |-> v.pre, optional |-> << >>, build |-> << >>]

\* parse: 8u<update>, 1.8.0[_<update>][-b<build> | -<pre>], or numbers. A
\* build is only recognised after an update.
Parse(v) ==
    IF v.alias = "none" THEN ParseNumbers(v)
    ELSE IF \/ \E d \in ToSet(v.numbers) : DecimalFails(d)
            \/ \E b \in ToSet(v.build) : DecimalFails(b.number[1])
            \/ v.pre = <<<< >>>>
         THEN Fail("Invalid")
    ELSE LET parsed == ParseNumbers(Expanded(v))
         IN  IF parsed.ok THEN [parsed EXCEPT !.canonical = TRUE] ELSE parsed

-----------------------------------------------------------------------------
(* Ord for JavaVersion: -1, 0 or 1. *)

Sign(n) == IF n < 0 THEN -1 ELSE IF n = 0 THEN 0 ELSE 1

\* The order of the first difference of two sequences of the same length.
FirstDifference(a, b) ==
    LET differs == {i \in 1 .. Len(a) : a[i] # b[i]}
    IN  IF differs = {} THEN 0
        ELSE LET i == CHOOSE i \in differs : \A j \in differs : i <= j IN Sign(a[i] - b[i])

Padded(s, length) == [i \in 1 .. length |-> IF i <= Len(s) THEN s[i] ELSE 0]

CompareNumbers(a, b) ==
    LET length == IF Len(a) > Len(b) THEN Len(a) ELSE Len(b)
    IN  FirstDifference(Padded(a, length), Padded(b, length))

\* str::cmp: a proper prefix comes first.
CompareText(a, b) ==
    LET length == IF Len(a) < Len(b) THEN Len(a) ELSE Len(b)
        difference == FirstDifference(SubSeq(a, 1, length), SubSeq(b, 1, length))
    IN  IF difference # 0 THEN difference ELSE Sign(Len(a) - Len(b))

\* Faulty variant: numeric identifiers are compared as text.
ComparePreAsText(a, b) ==
    IF a = << >> \/ b = << >> THEN Sign(Len(b) - Len(a)) ELSE CompareText(a[1], b[1])

ComparePre(a, b) ==
    IF a = << >> \/ b = << >> THEN Sign(Len(b) - Len(a))
    ELSE IF Numeric(a[1]) # Numeric(b[1]) THEN IF Numeric(a[1]) THEN -1 ELSE 1
    ELSE IF Numeric(a[1]) /\ Len(a[1]) # Len(b[1]) THEN Sign(Len(a[1]) - Len(b[1]))
    ELSE CompareText(a[1], b[1])

Compare(a, b) ==
    LET numbers == CompareNumbers(a.numbers, b.numbers)
    IN  IF numbers # 0 THEN numbers ELSE ComparePre(a.pre, b.pre)

-----------------------------------------------------------------------------
(* JavaRange: comparators on increasing versions; none stands for `*'. *)

Comparators == {"=", "!=", ">", ">=", "<", "<="}
Greater(c) == c \in {">", ">="}
Lesser(c) == c \in {"<", "<="}

\* The last element of s before i whose comparator is in C, as a set.
LastBefore(s, i, C) ==
    LET found == {j \in 1 .. (i - 1) : s[j].comparator \in C}
    IN  {s[j].comparator : j \in {k \in found : \A l \in found : l <= k}}

Boundaries == {">", ">=", "<", "<="}

\* Faulty variant: an equality may be followed by an upper bound.
TimelineFailsLoosely(s, i) ==
    \/ i > 1 /\ Compare(s[i - 1].version, s[i].version) >= 0
    \/ /\ s[i].comparator \in Boundaries
       /\ \E c \in LastBefore(s, i, Boundaries) : Greater(c) = Greater(s[i].comparator)

\* The constraint i of a timeline does not fit the ones before it.
TimelineFails(s, i) ==
    \/ i > 1 /\ Compare(s[i - 1].version, s[i].version) >= 0
    \/ Lesser(s[i].comparator) /\ LastBefore(s, i, Comparators \ {"!="}) = {"="}
    \/ /\ s[i].comparator \in Boundaries
       /\ \E c \in LastBefore(s, i, Boundaries) : Greater(c) = Greater(s[i].comparator)

\* parse of items [comparator, written]: every version parses, is canonical
\* and fits the timeline.
ParseRange(items) ==
    LET parsed == [i \in 1 .. Len(items) |-> Parse(items[i].written)]
        constraints == [i \in 1 .. Len(items) |->
                          [comparator |-> items[i].comparator, version |-> parsed[i].value]]
    IN  IF \E i \in 1 .. Len(items) : ~parsed[i].ok THEN Fail("Invalid")
        ELSE IF \E i \in 1 .. Len(items) : ~parsed[i].canonical \/ TimelineFails(constraints, i)
        THEN Fail("Invalid")
        ELSE Ok(constraints)

\* One turn of the loop of contains: an equal version decides, a later one ends it.
ScanStep(state, constraint, candidate) ==
    LET c == constraint.comparator
        order == Compare(candidate, constraint.version)
    IN  IF state.done THEN state
        ELSE IF order < 0 THEN [state EXCEPT !.done = TRUE]
        ELSE IF order = 0 THEN [done |-> TRUE, included |-> c \in {"=", ">=", "<="}]
        ELSE [state EXCEPT !.included = IF Greater(c) THEN TRUE
                                        ELSE IF Lesser(c) THEN FALSE ELSE @]

RangeContains(constraints, candidate) ==
    LET meaningful == {i \in 1 .. Len(constraints) : constraints[i].comparator # "!="}
        first == CHOOSE i \in meaningful : \A j \in meaningful : i <= j
        state[n \in 0 .. Len(constraints)] ==
            IF n = 0 THEN [done |-> FALSE,
                           included |-> meaningful = {} \/ Lesser(constraints[first].comparator)]
            ELSE ScanStep(state[n - 1], constraints[n], candidate)
    IN  constraints = << >> \/ state[Len(constraints)].included

-----------------------------------------------------------------------------
(* Condition: selectors of os, arch and invocation as options of name sets,
   and of the runtime as an option of [type, range, vendor]. *)

\* from_value: reserved keys, empty selectors and a bad Java range are errors,
\* also for a condition that will not match.
ConditionOf(c) ==
    LET range == IF c.runtime = << >> \/ c.runtime[1].type # "janex.java" \/ c.runtime[1].range = << >>
                 THEN Ok(<< >>) ELSE ParseRange(c.runtime[1].range[1])
    IN  IF \/ c.reserved
           \/ \E k \in DOMAIN c.selectors : c.selectors[k] = {}
           \/ ~range.ok
        THEN Fail("Invalid")
        ELSE Ok([selectors |-> c.selectors, runtime |-> c.runtime, java_range |-> range.value])

Invocations == {"run", "open", "command"}

SelectorMatches(c, k, context) ==
    /\ context.names[k] # << >>
    /\ k = "invocation" => context.names[k][1] \in Invocations
    /\ context.names[k][1] \in c.selectors[k]

\* matches: the value of the result is whether the condition holds.
Matches(c, context) ==
    IF \E k \in DOMAIN c.selectors : ~SelectorMatches(c, k, context) THEN Ok(FALSE)
    ELSE IF c.runtime = << >> THEN Ok(TRUE)
    ELSE IF context.runtime = << >> THEN Ok(FALSE)
    ELSE LET wanted == c.runtime[1]
             actual == context.runtime[1]
         IN  CASE wanted.type # actual.type -> Ok(FALSE)
               [] wanted.type = actual.type /\ actual.type # "janex.java" -> Fail("Unsupported")
               [] OTHER ->
                    IF wanted.range # << >> /\ actual.version = << >> THEN Fail("Invalid")
                    ELSE Ok(/\ wanted.range # << >> => RangeContains(c.java_range, actual.version[1])
                            /\ wanted.vendor # << >> => wanted.vendor[1] = actual.vendor)
=============================================================================
