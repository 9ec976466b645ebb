------------------------------ MODULE Encoding ------------------------------
(***************************************************************************)
(* binary.rs and cbor.rs: the bounded decoder, ULEB128 numbers and the      *)
(* deterministic CBOR items that metadata is kept in, on scaled-down bytes. *)
(*                                                                          *)
(* A byte has Base values, a CBOR argument below Direct is in its header    *)
(* and the longer ones have the lengths of Widths (256, 24 and 1, 2, 4, 8   *)
(* in the code). A ULEB128 byte carries one of Group values, and a number   *)
(* has at most Groups of them, the last one below LastGroup (128, 10, 2).   *)
(***************************************************************************)
EXTENDS Integers, Sequences, FiniteSets, SequencesExt

CONSTANTS Base, Direct, Widths, Group, Groups, LastGroup, MaxBytes, MaxElements, MaxDepth

Fail(kind) == [ok |-> FALSE, kind |-> kind]
Ok(value) == [ok |-> TRUE, value |-> value]

\* A successful read: what it returns and where the next one starts.
At(value, next) == [ok |-> TRUE, value |-> value, next |-> next]

Take(input, position, length) ==
    IF position + length - 1 > Len(input) THEN Fail("Truncated")
    ELSE At(SubSeq(input, position, position + length - 1), position + length)

-----------------------------------------------------------------------------
(* ULEB128: a byte above Group has a successor. *)

\* Zero padding is accepted within the limit of Groups bytes.
Vuint(input, position) ==
    LET last == {n \in 1 .. Groups : position + n - 1 > Len(input) \/ input[position + n - 1] < Group}
        length == CHOOSE n \in last : \A k \in last : n <= k
        digits == [i \in 1 .. length |-> input[position + i - 1] % Group]
        exceeds == position + Groups - 1 <= Len(input) /\ input[position + Groups - 1] >= LastGroup
    IN  IF last = {} THEN Fail("Invalid")
        ELSE IF position + length - 1 > Len(input) THEN Fail("Truncated")
        ELSE IF length = Groups /\ exceeds THEN Fail("Invalid")
        ELSE At(FoldRight(LAMBDA d, n : n * Group + d, digits, 0), position + length)

\* write_vuint: the shortest form.
WriteVuint(n) ==
    LET length == CHOOSE k \in 1 .. (Groups + 1) : n < Group ^ k /\ (k = 1 \/ n >= Group ^ (k - 1))
    IN  [i \in 1 .. length |-> ((n \div (Group ^ (i - 1))) % Group) + (IF i = length THEN 0 ELSE Group)]

Sized(input, position) ==
    LET n == Vuint(input, position)
    IN  IF ~n.ok THEN n
        ELSE IF n.value > MaxBytes THEN Fail("Limit") ELSE Take(input, n.next, n.value)

WriteSized(bytes) == WriteVuint(Len(bytes)) \o bytes

-----------------------------------------------------------------------------
(* CBOR headers: a major type and the additional information. *)

Header(major, additional) == 1000 + 100 * major + additional
Major(cell) == (cell - 1000) \div 100
Additional(cell) == (cell - 1000) % 100
IsHeader(cell) == cell >= 1000

Number(bytes) == FoldLeft(LAMBDA n, b : n * Base + b, 0, bytes)
Digits(n, length) == [i \in 1 .. length |-> (n \div (Base ^ (length - i))) % Base]

Minimum(k) == IF k = 1 THEN Direct ELSE Base ^ Widths[k - 1]

\* Faulty variant: a longer argument may hold a small number.
ArgumentOfAnyWidth(input, position, additional) ==
    LET k == additional - Direct + 1
        bytes == Take(input, position, Widths[k])
    IN  IF additional < Direct THEN At(additional, position)
        ELSE IF k > Len(Widths) THEN Fail("Invalid")
        ELSE IF ~bytes.ok THEN bytes
        ELSE At(Number(bytes.value), bytes.next)

\* argument: the preferred width only.
Argument(input, position, additional) ==
    LET k == additional - Direct + 1
        bytes == Take(input, position, Widths[k])
    IN  IF additional < Direct THEN At(additional, position)
        ELSE IF k > Len(Widths) THEN Fail("Invalid")
        ELSE IF ~bytes.ok THEN bytes
        ELSE IF Number(bytes.value) < Minimum(k) THEN Fail("Invalid")
        ELSE At(Number(bytes.value), bytes.next)

\* A header with its argument in the shortest form.
WriteHeader(major, n) ==
    LET k == CHOOSE k \in 1 .. Len(Widths) : n < Base ^ Widths[k] /\ n >= Minimum(k)
    IN  IF n < Direct THEN <<Header(major, n)>>
        ELSE <<Header(major, Direct + k - 1)>> \o Digits(n, Widths[k])

\* Floats are one cell after their header, named by the width they need.
Half == 901
Single == 902
Double == 903
Nan == 904

BadText == 5   \* a byte that is not UTF-8

\* scan_simple: simple values, and floats of the preferred width.
ScanSimple(input, position, additional) ==
    LET cell == Take(input, position, 1)
        k == additional - Direct
        valid == CASE k = 0 -> ~IsHeader(cell.value[1]) /\ cell.value[1] \in Direct .. (Base - 1)
                   [] k = 1 -> cell.value[1] \in {Half, Nan}
                   [] k = 2 -> cell.value[1] = Single
                   [] k = 3 -> cell.value[1] = Double
                   [] OTHER -> FALSE
    IN  IF additional < Direct THEN At([simple |-> additional], position)
        ELSE IF ~cell.ok THEN cell
        ELSE IF valid THEN At([special |-> cell.value[1]], cell.next) ELSE Fail("Invalid")

LexLess(a, b) ==
    \/ \E i \in 1 .. Len(a) : i <= Len(b) /\ SubSeq(a, 1, i - 1) = SubSeq(b, 1, i - 1) /\ a[i] < b[i]
    \/ Len(a) < Len(b) /\ a = SubSeq(b, 1, Len(a))

RECURSIVE Scan(_, _, _)
RECURSIVE ScanItems(_, _, _, _)
RECURSIVE ScanPairs(_, _, _, _, _)

\* scan checks an item and its children; the value is what the accessors read.
Scan(input, position, depth) ==
    LET first == Take(input, position, 1)
        major == Major(first.value[1])
        n == Argument(input, first.next, Additional(first.value[1]))
        content == Take(input, n.next, n.value)
        items == ScanItems(input, n.next, depth + 1, n.value)
        pairs == ScanPairs(input, n.next, depth + 1, n.value, << >>)
        inner == Scan(input, n.next, depth + 1)
    IN  IF depth > MaxDepth THEN Fail("Limit")
        ELSE IF ~first.ok THEN first
        ELSE IF ~IsHeader(first.value[1]) THEN Fail("Invalid")
        ELSE IF major = 7 THEN ScanSimple(input, first.next, Additional(first.value[1]))
        ELSE IF ~n.ok THEN n
        ELSE IF major = 0 THEN At([unsigned |-> n.value], n.next)
        ELSE IF major = 1 THEN At([negative |-> n.value], n.next)
        ELSE IF major \in {2, 3}
        THEN IF n.value > MaxBytes THEN Fail("Limit")
             ELSE IF ~content.ok THEN content
             ELSE IF major = 2 THEN At([bytes |-> content.value], content.next)
             ELSE IF BadText \in ToSet(content.value) THEN Fail("Invalid")
             ELSE At([text |-> content.value], content.next)
        ELSE IF major \in {4, 5} /\ n.value > MaxElements THEN Fail("Limit")
        ELSE IF major = 4 THEN IF items.ok THEN At([array |-> items.value], items.next) ELSE items
        ELSE IF major = 5 THEN IF pairs.ok THEN At([map |-> pairs.value], pairs.next) ELSE pairs
        ELSE IF inner.ok THEN At([tag |-> n.value, inner |-> inner.value], inner.next) ELSE inner

ScanItems(input, position, depth, count) ==
    LET one == Scan(input, position, depth)
        others == ScanItems(input, one.next, depth, count - 1)
    IN  IF count = 0 THEN At(<< >>, position)
        ELSE IF ~one.ok THEN one
        ELSE IF ~others.ok THEN others
        ELSE At(<<one.value>> \o others.value, others.next)

\* The encoded keys of a map increase.
ScanPairs(input, position, depth, count, previous) ==
    LET key == Scan(input, position, depth)
        encoded == SubSeq(input, position, key.next - 1)
        item == Scan(input, key.next, depth)
        others == ScanPairs(input, item.next, depth, count - 1, encoded)
    IN  IF count = 0 THEN At(<< >>, position)
        ELSE IF ~key.ok THEN key
        ELSE IF ~LexLess(previous, encoded) THEN Fail("Invalid")
        ELSE IF ~item.ok THEN item
        ELSE IF ~others.ok THEN others
        ELSE At(<<<<key.value, item.value>>>> \o others.value, others.next)

\* from_bytes: one item and nothing after it.
FromBytes(bytes) ==
    LET item == Scan(bytes, 1, 0)
    IN  IF Len(bytes) > MaxBytes THEN Fail("Limit")
        ELSE IF ~item.ok THEN item
        ELSE IF item.next # Len(bytes) + 1 THEN Fail("Trailing") ELSE Ok(item.value)

-----------------------------------------------------------------------------
(* The constructors of Value, as the encoding of what the accessors read. *)

EncodeMap(entries) ==
    LET sorted == SortSeq(entries, LAMBDA a, b : LexLess(a[1], b[1]))
    IN  IF \E i \in 2 .. Len(sorted) : sorted[i - 1][1] = sorted[i][1] THEN Fail("Invalid")
        ELSE Ok(WriteHeader(5, Len(sorted))
                \o FlattenSeq([i \in 1 .. Len(sorted) |-> sorted[i][1] \o sorted[i][2]]))

RECURSIVE EncodeValue(_)
EncodeValue(v) ==
    CASE DOMAIN v = {"unsigned"} -> WriteHeader(0, v.unsigned)
      [] DOMAIN v = {"negative"} -> WriteHeader(1, v.negative)
      [] DOMAIN v = {"bytes"} -> WriteHeader(2, Len(v.bytes)) \o v.bytes
      [] DOMAIN v = {"text"} -> WriteHeader(3, Len(v.text)) \o v.text
      [] DOMAIN v = {"array"} -> WriteHeader(4, Len(v.array))
                                   \o FlattenSeq([i \in 1 .. Len(v.array) |-> EncodeValue(v.array[i])])
      [] DOMAIN v = {"map"} -> EncodeMap([i \in 1 .. Len(v.map) |->
                                            <<EncodeValue(v.map[i][1]), EncodeValue(v.map[i][2])>>]).value
      [] DOMAIN v = {"tag", "inner"} -> WriteHeader(6, v.tag) \o EncodeValue(v.inner)
      [] DOMAIN v = {"simple"} -> <<Header(7, v.simple)>>
      [] OTHER -> <<Header(7, Direct + (CASE v.special \in {Half, Nan} -> 1 [] v.special = Single -> 2
                                          [] v.special = Double -> 3 [] OTHER -> 0)), v.special>>

\* Value::integer and as_i128: a bignum of at most twice the basic width only
\* for what the basic range does not hold.
Basic == Base ^ Last(Widths)
Wide == 2 * Last(Widths)
Half128 == (Base ^ Wide) \div 2

MinimalLength(n) == CHOOSE k \in 1 .. Wide : n < Base ^ k /\ (k = 1 \/ n >= Base ^ (k - 1))

Integer(n) ==
    LET magnitude == IF n < 0 THEN -1 - n ELSE n
        bytes == Digits(magnitude, MinimalLength(magnitude))
    IN  IF magnitude < Basic THEN WriteHeader(IF n < 0 THEN 1 ELSE 0, magnitude)
        ELSE WriteHeader(6, IF n < 0 THEN 3 ELSE 2) \o WriteHeader(2, Len(bytes)) \o bytes

AsInteger(v) ==
    IF DOMAIN v = {"unsigned"} THEN Ok(v.unsigned)
    ELSE IF DOMAIN v = {"negative"} THEN Ok(-1 - v.negative)
    ELSE IF DOMAIN v # {"tag", "inner"} THEN Fail("Type")
    ELSE IF v.tag \notin {2, 3} \/ DOMAIN v.inner # {"bytes"} THEN Fail("Type")
    ELSE IF Len(v.inner.bytes) \notin (Last(Widths) + 1) .. Wide THEN Fail("Invalid")
    ELSE IF v.inner.bytes[1] = 0 \/ Number(v.inner.bytes) >= Half128 THEN Fail("Invalid")
    ELSE Ok(IF v.tag = 3 THEN -1 - Number(v.inner.bytes) ELSE Number(v.inner.bytes))

\* get: the value of an integer key, as an option.
GetKey(v, key) ==
    IF DOMAIN v # {"map"} THEN Fail("Type")
    ELSE LET found == SelectSeq(v.map, LAMBDA pair : DOMAIN pair[1] = {"unsigned"} /\ pair[1].unsigned = key)
         IN  Ok(IF found = << >> THEN << >> ELSE <<found[1][2]>>)

\* read_sized and write_sized of cbor.rs: an empty map has no bytes.
EmptyMap == <<Header(5, 0)>>
WriteSizedValue(bytes) == WriteSized(IF bytes = EmptyMap THEN << >> ELSE bytes)
ReadSizedValue(input, position) ==
    LET bytes == Sized(input, position)
        value == FromBytes(bytes.value)
    IN  IF ~bytes.ok THEN bytes
        ELSE IF bytes.value = << >> THEN At([map |-> << >>], bytes.next)
        ELSE IF bytes.value = EmptyMap THEN Fail("Invalid")
        ELSE IF ~value.ok THEN value ELSE At(value.value, bytes.next)
=============================================================================
