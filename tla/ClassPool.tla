------------------------------ MODULE ClassPool ------------------------------
(***************************************************************************)
(* The strings that class files and resource names share: data_pool.rs,     *)
(* strings.rs and the CLASSFILE transform of classfile.rs in janex-format.  *)
(* A byte is a small number, of which those that the code tells apart have  *)
(* a name; a number n that is written among them is the cell Vuint(n).      *)
(***************************************************************************)
EXTENDS Naturals, Sequences, FiniteSets, SequencesExt

CONSTANT VuintBase   \* numbers below take one byte, 128 in the code

Fail(kind) == [ok |-> FALSE, kind |-> kind]

Nul == 0
Slash == 1
Ell == 2      \* L
Semi == 3     \* ; and the dot, after a class name
Less == 4     \* <
Paren == 5    \* ( and the other bytes that end a name
Bracket == 6  \* [
Class == 7    \* stands for .class

Vuint(n) == 100 + n

VuintLen(n) == IF n < VuintBase THEN 1 ELSE 2

-----------------------------------------------------------------------------
(* DataPool and DataPoolBuilder: entries in index order, index 0 first, and
   the reverse index of the builder. *)

NewPool == << << >> >>

Get(pool, index) ==
    IF index < Len(pool) THEN [ok |-> TRUE, value |-> pool[index + 1]] ELSE Fail("Invalid")

\* DataPool::decode of a declared count and the fields that follow it.
DecodePool(count, fields) ==
    IF \/ count = 0 \/ count # Len(fields)
       \/ fields[1] # << >>
    THEN Fail("Invalid") ELSE [ok |-> TRUE, pool |-> fields]

\* From<DataPool>: of equal entries the last one is found.
FromPool(pool) ==
    [pool |-> pool,
     indices |-> [v \in ToSet(pool) |->
                    (CHOOSE i \in 1 .. Len(pool) :
                        pool[i] = v /\ \A j \in (i + 1) .. Len(pool) : pool[j] # v) - 1]]

Finds(b, value) == value \in DOMAIN b.indices

Intern(b, value) ==
    IF Finds(b, value) THEN b
    ELSE [pool |-> Append(b.pool, value),
          indices |-> [v \in DOMAIN b.indices \cup {value} |->
                         IF v = value THEN Len(b.pool) ELSE b.indices[v]]]

Index(b, value) == Intern(b, value).indices[value]

\* Faulty variant: the reverse index keeps what was removed.
TruncateEntries(b, length) == [b EXCEPT !.pool = SubSeq(b.pool, 1, length)]

\* truncate: entries and their reverse index go back to a checkpoint.
Truncate(b, length) ==
    LET kept == IF length = 0 THEN 1 ELSE length
        removed == {b.pool[i] : i \in (kept + 1) .. Len(b.pool)}
    IN  [pool |-> SubSeq(b.pool, 1, kept),
         indices |-> [v \in DOMAIN b.indices \ removed |-> b.indices[v]]]

-----------------------------------------------------------------------------
(* write_nonempty and read_nonempty of strings.rs: an index, or an inline
   string, or a concatenation of indices. *)

Suffix == <<Class>>

WriteName(b, value) ==
    LET base == SubSeq(value, 1, Len(value) - 1)
    IN  IF value = << >> THEN Fail("Invalid")
        ELSE IF Finds(b, value) THEN [ok |-> TRUE, builder |-> b, name |-> <<Index(b, value)>>]
        ELSE IF Len(value) > 1 /\ IsSuffix(Suffix, value) /\ Finds(b, base)
        THEN [ok |-> TRUE, builder |-> Intern(b, Suffix),
              name |-> <<0, Index(b, base), Index(b, Suffix)>>]
        ELSE [ok |-> TRUE, builder |-> Intern(b, value), name |-> <<Index(b, value)>>]

\* The name is an index, or 0 and the indices to concatenate.
ReadName(pool, name) ==
    LET parts == IF name[1] # 0 THEN name ELSE Tail(name)
        value == FlattenSeq([i \in 1 .. Len(parts) |-> Get(pool, parts[i]).value])
    IN  IF \/ name[1] = 0 /\ Len(parts) < 2
           \/ \E i \in 1 .. Len(parts) : ~Get(pool, parts[i]).ok
        THEN Fail("Invalid")
        ELSE IF value = << >> THEN Fail("Invalid")
        ELSE [ok |-> TRUE, value |-> value]

-----------------------------------------------------------------------------
(* Class names: the text before and after the last slash. *)

Slashes(text) == {i \in 1 .. Len(text) : text[i] = Slash}

LastSlash(text) == CHOOSE i \in Slashes(text) : \A j \in Slashes(text) : j <= i

Package(text) == IF Slashes(text) = {} THEN << >> ELSE SubSeq(text, 1, LastSlash(text) - 1)

Simple(text) ==
    IF Slashes(text) = {} THEN text ELSE SubSeq(text, LastSlash(text) + 1, Len(text))

\* Faulty variant: an empty package still gets its slash.
JoinAlways(package, name) == package \o <<Slash>> \o name

Join(package, name) == IF package = << >> THEN name ELSE package \o <<Slash>> \o name

\* A reference to a package and a name, after a mark of one byte.
Reference(b, package, name) ==
    <<Vuint(Index(b, package)), Vuint(Index(Intern(b, package), name))>>

\* The length of cells in bytes.
Size(cells) ==
    FoldLeft(LAMBDA n, c : n + (IF c >= Vuint(0) THEN VuintLen(c - Vuint(0)) ELSE 1), 0, cells)

\* encode_template: s is [position, output, builder, changed]; one round of
\* the loop copies a byte, and after an L replaces the class name if that is
\* shorter.
NameEnd(bytes, start) ==
    CHOOSE e \in start .. (Len(bytes) + 1) :
        /\ e = Len(bytes) + 1 \/ bytes[e] \in {Semi, Less, Paren, Bracket}
        /\ \A i \in start .. (e - 1) : bytes[i] \notin {Semi, Less, Paren, Bracket}

TemplateStep(bytes, s) ==
    LET value == bytes[s.position]
        start == s.position + 1
        end == NameEnd(bytes, start)
        name == SubSeq(bytes, start, end - 1)
        package == Package(name)
        ref == <<Nul>> \o Reference(s.builder, package, Simple(name))
        copied == [s EXCEPT !.position = end, !.output = s.output \o <<value>> \o name]
    IN  IF value # Ell THEN [s EXCEPT !.position = start, !.output = Append(s.output, value)]
        ELSE IF \/ end = start \/ end > Len(bytes)
                \/ bytes[IF end > Len(bytes) THEN 1 ELSE end] \notin {Semi, Less}
                \/ name[1] = Slash \/ Last(name) = Slash
        THEN copied
        ELSE IF Size(ref) < Len(name)
        THEN [position |-> end, output |-> s.output \o <<value>> \o ref, changed |-> TRUE,
              builder |-> Intern(Intern(s.builder, package), Simple(name))]
        ELSE [copied EXCEPT !.builder =
                Truncate(Intern(Intern(s.builder, package), Simple(name)), Len(s.builder.pool))]

RECURSIVE TemplateLoop(_, _)
TemplateLoop(bytes, s) ==
    IF s.position > Len(bytes) THEN s ELSE TemplateLoop(bytes, TemplateStep(bytes, s))

EncodeTemplate(bytes, b) ==
    IF bytes = << >> \/ (bytes # << >> /\ bytes[1] \notin {Paren, Bracket, Ell, Less})
    THEN [changed |-> FALSE, builder |-> b]
    ELSE TemplateLoop(bytes, [position |-> 1, output |-> << >>, builder |-> b, changed |-> FALSE])

\* restore_template
RECURSIVE RestoreTemplate(_, _)
RestoreTemplate(cells, pool) ==
    IF cells = << >> THEN [ok |-> TRUE, value |-> << >>]
    ELSE IF cells[1] # Nul
    THEN LET rest == RestoreTemplate(Tail(cells), pool)
         IN  IF rest.ok THEN [ok |-> TRUE, value |-> <<cells[1]>> \o rest.value] ELSE rest
    ELSE IF Len(cells) < 3 THEN Fail("Invalid")
    ELSE LET package == Get(pool, cells[2] - Vuint(0))
             name == Get(pool, cells[3] - Vuint(0))
             rest == RestoreTemplate(SubSeq(cells, 4, Len(cells)), pool)
         IN  IF ~package.ok \/ ~name.ok \/ ~rest.ok THEN Fail("Invalid")
             ELSE IF name.value = << >> THEN Fail("Invalid")
             ELSE [ok |-> TRUE, value |-> Join(package.value, name.value) \o rest.value]

-----------------------------------------------------------------------------
(* A class file is its constants and its body.  A constant is text, a class
   that refers to a text, a long, which takes two slots, or anything else. *)

\* scan_pool: the slots of the constants; the second slot of a long is empty.
Slots(class) ==
    FlattenSeq([i \in 1 .. Len(class.constants) |->
                    IF class.constants[i].tag = "long" THEN <<class.constants[i], [tag |-> "none"]>>
                    ELSE <<class.constants[i]>>])

ClassTexts(class) == {c.text : c \in {c \in ToSet(class.constants) : c.tag = "class"}}

\* Bytes of a constant: its tag, and two for a length or an index.
ConstantSize(c) ==
    CASE c.tag = "utf8"     -> 3 + Len(c.value)
      [] c.tag = "long"     -> 9
      [] c.tag = "external" -> 1 + Size(c.cells)
      [] OTHER -> 3

ClassSize(class) ==
    FoldLeft(LAMBDA n, c : n + ConstantSize(c), class.body, class.constants)

\* How transform replaces the text in a slot, if it does.
Replacement(b, text, isClass) ==
    LET template == EncodeTemplate(text, b)
        name == Simple(text)
    IN  IF isClass /\ (text = << >> \/ (text # << >> /\ text[1] \notin {Bracket, Slash}))
        THEN IF name = << >> THEN [done |-> FALSE, builder |-> b]
             ELSE [done |-> TRUE, how |-> "class", cells |-> Reference(b, Package(text), name),
                   builder |-> Intern(Intern(b, Package(text)), name)]
        ELSE IF template.changed
        THEN [done |-> TRUE, how |-> "template",
              cells |-> <<Vuint(Index(template.builder, template.output))>>,
              builder |-> Intern(template.builder, template.output)]
        ELSE [done |-> TRUE, how |-> "text", cells |-> <<Vuint(Index(b, text))>>,
              builder |-> Intern(b, text)]

\* Faulty variant: a replacement that does not pay keeps its strings.
KeepOnlyOutput(b, before) == b

\* A replacement that does not pay is undone, its strings too.
Undo(b, before) == Truncate(b, before)

TransformStep(class, s, slot) ==
    LET c == Slots(class)[slot]
        r == Replacement(s.builder, c.value, slot \in ClassTexts(class))
        external == [tag |-> "external", how |-> r.how, cells |-> r.cells]
    IN  IF c.tag = "none" THEN s
        ELSE IF c.tag # "utf8" \/ ~c.valid THEN [s EXCEPT !.output = Append(s.output, c)]
        ELSE IF ~r.done THEN [s EXCEPT !.output = Append(s.output, c)]
        ELSE IF ConstantSize(external) > ConstantSize(c) - 1
        THEN [output |-> Append(s.output, c), builder |-> Undo(r.builder, Len(s.builder.pool))]
        ELSE [output |-> Append(s.output, external), builder |-> r.builder]

\* transform: the transformed class, or nothing when it saves too little.
Transform(class, b) ==
    LET end == FoldLeft(LAMBDA s, slot : TransformStep(class, s, slot),
                        [output |-> << >>, builder |-> b],
                        [i \in 1 .. Len(Slots(class)) |-> i])
        output == [constants |-> end.output, body |-> class.body]
    IN  IF ClassSize(output) + VuintLen(ClassSize(class)) + 2 >= ClassSize(class)
        THEN [transformed |-> FALSE, builder |-> Undo(end.builder, Len(b.pool))]
        ELSE [transformed |-> TRUE, builder |-> end.builder, class |-> output]

\* restore: what an external constant stands for.
RestoreConstant(c, pool) ==
    LET first == Get(pool, c.cells[1] - Vuint(0))
        second == Get(pool, c.cells[2] - Vuint(0))
    IN  IF ~first.ok THEN first
        ELSE CASE c.how = "text"     -> first
               [] c.how = "template" -> RestoreTemplate(first.value, pool)
               [] c.how = "class"    -> IF ~second.ok THEN second
                                        ELSE IF second.value = << >> THEN Fail("Invalid")
                                        ELSE [ok |-> TRUE, value |-> Join(first.value, second.value)]

Restore(class, pool) ==
    LET restored(c) == IF c.tag # "external" THEN [ok |-> TRUE, value |-> c]
                       ELSE RestoreConstant(c, pool)
        text(c) == IF c.tag # "external" THEN c
                   ELSE [tag |-> "utf8", valid |-> TRUE, value |-> restored(c).value]
    IN  IF \E c \in ToSet(class.constants) : ~restored(c).ok THEN Fail("Invalid")
        ELSE [ok |-> TRUE, class |-> [constants |-> [i \in 1 .. Len(class.constants) |->
                                                        text(class.constants[i])],
                                      body |-> class.body]]
=============================================================================
