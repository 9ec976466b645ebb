-------------------------- MODULE AlgorithmProofs ---------------------------
(***************************************************************************)
(* Theorems about the pure algorithms of the run `algorithms`, for inputs  *)
(* of any size.                                                            *)
(*                                                                         *)
(* Container: metadata with complete secure coverage determines the file,  *)
(* and what Writer writes, Reader opens, reads back and finds covered, and *)
(* open_auto finds where it ends when a JAR follows.                       *)
(* Signatures: a pinned key's CMS signature is over the document that it   *)
(* authenticates, and one made by sign_info authenticates; an OpenPGP      *)
(* signature authenticates only under the latest statements of a           *)
(* certificate that nothing in it revokes.                                 *)
(* Java versions: they are totally ordered, and a range that parse accepts *)
(* contains the versions that its bounds enclose.                          *)
(* SDK requests: the selector that target writes means the same request on *)
(* every host, and a release that a request accepts can stand for it.      *)
(***************************************************************************)
EXTENDS JarTail, Cms, FiniteSetTheorems, WellFoundedInduction, TLAPS

CONSTANTS IntMax,     \* i32::MAX in the code
          Products, Aliases, Arches, HostLibc, NumberMax   \* as in SdkRequests

OP == INSTANCE OpenPgp
JV == INSTANCE JavaVersions
SR == INSTANCE SdkRequests

-----------------------------------------------------------------------------
(* Induction and recursion over the steps of a loop, in first-order form:  *)
(* the invariant is a set, and the step of the loop a function.            *)

\* A set of numbers that is not empty has a smallest element.
LEMMA Smallest ==
    ASSUME NEW S \in SUBSET Nat, S # {}
    PROVE  \E x \in S : \A y \in S : x <= y
<1> DEFINE Less == {ss \in Nat \X Nat : ss[1] < ss[2]}
<1>1. IsWellFoundedOn(Less, Nat)
  BY NatLessThanWellFounded DEF OpToRel
<1>2. PICK x \in S : \A y \in S : ~ (<<y, x>> \in Less)
  <2> HIDE DEF Less
  <2> QED  BY <1>1, WFMin
<1>3. ASSUME NEW y \in S  PROVE x <= y
  <2>1. x \in Nat /\ y \in Nat /\ ~ (y < x)
    BY <1>2
  <2> QED  BY <2>1
<1> QED  BY <1>3

\* What holds at the start of a loop, and after a step whenever it held before
\* it, holds after every step.
LEMMA Induction ==
    ASSUME NEW n \in Nat, NEW S, 0 \in S,
           \A i \in 0 .. (n - 1) : i \in S => i + 1 \in S
    PROVE  \A i \in 0 .. n : i \in S
<1> SUFFICES ASSUME NEW j \in 0 .. n, j \notin S PROVE FALSE
  OBVIOUS
<1> DEFINE T == {i \in 0 .. n : i \notin S}
<1>1. T \in SUBSET Nat /\ T # {}
  OBVIOUS
<1>2. PICK x \in T : \A y \in T : x <= y
  <2> HIDE DEF T
  <2> QED  BY <1>1, Smallest
<1>3. x \in 0 .. n /\ x # 0 /\ x \notin S
  BY <1>2
<1>4. x - 1 \in 0 .. (n - 1) /\ x - 1 \in S
  <2>1. x - 1 \in 0 .. (n - 1) /\ x - 1 \in 0 .. n
    BY <1>3
  <2>2. x - 1 \notin T
    BY <1>2, <1>3, <2>1
  <2> QED  BY <2>1, <2>2
<1> QED  BY <1>3, <1>4

\* f[i] is what G makes of f[i - 1] in its i-th step.
Iterates(f, n, S, a, G) ==
    /\ f \in [0 .. n -> S]
    /\ f[0] = a
    /\ \A i \in 1 .. n : f[i] = G[<<f[i - 1], i>>]

\* A loop has its values: some function iterates the step.
LEMMA Recursion ==
    ASSUME NEW n \in Nat, NEW S, NEW a \in S, NEW G, G \in [S \X (1 .. n) -> S]
    PROVE  \E f : Iterates(f, n, S, a, G)
<1> DEFINE P(m) == \E f \in [0 .. m -> S] :
                      f[0] = a /\ \A i \in 1 .. m : f[i] = G[<<f[i - 1], i>>]
           T == {m \in 0 .. n : P(m)}
<1>1. 0 \in T
  <2> DEFINE f == [i \in 0 .. 0 |-> a]
  <2>1. f \in [0 .. 0 -> S] /\ f[0] = a
    OBVIOUS
  <2> HIDE DEF f
  <2> QED  BY <2>1
<1>2. ASSUME NEW m \in 0 .. (n - 1), m \in T  PROVE m + 1 \in T
  <2>1. PICK f \in [0 .. m -> S] : f[0] = a /\ \A i \in 1 .. m : f[i] = G[<<f[i - 1], i>>]
    BY <1>2
  <2> DEFINE v == G[<<f[m], m + 1>>]
             g == [i \in 0 .. (m + 1) |-> IF i = m + 1 THEN v ELSE f[i]]
  <2>2. m + 1 \in 1 .. n /\ v \in S
    BY <1>2
  <2>3. \A i \in 0 .. m : g[i] = f[i] /\ f[i] \in S
    OBVIOUS
  <2>4. g[m + 1] = v /\ g[0] = a
    BY <2>1, <2>3
  <2>5. g \in [0 .. (m + 1) -> S]
    <3>1. \A i \in 0 .. (m + 1) : i = m + 1 \/ i \in 0 .. m
      OBVIOUS
    <3> QED  BY <2>2, <2>3, <2>4, <3>1
  <2>6. ASSUME NEW i \in 1 .. (m + 1)  PROVE g[i] = G[<<g[i - 1], i>>]
    <3>1. i - 1 \in 0 .. m /\ (i = m + 1 \/ i \in 1 .. m)
      OBVIOUS
    <3>2. g[i - 1] = f[i - 1]
      BY <3>1, <2>3
    <3>3. CASE i = m + 1
      <4>1. i - 1 = m
        BY <3>3
      <4> QED  BY <3>2, <3>3, <2>4, <4>1
    <3>4. CASE i \in 1 .. m
      <4>1. g[i] = f[i] /\ f[i] = G[<<f[i - 1], i>>]
        BY <2>1, <2>3, <3>4
      <4> QED  BY <4>1, <3>2
    <3> QED  BY <3>1, <3>3, <3>4
  <2> HIDE DEF g
  <2> QED  BY <2>2, <2>4, <2>5, <2>6
<1>3. \A i \in 0 .. n : i \in T
  <2> HIDE DEF T
  <2> QED  BY <1>1, <1>2, Induction
<1>4. n \in 0 .. n
  OBVIOUS
<1>5. P(n)
  <2> HIDE DEF P
  <2> QED  BY <1>3, <1>4
<1> QED  BY <1>5 DEF Iterates

\* The loop over the section table adds up the lengths.
LEMMA OffsetsAdd ==
    ASSUME NEW Info, \A x \in Info : x.length \in Nat, NEW table \in Seq(Info), NEW base \in Nat
    PROVE  /\ SectionOffset(table, base, 1) = base
           /\ \A i \in 1 .. Len(table) :
                /\ SectionOffset(table, base, i) \in Nat
                /\ SectionOffset(table, base, i + 1)
                    = SectionOffset(table, base, i) + table[i].length
<1> DEFINE m == Len(table)
           G == [x \in Nat \X (1 .. m) |-> x[1] + table[x[2]].length]
           D(g) == g = [n \in 0 .. m |-> IF n = 0 THEN base ELSE g[n - 1] + table[n].length]
           s == CHOOSE g : D(g)
<1>1. m \in Nat /\ \A i \in 1 .. m : table[i].length \in Nat
  OBVIOUS
<1>2. G \in [Nat \X (1 .. m) -> Nat]
  BY <1>1
<1>3. \E f : Iterates(f, m, Nat, base, G)
  <2> HIDE DEF m, G
  <2> QED  BY <1>1, <1>2, Recursion
<1>4. PICK f \in [0 .. m -> Nat] : f[0] = base /\ \A i \in 1 .. m : f[i] = G[<<f[i - 1], i>>]
  BY <1>3 DEF Iterates
<1>5. \A i \in 1 .. m : f[i] = f[i - 1] + table[i].length
  <2> TAKE i \in 1 .. m
  <2>1. i - 1 \in 0 .. m /\ f[i - 1] \in Nat
    BY <1>1
  <2> QED  BY <1>4, <2>1
<1>6. D(f)
  BY <1>1, <1>4, <1>5
<1>7. D(s)
  BY <1>6
<1>8. \A i : SectionOffset(table, base, i) = s[i - 1]
  BY DEF SectionOffset
<1> HIDE DEF s, G
<1>9. s[0] = base
  BY <1>1, <1>7
<1>10. \A n \in 1 .. m : s[n] = s[n - 1] + table[n].length
  BY <1>1, <1>7
<1> DEFINE T == {i \in 0 .. m : s[i] \in Nat}
<1>11. \A i \in 0 .. m : i \in T
  <2>1. 0 \in T
    BY <1>1, <1>9
  <2>2. ASSUME NEW i \in 0 .. (m - 1), i \in T PROVE i + 1 \in T
    <3>1. i + 1 \in 1 .. m /\ (i + 1) - 1 = i /\ i + 1 \in 0 .. m
      BY <1>1
    <3>2. s[i + 1] = s[i] + table[i + 1].length
      BY <1>10, <3>1
    <3>3. s[i + 1] \in Nat
      BY <1>1, <2>2, <3>1, <3>2
    <3> QED BY <3>1, <3>3
  <2> HIDE DEF T
  <2> QED BY <1>1, <2>1, <2>2, Induction
<1>12. ASSUME NEW i \in 1 .. m
       PROVE  s[i - 1] \in Nat /\ s[(i + 1) - 1] = s[i - 1] + table[i].length
  <2>1. i - 1 \in 0 .. m /\ (i + 1) - 1 = i
    BY <1>1
  <2>2. s[i - 1] \in Nat
    BY <1>11, <2>1
  <2> QED  BY <1>10, <2>1, <2>2
<1>13. 1 - 1 = 0
  OBVIOUS
<1> QED  BY <1>8, <1>9, <1>12, <1>13

-----------------------------------------------------------------------------
(* What a reader that has opened a file knows of it.                       *)

\* The cells of a file as they are decoded: footers and section tables hold
\* numbers where they have to.
Decoded(Cell, Info) ==
    /\ \A x \in Info : x.length \in Nat
    /\ \A x \in Cell : x.t = "end" => x.metadata \in Nat /\ x.file \in Nat
    /\ \A x \in Cell : x.t = "metadata" => x.table \in Seq(Info)

\* The table of an opened file: no two sections share an ID, and they fill the
\* space from base to limit.
TableHolds(table, base, limit) ==
    /\ \A i, j \in 1 .. Len(table) : table[i].id = table[j].id => i = j
    /\ \A i \in 1 .. Len(table) : SectionOffset(table, base, i) + table[i].length <= limit
    /\ SectionOffset(table, base, Len(table) + 1) = limit

\* What the loop over the section table has checked when it finds no fault.
LEMMA NoFault ==
    ASSUME NEW file, NEW Info, \A x \in Info : x.length \in Nat,
           NEW table \in Seq(Info), NEW base \in Nat, NEW limit \in Nat,
           TableFault(file, table, base, limit) = "none"
    PROVE  TableHolds(table, base, limit)
<1> DEFINE n == Len(table)
           Bad(i) == EntryFault(file, table, base, limit, i) # "none"
           faulty == {i \in 1 .. n : Bad(i)}
<1>1. faulty = {}
  <2> SUFFICES ASSUME faulty # {} PROVE FALSE
    OBVIOUS
  <2>1. \E x \in faulty : \A y \in faulty : x <= y
    <3>1. faulty \in SUBSET Nat
      OBVIOUS
    <3> HIDE DEF faulty
    <3> QED  BY <3>1, Smallest
  <2> DEFINE first == CHOOSE i \in faulty : \A j \in faulty : i <= j
  <2>2. first \in faulty
    <3> HIDE DEF faulty
    <3> QED  BY <2>1
  <2>3. TableFault(file, table, base, limit) = EntryFault(file, table, base, limit, first)
    BY DEF TableFault
  <2> HIDE DEF first
  <2> QED  BY <2>2, <2>3
<1>2. SectionOffset(table, base, n + 1) = limit
  <2> SUFFICES ASSUME SectionOffset(table, base, n + 1) # limit PROVE FALSE
    OBVIOUS
  <2>1. TableFault(file, table, base, limit) = "Invalid"
    BY <1>1 DEF TableFault
  <2> QED  BY <2>1
<1>3. ASSUME NEW i \in 1 .. n
      PROVE  /\ \A j \in 1 .. (i - 1) : table[j].id # table[i].id
             /\ SectionOffset(table, base, i) + table[i].length <= limit
  <2>1. EntryFault(file, table, base, limit, i) = "none"
    BY <1>1
  <2>2. SectionOffset(table, base, i) \in Nat /\ table[i].length \in Nat
    BY OffsetsAdd
  <2>3. ~ (SectionOffset(table, base, i) + table[i].length > limit)
    BY <2>1 DEF EntryFault
  <2>4. \A j \in 1 .. (i - 1) : table[j].id # table[i].id
    BY <2>1 DEF EntryFault
  <2> QED  BY <2>2, <2>3, <2>4
<1>4. ASSUME NEW i \in 1 .. n, NEW j \in 1 .. n, table[i].id = table[j].id  PROVE i = j
  <2>1. i < j \/ j < i \/ i = j
    OBVIOUS
  <2>2. CASE i < j
    BY <1>3, <1>4, <2>2
  <2>3. CASE j < i
    BY <1>3, <1>4, <2>3
  <2> QED  BY <2>1, <2>2, <2>3
<1> QED  BY <1>2, <1>3, <1>4 DEF TableHolds

\* read_at within the file.
LEMMA ReadCells ==
    ASSUME NEW S, NEW s \in Seq(S), NEW o \in Nat, NEW l \in Nat, o + l <= Len(s)
    PROVE  /\ ReadAt(s, o, l) \in Seq(S)
           /\ Len(ReadAt(s, o, l)) = l
           /\ \A k \in 1 .. l : ReadAt(s, o, l)[k] = s[o + k]
<1> DEFINE f == o + 1
           g == o + l
<1>1. f \in Nat \ {0} /\ g \in Nat /\ g <= Len(s) /\ g - f + 1 = l
  OBVIOUS
<1>2. \A k \in 1 .. l : f + k - 1 = o + k /\ o + k \in 1 .. Len(s)
  OBVIOUS
<1>3. ReadAt(s, o, l) = SubSeq(s, f, g)
  BY DEF ReadAt
<1> HIDE DEF f, g
<1>4. SubSeq(s, f, g) = [k \in 1 .. l |-> s[f + k - 1]]
  BY <1>1
<1>5. SubSeq(s, f, g) = [k \in 1 .. l |-> s[o + k]]
  BY <1>2, <1>4
<1>6. \A k \in 1 .. l : s[o + k] \in S
  BY <1>2
<1> QED  BY <1>3, <1>5, <1>6

\* The layout Open has found: header, magic, sections, metadata, footer, tail.
Layout(r, file) ==
    LET m == r.end - 2 IN
    /\ r.ok /\ r.file = file
    /\ r.start \in Nat /\ r.end \in Nat
    /\ r.end <= Len(file) /\ r.start + 1 <= m
    /\ file[r.start + 1] = MAGIC
    /\ r.meta = file[m + 1] /\ r.meta.t = "metadata"
    /\ file[r.end].t = "end" /\ file[r.end].metadata = 2
    /\ file[r.end].file = r.end - r.start
    /\ TableHolds(r.meta.table, r.start + 1, m)
    /\ r.meta.header # << >> => r.meta.header[1].size = r.start
    /\ r.meta.tail # << >> => r.meta.tail[1].size = Len(file) - r.end

\* Open only returns a reader for a file of that layout.
LEMMA OpenLayout ==
    ASSUME NEW Cell, NEW Info, Decoded(Cell, Info),
           NEW file \in Seq(Cell), NEW tail \in Nat, Open(file, tail).ok
    PROVE  Layout(Open(file, tail), file) /\ Open(file, tail).meta.table \in Seq(Info)
<1> DEFINE end == Len(file) - tail
           footer == file[end]
           m == end - footer.metadata
           start == end - footer.file
           meta == file[m + 1]
           opened == [ok |-> TRUE, file |-> file, start |-> start, end |-> end, meta |-> meta]
           fault == \/ tail >= Len(file) \/ footer.t # "end"
                    \/ footer.metadata > end \/ footer.file > end
                    \/ m < start + 1 \/ footer.metadata < 1
                    \/ ReadAt(file, start, 1) # <<MAGIC>>
                    \/ footer.metadata # 2 \/ meta.t # "metadata"
<1>0. \A kind : Fail(kind).ok = FALSE
  BY DEF Fail
<1>1. ~ fault
  BY <1>0 DEF Open
<1>2. /\ TableFault(file, meta.table, start + 1, m) = "none"
      /\ RegionSizes(meta, start, tail)
      /\ Open(file, tail) = opened
  <2> HIDE DEF fault
  <2>1. Open(file, tail) =
          IF fault THEN Fail("Invalid")
          ELSE IF meta.version # <<0, 1>> THEN Fail("Unsupported")
          ELSE IF MetadataFault(meta) # "none" THEN Fail(MetadataFault(meta))
          ELSE IF VerificationFault(meta.verification) # "none"
          THEN Fail(VerificationFault(meta.verification))
          ELSE IF TableFault(file, meta.table, start + 1, m) # "none"
          THEN Fail(TableFault(file, meta.table, start + 1, m))
          ELSE IF ~RegionSizes(meta, start, tail) THEN Fail("Invalid")
          ELSE opened
    BY DEF Open, fault
  <2> HIDE DEF opened, meta, m, start
  <2> QED  BY <1>0, <2>1
<1>3. /\ end \in Nat /\ end >= 1 /\ end <= Len(file) /\ footer \in Cell
      /\ footer.metadata = 2 /\ footer.file \in Nat /\ footer.t = "end"
      /\ start \in Nat /\ m = end - 2 /\ start + 1 <= m
  <2>1. Len(file) \in Nat /\ tail < Len(file)
    BY <1>1
  <2>2. end \in Nat /\ end >= 1 /\ end <= Len(file) /\ footer \in Cell
    BY <2>1
  <2>3. footer.file \in Nat
    BY <1>1, <2>2 DEF Decoded
  <2>4. /\ footer.metadata = 2 /\ footer.t = "end"
        /\ ~ (footer.file > end) /\ ~ (m < start + 1)
    BY <1>1
  <2> DEFINE s == footer.file
  <2>5. m = end - 2 /\ start = end - s
    BY <2>4
  <2>6. start \in Nat /\ start + 1 <= m
    <3>1. s \in Nat /\ end \in Nat /\ ~ (s > end) /\ ~ (m < start + 1)
      BY <2>2, <2>3, <2>4
    <3> HIDE DEF m, start, end, s
    <3> QED  BY <2>5, <3>1
  <2> QED  BY <2>2, <2>3, <2>4, <2>5, <2>6
<1>4. file[start + 1] = MAGIC
  <2>1. ReadAt(file, start, 1) = <<MAGIC>>
    BY <1>1
  <2>2. start \in Nat /\ start + 1 \in 1 .. Len(file)
    BY <1>3
  <2> HIDE DEF start
  <2>3. ReadAt(file, start, 1)[1] = file[start + 1]
    BY <2>2, ReadCells
  <2> QED  BY <2>1, <2>3
<1>5. meta \in Cell /\ meta.t = "metadata" /\ meta.table \in Seq(Info)
  <2>1. m + 1 \in 1 .. Len(file)
    BY <1>3
  <2>2. meta \in Cell /\ meta.t = "metadata"
    BY <1>1, <2>1
  <2> QED  BY <2>2 DEF Decoded
<1>6. TableHolds(meta.table, start + 1, end - 2)
  <2>1. \A x \in Info : x.length \in Nat
    BY DEF Decoded
  <2>2. start + 1 \in Nat /\ m \in Nat /\ start + 1 <= m /\ m = end - 2
    BY <1>3
  <2>3. TableFault(file, meta.table, start + 1, m) = "none" /\ meta.table \in Seq(Info)
    BY <1>2, <1>5
  <2> HIDE DEF m, start, meta, end
  <2> QED  BY <2>1, <2>2, <2>3, NoFault
<1>7. Len(file) - end = tail /\ end - start = footer.file
  <2> DEFINE n == Len(file)
             s == footer.file
  <2>1. s \in Nat /\ n \in Nat /\ start = end - s /\ end = n - tail /\ end \in Nat
    BY <1>3
  <2> HIDE DEF n, s, start, end
  <2> QED  BY <2>1 DEF n, s
<1>8. /\ meta.header # << >> => meta.header[1].size = start
      /\ meta.tail # << >> => meta.tail[1].size = Len(file) - end
  BY <1>2, <1>7 DEF RegionSizes
<1>9. meta = file[(end - 2) + 1]
  BY <1>3
<1> HIDE DEF end, start, meta, footer
<1>10. footer = file[end]
  BY DEF footer
<1> QED
  BY <1>2, <1>3, <1>4, <1>5, <1>6, <1>7, <1>8, <1>9, <1>10 DEF Layout

\* An opened file: its cells, its reader, and where the reader finds what.
Opened(Cell, Info, file, r) ==
    /\ Decoded(Cell, Info)
    /\ file \in Seq(Cell)
    /\ Layout(r, file)
    /\ r.meta.table \in Seq(Info)

\* read_section_range finds the section by its ID, which no other section has.
LEMMA SectionFound ==
    ASSUME NEW Cell, NEW Info, NEW file, NEW r, Opened(Cell, Info, file, r),
           NEW i \in 1 .. Len(r.meta.table), NEW o \in Nat, NEW l \in Nat,
           o + l <= r.meta.table[i].length
    PROVE  ReadSection(r, r.meta.table[i].id, o, l)
             = [ok |-> TRUE,
                bytes |-> ReadAt(file, SectionOffset(r.meta.table, r.start + 1, i) + o, l)]
<1> DEFINE table == r.meta.table
           id == table[i].id
           found == CHOOSE j \in 1 .. Len(table) : table[j].id = id
<1>1. \A j \in 1 .. Len(table) : table[j].id = id => j = i
  BY DEF Opened, Layout, TableHolds
<1>2. found = i
  BY <1>1
<1>3. SectionRange(r, id) =
        [start |-> SectionOffset(table, r.start + 1, i), length |-> table[i].length]
  BY <1>2 DEF SectionRange
<1>4. table[i].length \in Nat /\ ~ (o + l > table[i].length)
  BY DEF Opened, Decoded
<1>5. r.file = file
  BY DEF Opened, Layout
<1> HIDE DEF table, id
<1>6. ~ \A j \in 1 .. Len(r.meta.table) : r.meta.table[j].id # id
  BY DEF table, id
<1>7. ReadSection(r, id, o, l)
        = [ok |-> TRUE, bytes |-> ReadAt(r.file, SectionRange(r, id).start + o, l)]
  BY <1>3, <1>4, <1>6 DEF ReadSection
<1> QED  BY <1>3, <1>5, <1>7 DEF table, id

\* The offsets of an opened file's sections add up.
LEMMA OpenedOffsets ==
    ASSUME NEW Cell, NEW Info, NEW file, NEW r, Opened(Cell, Info, file, r)
    PROVE  /\ SectionOffset(r.meta.table, r.start + 1, 1) = r.start + 1
           /\ \A i \in 1 .. Len(r.meta.table) :
                /\ r.meta.table[i].length \in Nat
                /\ SectionOffset(r.meta.table, r.start + 1, i) \in Nat
                /\ SectionOffset(r.meta.table, r.start + 1, i + 1)
                     = SectionOffset(r.meta.table, r.start + 1, i) + r.meta.table[i].length
<1> DEFINE base == r.start + 1
           table == r.meta.table
<1>1. base \in Nat
  BY DEF Opened, Layout
<1>2. table \in Seq(Info) /\ (\A x \in Info : x.length \in Nat)
  BY DEF Opened, Decoded
<1>3. \A i \in 1 .. Len(table) : table[i].length \in Nat
  BY <1>2
<1> HIDE DEF base, table
<1>4. /\ SectionOffset(table, base, 1) = base
      /\ \A i \in 1 .. Len(table) :
           /\ SectionOffset(table, base, i) \in Nat
           /\ SectionOffset(table, base, i + 1) = SectionOffset(table, base, i) + table[i].length
  BY <1>1, <1>2, OffsetsAdd
<1> QED  BY <1>3, <1>4 DEF base, table

\* Where the sections of an opened file are.
LEMMA SectionPlace ==
    ASSUME NEW Cell, NEW Info, NEW file, NEW r, Opened(Cell, Info, file, r),
           NEW i \in 1 .. Len(r.meta.table)
    PROVE  LET offset == SectionOffset(r.meta.table, r.start + 1, i) IN
           /\ offset \in Nat /\ r.meta.table[i].length \in Nat
           /\ offset + r.meta.table[i].length <= r.end - 2
           /\ offset + r.meta.table[i].length <= Len(file)
<1>1. r.start \in Nat /\ r.end \in Nat /\ r.end <= Len(file) /\ Len(file) \in Nat
  BY DEF Opened, Layout
<1>3. SectionOffset(r.meta.table, r.start + 1, i) \in Nat /\ r.meta.table[i].length \in Nat
  BY OpenedOffsets
<1>4. SectionOffset(r.meta.table, r.start + 1, i) + r.meta.table[i].length <= r.end - 2
  BY DEF Opened, Layout, TableHolds
<1> DEFINE o == SectionOffset(r.meta.table, r.start + 1, i)
           l == r.meta.table[i].length
           e == r.end
           n == Len(file)
<1>5. o \in Nat /\ l \in Nat /\ e \in Nat /\ n \in Nat /\ e <= n /\ o + l <= e - 2
  BY <1>1, <1>3, <1>4
<1> HIDE DEF o, l, e, n
<1>6. o + l <= n
  BY <1>5
<1> QED  BY <1>5, <1>6 DEF o, l, e, n

\* Every cell between the magic and the metadata belongs to a section.
LEMMA SectionOf ==
    ASSUME NEW Cell, NEW Info, NEW file, NEW r, Opened(Cell, Info, file, r),
           NEW k \in Nat, r.start + 1 < k, k <= r.end - 2
    PROVE  \E i \in 1 .. Len(r.meta.table) :
             /\ SectionOffset(r.meta.table, r.start + 1, i) < k
             /\ k <= SectionOffset(r.meta.table, r.start + 1, i) + r.meta.table[i].length
<1> DEFINE table == r.meta.table
           n == Len(table)
           O(i) == SectionOffset(table, r.start + 1, i)
           past == {i \in 1 .. (n + 1) : k <= O(i)}
<1>1. n \in Nat /\ r.start \in Nat /\ O(n + 1) = r.end - 2
  BY DEF Opened, Layout, TableHolds
<1>2. /\ O(1) = r.start + 1
      /\ \A i \in 1 .. n : O(i) \in Nat /\ O(i + 1) = O(i) + table[i].length
  BY OpenedOffsets
<1> HIDE DEF O, table, n
<1>3. n + 1 \in past /\ past \in SUBSET Nat
  BY <1>1
<1>4. PICK x \in past : \A y \in past : x <= y
  <2> HIDE DEF past
  <2> QED  BY <1>3, Smallest
<1>5. x # 1
  BY <1>1, <1>2
<1>6. x - 1 \in 1 .. n /\ x - 1 \notin past
  BY <1>1, <1>4, <1>5
<1>7. O(x - 1) < k
  BY <1>1, <1>2, <1>6
<1>8. k <= O(x - 1) + table[x - 1].length
  BY <1>1, <1>2, <1>4, <1>6
<1> QED  BY <1>6, <1>7, <1>8 DEF O, table, n

-----------------------------------------------------------------------------
(* Complete secure coverage.                                               *)

\* What verify_checksums must report of a package that is run or installed.
Covered(r) == VerifyChecksums(r).ok /\ VerifyChecksums(r).complete_secure_coverage

\* Cells that the record of an external region determines.
RegionKnown(record, cells) ==
    /\ record # << >>
    /\ \/ cells = << >>
       \/ /\ record[1].checksum # << >>
          /\ record[1].checksum[1].algorithm \in Secure
          /\ cells = record[1].checksum[1].digest

\* Under complete secure coverage the metadata determines every section and
\* both external regions: their cells are the digests it records.
LEMMA CoveredCells ==
    ASSUME NEW Cell, NEW Info, NEW file, NEW r, Opened(Cell, Info, file, r), Covered(r)
    PROVE  /\ \A i \in 1 .. Len(r.meta.table) :
                ReadAt(file, SectionOffset(r.meta.table, r.start + 1, i), r.meta.table[i].length)
                  = r.meta.table[i].checksum[1].digest
           /\ RegionKnown(r.meta.header, ReadAt(file, 0, r.start))
           /\ RegionKnown(r.meta.tail, ReadAt(file, r.end, Len(file) - r.end))
<1> DEFINE table == r.meta.table
           bytes(info) == ReadSection(r, info.id, 0, info.length).bytes
           regions == {HeaderRegion(r), TailRegion(r)}
           failed == \/ /\ r.meta.verification.kind = "checksum"
                        /\ ~Verifies(r.meta.verification.payload[1], <<VerificationInput(r.meta)>>)
                     \/ \E i \in 1 .. Len(table) : table[i].checksum # << >>
                            /\ ~Verifies(table[i].checksum[1], bytes(table[i]))
                     \/ \E x \in regions : ~RegionVerifies(x)
           complete == /\ \A i \in 1 .. Len(table) : table[i].checksum # << >>
                             /\ table[i].checksum[1].algorithm \in Secure
                       /\ \A x \in regions : RegionCovered(x)
<1>0. r.file = file
  BY DEF Opened, Layout
<1>1. ~ failed /\ complete
  <2> HIDE DEF failed, complete
  <2>1. VerifyChecksums(r) = IF failed THEN Fail("Verification")
                             ELSE [ok |-> TRUE, complete_secure_coverage |-> complete]
    BY DEF VerifyChecksums, failed, complete
  <2>2. Fail("Verification").ok = FALSE
    BY DEF Fail
  <2>3. ~ failed
    BY <2>1, <2>2 DEF Covered
  <2>4. VerifyChecksums(r) = [ok |-> TRUE, complete_secure_coverage |-> complete]
    BY <2>1, <2>3
  <2> QED  BY <2>3, <2>4 DEF Covered
<1>2. \A c, cells : c.algorithm \in Secure /\ Verifies(c, cells) => cells = c.digest
  BY DEF Verifies, Compute, Digest
<1>3. ASSUME NEW i \in 1 .. Len(table)
      PROVE  ReadAt(file, SectionOffset(table, r.start + 1, i), table[i].length)
               = table[i].checksum[1].digest
  <2>1. table[i].checksum # << >> /\ table[i].checksum[1].algorithm \in Secure
    BY <1>1
  <2>2. Verifies(table[i].checksum[1], bytes(table[i]))
    BY <1>1, <2>1
  <2>3. bytes(table[i]) = table[i].checksum[1].digest
    BY <1>2, <2>1, <2>2
  <2>4. SectionOffset(table, r.start + 1, i) \in Nat /\ table[i].length \in Nat
    BY SectionPlace
  <2> DEFINE zero == 0
  <2>5. /\ SectionOffset(table, r.start + 1, i) + zero = SectionOffset(table, r.start + 1, i)
        /\ zero \in Nat /\ zero + table[i].length <= table[i].length
    BY <2>4
  <2> HIDE DEF zero
  <2>6. ReadSection(r, table[i].id, zero, table[i].length)
          = [ok |-> TRUE, bytes |->
               ReadAt(file, SectionOffset(table, r.start + 1, i) + zero, table[i].length)]
    BY <2>4, <2>5, SectionFound
  <2> QED  BY <2>3, <2>5, <2>6 DEF zero
<1>4. ASSUME NEW record, NEW cells, <<record, cells>> \in regions
      PROVE  RegionKnown(record, cells)
  <2>1. RegionCovered(<<record, cells>>) /\ RegionVerifies(<<record, cells>>)
    BY <1>1, <1>4
  <2>2. <<record, cells>>[1] = record /\ <<record, cells>>[2] = cells
    OBVIOUS
  <2> QED  BY <1>2, <2>1, <2>2 DEF RegionCovered, RegionVerifies, RegionKnown
<1>5. RegionKnown(r.meta.header, ReadAt(file, 0, r.start))
  BY <1>0, <1>4 DEF HeaderRegion
<1>6. RegionKnown(r.meta.tail, ReadAt(file, r.end, Len(file) - r.end))
  BY <1>0, <1>4 DEF TailRegion
<1> QED  BY <1>3, <1>5, <1>6

\* What is read alike is alike.
LEMMA SameCells ==
    ASSUME NEW Cell, NEW f \in Seq(Cell), NEW g \in Seq(Cell), NEW o \in Nat, NEW l \in Nat,
           o + l <= Len(f), o + l <= Len(g), ReadAt(f, o, l) = ReadAt(g, o, l),
           NEW k \in Nat, o < k, k <= o + l
    PROVE  f[k] = g[k]
<1> DEFINE j == k - o
<1>1. j \in 1 .. l /\ o + j = k
  OBVIOUS
<1> HIDE DEF j
<1>2. ReadAt(f, o, l)[j] = f[o + j] /\ ReadAt(g, o, l)[j] = g[o + j]
  BY <1>1, ReadCells
<1> QED  BY <1>1, <1>2

\* The same record with the recorded size in two files: the same cells.
LEMMA SameRegion ==
    ASSUME NEW Cell, NEW f \in Seq(Cell), NEW g \in Seq(Cell), NEW record,
           NEW o \in Nat, NEW l \in Nat, o + l <= Len(f), o + l <= Len(g),
           RegionKnown(record, ReadAt(f, o, l)), RegionKnown(record, ReadAt(g, o, l)),
           NEW k \in Nat, o < k, k <= o + l
    PROVE  f[k] = g[k]
<1>1. Len(ReadAt(f, o, l)) = l /\ Len(ReadAt(g, o, l)) = l
  BY ReadCells
<1>2. Len(<< >>) = 0 /\ l # 0
  OBVIOUS
<1>3. ReadAt(f, o, l) = ReadAt(g, o, l)
  BY <1>1, <1>2 DEF RegionKnown
<1> QED  BY <1>3, SameCells

\* g is f but for the signature or checksum in its metadata.
SameButForSeal(f, r, g, s) ==
    /\ Len(f) = Len(g) /\ r.start = s.start /\ r.end = s.end
    /\ \A k \in 1 .. Len(f) : k \notin {r.end - 1, r.end} => f[k] = g[k]
    /\ f[r.end].file = g[s.end].file /\ f[r.end].metadata = g[s.end].metadata

(* A signature of the metadata covers the file: two files that open with   *)
(* the same signed part of the metadata, and that verify_checksums reports *)
(* as completely and securely covered, are the same to the last cell of    *)
(* header, sections and tail, whatever their tables say and however long   *)
(* they are.  They can differ in the signature itself only.                *)
THEOREM CoverageDeterminesFile ==
    ASSUME NEW Cell, NEW Info, Decoded(Cell, Info),
           NEW f \in Seq(Cell), NEW g \in Seq(Cell), NEW m \in Nat, NEW n \in Nat,
           Open(f, m).ok, Open(g, n).ok,
           Covered(Open(f, m)), Covered(Open(g, n)),
           VerificationInput(Open(f, m).meta) = VerificationInput(Open(g, n).meta)
    PROVE  SameButForSeal(f, Open(f, m), g, Open(g, n))
<1> DEFINE r == Open(f, m)
           s == Open(g, n)
<1>1. Opened(Cell, Info, f, r) /\ Opened(Cell, Info, g, s)
  BY OpenLayout DEF Opened
<1>2. Covered(r) /\ Covered(s)
  OBVIOUS
<1>3. /\ r.meta.table = s.meta.table
      /\ r.meta.header = s.meta.header
      /\ r.meta.tail = s.meta.tail
  BY DEF VerificationInput
<1> HIDE DEF r, s
<1> DEFINE table == r.meta.table
<1>4. /\ \A i \in 1 .. Len(table) :
           ReadAt(f, SectionOffset(table, r.start + 1, i), table[i].length)
             = table[i].checksum[1].digest
      /\ RegionKnown(r.meta.header, ReadAt(f, 0, r.start))
      /\ RegionKnown(r.meta.tail, ReadAt(f, r.end, Len(f) - r.end))
  BY <1>1, <1>2, CoveredCells
<1>5. /\ \A i \in 1 .. Len(table) :
           ReadAt(g, SectionOffset(table, s.start + 1, i), table[i].length)
             = table[i].checksum[1].digest
      /\ RegionKnown(r.meta.header, ReadAt(g, 0, s.start))
      /\ RegionKnown(r.meta.tail, ReadAt(g, s.end, Len(g) - s.end))
  BY <1>1, <1>2, <1>3, CoveredCells
<1>6. /\ r.start \in Nat /\ r.end \in Nat /\ r.end <= Len(f) /\ r.start + 1 <= r.end - 2
      /\ s.start \in Nat /\ s.end \in Nat /\ s.end <= Len(g) /\ s.start + 1 <= s.end - 2
      /\ Len(f) \in Nat /\ Len(g) \in Nat
  <2>1. Layout(r, f) /\ Layout(s, g)
    BY <1>1 DEF Opened
  <2>2. Len(f) \in Nat /\ Len(g) \in Nat
    OBVIOUS
  <2>3. r.start \in Nat /\ r.end \in Nat /\ r.end <= Len(f) /\ r.start + 1 <= r.end - 2
    BY <2>1 DEF Layout
  <2>4. s.start \in Nat /\ s.end \in Nat /\ s.end <= Len(g) /\ s.start + 1 <= s.end - 2
    BY <2>1 DEF Layout
  <2> QED  BY <2>2, <2>3, <2>4
<1>a. /\ r.meta.header # << >> /\ r.meta.header[1].size = r.start
      /\ r.meta.tail # << >> /\ r.meta.tail[1].size = Len(f) - r.end
      /\ SectionOffset(table, r.start + 1, Len(table) + 1) = r.end - 2
  <2>1. Layout(r, f)
    BY <1>1 DEF Opened
  <2>2. r.meta.header # << >> /\ r.meta.tail # << >>
    BY <1>4 DEF RegionKnown
  <2> QED  BY <2>1, <2>2 DEF Layout, TableHolds
<1>b. /\ s.meta.header # << >> => s.meta.header[1].size = s.start
      /\ s.meta.tail # << >> => s.meta.tail[1].size = Len(g) - s.end
      /\ SectionOffset(s.meta.table, s.start + 1, Len(s.meta.table) + 1) = s.end - 2
  <2>1. Layout(s, g)
    BY <1>1 DEF Opened
  <2> QED  BY <2>1 DEF Layout, TableHolds
<1>7. r.start = s.start
  BY <1>3, <1>a, <1>b
<1>8. r.end = s.end
  <2>1. r.end - 2 = s.end - 2
    BY <1>3, <1>7, <1>a, <1>b
  <2> QED  BY <1>6, <2>1
<1>9. Len(f) = Len(g)
  <2>1. Len(f) - r.end = Len(g) - s.end
    BY <1>3, <1>a, <1>b
  <2> QED  BY <1>6, <1>8, <2>1
<1>10. \A k \in 1 .. r.start : f[k] = g[k]
  <2> DEFINE zero == 0
             l == r.start
  <2>1. RegionKnown(r.meta.header, ReadAt(f, zero, l)) /\ RegionKnown(r.meta.header, ReadAt(g, zero, l))
    BY <1>4, <1>5, <1>7
  <2>2. l \in Nat /\ l <= Len(f) /\ Len(f) \in Nat
    BY <1>6
  <2> HIDE DEF l
  <2>3. /\ zero \in Nat /\ zero + l <= Len(f) /\ zero + l <= Len(g)
        /\ \A k \in 1 .. l : k \in Nat /\ zero < k /\ k <= zero + l
    BY <1>9, <2>2
  <2> HIDE DEF zero
  <2>4. ASSUME NEW k \in 1 .. l  PROVE f[k] = g[k]
    <3>1. k \in Nat /\ zero < k /\ k <= zero + l
      BY <2>3
    <3>2. zero \in Nat /\ l \in Nat /\ zero + l <= Len(f) /\ zero + l <= Len(g)
      BY <2>2, <2>3
    <3> QED  BY <2>1, <3>1, <3>2, SameRegion
  <2> QED  BY <2>4 DEF l
<1>11. f[r.start + 1] = g[r.start + 1]
  BY <1>1, <1>7 DEF Opened, Layout
<1>12. ASSUME NEW k \in Nat, r.start + 1 < k, k <= r.end - 2  PROVE f[k] = g[k]
  <2>1. PICK i \in 1 .. Len(table) :
          /\ SectionOffset(table, r.start + 1, i) < k
          /\ k <= SectionOffset(table, r.start + 1, i) + table[i].length
    BY <1>1, <1>12, SectionOf
  <2> DEFINE o == SectionOffset(table, r.start + 1, i)
             l == table[i].length
  <2>2. o \in Nat /\ l \in Nat /\ o + l <= Len(f) /\ o + l <= Len(g)
    BY <1>1, <1>9, SectionPlace
  <2>3. ReadAt(f, o, l) = ReadAt(g, o, l)
    BY <1>4, <1>5, <1>7
  <2>4. o < k /\ k <= o + l
    BY <2>1
  <2> HIDE DEF o, l
  <2> QED  BY <2>2, <2>3, <2>4, SameCells
<1>13. ASSUME NEW k \in 1 .. Len(f), k > r.end  PROVE f[k] = g[k]
  <2> DEFINE o == r.end
             l == Len(f) - o
  <2>1. o \in Nat /\ o <= Len(f) /\ Len(f) \in Nat /\ o < k
    BY <1>6, <1>13
  <2>2. RegionKnown(r.meta.tail, ReadAt(f, o, l)) /\ RegionKnown(r.meta.tail, ReadAt(g, o, l))
    BY <1>4, <1>5, <1>8, <1>9
  <2> HIDE DEF o
  <2>3. l \in Nat /\ o + l <= Len(f) /\ o + l <= Len(g) /\ k \in Nat /\ k <= o + l
    BY <1>9, <2>1
  <2> HIDE DEF l
  <2> QED  BY <2>1, <2>2, <2>3, SameRegion
<1>14. ASSUME NEW k \in 1 .. Len(f), k \notin {r.end - 1, r.end}  PROVE f[k] = g[k]
  <2>1. \/ k \in 1 .. r.start \/ k = r.start + 1
        \/ (r.start + 1 < k /\ k <= r.end - 2) \/ k > r.end
    <3> DEFINE a == r.start
               b == r.end
    <3>1. a \in Nat /\ b \in Nat /\ k \in Nat /\ k >= 1 /\ k # b - 1 /\ k # b
      BY <1>6, <1>14
    <3> HIDE DEF a, b
    <3>2. k \in 1 .. a \/ k = a + 1 \/ (a + 1 < k /\ k <= b - 2) \/ k > b
      BY <3>1
    <3> QED  BY <3>2 DEF a, b
  <2> QED  BY <1>10, <1>11, <1>12, <1>13, <2>1
<1>15. f[r.end].file = g[s.end].file /\ f[r.end].metadata = g[s.end].metadata
  BY <1>1, <1>7, <1>8 DEF Opened, Layout
<1> QED  BY <1>7, <1>8, <1>9, <1>14, <1>15 DEF SameButForSeal, r, s

-----------------------------------------------------------------------------
(* CMS: what a pinned certificate's signature says.                        *)

\* Every signature of the envelope by this key was made by sign_info, over one
\* of the documents.  What other keys signed is arbitrary, and so is everything
\* of the envelope that is not a signature.
SignedOnly(data, key, documents) ==
    \A s \in ToSet(data.signers) : s.signature.by = key.id =>
        \E d \in documents, a \in Algorithms :
            /\ s.signature.algorithm = a
            /\ s.signature.over = SignedAttributes(d, a)

\* required_attribute finds the digest that sign_info wrote.
LEMMA SignedDigest ==
    ASSUME NEW d, NEW a
    PROVE  /\ RequiredAttribute(SignedAttributes(d, a), "contentType") = {[content |-> "data"]}
           /\ RequiredAttribute(SignedAttributes(d, a), "messageDigest")
                = {[function |-> DigestName(a), of |-> d]}
           /\ RequiredAttribute(SignedAttributes(d, a), "protection") = {Protection(a)}
<1> DEFINE s == SignedAttributes(d, a)
           v == <<[content |-> "data"], [function |-> DigestName(a), of |-> d], Protection(a)>>
           oid == <<"contentType", "messageDigest", "protection">>
<1>1. /\ DOMAIN s = 1 .. 3
      /\ \A i \in 1 .. 3 : s[i] = [oid |-> oid[i], values |-> <<v[i]>>]
  BY DEF SignedAttributes, Attribute
<1> HIDE DEF s
<1>2. ASSUME NEW i \in 1 .. 3  PROVE RequiredAttribute(s, oid[i]) = {v[i]}
  <2> DEFINE found == {j \in DOMAIN s : s[j].oid = oid[i]}
  <2>1. \A j \in 1 .. 3 : oid[j] = oid[i] => j = i
    OBVIOUS
  <2> HIDE DEF oid, v
  <2>2. found = {i}
    BY <1>1, <2>1
  <2>3. Len(s[i].values) = 1 /\ s[i].values[1] = v[i]
    BY <1>1
  <2>4. RequiredAttribute(s, oid[i])
          = {s[j].values[1] : j \in {j \in found : found = {j} /\ Len(s[j].values) = 1}}
    BY DEF RequiredAttribute
  <2> QED  BY <2>2, <2>3, <2>4
<1>3. 1 \in 1 .. 3 /\ 2 \in 1 .. 3 /\ 3 \in 1 .. 3
  OBVIOUS
<1> QED  BY <1>2, <1>3 DEF s

(* An envelope that authenticate accepts for an input carries, for every   *)
(* pinned certificate, a signature of that certificate's key over this     *)
(* very input: no owner of a pinned key can be made to have signed a       *)
(* document that its sign_info never saw, whatever the envelope, the other *)
(* signers and the revocation lists say.                                   *)
THEOREM CmsAuthentic ==
    ASSUME NEW data, NEW input, NEW required, NEW issuers, NEW supplied, NEW now,
           ~ AuthenticateFails(data, input, required, issuers, supplied, now),
           NEW c \in ToSet(required), NEW documents, SignedOnly(data, c.key, documents)
    PROVE  input \in documents
<1>1. VerifySignature(data, input, c) # {}
  BY DEF AuthenticateFails, PinnedFails
<1>2. PICK s \in ToSet(data.signers) : VerifySigner(data, s, input, c) # {}
  BY <1>1 DEF VerifySignature
<1>3. PICK a \in VerifySigner(data, s, input, c) : TRUE
  BY <1>2
<1>4. PICK attributes \in s.attributes :
        /\ RequiredAttribute(attributes, "messageDigest")
             = {[function |-> DigestName(a), of |-> input]}
        /\ VerifyBytes(c.key, a, attributes, s.signature)
  BY <1>3 DEF VerifySigner
<1>5. s.signature = [by |-> c.key.id, algorithm |-> a, over |-> attributes]
  BY <1>4 DEF VerifyBytes
<1>6. PICK d \in documents, b \in Algorithms : attributes = SignedAttributes(d, b)
  BY <1>5 DEF SignedOnly
<1>7. [function |-> DigestName(b), of |-> d] = [function |-> DigestName(a), of |-> input]
  BY <1>4, <1>6, SignedDigest
<1> QED  BY <1>7

(* A package that is accepted is one its publisher packed: when one of the *)
(* pinned keys signs packages of the set Packed only, a file that opens,   *)
(* is completely and securely covered and carries an accepted CMS          *)
(* signature over its metadata is one of them, to the last cell outside    *)
(* the signature.                                                          *)
THEOREM SignedPackageAuthentic ==
    ASSUME NEW Cell, NEW Info, Decoded(Cell, Info),
           NEW file \in Seq(Cell), NEW tail \in Nat, Open(file, tail).ok,
           Covered(Open(file, tail)),
           NEW required, NEW issuers, NEW supplied, NEW now,
           ~ AuthenticateFails(Open(file, tail).meta.verification.payload[1],
                               VerificationInput(Open(file, tail).meta),
                               required, issuers, supplied, now),
           NEW Packed \in SUBSET (Seq(Cell) \X Nat),
           \A p \in Packed : Open(p[1], p[2]).ok /\ Covered(Open(p[1], p[2])),
           NEW c \in ToSet(required),
           SignedOnly(Open(file, tail).meta.verification.payload[1], c.key,
                      {VerificationInput(Open(p[1], p[2]).meta) : p \in Packed})
    PROVE  \E p \in Packed : SameButForSeal(file, Open(file, tail), p[1], Open(p[1], p[2]))
<1> DEFINE inputs == {VerificationInput(Open(p[1], p[2]).meta) : p \in Packed}
<1>1. VerificationInput(Open(file, tail).meta) \in inputs
  <2> HIDE DEF inputs
  <2> QED  BY CmsAuthentic DEF inputs
<1>2. PICK p \in Packed :
        VerificationInput(Open(file, tail).meta) = VerificationInput(Open(p[1], p[2]).meta)
  BY <1>1
<1>3. p[1] \in Seq(Cell) /\ p[2] \in Nat /\ Open(p[1], p[2]).ok /\ Covered(Open(p[1], p[2]))
  OBVIOUS
<1> QED  BY <1>2, <1>3, CoverageDeterminesFile

(* What sign makes is accepted: signers whose key, certificate and         *)
(* combination agree make an envelope that decodes, and that authenticates *)
(* the signed input for all their certificates at every moment at which    *)
(* those are in force, when no revocation list is supplied.                *)
THEOREM CmsComplete ==
    ASSUME NEW Signer, NEW signers \in Seq(Signer), NEW input, NEW issuers, NEW made, NEW now,
           \A s \in ToSet(signers) :
                /\ s.algorithm \in Algorithms
                /\ ~ SignerMismatch(s.certificate, s.secret, s.algorithm)
                /\ ~ ValidateFails(s.certificate, now),
           ~ SignFails(signers, made)
    PROVE  /\ ~ DecodeFails(Sign(signers, input))
           /\ ~ AuthenticateFails(Sign(signers, input), input,
                    [i \in DOMAIN signers |-> signers[i].certificate], issuers, << >>, now)
<1> DEFINE data == Sign(signers, input)
           required == [i \in DOMAIN signers |-> signers[i].certificate]
<1>0. /\ DOMAIN signers = 1 .. Len(signers) /\ Len(signers) \in Nat
      /\ ToSet(signers) = {signers[i] : i \in DOMAIN signers}
  BY DEF ToSet
<1>1. signers # << >> /\ 1 \in DOMAIN signers
  BY <1>0 DEF SignFails
<1>2. /\ data.content = "data" /\ data.detached /\ data.version = 1 /\ ~ data.other
      /\ data.digests = {DigestAlgorithm(s.algorithm) : s \in ToSet(signers)}
      /\ data.crls = << >>
      /\ data.signers = [i \in DOMAIN signers |-> SignInfo(signers[i], input)]
  BY DEF Sign
<1> HIDE DEF data
<1>3. ToSet(data.signers) = {SignInfo(signers[i], input) : i \in DOMAIN signers}
  BY <1>2 DEF ToSet
<1>4. ToSet(required) = {signers[i].certificate : i \in DOMAIN signers}
  BY DEF ToSet
<1>5. ToSet(data.crls) = {} /\ ToSet(<< >>) = {}
  BY <1>2 DEF ToSet
<1>6. \A i \in DOMAIN signers :
        LET info == SignInfo(signers[i], input) IN
        info.version = 1 /\ ~ ByKeyIdentifier(info)
  BY DEF SignInfo, ByKeyIdentifier
<1>7. ~ DecodeFails(data)
  <2> DEFINE expected(s) == IF ByKeyIdentifier(s) THEN 3 ELSE 1
             versions == {expected(s) : s \in ToSet(data.signers)} \cup {IF data.other THEN 5 ELSE 1}
  <2>1. \A s \in ToSet(data.signers) : s.version = 1 /\ expected(s) = 1
    BY <1>3, <1>6
  <2>2. versions = {1}
    BY <1>2, <2>1
  <2>3. (CHOOSE v \in versions : \A w \in versions : w <= v) = 1
    BY <2>2
  <2>4. ~ VersionsFail(data)
    BY <1>2, <2>1, <2>3 DEF VersionsFail
  <2>5. data.signers # << >>
    <3>1. DOMAIN data.signers = DOMAIN signers /\ DOMAIN << >> = {}
      BY <1>2
    <3> QED  BY <1>1, <3>1
  <2> QED  BY <1>2, <2>4, <2>5 DEF DecodeFails
<1>8. ASSUME NEW i \in DOMAIN signers
      PROVE  VerifySignature(data, input, signers[i].certificate) # {}
  <2> DEFINE s == signers[i]
             c == s.certificate
             a == s.algorithm
             info == SignInfo(s, input)
             attributes == SignedAttributes(input, a)
  <2>1. s \in ToSet(signers) /\ a \in Algorithms
    BY <1>0
  <2>2. s.secret.kind = KindOf(a) /\ ~ PublicKeyFails(c) /\ s.secret = c.key
    BY <2>1 DEF SignerMismatch
  <2>3. /\ info.digest = DigestAlgorithm(a) /\ info.algorithm = SignatureAlgorithm(a)
        /\ info.attributes = {attributes}
        /\ info.signature = [by |-> c.key.id, algorithm |-> a, over |-> attributes]
        /\ info.sid = [serialOf |-> c.issuer, serial |-> c.serial]
        /\ ~ ByKeyIdentifier(info)
    BY DEF SignInfo, ByKeyIdentifier
  <2>4. info \in ToSet(data.signers) /\ MatchesCertificate(info, c)
    BY <1>3, <2>3 DEF MatchesCertificate
  <2> HIDE DEF s, c, info, attributes
  <2>5. a \in SigningAlgorithm(info.digest, info.algorithm, c.key)
    BY <2>1, <2>2, <2>3
       DEF SigningAlgorithm, DigestAlgorithm, SignatureAlgorithm, Identifier, NullOrAbsent,
           DigestName, KindOf, Algorithms
  <2>6. ProtectionAgrees(Protection(a), info)
    BY <2>3 DEF ProtectionAgrees, Protection, SameAlgorithm
  <2>7. \E d \in data.digests : SameAlgorithm(d, info.digest)
    BY <1>2, <2>1, <2>3 DEF SameAlgorithm
  <2>8. VerifyBytes(c.key, a, attributes, info.signature)
    BY <2>2, <2>3 DEF VerifyBytes
  <2>9. /\ RequiredAttribute(attributes, "contentType") = {[content |-> "data"]}
        /\ RequiredAttribute(attributes, "messageDigest")
             = {[function |-> DigestName(a), of |-> input]}
        /\ RequiredAttribute(attributes, "protection") = {Protection(a)}
    BY SignedDigest DEF attributes
  <2>10. a \in VerifySigner(data, info, input, c)
    BY <2>2, <2>3, <2>5, <2>6, <2>7, <2>8, <2>9 DEF VerifySigner
  <2>11. a \in VerifySignature(data, input, c)
    BY <2>4, <2>10 DEF VerifySignature
  <2> QED  BY <2>11 DEF c, s
<1>9. ~ PinnedFails(data, input, required, now)
  <2>1. required # << >>
    <3>1. DOMAIN required = DOMAIN signers /\ DOMAIN << >> = {}
      OBVIOUS
    <3> QED  BY <1>1, <3>1
  <2>2. \A i, j \in DOMAIN required : i < j => required[i].fingerprint # required[j].fingerprint
    BY DEF SignFails
  <2>3. \A i \in DOMAIN signers : ~ ValidateFails(signers[i].certificate, now)
    BY <1>0
  <2> HIDE DEF required
  <2> QED  BY <1>4, <1>8, <2>1, <2>2, <2>3 DEF PinnedFails
<1>10. \A c : ~ RevocationFails(data, c, issuers, << >>, now)
  BY <1>5 DEF RevocationFails, MatchingLists
<1> QED  BY <1>7, <1>9, <1>10 DEF AuthenticateFails, data

-----------------------------------------------------------------------------
(* What the writer has written.                                            *)

\* The entry of a section, and the table of them all.
Entry(s) ==
    [id |-> s.id, kind |-> s.kind, length |-> Len(s.bytes),
     checksum |-> <<Compute("Sha256", s.bytes)>>]
Entries(sections) == [i \in 1 .. Len(sections) |-> Entry(sections[i])]
EntrySet(Section) == {Entry(s) : s \in Section}

\* w has written the first n sections: their entries are in its table, their
\* bytes in its cells, one after the other.
Wrote(Cell, w, sections, n) ==
    LET offset(i) == SectionOffset(Entries(sections), 1, i) IN
    /\ w.table = [i \in 1 .. n |-> Entry(sections[i])]
    /\ w.cells \in Seq(Cell) /\ Len(w.cells) = offset(n + 1)
    /\ Len(w.cells) >= 1 /\ w.cells[1] = MAGIC
    /\ \A i \in 1 .. n :
        /\ offset(i) + Len(sections[i].bytes) <= Len(w.cells)
        /\ \A k \in 1 .. Len(sections[i].bytes) : w.cells[offset(i) + k] = sections[i].bytes[k]
        /\ sections[i].kind \in Tagged =>
             /\ Len(sections[i].bytes) >= 1
             /\ sections[i].bytes[1] = SectionMagic(sections[i].kind)
        /\ \A j \in 1 .. n : sections[i].id = sections[j].id => i = j

\* The entries of sections, as a table.
EntriesHold(Cell, Section, sections) ==
    /\ Entries(sections) \in Seq(EntrySet(Section))
    /\ Len(Entries(sections)) = Len(sections)
    /\ \A x \in EntrySet(Section) : x.length \in Nat
    /\ \A i \in 1 .. Len(sections) :
         /\ Entry(sections[i]) \in EntrySet(Section)
         /\ Entries(sections)[i] = Entry(sections[i])
         /\ Entries(sections)[i].id = sections[i].id
         /\ Entries(sections)[i].kind = sections[i].kind
         /\ Entries(sections)[i].length = Len(sections[i].bytes)
         /\ Entries(sections)[i].checksum = <<Compute("Sha256", sections[i].bytes)>>
         /\ Len(sections[i].bytes) \in Nat /\ sections[i].bytes \in Seq(Cell)

\* Sections of cells have such entries.
LEMMA EntriesTable ==
    ASSUME NEW Cell, NEW Section, \A s \in Section : s.bytes \in Seq(Cell),
           NEW sections \in Seq(Section)
    PROVE  EntriesHold(Cell, Section, sections)
<1>1. Len(sections) \in Nat /\ \A i \in 1 .. Len(sections) : sections[i] \in Section
  OBVIOUS
<1>2. \A i \in 1 .. Len(sections) : Entry(sections[i]) \in EntrySet(Section)
  BY <1>1 DEF EntrySet
<1>3. \A s \in Section : Entry(s).length = Len(s.bytes) /\ Len(s.bytes) \in Nat
  BY DEF Entry
<1>4. \A x \in EntrySet(Section) : x.length \in Nat
  BY <1>3 DEF EntrySet
<1>5. Entries(sections) \in Seq(EntrySet(Section)) /\ Len(Entries(sections)) = Len(sections)
  BY <1>1, <1>2 DEF Entries
<1>6. \A i \in 1 .. Len(sections) : Entries(sections)[i] = Entry(sections[i])
  BY DEF Entries
<1>7. \A s : /\ Entry(s).id = s.id /\ Entry(s).kind = s.kind
             /\ Entry(s).checksum = <<Compute("Sha256", s.bytes)>>
  BY DEF Entry
<1> QED  BY <1>1, <1>2, <1>3, <1>4, <1>5, <1>6, <1>7 DEF EntriesHold

\* Their offsets add up, wherever the first one is.
LEMMA EntriesOffsets ==
    ASSUME NEW Cell, NEW Section, \A s \in Section : s.bytes \in Seq(Cell),
           NEW sections \in Seq(Section), NEW base \in Nat
    PROVE  /\ SectionOffset(Entries(sections), base, 1) = base
           /\ \A i \in 1 .. Len(sections) :
                /\ SectionOffset(Entries(sections), base, i) \in Nat
                /\ SectionOffset(Entries(sections), base, i + 1)
                     = SectionOffset(Entries(sections), base, i) + Len(sections[i].bytes)
<1> DEFINE T == Entries(sections)
           E == EntrySet(Section)
<1>0. EntriesHold(Cell, Section, sections)
  BY EntriesTable
<1>1. /\ T \in Seq(E) /\ Len(T) = Len(sections)
      /\ \A x \in E : x.length \in Nat
      /\ \A i \in 1 .. Len(sections) : T[i].length = Len(sections[i].bytes)
  BY <1>0 DEF EntriesHold
<1> HIDE DEF T, E
<1>2. /\ SectionOffset(T, base, 1) = base
      /\ \A i \in 1 .. Len(T) :
           /\ SectionOffset(T, base, i) \in Nat
           /\ SectionOffset(T, base, i + 1) = SectionOffset(T, base, i) + T[i].length
  BY <1>1, OffsetsAdd
<1> QED  BY <1>1, <1>2 DEF T

\* c is a followed by b.
Joined(S, c, a, b) ==
    /\ c \in Seq(S) /\ Len(c) = Len(a) + Len(b)
    /\ Len(a) \in Nat /\ Len(b) \in Nat
    /\ \A k \in 1 .. Len(a) : c[k] = a[k]
    /\ \A k \in 1 .. Len(b) : c[Len(a) + k] = b[k]

\* The cells of a concatenation.
LEMMA ConcatCells ==
    ASSUME NEW S, NEW a \in Seq(S), NEW b \in Seq(S)
    PROVE  Joined(S, a \o b, a, b)
BY DEF Joined

\* Sequences with the same cells are the same.
LEMMA SameSequence ==
    ASSUME NEW S, NEW T, NEW a \in Seq(S), NEW b \in Seq(T), Len(a) = Len(b),
           \A k \in 1 .. Len(a) : a[k] = b[k]
    PROVE  a = b
OBVIOUS

\* One more section.
LEMMA WroteNext ==
    ASSUME NEW Cell, MAGIC \in Cell, NEW Section, \A s \in Section : s.bytes \in Seq(Cell),
           NEW sections \in Seq(Section), NEW n \in 0 .. (Len(sections) - 1),
           NEW w, Wrote(Cell, w, sections, n), WriteSection(w, sections[n + 1]).ok
    PROVE  Wrote(Cell, WriteSection(w, sections[n + 1]), sections, n + 1)
<1> DEFINE s == sections[n + 1]
           T == Entries(sections)
           O(i) == SectionOffset(T, 1, i)
           v == WriteSection(w, s)
           m == Len(sections)
           E == EntrySet(Section)
<1>1. \A i \in 1 .. m : /\ Entry(sections[i]) \in E
                        /\ Len(sections[i].bytes) \in Nat /\ sections[i].bytes \in Seq(Cell)
  BY EntriesTable DEF EntriesHold
<1>2. m \in Nat /\ n \in Nat /\ n + 1 \in 1 .. m
  OBVIOUS
<1>3. /\ O(1) = 1
      /\ \A i \in 1 .. m : O(i) \in Nat /\ O(i + 1) = O(i) + Len(sections[i].bytes)
  BY EntriesOffsets
<1>4. /\ ~ \E i \in 1 .. Len(w.table) : w.table[i].id = s.id
      /\ ~ (s.kind \in Tagged /\ ~IsPrefix(<<SectionMagic(s.kind)>>, s.bytes))
      /\ v.cells = w.cells \o s.bytes
      /\ v.table = Append(w.table, Entry(s))
  BY DEF WriteSection, Fail, Entry
<1>5. /\ w.table = [i \in 1 .. n |-> Entry(sections[i])]
      /\ w.cells \in Seq(Cell) /\ Len(w.cells) = O(n + 1)
      /\ Len(w.cells) >= 1 /\ w.cells[1] = MAGIC
      /\ \A i \in 1 .. n :
          /\ O(i) + Len(sections[i].bytes) <= Len(w.cells)
          /\ \A k \in 1 .. Len(sections[i].bytes) : w.cells[O(i) + k] = sections[i].bytes[k]
          /\ sections[i].kind \in Tagged =>
               /\ Len(sections[i].bytes) >= 1
               /\ sections[i].bytes[1] = SectionMagic(sections[i].kind)
          /\ \A j \in 1 .. n : sections[i].id = sections[j].id => i = j
  BY DEF Wrote
<1> HIDE DEF O, v, T, E, m
<1>6. s.bytes \in Seq(Cell) /\ Len(s.bytes) \in Nat
  BY <1>1, <1>2
<1>7. v.table = [i \in 1 .. (n + 1) |-> Entry(sections[i])]
  <2>1. Len(w.table) = n /\ w.table \in Seq(E)
    BY <1>1, <1>2, <1>5
  <2>2. v.table = [i \in 1 .. (n + 1) |-> IF i = n + 1 THEN Entry(s) ELSE w.table[i]]
    BY <1>2, <1>4, <2>1
  <2> QED  BY <1>2, <1>5, <2>2
<1>8. /\ v.cells \in Seq(Cell) /\ Len(v.cells) = Len(w.cells) + Len(s.bytes)
      /\ Len(w.cells) \in Nat
      /\ \A k \in 1 .. Len(w.cells) : v.cells[k] = w.cells[k]
      /\ \A k \in 1 .. Len(s.bytes) : v.cells[Len(w.cells) + k] = s.bytes[k]
  <2> DEFINE a == w.cells
             b == s.bytes
             c == v.cells
  <2>1. a \in Seq(Cell) /\ b \in Seq(Cell) /\ c = a \o b
    BY <1>4, <1>5, <1>6
  <2> HIDE DEF a, b, c
  <2>2. /\ c \in Seq(Cell) /\ Len(c) = Len(a) + Len(b)
        /\ Len(a) \in Nat
        /\ \A k \in 1 .. Len(a) : c[k] = a[k]
        /\ \A k \in 1 .. Len(b) : c[Len(a) + k] = b[k]
    BY <2>1, ConcatCells DEF Joined
  <2> QED  BY <2>2 DEF a, b, c
<1>9. Len(v.cells) = O(n + 2)
  BY <1>2, <1>3, <1>5, <1>8
<1>10. Len(v.cells) >= 1 /\ v.cells[1] = MAGIC
  <2> DEFINE a == Len(w.cells)
             b == Len(s.bytes)
  <2>1. a \in Nat /\ b \in Nat /\ a >= 1 /\ Len(v.cells) = a + b
    BY <1>5, <1>6, <1>8
  <2> HIDE DEF a, b
  <2>2. a + b >= 1 /\ 1 \in 1 .. a
    BY <2>1
  <2>3. 1 \in 1 .. Len(w.cells)
    BY <2>2 DEF a
  <2>4. v.cells[1] = w.cells[1]
    BY <1>8, <2>3
  <2> QED  BY <1>5, <2>1, <2>2, <2>4
<1>11. ASSUME NEW i \in 1 .. (n + 1)
       PROVE  /\ O(i) + Len(sections[i].bytes) <= Len(v.cells)
              /\ \A k \in 1 .. Len(sections[i].bytes) : v.cells[O(i) + k] = sections[i].bytes[k]
  <2>1. CASE i = n + 1
    BY <1>5, <1>6, <1>8, <2>1
  <2>2. CASE i \in 1 .. n
    <3>1. O(i) \in Nat /\ Len(sections[i].bytes) \in Nat
      BY <1>1, <1>2, <1>3, <2>2
    <3>2. O(i) + Len(sections[i].bytes) <= Len(w.cells)
      BY <1>5, <2>2
    <3>3. ASSUME NEW k \in 1 .. Len(sections[i].bytes)
          PROVE  v.cells[O(i) + k] = sections[i].bytes[k]
      <4>1. O(i) + k \in 1 .. Len(w.cells)
        <5> DEFINE x == O(i)
                   l == Len(sections[i].bytes)
                   a == Len(w.cells)
        <5>1. x \in Nat /\ l \in Nat /\ a \in Nat /\ x + l <= a /\ k \in 1 .. l
          BY <1>8, <3>1, <3>2
        <5> HIDE DEF x, l, a
        <5>2. x + k \in 1 .. a
          BY <5>1
        <5> QED  BY <5>2 DEF x, a
      <4> QED  BY <1>5, <1>8, <2>2, <4>1
    <3>4. O(i) + Len(sections[i].bytes) <= Len(v.cells)
      <4> DEFINE x == O(i)
                 l == Len(sections[i].bytes)
                 a == Len(w.cells)
                 b == Len(s.bytes)
                 c == Len(v.cells)
      <4>1. x \in Nat /\ l \in Nat /\ a \in Nat /\ b \in Nat /\ c = a + b /\ x + l <= a
        BY <1>6, <1>8, <3>1, <3>2
      <4> HIDE DEF x, l, a, b, c
      <4>2. x + l <= c
        BY <4>1
      <4> QED  BY <4>2 DEF x, l, c
    <3> QED  BY <3>3, <3>4
  <2> QED  BY <1>2, <2>1, <2>2
<1>12. ASSUME s.kind \in Tagged
       PROVE  Len(s.bytes) >= 1 /\ s.bytes[1] = SectionMagic(s.kind)
  <2>1. IsPrefix(<<SectionMagic(s.kind)>>, s.bytes)
    BY <1>4, <1>12
  <2>2. Len(s.bytes) >= 1 /\ SubSeq(<<SectionMagic(s.kind)>>, 1, 1) = SubSeq(s.bytes, 1, 1)
    BY <2>1 DEF IsPrefix
  <2>3. SubSeq(<<SectionMagic(s.kind)>>, 1, 1)[1] = SectionMagic(s.kind)
    OBVIOUS
  <2>4. SubSeq(s.bytes, 1, 1)[1] = s.bytes[1]
    BY <1>6, <2>2
  <2> QED  BY <2>2, <2>3, <2>4
<1>13. ASSUME NEW i \in 1 .. (n + 1), NEW j \in 1 .. (n + 1), sections[i].id = sections[j].id
       PROVE  i = j
  <2>1. \A k \in 1 .. n : sections[k].id # s.id
    <3>1. Len(w.table) = n /\ \A k \in 1 .. n : w.table[k].id = sections[k].id
      BY <1>2, <1>5 DEF Entry
    <3> QED  BY <1>4, <3>1
  <2>2. (i = n + 1 \/ i \in 1 .. n) /\ (j = n + 1 \/ j \in 1 .. n)
    BY <1>2
  <2> QED  BY <1>5, <1>13, <2>1, <2>2
<1>14. n + 2 = (n + 1) + 1
  BY <1>2
<1>15. ASSUME NEW i \in 1 .. (n + 1), sections[i].kind \in Tagged
       PROVE  /\ Len(sections[i].bytes) >= 1
              /\ sections[i].bytes[1] = SectionMagic(sections[i].kind)
  <2>1. i = n + 1 \/ i \in 1 .. n
    BY <1>2
  <2> QED  BY <1>5, <1>12, <1>15, <2>1
<1> QED
  BY <1>7, <1>8, <1>9, <1>10, <1>11, <1>13, <1>14, <1>15 DEF Wrote, O, T, v

\* The writer, section by section.
LEMMA WritesAll ==
    ASSUME NEW Cell, MAGIC \in Cell, NEW Section, \A s \in Section : s.bytes \in Seq(Cell),
           NEW sections \in Seq(Section), WriteSections(sections).ok
    PROVE  Wrote(Cell, WriteSections(sections), sections, Len(sections))
<1> DEFINE m == Len(sections)
           E == EntrySet(Section)
           W == {Fail("Invalid")} \cup [ok : {TRUE}, table : Seq(E), cells : Seq(Cell)]
           Step(x, i) == IF x.ok THEN WriteSection(x, sections[i]) ELSE x
           G == [x \in W \X (1 .. m) |-> Step(x[1], x[2])]
           D(g) == g = [n \in 0 .. m |->
                          IF n = 0 THEN NewWriter
                          ELSE IF g[n - 1].ok THEN WriteSection(g[n - 1], sections[n])
                          ELSE g[n - 1]]
           s == CHOOSE g : D(g)
<1>1. m \in Nat /\ NewWriter \in W
  BY DEF NewWriter
<1>2. ASSUME NEW x \in W, NEW i \in 1 .. m  PROVE Step(x, i) \in W
  <2>1. CASE x.ok
    <3>1. x.table \in Seq(E) /\ x.cells \in Seq(Cell)
      <4>1. x # Fail("Invalid")
        BY <2>1 DEF Fail
      <4>2. x \in [ok : {TRUE}, table : Seq(E), cells : Seq(Cell)]
        BY <4>1
      <4> HIDE DEF E
      <4> QED  BY <4>2
    <3>2. Entry(sections[i]) \in E /\ sections[i].bytes \in Seq(Cell)
      <4>1. sections[i] \in Section
        OBVIOUS
      <4> QED  BY <4>1 DEF EntrySet
    <3>3. Append(x.table, Entry(sections[i])) \in Seq(E) /\ x.cells \o sections[i].bytes \in Seq(Cell)
      <4> HIDE DEF E
      <4> QED  BY <3>1, <3>2
    <3> HIDE DEF E
    <3> QED  BY <2>1, <3>3 DEF WriteSection, Entry
  <2>2. CASE ~ x.ok
    BY <2>2
  <2> QED  BY <2>1, <2>2
<1>3. G \in [W \X (1 .. m) -> W]
  <2> HIDE DEF W, Step, m
  <2> QED  BY <1>2
<1>4. \E f : Iterates(f, m, W, NewWriter, G)
  <2> HIDE DEF m, G, W
  <2> QED  BY <1>1, <1>3, Recursion
<1>5. PICK f \in [0 .. m -> W] : f[0] = NewWriter /\ \A i \in 1 .. m : f[i] = G[<<f[i - 1], i>>]
  BY <1>4 DEF Iterates
<1>6. \A i \in 1 .. m : f[i] = Step(f[i - 1], i)
  <2> TAKE i \in 1 .. m
  <2> HIDE DEF Step, W
  <2>1. i - 1 \in 0 .. m /\ f[i - 1] \in W
    BY <1>1
  <2> QED  BY <1>5, <2>1
<1>7. D(f)
  <2> HIDE DEF W
  <2> QED  BY <1>1, <1>5, <1>6
<1>8. D(s)
  BY <1>7
<1>9. WriteSections(sections) = s[m]
  BY DEF WriteSections
<1> HIDE DEF s, G, W
<1>10. s[0] = NewWriter
  BY <1>1, <1>8
<1>11. \A n \in 1 .. m :
         s[n] = IF s[n - 1].ok THEN WriteSection(s[n - 1], sections[n]) ELSE s[n - 1]
  BY <1>1, <1>8
<1> DEFINE T == {i \in 0 .. m : s[i].ok => Wrote(Cell, s[i], sections, i)}
<1>12. 0 \in T
  <2>1. Wrote(Cell, NewWriter, sections, 0)
    <3>1. SectionOffset(Entries(sections), 1, 0 + 1) = 1
      <4> DEFINE one == 1
      <4>1. one \in Nat
        OBVIOUS
      <4> HIDE DEF one
      <4>2. SectionOffset(Entries(sections), one, 1) = one
        BY <4>1, EntriesOffsets
      <4> QED  BY <4>2 DEF one
    <3>2. << >> = [i \in 1 .. 0 |-> Entry(sections[i])]
      OBVIOUS
    <3>3. <<MAGIC>> \in Seq(Cell) /\ Len(<<MAGIC>>) = 1 /\ <<MAGIC>>[1] = MAGIC
      OBVIOUS
    <3> QED  BY <3>1, <3>2, <3>3 DEF Wrote, NewWriter
  <2> QED  BY <1>1, <1>10, <2>1
<1>13. ASSUME NEW i \in 0 .. (m - 1), i \in T  PROVE i + 1 \in T
  <2>1. i + 1 \in 1 .. m /\ (i + 1) - 1 = i /\ i + 1 \in 0 .. m
    BY <1>1
  <2>2. s[i + 1] = IF s[i].ok THEN WriteSection(s[i], sections[i + 1]) ELSE s[i]
    BY <1>11, <2>1
  <2>3. ASSUME s[i + 1].ok  PROVE Wrote(Cell, s[i + 1], sections, i + 1)
    <3>1. s[i].ok /\ s[i + 1] = WriteSection(s[i], sections[i + 1])
      BY <2>2, <2>3
    <3>2. Wrote(Cell, s[i], sections, i)
      BY <1>13, <3>1
    <3> QED  BY <2>3, <3>1, <3>2, WroteNext
  <2> QED  BY <2>1, <2>3
<1>14. \A i \in 0 .. m : i \in T
  <2> HIDE DEF T, m
  <2> QED  BY <1>1, <1>12, <1>13, Induction
<1>15. m \in T
  BY <1>1, <1>14
<1> QED  BY <1>9, <1>15

\* Moving a table moves its sections.
LEMMA OffsetsShift ==
    ASSUME NEW Info, \A x \in Info : x.length \in Nat, NEW table \in Seq(Info),
           NEW base \in Nat, NEW h \in Nat
    PROVE  \A i \in 1 .. (Len(table) + 1) :
             /\ SectionOffset(table, base, i) \in Nat
             /\ SectionOffset(table, h + base, i) = h + SectionOffset(table, base, i)
<1> DEFINE m == Len(table)
           b == h + base
           A(i) == SectionOffset(table, base, i)
           B(i) == SectionOffset(table, b, i)
           T == {i \in 0 .. m : A(i + 1) \in Nat /\ B(i + 1) = h + A(i + 1)}
<1>1. m \in Nat /\ b \in Nat /\ \A i \in 1 .. m : table[i].length \in Nat
  OBVIOUS
<1>2. /\ A(1) = base
      /\ \A i \in 1 .. m : A(i) \in Nat /\ A(i + 1) = A(i) + table[i].length
  BY OffsetsAdd
<1>3. /\ B(1) = b
      /\ \A i \in 1 .. m : B(i) \in Nat /\ B(i + 1) = B(i) + table[i].length
  <2> HIDE DEF b
  <2> QED  BY <1>1, OffsetsAdd
<1> HIDE DEF A, B, m
<1>4. 0 \in T
  BY <1>1, <1>2, <1>3
<1>5. ASSUME NEW i \in 0 .. (m - 1), i \in T  PROVE i + 1 \in T
  <2>1. i + 1 \in 1 .. m /\ i + 1 \in 0 .. m
    BY <1>1
  <2>2. A((i + 1) + 1) = A(i + 1) + table[i + 1].length
    BY <1>2, <2>1
  <2>3. B((i + 1) + 1) = B(i + 1) + table[i + 1].length
    BY <1>3, <2>1
  <2> DEFINE l == table[i + 1].length
             x == A(i + 1)
  <2>4. l \in Nat /\ x \in Nat /\ B(i + 1) = h + x
    BY <1>1, <1>5, <2>1
  <2>5. A((i + 1) + 1) = x + l /\ B((i + 1) + 1) = (h + x) + l
    BY <2>2, <2>3, <2>4
  <2> HIDE DEF l, x
  <2>6. A((i + 1) + 1) \in Nat /\ B((i + 1) + 1) = h + A((i + 1) + 1)
    BY <2>4, <2>5
  <2> QED  BY <2>1, <2>6
<1>6. \A i \in 0 .. m : i \in T
  <2> HIDE DEF T
  <2> QED  BY <1>1, <1>4, <1>5, Induction
<1>7. ASSUME NEW i \in 1 .. (m + 1)  PROVE A(i) \in Nat /\ B(i) = h + A(i)
  <2>1. i - 1 \in 0 .. m /\ (i - 1) + 1 = i
    BY <1>1
  <2>2. A((i - 1) + 1) \in Nat /\ B((i - 1) + 1) = h + A((i - 1) + 1)
    BY <1>6, <2>1
  <2> QED  BY <2>1, <2>2
<1> QED  BY <1>7 DEF A, B, m

\* Where the parts of a written file are.
Places(file, header, cells, meta, footer, tail) ==
    LET h == Len(header) c == Len(cells) t == Len(tail) IN
    /\ Len(file) = h + c + 2 + t
    /\ \A k \in 1 .. h : file[k] = header[k]
    /\ \A k \in 1 .. c : file[h + k] = cells[k]
    /\ file[h + c + 1] = meta
    /\ file[h + c + 2] = footer
    /\ \A k \in 1 .. t : file[h + c + 2 + k] = tail[k]

\* Header, sections, metadata, footer and tail, one after the other.
LEMMA PartsPlaced ==
    ASSUME NEW Cell, NEW header \in Seq(Cell), NEW cells \in Seq(Cell), NEW tail \in Seq(Cell),
           NEW meta \in Cell, NEW footer \in Cell
    PROVE  /\ header \o (cells \o <<meta, footer>>) \o tail \in Seq(Cell)
           /\ Places(header \o (cells \o <<meta, footer>>) \o tail,
                     header, cells, meta, footer, tail)
<1> DEFINE seal == <<meta, footer>>
           body == cells \o seal
           front == header \o body
           file == front \o tail
           h == Len(header)
           c == Len(cells)
           t == Len(tail)
<1>1. seal \in Seq(Cell) /\ Len(seal) = 2 /\ seal[1] = meta /\ seal[2] = footer
  OBVIOUS
<1> HIDE DEF seal
<1>2. /\ body \in Seq(Cell) /\ Len(body) = c + 2 /\ c \in Nat
      /\ \A k \in 1 .. c : body[k] = cells[k]
      /\ body[c + 1] = meta /\ body[c + 2] = footer
  <2>1. Joined(Cell, body, cells, seal)
    BY <1>1, ConcatCells
  <2> HIDE DEF body
  <2> QED  BY <1>1, <2>1 DEF Joined
<1>3. /\ front \in Seq(Cell) /\ Len(front) = h + Len(body) /\ h \in Nat
      /\ \A k \in 1 .. h : front[k] = header[k]
      /\ \A k \in 1 .. Len(body) : front[h + k] = body[k]
  <2> HIDE DEF body
  <2>1. Joined(Cell, front, header, body)
    BY <1>2, ConcatCells
  <2> HIDE DEF front
  <2> QED  BY <2>1 DEF Joined
<1>4. /\ file \in Seq(Cell) /\ Len(file) = Len(front) + t /\ t \in Nat
      /\ \A k \in 1 .. Len(front) : file[k] = front[k]
      /\ \A k \in 1 .. t : file[Len(front) + k] = tail[k]
  <2> HIDE DEF front
  <2>1. Joined(Cell, file, front, tail)
    BY <1>3, ConcatCells
  <2> HIDE DEF file
  <2> QED  BY <2>1 DEF Joined
<1> HIDE DEF body, front, file, h, c, t
<1>5. Len(front) = h + c + 2 /\ Len(file) = h + c + 2 + t
  BY <1>2, <1>3, <1>4
<1>6. ASSUME NEW k \in 1 .. (c + 2)  PROVE file[h + k] = body[k]
  <2>1. h + k \in 1 .. Len(front) /\ k \in 1 .. Len(body)
    BY <1>2, <1>3, <1>5
  <2> QED  BY <1>3, <1>4, <2>1
<1>7. /\ \A k \in 1 .. h : file[k] = header[k]
      /\ \A k \in 1 .. c : file[h + k] = cells[k]
      /\ \A k \in 1 .. t : file[h + c + 2 + k] = tail[k]
  <2>1. ASSUME NEW k \in 1 .. h  PROVE file[k] = header[k]
    <3>1. k \in 1 .. Len(front)
      BY <1>2, <1>3, <1>5
    <3> QED  BY <1>3, <1>4, <3>1
  <2>2. ASSUME NEW k \in 1 .. c  PROVE file[h + k] = cells[k]
    <3>1. k \in 1 .. (c + 2)
      BY <1>2
    <3> QED  BY <1>2, <1>6, <3>1
  <2>3. \A k \in 1 .. t : file[h + c + 2 + k] = tail[k]
    BY <1>4, <1>5
  <2> QED  BY <2>1, <2>2, <2>3
<1>8. file[h + c + 1] = meta /\ file[h + c + 2] = footer
  <2>1. c + 1 \in 1 .. (c + 2) /\ c + 2 \in 1 .. (c + 2)
    BY <1>2
  <2>2. file[h + (c + 1)] = meta /\ file[h + (c + 2)] = footer
    BY <1>2, <1>6, <2>1
  <2>3. h + (c + 1) = h + c + 1 /\ h + (c + 2) = h + c + 2
    BY <1>2, <1>3
  <2> QED  BY <2>2, <2>3
<1> QED
  BY <1>4, <1>5, <1>7, <1>8 DEF Places, file, front, body, seal, h, c, t

\* The table of w, in a file that starts at start: without fault, and every
\* section is where its entry says.
TableReads(file, start, w, sections) ==
    /\ TableFault(file, w.table, start + 1, start + Len(w.cells)) = "none"
    /\ \A i \in 1 .. Len(sections) :
         ReadAt(file, SectionOffset(w.table, start + 1, i), w.table[i].length)
           = sections[i].bytes

\* The reader finds that of a written file.
LEMMA WrittenTable ==
    ASSUME NEW Cell, NEW Section, \A s \in Section : s.bytes \in Seq(Cell),
           NEW sections \in Seq(Section), NEW w, Wrote(Cell, w, sections, Len(sections)),
           NEW header \in Seq(Cell), NEW tail \in Seq(Cell), NEW meta, NEW footer, NEW file,
           NEW All, file \in Seq(All), Places(file, header, w.cells, meta, footer, tail)
    PROVE  TableReads(file, Len(header), w, sections)
<1> DEFINE h == Len(header)
           c == Len(w.cells)
           T == Entries(sections)
           m == Len(sections)
           E == EntrySet(Section)
           O(i) == SectionOffset(T, 1, i)
           P(i) == SectionOffset(T, h + 1, i)
<1>1. EntriesHold(Cell, Section, sections)
  BY EntriesTable
<1>2. w.table = T
  BY DEF Wrote, Entries
<1>3. h \in Nat /\ m \in Nat /\ w.cells \in Seq(Cell) /\ c \in Nat /\ Len(tail) \in Nat
  BY DEF Wrote
<1>4. /\ T \in Seq(E) /\ Len(T) = m /\ (\A x \in E : x.length \in Nat)
      /\ \A i \in 1 .. m : /\ T[i] = Entry(sections[i])
                           /\ T[i].length = Len(sections[i].bytes)
                           /\ Len(sections[i].bytes) \in Nat
                           /\ sections[i].bytes \in Seq(Cell)
  BY <1>1 DEF EntriesHold
<1>5. /\ c = O(m + 1) /\ c >= 1 /\ w.cells[1] = MAGIC
      /\ \A i \in 1 .. m :
          /\ O(i) + Len(sections[i].bytes) <= c
          /\ \A k \in 1 .. Len(sections[i].bytes) : w.cells[O(i) + k] = sections[i].bytes[k]
          /\ sections[i].kind \in Tagged =>
               /\ Len(sections[i].bytes) >= 1
               /\ sections[i].bytes[1] = SectionMagic(sections[i].kind)
          /\ \A j \in 1 .. m : sections[i].id = sections[j].id => i = j
  BY DEF Wrote
<1>6. \A i \in 1 .. (m + 1) : O(i) \in Nat /\ P(i) = h + O(i)
  <2> HIDE DEF T, E, h
  <2> DEFINE one == 1
  <2>1. one \in Nat
    OBVIOUS
  <2> HIDE DEF one
  <2>2. \A i \in 1 .. (Len(T) + 1) :
          /\ SectionOffset(T, one, i) \in Nat
          /\ SectionOffset(T, h + one, i) = h + SectionOffset(T, one, i)
    BY <1>3, <1>4, <2>1, OffsetsShift
  <2> QED  BY <1>4, <2>2 DEF one
<1>7. /\ Len(file) = h + c + 2 + Len(tail)
      /\ \A k \in 1 .. c : file[h + k] = w.cells[k]
  BY DEF Places
<1> HIDE DEF O, P, T, h, c, m, E
<1>a. \A i \in 1 .. m : /\ T[i].id = sections[i].id /\ T[i].kind = sections[i].kind
                        /\ T[i].checksum = <<Compute("Sha256", sections[i].bytes)>>
  BY <1>4 DEF Entry
<1>8. ASSUME NEW i \in 1 .. m
      PROVE  LET o == P(i) l == Len(sections[i].bytes) IN
             /\ o \in Nat /\ l \in Nat /\ o + l <= h + c /\ o + l <= Len(file)
             /\ \A k \in 1 .. l : file[o + k] = sections[i].bytes[k]
  <2> DEFINE q == O(i)
             l == Len(sections[i].bytes)
  <2>1. q \in Nat /\ l \in Nat /\ q + l <= c /\ P(i) = h + q
    <3>1. i \in 1 .. (m + 1)
      BY <1>3
    <3>2. q \in Nat /\ P(i) = h + q
      BY <1>6, <3>1
    <3> QED  BY <1>4, <1>5, <3>2
  <2>2. \A k \in 1 .. l : w.cells[q + k] = sections[i].bytes[k]
    BY <1>5
  <2> HIDE DEF q, l
  <2>3. h + q \in Nat /\ (h + q) + l <= h + c /\ (h + q) + l <= Len(file)
    BY <1>3, <1>7, <2>1
  <2>4. ASSUME NEW k \in 1 .. l  PROVE file[(h + q) + k] = sections[i].bytes[k]
    <3>1. q + k \in 1 .. c /\ (h + q) + k = h + (q + k)
      BY <1>3, <2>1
    <3> QED  BY <1>7, <2>2, <3>1
  <2> QED  BY <2>1, <2>3, <2>4 DEF l
<1>9. ASSUME NEW i \in 1 .. m
      PROVE  ReadAt(file, P(i), T[i].length) = sections[i].bytes
  <2> DEFINE o == P(i)
             l == Len(sections[i].bytes)
             b == sections[i].bytes
  <2>a. o \in Nat /\ l \in Nat /\ o + l <= Len(file) /\ \A k \in 1 .. l : file[o + k] = b[k]
    BY <1>8
  <2>b. T[i].length = l /\ b \in Seq(Cell) /\ Len(b) = l
    BY <1>4
  <2>1. /\ o \in Nat /\ l \in Nat /\ o + l <= Len(file) /\ T[i].length = l
        /\ b \in Seq(Cell) /\ Len(b) = l /\ \A k \in 1 .. l : file[o + k] = b[k]
    BY <2>a, <2>b
  <2> HIDE DEF o, l, b
  <2>2. /\ ReadAt(file, o, l) \in Seq(All) /\ Len(ReadAt(file, o, l)) = l
        /\ \A k \in 1 .. l : ReadAt(file, o, l)[k] = file[o + k]
    BY <2>a, ReadCells
  <2>3. ReadAt(file, o, l) = b
    <3> DEFINE a == ReadAt(file, o, l)
    <3>1. a \in Seq(All) /\ Len(a) = Len(b) /\ \A k \in 1 .. Len(a) : a[k] = b[k]
      BY <2>1, <2>2
    <3> HIDE DEF a
    <3>2. a = b
      BY <2>1, <3>1, SameSequence
    <3> QED  BY <3>2 DEF a
  <2> QED  BY <2>1, <2>3 DEF o, b
<1>10. ASSUME NEW i \in 1 .. m  PROVE EntryFault(file, T, h + 1, h + c, i) = "none"
  <2>1. SectionFault(T[i]) = "none"
    <3>1. T[i].checksum = <<Compute("Sha256", sections[i].bytes)>>
      BY <1>a
    <3>2. ChecksumFault(Compute("Sha256", sections[i].bytes)) = "none"
      BY DEF ChecksumFault, Compute, Algorithm, Secure
    <3>3. T[i].kind \in Tagged => ~ (T[i].length < 1)
      <4>1. T[i].kind \in Tagged => T[i].length \in Nat /\ T[i].length >= 1
        BY <1>4, <1>5, <1>a
      <4> QED  BY <4>1
    <3> QED  BY <3>1, <3>2, <3>3 DEF SectionFault
  <2>2. ASSUME NEW j \in 1 .. (i - 1)  PROVE T[j].id # T[i].id
    <3>1. j \in 1 .. m /\ j # i
      BY <1>3
    <3> QED  BY <1>5, <1>a, <3>1
  <2>3. ~ (P(i) + T[i].length > h + c)
    <3> DEFINE o == P(i)
               l == T[i].length
    <3>1. o \in Nat /\ l \in Nat /\ o + l <= h + c
      BY <1>4, <1>8
    <3> HIDE DEF o, l
    <3>2. ~ (o + l > h + c)
      BY <1>3, <3>1
    <3> QED  BY <3>2 DEF o, l
  <2>4. T[i].kind \in Tagged => ReadAt(file, P(i), 1) = <<SectionMagic(T[i].kind)>>
    <3> SUFFICES ASSUME T[i].kind \in Tagged
                 PROVE  ReadAt(file, P(i), 1) = <<SectionMagic(T[i].kind)>>
      OBVIOUS
    <3> DEFINE o == P(i)
               x == SectionMagic(T[i].kind)
               one == 1
    <3>1. Len(sections[i].bytes) >= 1 /\ sections[i].bytes[1] = x
      BY <1>5, <1>a
    <3> DEFINE b == sections[i].bytes
               l == Len(b)
    <3>a. l \in Nat /\ l >= 1 /\ b[1] = x
      BY <1>4, <3>1
    <3>b. o \in Nat /\ o + l <= Len(file) /\ Len(file) \in Nat
          /\ \A k \in 1 .. l : file[o + k] = b[k]
      BY <1>3, <1>8
    <3>2. o \in Nat /\ o + 1 <= Len(file) /\ file[o + 1] = x
      <4> HIDE DEF o, l, b, x
      <4>1. 1 \in 1 .. l /\ o + 1 <= Len(file)
        BY <3>a, <3>b
      <4> QED  BY <3>a, <3>b, <4>1
    <3>3. one \in Nat /\ o + one <= Len(file)
      BY <3>2
    <3> HIDE DEF o, x, one
    <3>4. /\ ReadAt(file, o, one) \in Seq(All) /\ Len(ReadAt(file, o, one)) = one
          /\ \A k \in 1 .. one : ReadAt(file, o, one)[k] = file[o + k]
      BY <3>2, <3>3, ReadCells
    <3>5. ReadAt(file, o, 1) = <<x>>
      BY <3>2, <3>4 DEF one
    <3> QED  BY <3>5 DEF o, x
  <2> QED  BY <2>1, <2>2, <2>3, <2>4 DEF EntryFault, P
<1>11. P(Len(T) + 1) = h + c
  BY <1>3, <1>4, <1>5, <1>6
<1>12. TableFault(file, T, h + 1, h + c) = "none"
  BY <1>4, <1>10, <1>11 DEF TableFault, P
<1> QED  BY <1>2, <1>9, <1>12 DEF TableReads, P, h, c, m

\* finish_with: the metadata has no fault and the payload verifies, and what is
\* written last is the metadata and the footer.
Finished(w, meta, out) ==
    /\ MetadataFault(meta) = "none"
    /\ VerificationFault(meta.verification) = "none"
    /\ meta.verification.kind = "checksum"
         => Verifies(meta.verification.payload[1], <<VerificationInput(meta)>>)
    /\ out.cells = w.cells \o <<meta, [t |-> "end", metadata |-> 2, file |-> Len(w.cells) + 2]>>

\* What finish_with has checked when it succeeds.
LEMMA FinishChecks ==
    ASSUME NEW w, NEW metadata, NEW kind, NEW payload, FinishWith(w, metadata, kind, payload).ok
    PROVE  Finished(w, Sealed(w, metadata, kind, payload), FinishWith(w, metadata, kind, payload))
<1> DEFINE meta == Sealed(w, metadata, kind, payload)
           out == FinishWith(w, metadata, kind, payload)
           good == [ok |-> TRUE, cells |-> w.cells \o
                      <<meta, [t |-> "end", metadata |-> 2, file |-> Len(w.cells) + 2]>>]
<1>1. \A k : Fail(k).ok = FALSE
  BY DEF Fail
<1>2. out = IF MetadataFault(meta) # "none" THEN Fail(MetadataFault(meta))
            ELSE IF VerificationFault(meta.verification) # "none"
            THEN Fail(VerificationFault(meta.verification))
            ELSE IF kind = "checksum" /\ ~Verifies(payload[1], <<VerificationInput(meta)>>)
            THEN Fail("Verification")
            ELSE good
  BY DEF FinishWith
<1>3. meta.verification.kind = kind /\ meta.verification.payload = payload
  BY DEF Sealed
<1>4. out.ok
  OBVIOUS
<1>5. good.cells = w.cells \o <<meta, [t |-> "end", metadata |-> 2, file |-> Len(w.cells) + 2]>>
  OBVIOUS
<1> HIDE DEF meta, out, good
<1>6. /\ MetadataFault(meta) = "none" /\ VerificationFault(meta.verification) = "none"
      /\ ~ (kind = "checksum" /\ ~Verifies(payload[1], <<VerificationInput(meta)>>))
      /\ out = good
  BY <1>1, <1>2, <1>4
<1> QED  BY <1>3, <1>5, <1>6 DEF Finished, meta, out

\* The reader of a file laid out like that.
LEMMA PlacesOpen ==
    ASSUME NEW All, NEW file \in Seq(All), NEW header, NEW cells, NEW tail, NEW meta,
           Len(header) \in Nat, Len(cells) \in Nat, Len(tail) \in Nat,
           Len(cells) >= 1, cells[1] = MAGIC,
           Places(file, header, cells, meta,
                  [t |-> "end", metadata |-> 2, file |-> Len(cells) + 2], tail),
           meta.t = "metadata", meta.version = <<0, 1>>,
           MetadataFault(meta) = "none", VerificationFault(meta.verification) = "none",
           TableFault(file, meta.table, Len(header) + 1, Len(header) + Len(cells)) = "none",
           RegionSizes(meta, Len(header), Len(tail))
    PROVE  Open(file, Len(tail)) = [ok |-> TRUE, file |-> file, start |-> Len(header),
                                    end |-> Len(header) + Len(cells) + 2, meta |-> meta]
<1> DEFINE h == Len(header)
           c == Len(cells)
           t == Len(tail)
           end == Len(file) - t
           footer == file[end]
           m == end - footer.metadata
           start == end - footer.file
           read == file[m + 1]
           opened == [ok |-> TRUE, file |-> file, start |-> start, end |-> end, meta |-> read]
           fault == \/ t >= Len(file) \/ footer.t # "end"
                    \/ footer.metadata > end \/ footer.file > end
                    \/ m < start + 1 \/ footer.metadata < 1
                    \/ ReadAt(file, start, 1) # <<MAGIC>>
                    \/ footer.metadata # 2 \/ read.t # "metadata"
<1>1. h \in Nat /\ c \in Nat /\ t \in Nat /\ c >= 1
  OBVIOUS
<1>2. /\ Len(file) = h + c + 2 + t
      /\ file[h + 1] = MAGIC
      /\ file[h + c + 1] = meta
      /\ file[h + c + 2] = [t |-> "end", metadata |-> 2, file |-> c + 2]
  BY <1>1 DEF Places
<1> HIDE DEF h, c, t
<1>3. end = h + c + 2
  BY <1>1, <1>2
<1>4. footer.t = "end" /\ footer.metadata = 2 /\ footer.file = c + 2
  BY <1>2, <1>3
<1>5. m = h + c /\ start = h
  <2>1. m = end - 2 /\ start = end - (c + 2)
    <3> HIDE DEF end, footer
    <3> QED  BY <1>4
  <2>2. \A e : e = h + c + 2 => e - 2 = h + c /\ e - (c + 2) = h
    BY <1>1
  <2> HIDE DEF end, footer, m, start
  <2> QED  BY <1>3, <2>1, <2>2
<1>6. read = meta
  <2>1. m + 1 = h + c + 1
    BY <1>5
  <2> HIDE DEF m
  <2> QED  BY <1>2, <2>1
<1>7. ReadAt(file, start, 1) = <<MAGIC>>
  <2> DEFINE one == 1
  <2>1. one \in Nat /\ h \in Nat /\ h + one <= Len(file)
    BY <1>1, <1>2
  <2> HIDE DEF one, end, footer, m, start, read
  <2>2. /\ ReadAt(file, h, one) \in Seq(All) /\ Len(ReadAt(file, h, one)) = one
        /\ \A k \in 1 .. one : ReadAt(file, h, one)[k] = file[h + k]
    BY <2>1, ReadCells
  <2>3. ReadAt(file, h, 1) = <<MAGIC>>
    BY <1>2, <2>2 DEF one
  <2> QED  BY <1>5, <2>3
<1> HIDE DEF end, footer, m, start, read
<1>8. ~ fault
  BY <1>1, <1>2, <1>3, <1>4, <1>5, <1>6, <1>7
<1>9. Open(file, t) =
          IF fault THEN Fail("Invalid")
          ELSE IF read.version # <<0, 1>> THEN Fail("Unsupported")
          ELSE IF MetadataFault(read) # "none" THEN Fail(MetadataFault(read))
          ELSE IF VerificationFault(read.verification) # "none"
          THEN Fail(VerificationFault(read.verification))
          ELSE IF TableFault(file, read.table, start + 1, m) # "none"
          THEN Fail(TableFault(file, read.table, start + 1, m))
          ELSE IF ~RegionSizes(read, start, t) THEN Fail("Invalid")
          ELSE opened
  BY DEF Open, fault, read, m, start, footer, end
<1>10. /\ TableFault(file, read.table, start + 1, m) = "none"
       /\ RegionSizes(read, start, t)
  BY <1>5, <1>6 DEF h, c, t
<1> HIDE DEF fault, opened
<1>11. Open(file, t) = opened
  BY <1>6, <1>8, <1>9, <1>10
<1> QED  BY <1>3, <1>5, <1>6, <1>11 DEF opened, h, c, t

\* What is stored: what precedes the container, the container, what follows it.
WrittenFile(sections, metadata, kind, payload, header, tail) ==
    header \o FinishWith(WriteSections(sections), metadata, kind, payload).cells \o tail

\* A writer's run that has succeeded, over the cells of a file and their tables.
Written(Cell, Info, Section, sections, metadata, kind, payload, header, tail) ==
    /\ Decoded(Cell, Info) /\ MAGIC \in Cell
    /\ \A s \in Section : s.bytes \in Seq(Cell)
    /\ EntrySet(Section) \subseteq Info
    /\ sections \in Seq(Section) /\ header \in Seq(Cell) /\ tail \in Seq(Cell)
    /\ WriteSections(sections).ok
    /\ FinishWith(WriteSections(sections), metadata, kind, payload).ok
    /\ RegionSizes(metadata, Len(header), Len(tail))

\* The reader of a written file: it holds the written metadata, and every
\* section is where its entry says.
Reads(Cell, Info, sections, w, meta, out, header, tail, file) ==
    /\ Finished(w, meta, out)
    /\ Wrote(Cell, w, sections, Len(sections))
    /\ \E All : Decoded(All, Info) /\ file \in Seq(All) /\ meta.table \in Seq(Info)
    /\ Places(file, header, w.cells, meta,
              [t |-> "end", metadata |-> 2, file |-> Len(w.cells) + 2], tail)
    /\ Open(file, Len(tail)) = [ok |-> TRUE, file |-> file, start |-> Len(header),
                                end |-> Len(header) + Len(w.cells) + 2, meta |-> meta]
    /\ TableReads(file, Len(header), w, sections)

\* The writer's files have such readers.
LEMMA WrittenReader ==
    ASSUME NEW Cell, NEW Info, NEW Section, NEW sections, NEW metadata, NEW kind, NEW payload,
           NEW header, NEW tail,
           Written(Cell, Info, Section, sections, metadata, kind, payload, header, tail)
    PROVE  Reads(Cell, Info, sections, WriteSections(sections),
                 Sealed(WriteSections(sections), metadata, kind, payload),
                 FinishWith(WriteSections(sections), metadata, kind, payload), header, tail,
                 WrittenFile(sections, metadata, kind, payload, header, tail))
<1> DEFINE w == WriteSections(sections)
           meta == Sealed(w, metadata, kind, payload)
           out == FinishWith(w, metadata, kind, payload)
           footer == [t |-> "end", metadata |-> 2, file |-> Len(w.cells) + 2]
           file == header \o out.cells \o tail
           All == Cell \cup {meta, footer}
<1>0. /\ Decoded(Cell, Info) /\ MAGIC \in Cell
      /\ \A s \in Section : s.bytes \in Seq(Cell)
      /\ EntrySet(Section) \subseteq Info
      /\ sections \in Seq(Section) /\ header \in Seq(Cell) /\ tail \in Seq(Cell)
      /\ w.ok /\ out.ok
      /\ RegionSizes(metadata, Len(header), Len(tail))
  BY DEF Written
<1>1. Wrote(Cell, w, sections, Len(sections))
  BY <1>0, WritesAll
<1> HIDE DEF w
<1>2. Finished(w, meta, out)
  BY <1>0, FinishChecks
<1>3. /\ meta.t = "metadata" /\ meta.version = <<0, 1>> /\ meta.table = w.table
      /\ meta.header = metadata.header /\ meta.tail = metadata.tail
  BY DEF Sealed
<1>4. footer.t = "end" /\ footer.metadata = 2 /\ footer.file = Len(w.cells) + 2
  OBVIOUS
<1>5. /\ w.cells \in Seq(Cell) /\ Len(w.cells) \in Nat /\ Len(w.cells) >= 1 /\ w.cells[1] = MAGIC
      /\ Len(header) \in Nat /\ Len(tail) \in Nat
  BY <1>0, <1>1 DEF Wrote
<1>6. meta.table \in Seq(Info)
  <2>1. Entries(sections) \in Seq(EntrySet(Section))
    BY <1>0, EntriesTable DEF EntriesHold
  <2>2. meta.table = Entries(sections)
    BY <1>1, <1>3 DEF Wrote, Entries
  <2> DEFINE T == Entries(sections)
             E == EntrySet(Section)
  <2>3. T \in Seq(E) /\ E \subseteq Info
    BY <1>0, <2>1
  <2> HIDE DEF T, E
  <2>4. T \in Seq(Info)
    BY <2>3
  <2> QED  BY <2>2, <2>4 DEF T
<1> HIDE DEF meta, out
<1>7. out.cells = w.cells \o <<meta, footer>>
  BY <1>2 DEF Finished
<1> HIDE DEF footer
<1>8. Decoded(All, Info)
  <2>1. \A x \in All : x \in Cell \/ x = meta \/ x = footer
    OBVIOUS
  <2>2. footer.file \in Nat
    BY <1>4, <1>5
  <2> HIDE DEF All
  <2>3. \A x \in Info : x.length \in Nat
    BY <1>0 DEF Decoded
  <2>4. \A x \in All : x.t = "end" => x.metadata \in Nat /\ x.file \in Nat
    BY <1>0, <1>3, <1>4, <2>1, <2>2 DEF Decoded
  <2>5. \A x \in All : x.t = "metadata" => x.table \in Seq(Info)
    BY <1>0, <1>4, <1>6, <2>1 DEF Decoded
  <2> QED  BY <2>3, <2>4, <2>5 DEF Decoded
<1>9. /\ header \in Seq(All) /\ w.cells \in Seq(All) /\ tail \in Seq(All)
      /\ meta \in All /\ footer \in All
  <2> DEFINE a == header
             b == w.cells
             c == tail
  <2>1. a \in Seq(Cell) /\ b \in Seq(Cell) /\ c \in Seq(Cell) /\ Cell \subseteq All
    BY <1>0, <1>5
  <2>2. meta \in All /\ footer \in All
    OBVIOUS
  <2> HIDE DEF All, a, b, c
  <2>3. a \in Seq(All) /\ b \in Seq(All) /\ c \in Seq(All)
    BY <2>1
  <2> QED  BY <2>2, <2>3 DEF a, b, c
<1> HIDE DEF All
<1>10. file \in Seq(All) /\ Places(file, header, w.cells, meta, footer, tail)
  <2> DEFINE cells == w.cells
             whole == header \o (cells \o <<meta, footer>>) \o tail
  <2>1. cells \in Seq(All) /\ file = whole
    BY <1>7, <1>9
  <2> HIDE DEF cells, file
  <2>2. whole \in Seq(All) /\ Places(whole, header, cells, meta, footer, tail)
    BY <1>9, <2>1, PartsPlaced
  <2> QED  BY <2>1, <2>2 DEF cells
<1> HIDE DEF file
<1>11. TableReads(file, Len(header), w, sections)
  BY <1>0, <1>1, <1>10, WrittenTable
<1>12. MetadataFault(meta) = "none" /\ VerificationFault(meta.verification) = "none"
  BY <1>2 DEF Finished
<1>13. RegionSizes(meta, Len(header), Len(tail))
  BY <1>0, <1>3 DEF RegionSizes
<1>14. Open(file, Len(tail)) = [ok |-> TRUE, file |-> file, start |-> Len(header),
                                end |-> Len(header) + Len(w.cells) + 2, meta |-> meta]
  <2> DEFINE cells == w.cells
  <2>1. /\ Len(cells) \in Nat /\ Len(cells) >= 1 /\ cells[1] = MAGIC
        /\ Places(file, header, cells, meta,
                  [t |-> "end", metadata |-> 2, file |-> Len(cells) + 2], tail)
        /\ TableFault(file, meta.table, Len(header) + 1, Len(header) + Len(cells)) = "none"
    BY <1>3, <1>5, <1>10, <1>11 DEF TableReads, footer
  <2> HIDE DEF cells
  <2>2. Open(file, Len(tail)) = [ok |-> TRUE, file |-> file, start |-> Len(header),
                                 end |-> Len(header) + Len(cells) + 2, meta |-> meta]
    BY <1>3, <1>5, <1>10, <1>12, <1>13, <2>1, PlacesOpen
  <2> QED  BY <2>2 DEF cells
<1>15. file = WrittenFile(sections, metadata, kind, payload, header, tail)
  BY DEF file, WrittenFile, out, w
<1> QED
  BY <1>1, <1>2, <1>6, <1>8, <1>10, <1>11, <1>14, <1>15 DEF Reads, out, meta, w, footer

(* What Writer has written, Reader opens: with a header and a tail of the  *)
(* sizes that the metadata records, the file opens, whatever the sections  *)
(* and the verification, its metadata is what was written, and every       *)
(* section reads back to the last cell.                                    *)
THEOREM WrittenOpens ==
    ASSUME NEW Cell, NEW Info, NEW Section, NEW sections, NEW metadata, NEW kind, NEW payload,
           NEW header, NEW tail,
           Written(Cell, Info, Section, sections, metadata, kind, payload, header, tail)
    PROVE  LET r == Open(WrittenFile(sections, metadata, kind, payload, header, tail), Len(tail))
           IN  /\ r.ok /\ r.start = Len(header)
               /\ r.meta = Sealed(WriteSections(sections), metadata, kind, payload)
               /\ \A i \in 1 .. Len(sections) :
                    ReadSection(r, sections[i].id, 0, Len(sections[i].bytes))
                      = [ok |-> TRUE, bytes |-> sections[i].bytes]
<1> DEFINE w == WriteSections(sections)
           meta == Sealed(w, metadata, kind, payload)
           file == WrittenFile(sections, metadata, kind, payload, header, tail)
           r == Open(file, Len(tail))
<1>0. Reads(Cell, Info, sections, w, meta, FinishWith(w, metadata, kind, payload),
            header, tail, file)
  BY WrittenReader
<1>1. /\ Wrote(Cell, w, sections, Len(sections))
      /\ \E All : Decoded(All, Info) /\ file \in Seq(All) /\ meta.table \in Seq(Info)
      /\ r = [ok |-> TRUE, file |-> file, start |-> Len(header),
              end |-> Len(header) + Len(w.cells) + 2, meta |-> meta]
      /\ TableReads(file, Len(header), w, sections)
  <2> HIDE DEF w, meta, file
  <2> QED  BY <1>0 DEF Reads
<1>2. meta.table = w.table
  BY DEF Sealed
<1>3. /\ sections \in Seq(Section) /\ (\A s \in Section : s.bytes \in Seq(Cell))
      /\ Len(tail) \in Nat
  BY DEF Written
<1> HIDE DEF w, meta, file, r
<1>4. r.ok /\ r.start = Len(header) /\ r.meta = meta
  BY <1>1
<1>5. PICK All : Decoded(All, Info) /\ file \in Seq(All) /\ meta.table \in Seq(Info)
  BY <1>1
<1>6. Opened(All, Info, file, r)
  <2> DEFINE tailSize == Len(tail)
  <2>1. tailSize \in Nat /\ Open(file, tailSize).ok
    BY <1>3, <1>4 DEF r
  <2> HIDE DEF tailSize
  <2>2. Layout(Open(file, tailSize), file) /\ Open(file, tailSize).meta.table \in Seq(Info)
    BY <1>5, <2>1, OpenLayout
  <2> QED  BY <1>5, <2>2 DEF Opened, tailSize, r
<1>7. /\ Len(w.table) = Len(sections)
      /\ \A i \in 1 .. Len(sections) :
           /\ w.table[i].id = sections[i].id
           /\ w.table[i].length = Len(sections[i].bytes)
           /\ Len(sections[i].bytes) \in Nat
  <2>1. EntriesHold(Cell, Section, sections)
    BY <1>3, EntriesTable
  <2>2. w.table = Entries(sections)
    BY <1>1 DEF Wrote, Entries
  <2> QED  BY <2>1, <2>2 DEF EntriesHold
<1>8. ASSUME NEW i \in 1 .. Len(sections)
      PROVE  ReadSection(r, sections[i].id, 0, Len(sections[i].bytes))
               = [ok |-> TRUE, bytes |-> sections[i].bytes]
  <2> DEFINE table == r.meta.table
             l == table[i].length
             zero == 0
             o == SectionOffset(table, r.start + 1, i)
  <2>1. /\ table = w.table /\ i \in 1 .. Len(table)
        /\ table[i].id = sections[i].id /\ l = Len(sections[i].bytes) /\ l \in Nat
    BY <1>2, <1>4, <1>7
  <2>2. zero \in Nat /\ zero + l <= l
    BY <2>1
  <2>3. o \in Nat
    BY <1>6, <2>1, OpenedOffsets
  <2>4. ReadAt(file, o, l) = sections[i].bytes
    BY <1>1, <1>4, <2>1 DEF TableReads
  <2>5. ReadSection(r, table[i].id, zero, l) = [ok |-> TRUE, bytes |-> ReadAt(file, o + zero, l)]
    <3> HIDE DEF zero
    <3> QED  BY <1>6, <2>1, <2>2, SectionFound
  <2>6. o + zero = o
    BY <2>3
  <2> HIDE DEF o, l, table
  <2> QED  BY <2>1, <2>4, <2>5, <2>6
<1> QED  BY <1>4, <1>8 DEF r, file, meta, w

\* The record that a caller of the writer makes of a region: its size and a
\* secure checksum, which an empty region can do without.
Recorded(record, cells) ==
    /\ record # << >> /\ record[1].size = Len(cells)
    /\ \/ cells = << >> /\ record[1].checksum = << >>
       \/ \E algorithm \in Secure : record[1].checksum = <<Compute(algorithm, cells)>>

\* Such a record verifies, and covers its region.
LEMMA RecordCovers ==
    ASSUME NEW record, NEW cells, Recorded(record, cells)
    PROVE  RegionVerifies(<<record, cells>>) /\ RegionCovered(<<record, cells>>)
<1>1. <<record, cells>>[1] = record /\ <<record, cells>>[2] = cells
  OBVIOUS
<1>2. CASE cells = << >> /\ record[1].checksum = << >>
  BY <1>1, <1>2 DEF Recorded, RegionVerifies, RegionCovered
<1>3. CASE \E algorithm \in Secure : record[1].checksum = <<Compute(algorithm, cells)>>
  <2>1. PICK algorithm \in Secure : record[1].checksum = <<Compute(algorithm, cells)>>
    BY <1>3
  <2> DEFINE c == Compute(algorithm, cells)
  <2>2. c.algorithm = algorithm /\ c.digest = Digest(algorithm, cells)
    BY DEF Compute
  <2>3. Verifies(c, cells)
    BY <2>2 DEF Verifies, Compute
  <2> HIDE DEF c
  <2>4. record[1].checksum # << >> /\ record[1].checksum[1] = c
    BY <2>1 DEF c
  <2> QED  BY <1>1, <2>2, <2>3, <2>4 DEF Recorded, RegionVerifies, RegionCovered
<1> QED  BY <1>2, <1>3 DEF Recorded

(* What Writer has written is completely and securely covered, when its    *)
(* caller has recorded the external regions: verify_checksums succeeds on  *)
(* every such file, and reports the coverage that running and installing   *)
(* it ask for.                                                             *)
THEOREM WrittenCovered ==
    ASSUME NEW Cell, NEW Info, NEW Section, NEW sections, NEW metadata, NEW kind, NEW payload,
           NEW header, NEW tail,
           Written(Cell, Info, Section, sections, metadata, kind, payload, header, tail),
           Recorded(metadata.header, header), Recorded(metadata.tail, tail)
    PROVE  Covered(Open(WrittenFile(sections, metadata, kind, payload, header, tail), Len(tail)))
<1> DEFINE w == WriteSections(sections)
           meta == Sealed(w, metadata, kind, payload)
           file == WrittenFile(sections, metadata, kind, payload, header, tail)
           footer == [t |-> "end", metadata |-> 2, file |-> Len(w.cells) + 2]
           r == Open(file, Len(tail))
<1>0. Reads(Cell, Info, sections, w, meta, FinishWith(w, metadata, kind, payload),
            header, tail, file)
  BY WrittenReader
<1>1. /\ Finished(w, meta, FinishWith(w, metadata, kind, payload))
      /\ Wrote(Cell, w, sections, Len(sections))
      /\ \E All : Decoded(All, Info) /\ file \in Seq(All) /\ meta.table \in Seq(Info)
      /\ Places(file, header, w.cells, meta, footer, tail)
      /\ r = [ok |-> TRUE, file |-> file, start |-> Len(header),
              end |-> Len(header) + Len(w.cells) + 2, meta |-> meta]
  <2> HIDE DEF w, meta, file
  <2> QED  BY <1>0 DEF Reads
<1>2. \A i \in 1 .. Len(sections) :
        ReadSection(r, sections[i].id, 0, Len(sections[i].bytes))
          = [ok |-> TRUE, bytes |-> sections[i].bytes]
  BY WrittenOpens
<1>3. /\ meta.table = w.table /\ meta.header = metadata.header /\ meta.tail = metadata.tail
  BY DEF Sealed
<1>4. /\ sections \in Seq(Section) /\ (\A s \in Section : s.bytes \in Seq(Cell))
      /\ header \in Seq(Cell) /\ tail \in Seq(Cell)
      /\ Len(tail) \in Nat /\ Len(header) \in Nat /\ Len(w.cells) \in Nat
  BY <1>1 DEF Written, Wrote
<1> HIDE DEF w, meta, file, r, footer
<1>5. PICK All : file \in Seq(All)
  BY <1>1
<1>6. /\ r.meta = meta /\ r.file = file /\ r.start = Len(header)
      /\ r.end = Len(header) + Len(w.cells) + 2
  BY <1>1
<1>7. HeaderRegion(r) = <<meta.header, header>>
  <2> DEFINE zero == 0
             l == Len(header)
             a == ReadAt(file, zero, l)
  <2>1. /\ zero \in Nat /\ l \in Nat /\ zero + l <= Len(file)
        /\ \A k \in 1 .. l : zero + k = k /\ file[k] = header[k]
    BY <1>1, <1>4 DEF Places
  <2> HIDE DEF zero
  <2>2. a \in Seq(All) /\ Len(a) = l /\ \A k \in 1 .. l : a[k] = file[zero + k]
    <3>1. zero \in Nat /\ l \in Nat /\ zero + l <= Len(file)
      BY <2>1
    <3> HIDE DEF l
    <3> QED  BY <1>5, <3>1, ReadCells
  <2>3. a \in Seq(All) /\ Len(a) = Len(header) /\ \A k \in 1 .. Len(a) : a[k] = header[k]
    BY <2>1, <2>2
  <2> HIDE DEF a
  <2>4. a = header
    BY <1>4, <2>3, SameSequence
  <2> QED  BY <1>6, <2>4 DEF HeaderRegion, a, zero
<1>8. TailRegion(r) = <<meta.tail, tail>>
  <2> DEFINE o == Len(header) + Len(w.cells) + 2
             l == Len(tail)
             a == ReadAt(file, o, l)
  <2>1. /\ o \in Nat /\ l \in Nat /\ o + l <= Len(file) /\ Len(file) - o = l
        /\ \A k \in 1 .. l : file[o + k] = tail[k]
    BY <1>1, <1>4 DEF Places
  <2>2. a \in Seq(All) /\ Len(a) = l /\ \A k \in 1 .. l : a[k] = file[o + k]
    <3>1. o \in Nat /\ l \in Nat /\ o + l <= Len(file)
      BY <2>1
    <3> HIDE DEF o, l
    <3> QED  BY <1>5, <3>1, ReadCells
  <2>3. a \in Seq(All) /\ Len(a) = Len(tail) /\ \A k \in 1 .. Len(a) : a[k] = tail[k]
    <3> HIDE DEF o, a
    <3> QED  BY <2>1, <2>2
  <2>5. r.end = o
    BY <1>6
  <2> HIDE DEF a
  <2>4. a = tail
    BY <1>4, <2>3, SameSequence
  <2> HIDE DEF o
  <2>6. Len(file) - o = l
    BY <2>1
  <2> HIDE DEF l
  <2> QED  BY <1>6, <2>4, <2>5, <2>6 DEF TailRegion, a
<1>9. \A g \in {HeaderRegion(r), TailRegion(r)} : RegionVerifies(g) /\ RegionCovered(g)
  BY <1>3, <1>7, <1>8, RecordCovers
<1>10. /\ Len(r.meta.table) = Len(sections)
       /\ \A i \in 1 .. Len(sections) :
            /\ r.meta.table[i].id = sections[i].id
            /\ r.meta.table[i].length = Len(sections[i].bytes)
            /\ r.meta.table[i].checksum = <<Compute("Sha256", sections[i].bytes)>>
  <2>1. EntriesHold(Cell, Section, sections)
    BY <1>4, EntriesTable
  <2>2. r.meta.table = Entries(sections)
    BY <1>1, <1>3, <1>6 DEF Wrote, Entries
  <2> QED  BY <2>1, <2>2 DEF EntriesHold
<1>11. ASSUME NEW i \in 1 .. Len(r.meta.table)
       PROVE  /\ r.meta.table[i].checksum # << >>
              /\ r.meta.table[i].checksum[1].algorithm \in Secure
              /\ Verifies(r.meta.table[i].checksum[1],
                          ReadSection(r, r.meta.table[i].id, 0, r.meta.table[i].length).bytes)
  <2> DEFINE b == sections[i].bytes
             c == Compute("Sha256", b)
  <2>1. ReadSection(r, r.meta.table[i].id, 0, r.meta.table[i].length).bytes = b
    <3>1. /\ i \in 1 .. Len(sections) /\ r.meta.table[i].id = sections[i].id
          /\ r.meta.table[i].length = Len(b)
      BY <1>10
    <3>2. ReadSection(r, sections[i].id, 0, Len(b)) = [ok |-> TRUE, bytes |-> b]
      BY <1>2, <3>1
    <3> QED  BY <3>1, <3>2
  <2>2. c.algorithm = "Sha256" /\ Verifies(c, b)
    BY DEF Compute, Verifies
  <2>3. r.meta.table[i].checksum = <<c>>
    BY <1>10
  <2> HIDE DEF c, b
  <2>4. r.meta.table[i].checksum # << >> /\ r.meta.table[i].checksum[1] = c
    BY <2>3
  <2> QED  BY <2>1, <2>2, <2>4 DEF Secure
<1>12. r.meta.verification.kind = "checksum"
         => Verifies(r.meta.verification.payload[1], <<VerificationInput(r.meta)>>)
  BY <1>1, <1>6 DEF Finished
<1> DEFINE good == [ok |-> TRUE, complete_secure_coverage |->
                      /\ \A i \in 1 .. Len(r.meta.table) :
                           /\ r.meta.table[i].checksum # << >>
                           /\ r.meta.table[i].checksum[1].algorithm \in Secure
                      /\ \A g \in {HeaderRegion(r), TailRegion(r)} : RegionCovered(g)]
<1>13. VerifyChecksums(r) = good
  BY <1>9, <1>11, <1>12 DEF VerifyChecksums
<1>14. good.ok /\ good.complete_secure_coverage
  BY <1>9, <1>11
<1> QED  BY <1>13, <1>14 DEF Covered, r, file

-----------------------------------------------------------------------------
(* OpenPGP: which statements about a key count.                            *)

\* What the statement s says of the key: its Policy.
PolicyIn(s) ==
    [created |-> OP!Created(s), lifetime |-> s.lifetime,
     keyLifetime |-> s.keyLifetime, flags |-> s.flags]

\* The key made s over the input, not before its own creation.
Made(s, key, input) == OP!PolicyOf(s, key, input) # {}

\* ... and not after this time.
Counts(s, key, input, now) == Made(s, key, input) /\ OP!Created(s) <= now

\* What an honest parser gives: times are numbers.
Dated(s) == s.created \in SUBSET Nat

\* A statement that counts is by the key, over the input.
LEMMA MadeIs ==
    ASSUME NEW s, NEW key, NEW input, Made(s, key, input)
    PROVE  /\ s.by = key.fp /\ s.over = input /\ s.issuer \subseteq {key.fp}
           /\ OP!Created(s) >= key.created
           /\ OP!PolicyOf(s, key, input) = {PolicyIn(s)}
BY DEF Made, PolicyIn, OP!PolicyOf, OP!VerifyRaw

\* A statement that verifies and does not stop the loop has a date.
LEMMA MadeDated ==
    ASSUME NEW s, NEW key, NEW input, Made(s, key, input), Dated(s),
           ~ OP!VerifyFails(s, key, input)
    PROVE  OP!Created(s) \in Nat
<1>1. s.issuer \subseteq {key.fp} /\ OP!VerifyRaw(s, input, key) = "ok"
  BY DEF Made, OP!PolicyOf
<1>2. s.created # {}
  BY <1>1 DEF OP!VerifyFails
<1> QED  BY <1>2 DEF OP!Created, Dated

\* A candidate of the loop.
Candidate(s) == [signature |-> s, policy |-> PolicyIn(s)]

\* The state of select's loop.
State(l, r, f) == [latest |-> l, revoked |-> r, fails |-> f]

\* What select's loop knows once it has seen these signatures: the latest
\* statement is by the key, all others that count are older or say the same,
\* no revocation is later than the recorded time, and a final one has failed.
Chosen(l, r, f, seen, key, input, typ, revocation, now) ==
    /\ r \in Int /\ f \in BOOLEAN
    /\ \/ l = << >>
       \/ \E s \in seen : /\ l = <<Candidate(s)>>
                          /\ Counts(s, key, input, now) /\ OP!IsStatement(s, typ)
                          /\ OP!Created(s) \in Nat
    /\ \/ r = -1
       \/ \E s \in seen : /\ r = OP!Created(s) /\ s.typ = "CertRevocation"
                          /\ Counts(s, key, input, now)
    /\ ~ f => \A s \in seen :
         /\ Made(s, key, input) => s.typ # revocation
         /\ Counts(s, key, input, now) /\ OP!IsStatement(s, typ) =>
              /\ l # << >> /\ OP!Created(s) \in Nat
              /\ OP!Created(s) <= l[1].policy.created
              /\ OP!Created(s) = l[1].policy.created => PolicyIn(s) = l[1].policy
         /\ Counts(s, key, input, now) /\ s.typ = "CertRevocation" =>
              OP!Created(s) \in Nat /\ OP!Created(s) <= r

\* A signature that says nothing, or nothing yet.
LEMMA IgnoredStep ==
    ASSUME NEW l, NEW r, NEW f, NEW seen, NEW key, NEW input, NEW typ, NEW revocation, NEW now,
           Chosen(l, r, f, seen, key, input, typ, revocation, now), NEW s,
           \/ f
           \/ ~ OP!IsStatement(s, typ) /\ s.typ \notin {revocation, "CertRevocation"}
           \/ ~ Made(s, key, input)
           \/ ~ Counts(s, key, input, now) /\ s.typ # revocation
    PROVE  Chosen(l, r, f, seen \cup {s}, key, input, typ, revocation, now)
BY DEF Chosen, Counts

\* An error.
LEMMA FailedStep ==
    ASSUME NEW l, NEW r, NEW f, NEW seen, NEW key, NEW input, NEW typ, NEW revocation, NEW now,
           Chosen(l, r, f, seen, key, input, typ, revocation, now), NEW s
    PROVE  Chosen(l, r, TRUE, seen \cup {s}, key, input, typ, revocation, now)
BY DEF Chosen

\* A certification revocation.
LEMMA RevokedStep ==
    ASSUME NEW l, NEW r, NEW f, NEW seen, NEW key, NEW input, NEW typ, NEW revocation, NEW now,
           Chosen(l, r, f, seen, key, input, typ, revocation, now), NEW s,
           OP!Created(s) \in Nat, Counts(s, key, input, now), s.typ = "CertRevocation",
           ~ OP!IsStatement(s, typ), s.typ # revocation
    PROVE  Chosen(l, IF r > OP!Created(s) THEN r ELSE OP!Created(s), f,
                  seen \cup {s}, key, input, typ, revocation, now)
BY DEF Chosen

\* A statement that is the latest so far, or is not.
LEMMA NewerStep ==
    ASSUME NEW l, NEW r, NEW f, NEW seen, NEW key, NEW input, NEW typ, NEW revocation, NEW now,
           Chosen(l, r, f, seen, key, input, typ, revocation, now), NEW s,
           OP!Created(s) \in Nat, Counts(s, key, input, now), OP!IsStatement(s, typ),
           s.typ # "CertRevocation", s.typ # revocation,
           ~ OP!NewerFails(l, Candidate(s))
    PROVE  Chosen(OP!Newer(l, Candidate(s)), r, f, seen \cup {s}, key, input, typ, revocation, now)
<1>1. \A x : Candidate(x).policy = PolicyIn(x) /\ PolicyIn(x).created = OP!Created(x)
  BY DEF Candidate, PolicyIn
<1>2. \A x : <<x>> # << >> /\ <<x>>[1] = x
  OBVIOUS
<1>3. CASE l = << >>
  <2>1. OP!Newer(l, Candidate(s)) = <<Candidate(s)>>
    BY <1>3 DEF OP!Newer
  <2> QED  BY <1>1, <1>2, <1>3, <2>1 DEF Chosen
<1>4. CASE l # << >>
  <2>1. PICK o \in seen : /\ l = <<Candidate(o)>>
                          /\ Counts(o, key, input, now) /\ OP!IsStatement(o, typ)
                          /\ OP!Created(o) \in Nat
    BY <1>4 DEF Chosen
  <2>2. l[1].policy = PolicyIn(o) /\ l[1].policy.created = OP!Created(o)
    BY <1>1, <1>2, <2>1
  <2>3. OP!Created(o) = OP!Created(s) => PolicyIn(o) = PolicyIn(s)
    BY <1>1, <1>4, <2>2 DEF OP!NewerFails
  <2>4. OP!Newer(l, Candidate(s)) = IF OP!Created(o) > OP!Created(s) THEN l ELSE <<Candidate(s)>>
    BY <1>1, <1>4, <2>2 DEF OP!Newer
  <2>5. ~ f => \A x \in seen :
           /\ Made(x, key, input) => x.typ # revocation
           /\ Counts(x, key, input, now) /\ OP!IsStatement(x, typ) =>
                /\ OP!Created(x) \in Nat /\ OP!Created(x) <= OP!Created(o)
                /\ OP!Created(x) = OP!Created(o) => PolicyIn(x) = PolicyIn(o)
           /\ Counts(x, key, input, now) /\ x.typ = "CertRevocation" =>
                OP!Created(x) \in Nat /\ OP!Created(x) <= r
    BY <2>2 DEF Chosen
  <2>6. CASE OP!Created(o) > OP!Created(s)
    <3>1. OP!Newer(l, Candidate(s)) = l
      BY <2>4, <2>6
    <3>2. ASSUME ~ f, NEW x \in seen \cup {s}
          PROVE  /\ Made(x, key, input) => x.typ # revocation
                 /\ Counts(x, key, input, now) /\ OP!IsStatement(x, typ) =>
                      /\ l # << >> /\ OP!Created(x) \in Nat
                      /\ OP!Created(x) <= l[1].policy.created
                      /\ OP!Created(x) = l[1].policy.created => PolicyIn(x) = l[1].policy
                 /\ Counts(x, key, input, now) /\ x.typ = "CertRevocation" =>
                      OP!Created(x) \in Nat /\ OP!Created(x) <= r
      <4>1. CASE x = s
        BY <1>4, <2>1, <2>2, <2>6, <4>1
      <4>2. CASE x \in seen
        BY <1>4, <2>2, <2>5, <3>2, <4>2
      <4> QED  BY <4>1, <4>2
    <3> QED  BY <2>1, <3>1, <3>2 DEF Chosen
  <2>7. CASE ~ (OP!Created(o) > OP!Created(s))
    <3> DEFINE n == <<Candidate(s)>>
    <3>1. OP!Newer(l, Candidate(s)) = n
      BY <2>4, <2>7
    <3>2. n # << >> /\ n[1].policy = PolicyIn(s) /\ n[1].policy.created = OP!Created(s)
      BY <1>1, <1>2
    <3>3. \E x \in seen \cup {s} : /\ n = <<Candidate(x)>>
                                  /\ Counts(x, key, input, now) /\ OP!IsStatement(x, typ)
                                  /\ OP!Created(x) \in Nat
      OBVIOUS
    <3> HIDE DEF n
    <3>4. ASSUME ~ f, NEW x \in seen \cup {s}
          PROVE  /\ Made(x, key, input) => x.typ # revocation
                 /\ Counts(x, key, input, now) /\ OP!IsStatement(x, typ) =>
                      /\ n # << >> /\ OP!Created(x) \in Nat
                      /\ OP!Created(x) <= n[1].policy.created
                      /\ OP!Created(x) = n[1].policy.created => PolicyIn(x) = n[1].policy
                 /\ Counts(x, key, input, now) /\ x.typ = "CertRevocation" =>
                      OP!Created(x) \in Nat /\ OP!Created(x) <= r
      <4>1. CASE x = s
        BY <3>2, <4>1
      <4>2. CASE x \in seen
        BY <2>1, <2>3, <2>5, <2>7, <3>2, <3>4, <4>2
      <4> QED  BY <4>1, <4>2
    <3> QED  BY <3>1, <3>3, <3>4 DEF Chosen
  <2> QED  BY <2>6, <2>7
<1> QED  BY <1>3, <1>4

\* What is asked of select: the kind of statement, and the kind of revocation that
\* is final.
Asked(typ, revocation) ==
    /\ typ \in {"Key", "CertGeneric", "SubkeyBinding"}
    /\ revocation \in {"KeyRevocation", "SubkeyRevocation", "none"}

\* What a turn of the loop does, and when.
Turn(next, l, r, f, s, key, input, typ, revocation, now) ==
    \/ /\ next = State(l, r, f)
       /\ \/ f
          \/ ~ OP!IsStatement(s, typ) /\ s.typ \notin {revocation, "CertRevocation"}
          \/ ~ Made(s, key, input)
          \/ ~ Counts(s, key, input, now) /\ s.typ # revocation
    \/ next = State(l, r, TRUE)
    \/ /\ next = State(l, IF r > OP!Created(s) THEN r ELSE OP!Created(s), f)
       /\ OP!Created(s) \in Nat /\ Counts(s, key, input, now)
       /\ s.typ = "CertRevocation" /\ ~ OP!IsStatement(s, typ) /\ s.typ # revocation
    \/ /\ next = State(OP!Newer(l, Candidate(s)), r, f)
       /\ OP!Created(s) \in Nat /\ Counts(s, key, input, now) /\ OP!IsStatement(s, typ)
       /\ s.typ # "CertRevocation" /\ s.typ # revocation
       /\ ~ OP!NewerFails(l, Candidate(s))

\* ... and a turn does just that.
LEMMA StepCases ==
    ASSUME NEW l, NEW r, NEW f \in BOOLEAN, NEW s, NEW key, NEW input, NEW typ, NEW revocation,
           NEW now \in Int, Dated(s), Asked(typ, revocation)
    PROVE  Turn(OP!SelectStep(s, State(l, r, f), key, input, typ, revocation, now),
                l, r, f, s, key, input, typ, revocation, now)
<1> DEFINE st == State(l, r, f)
           next == OP!SelectStep(s, st, key, input, typ, revocation, now)
           skipped == \/ st.fails
                      \/ /\ ~ OP!IsStatement(s, typ)
                         /\ s.typ \notin {revocation, "CertRevocation"}
           policy == CHOOSE p \in OP!PolicyOf(s, key, input) : TRUE
           candidate == [signature |-> s, policy |-> policy]
<1> SUFFICES Turn(next, l, r, f, s, key, input, typ, revocation, now)
  OBVIOUS
<1>1. /\ st.latest = l /\ st.revoked = r /\ st.fails = f
      /\ [st EXCEPT !.fails = TRUE] = State(l, r, TRUE)
      /\ \A x : [st EXCEPT !.revoked = x] = State(l, x, f)
      /\ \A x : [st EXCEPT !.latest = x] = State(x, r, f)
  <2>1. st.latest = l /\ st.revoked = r
    BY DEF State
  <2>2. st.fails = f
    BY DEF State
  <2>3. ASSUME NEW x  PROVE [st EXCEPT !.fails = x] = State(l, r, x)
    BY DEF State
  <2>4. ASSUME NEW x  PROVE [st EXCEPT !.revoked = x] = State(l, x, f)
    BY DEF State
  <2>5. ASSUME NEW x  PROVE [st EXCEPT !.latest = x] = State(x, r, f)
    BY DEF State
  <2> QED  BY <2>1, <2>2, <2>3, <2>4, <2>5
<1>2. OP!IsStatement(s, typ) => s.typ # "CertRevocation" /\ s.typ # revocation
  BY DEF Asked, OP!IsStatement, OP!Certifications
<1>3. "CertRevocation" # revocation
  BY DEF Asked
<1>4. CASE skipped
  <2>1. next = st
    BY <1>4 DEF OP!SelectStep
  <2> HIDE DEF next
  <2> QED  BY <1>1, <1>4, <2>1 DEF Turn
<1>5. CASE ~ skipped /\ OP!VerifyFails(s, key, input)
  <2>1. next = [st EXCEPT !.fails = TRUE]
    BY <1>5 DEF OP!SelectStep
  <2> HIDE DEF next
  <2> QED  BY <1>1, <2>1 DEF Turn
<1>6. CASE ~ skipped /\ ~ OP!VerifyFails(s, key, input) /\ ~ Made(s, key, input)
  <2>1. next = st
    BY <1>6 DEF OP!SelectStep, Made
  <2> HIDE DEF next
  <2> QED  BY <1>6, <2>1 DEF Turn
<1>7. CASE ~ skipped /\ ~ OP!VerifyFails(s, key, input) /\ Made(s, key, input)
  <2>1. policy = PolicyIn(s) /\ candidate = Candidate(s) /\ policy.created = OP!Created(s)
    <3>1. OP!PolicyOf(s, key, input) = {PolicyIn(s)}
      BY <1>7, MadeIs
    <3>2. policy = PolicyIn(s)
      BY <3>1
    <3>3. PolicyIn(s).created = OP!Created(s)
      BY DEF PolicyIn
    <3> QED  BY <3>2, <3>3 DEF Candidate
  <2>2. OP!Created(s) \in Nat
    BY <1>7, MadeDated
  <2>3. next = IF s.typ = revocation THEN [st EXCEPT !.fails = TRUE]
               ELSE IF policy.created > now THEN st
               ELSE IF s.typ = "CertRevocation" THEN
                    [st EXCEPT !.revoked = IF st.revoked > policy.created THEN st.revoked
                                           ELSE policy.created]
               ELSE IF OP!NewerFails(st.latest, candidate) THEN [st EXCEPT !.fails = TRUE]
               ELSE [st EXCEPT !.latest = OP!Newer(st.latest, candidate)]
    BY <1>7 DEF OP!SelectStep, Made
  <2> HIDE DEF policy, candidate, st, next
  <2>4. next = IF s.typ = revocation THEN State(l, r, TRUE)
               ELSE IF OP!Created(s) > now THEN State(l, r, f)
               ELSE IF s.typ = "CertRevocation" THEN
                    State(l, IF r > OP!Created(s) THEN r ELSE OP!Created(s), f)
               ELSE IF OP!NewerFails(l, Candidate(s)) THEN State(l, r, TRUE)
               ELSE State(OP!Newer(l, Candidate(s)), r, f)
    BY <1>1, <2>1, <2>3 DEF st
  <2>5. CASE s.typ = revocation
    BY <2>4, <2>5 DEF Turn
  <2>6. CASE s.typ # revocation /\ OP!Created(s) > now
    <3>1. ~ Counts(s, key, input, now)
      BY <2>2, <2>6 DEF Counts
    <3> QED  BY <2>4, <2>6, <3>1 DEF Turn
  <2>7. CASE s.typ # revocation /\ ~ (OP!Created(s) > now) /\ s.typ = "CertRevocation"
    <3>1. Counts(s, key, input, now)
      BY <1>7, <2>2, <2>7 DEF Counts
    <3>2. next = State(l, IF r > OP!Created(s) THEN r ELSE OP!Created(s), f)
      BY <2>4, <2>7
    <3> QED  BY <1>2, <2>2, <2>7, <3>1, <3>2 DEF Turn
  <2>8. CASE /\ s.typ # revocation /\ ~ (OP!Created(s) > now) /\ s.typ # "CertRevocation"
             /\ OP!NewerFails(l, Candidate(s))
    <3>1. next = State(l, r, TRUE)
      BY <2>4, <2>8
    <3> QED  BY <3>1 DEF Turn
  <2>9. CASE /\ s.typ # revocation /\ ~ (OP!Created(s) > now) /\ s.typ # "CertRevocation"
             /\ ~ OP!NewerFails(l, Candidate(s))
    <3>1. Counts(s, key, input, now)
      BY <1>7, <2>2, <2>9 DEF Counts
    <3>2. next = State(OP!Newer(l, Candidate(s)), r, f)
      BY <2>4, <2>9
    <3>3. OP!IsStatement(s, typ)
      BY <1>7, <2>9
    <3> QED  BY <2>2, <2>9, <3>1, <3>2, <3>3 DEF Turn
  <2> QED  BY <2>5, <2>6, <2>7, <2>8, <2>9
<1> QED  BY <1>4, <1>5, <1>6, <1>7

\* The loop is in this state, having seen these signatures.
Knows(st, seen, key, input, typ, revocation, now) ==
    \E l, r : \E f \in BOOLEAN :
        /\ st = State(l, r, f)
        /\ Chosen(l, r, f, seen, key, input, typ, revocation, now)

\* One turn of the loop adds its signature to what has been seen.
LEMMA ChosenStep ==
    ASSUME NEW st, NEW s, NEW key, NEW input, NEW typ, NEW revocation,
           NEW now \in Int, Dated(s), Asked(typ, revocation), NEW seen,
           Knows(st, seen, key, input, typ, revocation, now)
    PROVE  Knows(OP!SelectStep(s, st, key, input, typ, revocation, now),
                 seen \cup {s}, key, input, typ, revocation, now)
<1>1. PICK l, r : \E f \in BOOLEAN :
        /\ st = State(l, r, f)
        /\ Chosen(l, r, f, seen, key, input, typ, revocation, now)
  BY DEF Knows
<1>2. PICK f \in BOOLEAN :
        /\ st = State(l, r, f)
        /\ Chosen(l, r, f, seen, key, input, typ, revocation, now)
  BY <1>1
<1> DEFINE next == OP!SelectStep(s, State(l, r, f), key, input, typ, revocation, now)
           later == IF r > OP!Created(s) THEN r ELSE OP!Created(s)
           newer == OP!Newer(l, Candidate(s))
           Next(a, b, c) == Chosen(a, b, c, seen \cup {s}, key, input, typ, revocation, now)
<1>3. Turn(next, l, r, f, s, key, input, typ, revocation, now)
  BY StepCases
<1>4. next = State(l, r, TRUE) => Next(l, r, TRUE)
  BY <1>2, FailedStep
<1> HIDE DEF next
<1>5. \/ next = State(l, r, f) /\ Next(l, r, f)
      \/ next = State(l, r, TRUE)
      \/ next = State(l, later, f) /\ Next(l, later, f)
      \/ next = State(newer, r, f) /\ Next(newer, r, f)
  <2>1. CASE /\ next = State(l, r, f)
             /\ \/ f
                \/ ~ OP!IsStatement(s, typ) /\ s.typ \notin {revocation, "CertRevocation"}
                \/ ~ Made(s, key, input)
                \/ ~ Counts(s, key, input, now) /\ s.typ # revocation
    BY <2>1, <1>2, IgnoredStep
  <2>2. CASE /\ next = State(l, later, f)
             /\ OP!Created(s) \in Nat /\ Counts(s, key, input, now)
             /\ s.typ = "CertRevocation" /\ ~ OP!IsStatement(s, typ) /\ s.typ # revocation
    <3>1. Next(l, later, f)
      BY <2>2, <1>2, RevokedStep
    <3> QED  BY <2>2, <3>1
  <2>3. CASE /\ next = State(newer, r, f)
             /\ OP!Created(s) \in Nat /\ Counts(s, key, input, now) /\ OP!IsStatement(s, typ)
             /\ s.typ # "CertRevocation" /\ s.typ # revocation
             /\ ~ OP!NewerFails(l, Candidate(s))
    <3>1. Next(newer, r, f)
      BY <2>3, <1>2, NewerStep
    <3> QED  BY <2>3, <3>1
  <2> QED  BY <1>3, <2>1, <2>2, <2>3 DEF Turn
<1> HIDE DEF later, newer, Next
<1>6. \E a, b : \E c \in BOOLEAN : next = State(a, b, c) /\ Next(a, b, c)
  BY <1>4, <1>5
<1> QED  BY <1>2, <1>6 DEF next, Next, Knows

\* A turn of the loop stays within the states of the loop.
LEMMA StateStep ==
    ASSUME NEW L, NEW st \in [latest : L, revoked : Int, fails : BOOLEAN], NEW s, NEW key,
           NEW input, NEW typ, NEW revocation, NEW now \in Int, Dated(s),
           Asked(typ, revocation), <<Candidate(s)>> \in L
    PROVE  OP!SelectStep(s, st, key, input, typ, revocation, now)
              \in [latest : L, revoked : Int, fails : BOOLEAN]
<1> DEFINE l == st.latest
           r == st.revoked
           f == st.fails
           next == OP!SelectStep(s, st, key, input, typ, revocation, now)
           later == IF r > OP!Created(s) THEN r ELSE OP!Created(s)
           newer == OP!Newer(l, Candidate(s))
           S == [latest : L, revoked : Int, fails : BOOLEAN]
<1>1. l \in L /\ r \in Int /\ f \in BOOLEAN
  OBVIOUS
<1>2. st = State(l, r, f)
  BY DEF State
<1>3. newer \in L
  BY <1>1 DEF OP!Newer
<1>4. OP!Created(s) \in Nat => later \in Int
  BY <1>1
<1>5. \A a \in L, b \in Int, c \in BOOLEAN :
        State(a, b, c) \in S
  BY DEF State
<1> HIDE DEF l, r, f
<1>6. Turn(next, l, r, f, s, key, input, typ, revocation, now)
  BY <1>1, <1>2, StepCases
<1> HIDE DEF next
<1>7. \/ next = State(l, r, f) \/ next = State(l, r, TRUE)
      \/ (next = State(l, later, f) /\ OP!Created(s) \in Nat)
      \/ next = State(newer, r, f)
  BY <1>6 DEF Turn
<1> HIDE DEF later, newer, S
<1>8. next \in S
  <2>1. TRUE \in BOOLEAN
    OBVIOUS
  <2>2. State(l, r, f) \in S /\ State(l, r, TRUE) \in S /\ State(newer, r, f) \in S
    BY <1>1, <1>3, <1>5, <2>1
  <2>3. OP!Created(s) \in Nat => State(l, later, f) \in S
    BY <1>1, <1>4, <1>5
  <2> QED  BY <1>7, <2>2, <2>3
<1> QED  BY <1>8 DEF next, S

\* The signatures of a component, as a set.
Among(signatures) == {signatures[i] : i \in 1 .. Len(signatures)}

\* select has seen all signatures.
LEMMA SelectLoop ==
    ASSUME NEW Packet, \A s \in Packet : Dated(s), NEW signatures \in Seq(Packet),
           NEW key, NEW input, NEW typ, NEW revocation, NEW now \in Int, Asked(typ, revocation)
    PROVE  \E l, r, f :
              /\ Chosen(l, r, f, Among(signatures), key, input, typ, revocation, now)
              /\ OP!Select(signatures, key, input, typ, revocation, now)
                  = [fails |-> f, latest |-> OP!Stands(l, r)]
<1> DEFINE m == Len(signatures)
           L == {<< >>} \cup {<<Candidate(s)>> : s \in Packet}
           S == [latest : L, revoked : Int, fails : BOOLEAN]
           Step(st, i) == OP!SelectStep(signatures[i], st, key, input, typ, revocation, now)
           start == [latest |-> << >>, revoked |-> -1, fails |-> FALSE]
           G == [x \in S \X (1 .. m) |-> Step(x[1], x[2])]
           D(g) == g = [n \in 0 .. m |-> IF n = 0 THEN start ELSE Step(g[n - 1], n)]
           t == CHOOSE g : D(g)
<1>1. m \in Nat /\ \A i \in 1 .. m : signatures[i] \in Packet
  OBVIOUS
<1>2. start \in S
  OBVIOUS
<1>3. \A st \in S, i \in 1 .. m : Step(st, i) \in S
  <2> TAKE st \in S, i \in 1 .. m
  <2>1. signatures[i] \in Packet /\ <<Candidate(signatures[i])>> \in L
    BY <1>1
  <2> HIDE DEF L
  <2> QED  BY <2>1, StateStep
<1>4. G \in [S \X (1 .. m) -> S]
  <2> HIDE DEF S, Step
  <2> QED  BY <1>3
<1>5. PICK f : Iterates(f, m, S, start, G)
  <2> HIDE DEF m, G, S, start
  <2> QED  BY <1>1, <1>2, <1>4, Recursion
<1>6. \A i \in 1 .. m : f[i - 1] \in S /\ f[i] = Step(f[i - 1], i)
  <2> TAKE i \in 1 .. m
  <2> HIDE DEF S
  <2>1. i - 1 \in 0 .. m
    BY <1>1
  <2>3. f[i - 1] \in S
    BY <1>5, <2>1 DEF Iterates
  <2>2. f[i] = G[<<f[i - 1], i>>]
    BY <1>5 DEF Iterates
  <2> HIDE DEF Step
  <2> QED  BY <2>2, <2>3
<1> HIDE DEF Step, S, start, G
<1>7. D(f)
  BY <1>1, <1>5, <1>6 DEF Iterates
<1>8. D(t)
  <2> HIDE DEF m
  <2> QED  BY <1>7
<1>9. OP!Select(signatures, key, input, typ, revocation, now)
        = [fails |-> t[m].fails, latest |-> OP!Stands(t[m].latest, t[m].revoked)]
  BY DEF OP!Select, Step, start
<1> HIDE DEF t
<1>10. t[0] = start /\ \A i \in 1 .. m : t[i] = Step(t[i - 1], i)
  BY <1>1, <1>8
<1> DEFINE Seen(i) == {signatures[j] : j \in 1 .. i}
           Known(i) == Knows(t[i], Seen(i), key, input, typ, revocation, now)
           T == {i \in 0 .. m : Known(i)}
<1>11. Known(0)
  <2>1. t[0] = State(<< >>, -1, FALSE)
    BY <1>10 DEF start, State
  <2>2. Chosen(<< >>, -1, FALSE, Seen(0), key, input, typ, revocation, now)
    <3>1. Seen(0) = {}
      OBVIOUS
    <3> QED  BY <3>1 DEF Chosen
  <2> QED  BY <2>1, <2>2 DEF Knows
<1>12. ASSUME NEW i \in 0 .. (m - 1), Known(i)  PROVE Known(i + 1)
  <2>1. i + 1 \in 1 .. m /\ (i + 1) - 1 = i
    BY <1>1
  <2> DEFINE s == signatures[i + 1]
             before == Seen(i)
             st == t[i]
  <2>2. Dated(s)
    BY <1>1, <2>1
  <2>3. Seen(i + 1) = before \cup {s}
    <3>1. 1 .. (i + 1) = (1 .. i) \cup {i + 1}
      BY <1>1
    <3> QED  BY <3>1
  <2>4. t[i + 1] = OP!SelectStep(s, st, key, input, typ, revocation, now)
    BY <1>10, <2>1 DEF Step
  <2>5. Knows(st, before, key, input, typ, revocation, now)
    BY <1>12
  <2> HIDE DEF s, before, st
  <2>6. Knows(OP!SelectStep(s, st, key, input, typ, revocation, now),
              before \cup {s}, key, input, typ, revocation, now)
    BY <2>2, <2>5, ChosenStep
  <2> QED  BY <2>3, <2>4, <2>6
<1>13. Known(m)
  <2> HIDE DEF Known
  <2>1. 0 \in T
    BY <1>1, <1>11
  <2>2. \A i \in 0 .. (m - 1) : i \in T => i + 1 \in T
    BY <1>1, <1>12
  <2>3. \A i \in 0 .. m : i \in T
    <3> HIDE DEF T, m
    <3> QED  BY <1>1, <2>1, <2>2, Induction
  <2> QED  BY <1>1, <2>3
<1>14. PICK l, r : \E c \in BOOLEAN :
             /\ t[m] = State(l, r, c)
             /\ Chosen(l, r, c, Seen(m), key, input, typ, revocation, now)
  BY <1>13 DEF Knows
<1>15. PICK c \in BOOLEAN : /\ t[m] = State(l, r, c)
                            /\ Chosen(l, r, c, Seen(m), key, input, typ, revocation, now)
  BY <1>14
<1>16. t[m].fails = c /\ t[m].latest = l /\ t[m].revoked = r
  BY <1>15 DEF State
<1>17. OP!Select(signatures, key, input, typ, revocation, now)
         = [fails |-> c, latest |-> OP!Stands(l, r)]
  BY <1>9, <1>16
<1> QED  BY <1>15, <1>17 DEF Among

\* The statement s is in force: it is made by the key over the input by now, no other
\* such statement is later or differs in the same second, and every revocation that
\* counts by now is older.
InForce(s, signatures, key, input, typ, now) ==
    /\ s \in Among(signatures) /\ OP!IsStatement(s, typ)
    /\ Counts(s, key, input, now) /\ OP!Created(s) \in Nat
    /\ \A x \in Among(signatures) : Counts(x, key, input, now) =>
         /\ OP!IsStatement(x, typ) =>
              /\ OP!Created(x) \in Nat /\ OP!Created(x) <= OP!Created(s)
              /\ OP!Created(x) = OP!Created(s) => PolicyIn(x) = PolicyIn(s)
         /\ x.typ = "CertRevocation" =>
              OP!Created(x) \in Nat /\ OP!Created(x) < OP!Created(s)

\* Every statement that counts is withdrawn by a revocation that counts.
Withdrawn(signatures, key, input, typ, now) ==
    \A x \in Among(signatures) : Counts(x, key, input, now) /\ OP!IsStatement(x, typ) =>
        \E y \in Among(signatures) :
            /\ Counts(y, key, input, now) /\ y.typ = "CertRevocation"
            /\ OP!Created(x) <= OP!Created(y)

\* The key made no revocation of this kind over the input, whatever its date.
NotRevoked(signatures, key, input, revocation) ==
    \A s \in Among(signatures) : Made(s, key, input) => s.typ # revocation

\* What select returns without an error: there is no final revocation by the key, and
\* the statement in force, or none when all are withdrawn.
THEOREM SelectNewest ==
    ASSUME NEW Packet, \A s \in Packet : Dated(s), NEW signatures \in Seq(Packet),
           NEW key, NEW input, NEW typ, NEW revocation, NEW now \in Int, Asked(typ, revocation),
           NEW chosen, chosen = OP!Select(signatures, key, input, typ, revocation, now),
           ~ chosen.fails
    PROVE  /\ NotRevoked(signatures, key, input, revocation)
           /\ \/ chosen.latest = << >> /\ Withdrawn(signatures, key, input, typ, now)
              \/ \E s \in Packet : /\ chosen.latest = <<Candidate(s)>>
                                   /\ InForce(s, signatures, key, input, typ, now)
<1> DEFINE seen == Among(signatures)
<1>1. PICK l, r, f : /\ Chosen(l, r, f, seen, key, input, typ, revocation, now)
                     /\ chosen = [fails |-> f, latest |-> OP!Stands(l, r)]
  BY SelectLoop
<1>2. f \in BOOLEAN /\ r \in Int
  BY <1>1 DEF Chosen
<1>3. ~ f
  <2>1. chosen.fails = f
    BY <1>1
  <2> QED  BY <1>2, <2>1
<1>4. chosen.latest = OP!Stands(l, r)
  BY <1>1
<1>5. seen \subseteq Packet
  BY DEF Among
<1>6. \A x \in seen :
         /\ Made(x, key, input) => x.typ # revocation
         /\ Counts(x, key, input, now) /\ OP!IsStatement(x, typ) =>
              /\ l # << >> /\ OP!Created(x) \in Nat
              /\ OP!Created(x) <= l[1].policy.created
              /\ OP!Created(x) = l[1].policy.created => PolicyIn(x) = l[1].policy
         /\ Counts(x, key, input, now) /\ x.typ = "CertRevocation" =>
              OP!Created(x) \in Nat /\ OP!Created(x) <= r
  BY <1>1, <1>3 DEF Chosen
<1>7. NotRevoked(signatures, key, input, revocation)
  BY <1>6 DEF NotRevoked
<1>8. CASE l = << >>
  <2>1. chosen.latest = << >>
    BY <1>4, <1>8 DEF OP!Stands
  <2> QED  BY <1>6, <1>7, <1>8, <2>1 DEF Withdrawn
<1>9. CASE l # << >>
  <2>1. PICK s \in seen : /\ l = <<Candidate(s)>>
                          /\ Counts(s, key, input, now) /\ OP!IsStatement(s, typ)
                          /\ OP!Created(s) \in Nat
    BY <1>1, <1>9 DEF Chosen
  <2>2. l[1].policy = PolicyIn(s) /\ l[1].policy.created = OP!Created(s)
    <3>1. Candidate(s).policy = PolicyIn(s) /\ PolicyIn(s).created = OP!Created(s)
      BY DEF Candidate, PolicyIn
    <3>2. l[1] = Candidate(s)
      BY <2>1
    <3> QED  BY <3>1, <3>2
  <2>3. chosen.latest = IF r >= OP!Created(s) THEN << >> ELSE l
    BY <1>4, <1>9, <2>2 DEF OP!Stands
  <2>4. CASE r >= OP!Created(s)
    <3>1. r # -1
      BY <1>2, <2>1, <2>4
    <3>2. PICK y \in seen : /\ r = OP!Created(y) /\ y.typ = "CertRevocation"
                            /\ Counts(y, key, input, now)
      BY <1>1, <3>1 DEF Chosen
    <3>3. ASSUME NEW x \in seen, Counts(x, key, input, now), OP!IsStatement(x, typ)
          PROVE  OP!Created(x) <= OP!Created(y)
      BY <1>2, <1>6, <2>1, <2>2, <2>4, <3>2, <3>3
    <3>4. Withdrawn(signatures, key, input, typ, now)
      BY <3>2, <3>3 DEF Withdrawn
    <3> QED  BY <1>7, <2>3, <2>4, <3>4
  <2>5. CASE ~ (r >= OP!Created(s))
    <3>1. chosen.latest = <<Candidate(s)>>
      BY <2>1, <2>3, <2>5
    <3>2. ASSUME NEW x \in seen, Counts(x, key, input, now)
          PROVE  /\ OP!IsStatement(x, typ) =>
                      /\ OP!Created(x) \in Nat /\ OP!Created(x) <= OP!Created(s)
                      /\ OP!Created(x) = OP!Created(s) => PolicyIn(x) = PolicyIn(s)
                 /\ x.typ = "CertRevocation" =>
                      OP!Created(x) \in Nat /\ OP!Created(x) < OP!Created(s)
      BY <1>2, <1>6, <2>1, <2>2, <2>5, <3>2
    <3>3. InForce(s, signatures, key, input, typ, now)
      BY <2>1, <3>2 DEF InForce
    <3> QED  BY <1>5, <1>7, <3>1, <3>3
  <2> QED  BY <2>4, <2>5
<1> QED  BY <1>8, <1>9

\* What select may choose: nothing, or one statement with a date.
Statements(Packet) ==
    {<< >>} \cup {<<Candidate(s)>> : s \in {x \in Packet : OP!Created(x) \in Nat}}

\* select always returns a result and at most one statement.
LEMMA SelectTyped ==
    ASSUME NEW Packet, \A s \in Packet : Dated(s), NEW signatures \in Seq(Packet),
           NEW key, NEW input, NEW typ, NEW revocation, NEW now \in Int, Asked(typ, revocation),
           NEW chosen, chosen = OP!Select(signatures, key, input, typ, revocation, now)
    PROVE  chosen \in [fails : BOOLEAN, latest : Statements(Packet)]
<1>1. PICK l, r, f : /\ Chosen(l, r, f, Among(signatures), key, input, typ, revocation, now)
                     /\ chosen = [fails |-> f, latest |-> OP!Stands(l, r)]
  BY SelectLoop
<1>2. f \in BOOLEAN
  BY <1>1 DEF Chosen
<1>3. l \in Statements(Packet)
  BY <1>1 DEF Chosen, Among, Statements
<1>4. OP!Stands(l, r) \in Statements(Packet)
  BY <1>3 DEF OP!Stands, Statements
<1> QED  BY <1>1, <1>2, <1>4

-----------------------------------------------------------------------------
(* OpenPGP: the statement that speaks for the primary key.                 *)

\* The certificate's signatures are packets, its subkeys and identities components
\* that hold some.
Certified(certificate, Packet, Component) ==
    /\ \A s \in Packet : Dated(s)
    /\ \A c \in Component : c.signatures \in Seq(Packet)
    /\ certificate.direct \in Seq(Packet)
    /\ certificate.identities \in Seq(Component)
    /\ certificate.subkeys \in Seq(Component)

\* The two uses of select in primary_policy.
SelectDirect(certificate, now) ==
    OP!Select(certificate.direct, certificate.primary, <<certificate.primary.fp>>,
              "Key", "KeyRevocation", now)

SelectIdentity(certificate, k, now) ==
    OP!Select(certificate.identities[k].signatures, certificate.primary,
              <<certificate.primary.fp, certificate.identities[k].input>>,
              "CertGeneric", "none", now)

\* The choice a is not older than b, and says the same when it is as old.
Covers(a, b) ==
    b # << >> => /\ a # << >> /\ b[1].policy.created <= a[1].policy.created
                 /\ b[1].policy.created = a[1].policy.created => b[1].policy = a[1].policy

\* A choice has a date.
LEMMA ChoiceIs ==
    ASSUME NEW Packet, NEW a \in Statements(Packet), a # << >>
    PROVE  a[1].policy.created \in Nat /\ a = <<a[1]>>
<1>1. PICK s \in Packet : a = <<Candidate(s)>> /\ OP!Created(s) \in Nat
  BY DEF Statements
<1>2. a[1] = Candidate(s) /\ a[1].policy.created = OP!Created(s)
  BY <1>1 DEF Candidate, PolicyIn
<1> QED  BY <1>1, <1>2

\* newer keeps the later of two choices, and covers all that the former one covered.
LEMMA NewerCovers ==
    ASSUME NEW Packet, NEW a \in Statements(Packet), NEW b \in Statements(Packet), b # << >>,
           ~ OP!NewerFails(a, b[1]), NEW next, next = OP!Newer(a, b[1])
    PROVE  /\ next \in {a, b} /\ next # << >>
           /\ Covers(next, b)
           /\ \A x \in Statements(Packet) : Covers(a, x) => Covers(next, x)
<1>1. b[1].policy.created \in Nat /\ b = <<b[1]>>
  BY ChoiceIs
<1>2. CASE a = << >>
  <2>1. next = b
    BY <1>1, <1>2 DEF OP!Newer
  <2> QED  BY <1>1, <1>2, <2>1 DEF Covers
<1>3. CASE a # << >>
  <2>1. a[1].policy.created \in Nat
    BY <1>3, ChoiceIs
  <2>2. next = IF a[1].policy.created > b[1].policy.created THEN a ELSE b
    BY <1>1, <1>3 DEF OP!Newer
  <2>3. a[1].policy.created = b[1].policy.created => a[1].policy = b[1].policy
    BY <1>3 DEF OP!NewerFails
  <2>4. ASSUME NEW x \in Statements(Packet), Covers(a, x)  PROVE Covers(next, x)
    <3>1. CASE x = << >>
      BY <3>1 DEF Covers
    <3>2. CASE x # << >>
      <4>1. x[1].policy.created \in Nat
        BY <3>2, ChoiceIs
      <4> QED  BY <1>1, <1>3, <2>1, <2>2, <2>3, <2>4, <3>2, <4>1 DEF Covers
    <3> QED  BY <3>1, <3>2
  <2>5. Covers(next, b)
    BY <1>1, <1>3, <2>1, <2>2, <2>3 DEF Covers
  <2> QED  BY <1>3, <2>2, <2>4, <2>5
<1> QED  BY <1>2, <1>3

\* In the loop over the identities: the latest of the choices so far is kept, and an
\* error in one of them stays.
Kept(st, certificate, n, now, Packet) ==
    /\ st \in [fails : BOOLEAN, latest : Statements(Packet)]
    /\ ~ st.fails =>
         /\ ~ SelectDirect(certificate, now).fails
         /\ \A k \in 1 .. n : ~ SelectIdentity(certificate, k, now).fails
         /\ st.latest # << >> =>
              \/ st.latest = SelectDirect(certificate, now).latest
              \/ \E k \in 1 .. n : st.latest = SelectIdentity(certificate, k, now).latest
         /\ Covers(st.latest, SelectDirect(certificate, now).latest)
         /\ \A k \in 1 .. n : Covers(st.latest, SelectIdentity(certificate, k, now).latest)

\* Another identity keeps that.
LEMMA KeptStep ==
    ASSUME NEW st, NEW certificate, NEW n \in Nat, NEW now, NEW Packet,
           Kept(st, certificate, n, now, Packet), NEW chosen,
           chosen = SelectIdentity(certificate, n + 1, now),
           chosen \in [fails : BOOLEAN, latest : Statements(Packet)],
           SelectDirect(certificate, now).latest \in Statements(Packet),
           \A k \in 1 .. n : SelectIdentity(certificate, k, now).latest \in Statements(Packet)
    PROVE  Kept(OP!AddIdentity(st, chosen), certificate, n + 1, now, Packet)
<1> DEFINE next == OP!AddIdentity(st, chosen)
           S == [fails : BOOLEAN, latest : Statements(Packet)]
           newer == OP!Newer(st.latest, chosen.latest[1])
<1>1. /\ st \in S /\ st.fails \in BOOLEAN /\ st.latest \in Statements(Packet)
      /\ chosen.fails \in BOOLEAN /\ chosen.latest \in Statements(Packet)
  BY DEF Kept
<1>2. 1 .. (n + 1) = (1 .. n) \cup {n + 1}
  OBVIOUS
<1>3. \/ next = [st EXCEPT !.fails = TRUE]
      \/ next = st /\ ~ st.fails /\ ~ chosen.fails /\ chosen.latest = << >>
      \/ /\ next = [st EXCEPT !.latest = newer] /\ ~ st.fails /\ ~ chosen.fails
         /\ chosen.latest # << >> /\ ~ OP!NewerFails(st.latest, chosen.latest[1])
  BY <1>1 DEF OP!AddIdentity
<1>4. CASE next = [st EXCEPT !.fails = TRUE]
  <2>1. next \in S /\ next.fails
    BY <1>1, <1>4
  <2> QED  BY <2>1 DEF Kept
<1>5. CASE next = st /\ ~ st.fails /\ ~ chosen.fails /\ chosen.latest = << >>
  <2> HIDE DEF next
  <2>1. Covers(st.latest, chosen.latest)
    BY <1>5 DEF Covers
  <2>2. Kept(st, certificate, n + 1, now, Packet)
    BY <1>2, <1>5, <2>1 DEF Kept
  <2> QED  BY <1>5, <2>2 DEF next
<1>6. CASE /\ next = [st EXCEPT !.latest = newer] /\ ~ st.fails /\ ~ chosen.fails
           /\ chosen.latest # << >> /\ ~ OP!NewerFails(st.latest, chosen.latest[1])
  <2>1. /\ newer \in {st.latest, chosen.latest} /\ newer # << >>
        /\ Covers(newer, chosen.latest)
        /\ \A x \in Statements(Packet) : Covers(st.latest, x) => Covers(newer, x)
    BY <1>1, <1>6, NewerCovers
  <2> HIDE DEF next, newer
  <2>2. next \in S /\ next.fails = st.fails /\ next.latest = newer
    BY <1>1, <1>6, <2>1
  <2>3. Covers(newer, SelectDirect(certificate, now).latest)
    BY <1>6, <2>1 DEF Kept
  <2>4. \A k \in 1 .. (n + 1) : Covers(newer, SelectIdentity(certificate, k, now).latest)
    BY <1>2, <1>6, <2>1 DEF Kept
  <2>5. \/ newer = SelectDirect(certificate, now).latest
        \/ \E k \in 1 .. (n + 1) : newer = SelectIdentity(certificate, k, now).latest
    BY <1>2, <1>6, <2>1 DEF Kept
  <2>6. /\ ~ SelectDirect(certificate, now).fails
        /\ \A k \in 1 .. (n + 1) : ~ SelectIdentity(certificate, k, now).fails
    BY <1>2, <1>6 DEF Kept
  <2>7. Kept(next, certificate, n + 1, now, Packet)
    BY <2>2, <2>3, <2>4, <2>5, <2>6 DEF Kept
  <2> QED  BY <2>7 DEF next
<1> QED  BY <1>3, <1>4, <1>5, <1>6

\* A statement in force is the one that select chooses, or says the same.
LEMMA InForceChosen ==
    ASSUME NEW Packet, \A s \in Packet : Dated(s), NEW signatures \in Seq(Packet),
           NEW key, NEW input, NEW typ, NEW revocation, NEW now \in Int, Asked(typ, revocation),
           NEW chosen, chosen = OP!Select(signatures, key, input, typ, revocation, now),
           ~ chosen.fails, NEW s, InForce(s, signatures, key, input, typ, now)
    PROVE  chosen.latest # << >> /\ chosen.latest[1].policy = PolicyIn(s)
<1>1. \/ chosen.latest = << >> /\ Withdrawn(signatures, key, input, typ, now)
      \/ \E x \in Packet : /\ chosen.latest = <<Candidate(x)>>
                           /\ InForce(x, signatures, key, input, typ, now)
  BY SelectNewest
<1>2. ~ Withdrawn(signatures, key, input, typ, now)
  <2> SUFFICES ASSUME Withdrawn(signatures, key, input, typ, now) PROVE FALSE
    OBVIOUS
  <2>1. PICK y \in Among(signatures) :
            /\ Counts(y, key, input, now) /\ y.typ = "CertRevocation"
            /\ OP!Created(s) <= OP!Created(y)
    BY DEF Withdrawn, InForce
  <2>2. OP!Created(y) \in Nat /\ OP!Created(y) < OP!Created(s) /\ OP!Created(s) \in Nat
    BY <2>1 DEF InForce
  <2> QED  BY <2>1, <2>2
<1>3. PICK x \in Packet : /\ chosen.latest = <<Candidate(x)>>
                          /\ InForce(x, signatures, key, input, typ, now)
  BY <1>1, <1>2
<1>4. PolicyIn(x) = PolicyIn(s)
  <2>1. /\ OP!Created(x) \in Nat /\ OP!Created(s) \in Nat
        /\ OP!Created(x) <= OP!Created(s) /\ OP!Created(s) <= OP!Created(x)
        /\ OP!Created(x) = OP!Created(s) => PolicyIn(x) = PolicyIn(s)
    BY <1>3 DEF InForce
  <2> QED  BY <2>1
<1>5. chosen.latest[1] = Candidate(x) /\ Candidate(x).policy = PolicyIn(x)
  BY <1>3 DEF Candidate
<1> QED  BY <1>3, <1>4, <1>5

\* Neither the order of the signatures nor other keys' packets among them decide what
\* select chooses: two sequences with the same signatures by the key, neither of them
\* refused, give the same policy or none.
THEOREM SelectIndependent ==
    ASSUME NEW Packet, \A s \in Packet : Dated(s), NEW a \in Seq(Packet), NEW b \in Seq(Packet),
           NEW key, NEW input, NEW typ, NEW revocation, NEW now \in Int, Asked(typ, revocation),
           \A s \in Packet :
              Made(s, key, input) => (s \in Among(a) <=> s \in Among(b)),
           NEW c, c = OP!Select(a, key, input, typ, revocation, now), ~ c.fails,
           NEW d, d = OP!Select(b, key, input, typ, revocation, now), ~ d.fails
    PROVE  \/ c.latest = << >> /\ d.latest = << >>
           \/ /\ c.latest # << >> /\ d.latest # << >>
              /\ c.latest[1].policy = d.latest[1].policy
<1>1. ASSUME NEW x \in Seq(Packet), NEW y \in Seq(Packet), NEW s,
             \A o \in Packet : Made(o, key, input) => (o \in Among(x) <=> o \in Among(y)),
             InForce(s, x, key, input, typ, now)
      PROVE  InForce(s, y, key, input, typ, now)
  <2>1. Among(x) \subseteq Packet /\ Among(y) \subseteq Packet
    BY DEF Among
  <2>2. \A o \in Among(y) : Counts(o, key, input, now) => o \in Among(x)
    BY <1>1, <2>1 DEF Counts
  <2>3. s \in Among(y)
    BY <1>1, <2>1 DEF InForce, Counts
  <2> QED  BY <1>1, <2>2, <2>3 DEF InForce
<1>2. \/ c.latest = << >>
      \/ \E s \in Packet : /\ c.latest = <<Candidate(s)>> /\ InForce(s, a, key, input, typ, now)
  BY SelectNewest
<1>3. \/ d.latest = << >>
      \/ \E s \in Packet : /\ d.latest = <<Candidate(s)>> /\ InForce(s, b, key, input, typ, now)
  BY SelectNewest
<1>4. ASSUME NEW s \in Packet, c.latest = <<Candidate(s)>>, InForce(s, a, key, input, typ, now)
      PROVE  /\ c.latest # << >> /\ d.latest # << >>
             /\ c.latest[1].policy = d.latest[1].policy
  <2>1. InForce(s, b, key, input, typ, now)
    BY <1>1, <1>4
  <2>2. d.latest # << >> /\ d.latest[1].policy = PolicyIn(s)
    BY <2>1, InForceChosen
  <2>3. c.latest # << >> /\ c.latest[1].policy = PolicyIn(s)
    BY <1>4, InForceChosen
  <2> QED  BY <2>2, <2>3
<1>5. ASSUME NEW s \in Packet, d.latest = <<Candidate(s)>>, InForce(s, b, key, input, typ, now)
      PROVE  c.latest # << >>
  <2>1. InForce(s, a, key, input, typ, now)
    BY <1>1, <1>5
  <2> QED  BY <2>1, InForceChosen
<1> QED  BY <1>2, <1>3, <1>4, <1>5

\* The identities that primary_policy looks at.
Counted(certificate) ==
    IF certificate.primary.version = 4 THEN Len(certificate.identities) ELSE 0

\* What select chooses for the primary key and for an identity.
LEMMA ChoicesTyped ==
    ASSUME NEW certificate, NEW Packet, NEW Component,
           Certified(certificate, Packet, Component), NEW now \in Int
    PROVE  /\ SelectDirect(certificate, now) \in [fails : BOOLEAN, latest : Statements(Packet)]
           /\ \A k \in 1 .. Len(certificate.identities) :
                SelectIdentity(certificate, k, now)
                    \in [fails : BOOLEAN, latest : Statements(Packet)]
<1>1. /\ Asked("Key", "KeyRevocation") /\ Asked("CertGeneric", "none")
      /\ \A s \in Packet : Dated(s)
  BY DEF Asked, Certified
<1>2. SelectDirect(certificate, now) \in [fails : BOOLEAN, latest : Statements(Packet)]
  <2>1. certificate.direct \in Seq(Packet)
    BY DEF Certified
  <2> QED  BY <1>1, <2>1, SelectTyped DEF SelectDirect
<1>3. ASSUME NEW k \in 1 .. Len(certificate.identities)
      PROVE  SelectIdentity(certificate, k, now) \in [fails : BOOLEAN, latest : Statements(Packet)]
  <2>1. certificate.identities[k].signatures \in Seq(Packet)
    BY DEF Certified
  <2> QED  BY <1>1, <2>1, SelectTyped DEF SelectIdentity
<1> QED  BY <1>2, <1>3

\* primary_policy has looked at all identities that count.
LEMMA PrimaryKept ==
    ASSUME NEW certificate, NEW Packet, NEW Component,
           Certified(certificate, Packet, Component), NEW now \in Int,
           NEW policy \in OP!PrimaryPolicy(certificate, now)
    PROVE  \E st : /\ Kept(st, certificate, Counted(certificate), now, Packet)
                   /\ ~ st.fails /\ st.latest # << >> /\ policy = st.latest[1].policy
                   /\ ~ OP!ValidityFails(policy, certificate.primary, now)
<1> DEFINE m == Len(certificate.identities)
           S == [fails : BOOLEAN, latest : Statements(Packet)]
           direct == SelectDirect(certificate, now)
           Of(k) == SelectIdentity(certificate, k, now)
           G == [x \in S \X (1 .. m) |-> OP!AddIdentity(x[1], Of(x[2]))]
           D(g) == g = [n \in 0 .. m |-> IF n = 0 THEN direct
                                         ELSE OP!AddIdentity(g[n - 1], Of(n))]
           t == CHOOSE g : D(g)
           last == IF certificate.primary.version = 4 THEN t[m] ELSE direct
<1>1. m \in Nat
  BY DEF Certified
<1>2. direct \in S /\ \A k \in 1 .. m : Of(k) \in S
  BY ChoicesTyped
<1>3. OP!PrimaryPolicy(certificate, now)
        = IF last.fails \/ last.latest = << >> THEN {}
          ELSE {p \in {last.latest[1].policy} :
                  ~ OP!ValidityFails(p, certificate.primary, now)}
  BY DEF OP!PrimaryPolicy, SelectDirect, SelectIdentity
<1>4. \A st \in S, c \in S : OP!AddIdentity(st, c) \in S
  <2> TAKE st \in S, c \in S
  <2>1. st.latest \in Statements(Packet) /\ c.latest \in Statements(Packet)
    OBVIOUS
  <2>2. c.latest # << >> => OP!Newer(st.latest, c.latest[1]) \in Statements(Packet)
    <3>1. c.latest # << >> => c.latest = <<c.latest[1]>>
      BY <2>1, ChoiceIs
    <3> QED  BY <2>1, <3>1 DEF OP!Newer
  <2>3. [st EXCEPT !.fails = TRUE] \in S
    OBVIOUS
  <2>4. ASSUME NEW x \in Statements(Packet)  PROVE [st EXCEPT !.latest = x] \in S
    OBVIOUS
  <2>5. OP!AddIdentity(st, c) \in {st, [st EXCEPT !.fails = TRUE]}
        \/ /\ c.latest # << >>
           /\ OP!AddIdentity(st, c) = [st EXCEPT !.latest = OP!Newer(st.latest, c.latest[1])]
    BY DEF OP!AddIdentity
  <2> HIDE DEF S
  <2> QED  BY <2>2, <2>3, <2>4, <2>5
<1> HIDE DEF S, direct, Of
<1>5. G \in [S \X (1 .. m) -> S]
  BY <1>2, <1>4
<1>6. PICK f : Iterates(f, m, S, direct, G)
  <2> HIDE DEF m, G
  <2> QED  BY <1>1, <1>2, <1>5, Recursion
<1>7. \A i \in 1 .. m : f[i] = OP!AddIdentity(f[i - 1], Of(i))
  <2> TAKE i \in 1 .. m
  <2>1. i - 1 \in 0 .. m
    BY <1>1
  <2>2. f[i - 1] \in S /\ f[i] = G[<<f[i - 1], i>>]
    BY <1>6, <2>1 DEF Iterates
  <2> QED  BY <2>2
<1> HIDE DEF G
<1>8. D(f)
  BY <1>1, <1>6, <1>7 DEF Iterates
<1>9. D(t)
  <2> HIDE DEF m
  <2> QED  BY <1>8
<1> HIDE DEF t
<1>10. t[0] = direct /\ \A i \in 1 .. m : t[i] = OP!AddIdentity(t[i - 1], Of(i))
  BY <1>1, <1>9
<1> DEFINE T == {i \in 0 .. m : Kept(t[i], certificate, i, now, Packet)}
<1>11. Kept(direct, certificate, 0, now, Packet)
  <2>1. direct.latest \in Statements(Packet)
    BY <1>2 DEF S
  <2>2. Covers(direct.latest, direct.latest)
    <3>1. direct.latest # << >> => direct.latest[1].policy.created \in Nat
      BY <2>1, ChoiceIs
    <3> QED  BY <3>1 DEF Covers
  <2>3. direct \in [fails : BOOLEAN, latest : Statements(Packet)]
    BY <1>2 DEF S
  <2>4. 1 .. 0 = {}
    OBVIOUS
  <2> QED  BY <2>2, <2>3, <2>4 DEF Kept, direct
<1>12. ASSUME NEW i \in 0 .. (m - 1), Kept(t[i], certificate, i, now, Packet)
       PROVE  Kept(t[i + 1], certificate, i + 1, now, Packet)
  <2>1. i + 1 \in 1 .. m /\ (i + 1) - 1 = i /\ i \in Nat /\ \A k \in 1 .. i : k \in 1 .. m
    BY <1>1
  <2>2. t[i + 1] = OP!AddIdentity(t[i], Of(i + 1))
    BY <1>10, <2>1
  <2> DEFINE st == t[i]
             chosen == Of(i + 1)
  <2>3. chosen = SelectIdentity(certificate, i + 1, now) /\ chosen \in S
    BY <1>2, <2>1 DEF Of
  <2>4. \A k \in 1 .. i : SelectIdentity(certificate, k, now).latest \in Statements(Packet)
    BY <1>2, <2>1 DEF Of, S
  <2>5. SelectDirect(certificate, now).latest \in Statements(Packet)
    BY <1>2 DEF direct, S
  <2>6. Kept(st, certificate, i, now, Packet)
    BY <1>12
  <2> HIDE DEF st, chosen
  <2>7. Kept(OP!AddIdentity(st, chosen), certificate, i + 1, now, Packet)
    BY <2>1, <2>3, <2>4, <2>5, <2>6, KeptStep DEF S
  <2> QED  BY <2>2, <2>7 DEF st, chosen
<1>13. Kept(t[m], certificate, m, now, Packet)
  <2>1. 0 \in T
    BY <1>1, <1>10, <1>11
  <2>2. \A i \in 0 .. (m - 1) : i \in T => i + 1 \in T
    BY <1>1, <1>12
  <2>3. \A i \in 0 .. m : i \in T
    <3> HIDE DEF T, m
    <3> QED  BY <1>1, <2>1, <2>2, Induction
  <2> QED  BY <1>1, <2>3
<1>14. Kept(last, certificate, Counted(certificate), now, Packet)
  BY <1>11, <1>13 DEF Counted
<1> HIDE DEF last
<1>15. ~ (last.fails \/ last.latest = << >>)
  BY <1>3
<1>16. /\ policy = last.latest[1].policy
       /\ ~ OP!ValidityFails(policy, certificate.primary, now)
  BY <1>3, <1>15
<1> QED  BY <1>14, <1>15, <1>16

\* The statement s about the primary key is in force: a direct-key signature, or for
\* a version-4 key the certification of one of its identities.
SpeaksForPrimary(s, certificate, now) ==
    \/ InForce(s, certificate.direct, certificate.primary, <<certificate.primary.fp>>,
               "Key", now)
    \/ \E k \in 1 .. Counted(certificate) :
          InForce(s, certificate.identities[k].signatures, certificate.primary,
                  <<certificate.primary.fp, certificate.identities[k].input>>,
                  "CertGeneric", now)

\* The primary key is not revoked, and the policy is what the latest of the statements
\* in force says of it.
PrimaryHas(policy, certificate, now) ==
    /\ NotRevoked(certificate.direct, certificate.primary, <<certificate.primary.fp>>,
                  "KeyRevocation")
    /\ ~ OP!ValidityFails(policy, certificate.primary, now)
    /\ \E s : SpeaksForPrimary(s, certificate, now) /\ policy = PolicyIn(s)
    /\ \A s : SpeaksForPrimary(s, certificate, now) =>
         /\ OP!Created(s) <= policy.created
         /\ OP!Created(s) = policy.created => PolicyIn(s) = policy

\* primary_policy returns the policy of the latest statement in force, over all
\* direct-key signatures and identities, of a primary key that is not revoked.
THEOREM PrimaryPolicyNewest ==
    ASSUME NEW certificate, NEW Packet, NEW Component,
           Certified(certificate, Packet, Component), NEW now \in Int,
           NEW policy \in OP!PrimaryPolicy(certificate, now)
    PROVE  PrimaryHas(policy, certificate, now)
<1> DEFINE primary == certificate.primary
           direct == SelectDirect(certificate, now)
           Of(k) == SelectIdentity(certificate, k, now)
           about == <<primary.fp>>
           Holder(k) == certificate.identities[k].signatures
           User(k) == <<primary.fp, certificate.identities[k].input>>
           n == Counted(certificate)
<1>1. PICK st : /\ Kept(st, certificate, n, now, Packet)
                /\ ~ st.fails /\ st.latest # << >> /\ policy = st.latest[1].policy
                /\ ~ OP!ValidityFails(policy, primary, now)
  BY PrimaryKept
<1>2. /\ Asked("Key", "KeyRevocation") /\ Asked("CertGeneric", "none")
      /\ \A s \in Packet : Dated(s)
  BY DEF Asked, Certified
<1>3. certificate.direct \in Seq(Packet)
  BY DEF Certified
<1>4. \A k \in 1 .. n : Holder(k) \in Seq(Packet)
  BY DEF Certified, Counted
<1>5. ~ direct.fails /\ \A k \in 1 .. n : ~ Of(k).fails
  BY <1>1 DEF Kept
<1>6. /\ NotRevoked(certificate.direct, primary, about, "KeyRevocation")
      /\ \/ direct.latest = << >>
         \/ \E s \in Packet : /\ direct.latest = <<Candidate(s)>>
                              /\ InForce(s, certificate.direct, primary, about, "Key", now)
  <2>1. direct = OP!Select(certificate.direct, primary, about, "Key", "KeyRevocation", now)
    BY DEF SelectDirect
  <2> HIDE DEF direct, primary, about
  <2> QED  BY <1>2, <1>3, <1>5, <2>1, SelectNewest
<1>7. ASSUME NEW k \in 1 .. n
      PROVE  \/ Of(k).latest = << >>
             \/ \E s \in Packet : /\ Of(k).latest = <<Candidate(s)>>
                                  /\ InForce(s, Holder(k), primary, User(k), "CertGeneric", now)
  <2>1. Of(k) = OP!Select(Holder(k), primary, User(k), "CertGeneric", "none", now)
    BY DEF SelectIdentity
  <2>2. Holder(k) \in Seq(Packet) /\ ~ Of(k).fails
    BY <1>4, <1>5
  <2> HIDE DEF Of, Holder, User, primary
  <2> QED  BY <1>2, <2>1, <2>2, SelectNewest
<1>8. \E s : SpeaksForPrimary(s, certificate, now) /\ policy = PolicyIn(s)
  <2>1. PICK s : st.latest = <<Candidate(s)>> /\ SpeaksForPrimary(s, certificate, now)
    <3>1. \/ st.latest = direct.latest
          \/ \E k \in 1 .. n : st.latest = Of(k).latest
      BY <1>1 DEF Kept
    <3> QED  BY <1>1, <1>6, <1>7, <3>1 DEF SpeaksForPrimary
  <2>2. st.latest[1] = Candidate(s) /\ Candidate(s).policy = PolicyIn(s)
    BY <2>1 DEF Candidate
  <2> QED  BY <1>1, <2>1, <2>2
<1>9. ASSUME NEW s, SpeaksForPrimary(s, certificate, now)
      PROVE  /\ OP!Created(s) <= policy.created
             /\ OP!Created(s) = policy.created => PolicyIn(s) = policy
  <2>1. PICK x : Covers(st.latest, x) /\ x # << >> /\ x[1].policy = PolicyIn(s)
    <3>1. CASE InForce(s, certificate.direct, primary, about, "Key", now)
      <4>1. direct = OP!Select(certificate.direct, primary, about, "Key", "KeyRevocation", now)
        BY DEF SelectDirect
      <4>2. Covers(st.latest, direct.latest)
        BY <1>1 DEF Kept
      <4> HIDE DEF direct, primary, about
      <4>3. direct.latest # << >> /\ direct.latest[1].policy = PolicyIn(s)
        BY <1>2, <1>3, <1>5, <3>1, <4>1, InForceChosen
      <4> QED  BY <4>2, <4>3
    <3>2. ASSUME NEW k \in 1 .. n, InForce(s, Holder(k), primary, User(k), "CertGeneric", now)
          PROVE  \E x : Covers(st.latest, x) /\ x # << >> /\ x[1].policy = PolicyIn(s)
      <4>1. Of(k) = OP!Select(Holder(k), primary, User(k), "CertGeneric", "none", now)
        BY DEF SelectIdentity
      <4>2. Covers(st.latest, Of(k).latest)
        BY <1>1 DEF Kept
      <4>3. Holder(k) \in Seq(Packet) /\ ~ Of(k).fails
        BY <1>4, <1>5
      <4> HIDE DEF Of, Holder, User, primary
      <4>4. Of(k).latest # << >> /\ Of(k).latest[1].policy = PolicyIn(s)
        BY <1>2, <3>2, <4>1, <4>3, InForceChosen
      <4> QED  BY <4>2, <4>4
    <3> QED  BY <1>9, <3>1, <3>2 DEF SpeaksForPrimary
  <2>2. PolicyIn(s).created = OP!Created(s)
    BY DEF PolicyIn
  <2> QED  BY <1>1, <2>1, <2>2 DEF Covers
<1> QED  BY <1>1, <1>6, <1>8, <1>9 DEF PrimaryHas

-----------------------------------------------------------------------------
(* OpenPGP: what an authenticated document shows.                          *)

\* At this time the key with this fingerprint may sign for the certificate: it is the
\* primary key, or a subkey that the primary key binds and that binds itself to the
\* primary key, with nothing revoked, expired or restricted to other uses.
MaySign(certificate, fp, time) ==
    LET primary == certificate.primary IN
    \E policy :
      /\ PrimaryHas(policy, certificate, time)
      /\ fp = primary.fp => ~ OP!UsageFails(policy, "sign")
      /\ fp # primary.fp =>
           /\ ~ OP!UsageFails(policy, "certify")
           /\ \E k \in DOMAIN certificate.subkeys : \E binding :
                LET subkey == certificate.subkeys[k]
                    input == <<primary.fp, fp>>
                IN
                /\ subkey.key.fp = fp
                /\ NotRevoked(subkey.signatures, primary, input, "SubkeyRevocation")
                /\ InForce(binding, subkey.signatures, primary, input, "SubkeyBinding", time)
                /\ ~ OP!ValidityFails(PolicyIn(binding), subkey.key, time)
                /\ ~ OP!UsageFails(PolicyIn(binding), "sign")
                /\ \E reverse \in OP!ToSet(binding.embedded) :
                     /\ reverse.typ = "KeyBinding" /\ Made(reverse, subkey.key, input)
                     /\ ~ OP!ValidityFails(PolicyIn(reverse), subkey.key, time)

\* validate_signer accepts only a key that may sign.
THEOREM SignerMaySign ==
    ASSUME NEW certificate, NEW Packet, NEW Component,
           Certified(certificate, Packet, Component), NEW now \in Int, NEW fp,
           ~ OP!SignerFails(certificate, fp, now)
    PROVE  MaySign(certificate, fp, now)
<1> DEFINE primary == certificate.primary
           found == {k \in DOMAIN certificate.subkeys : certificate.subkeys[k].key.fp = fp}
           first == CHOOSE k \in found : \A j \in found : k <= j
           subkey == certificate.subkeys[first]
           input == <<primary.fp, subkey.key.fp>>
           bound == OP!Select(subkey.signatures, primary, input, "SubkeyBinding",
                              "SubkeyRevocation", now)
           binding == bound.latest[1]
<1>1. OP!PrimaryPolicy(certificate, now) # {}
  BY DEF OP!SignerFails
<1>2. PICK policy \in OP!PrimaryPolicy(certificate, now) : TRUE
  BY <1>1
<1>3. PrimaryHas(policy, certificate, now)
  BY PrimaryPolicyNewest
<1>4. CASE fp = primary.fp
  <2>1. ~ OP!UsageFails(policy, "sign")
    BY <1>2, <1>4 DEF OP!SignerFails
  <2> QED  BY <1>3, <1>4, <2>1 DEF MaySign
<1>5. CASE fp # primary.fp
  <2>1. /\ ~ OP!UsageFails(policy, "certify") /\ found # {}
        /\ ~ bound.fails /\ bound.latest # << >>
        /\ ~ OP!ValidityFails(binding.policy, subkey.key, now)
        /\ ~ OP!UsageFails(binding.policy, "sign")
        /\ OP!ReverseHolds(binding.signature, subkey.key, input, now)
    BY <1>2, <1>5 DEF OP!SignerFails
  <2>2. first \in found
    <3>1. found \in SUBSET Nat
      BY DEF Certified
    <3>2. \E k \in found : \A j \in found : k <= j
      <4> HIDE DEF found
      <4> QED  BY <2>1, <3>1, Smallest
    <3> QED  BY <3>2
  <2>3. /\ first \in DOMAIN certificate.subkeys /\ subkey.key.fp = fp
        /\ subkey.signatures \in Seq(Packet)
    <3> HIDE DEF first
    <3>1. first \in DOMAIN certificate.subkeys /\ subkey.key.fp = fp
      BY <2>2
    <3>2. subkey.signatures \in Seq(Packet)
      BY <3>1 DEF Certified
    <3> QED  BY <3>1, <3>2
  <2>4. Asked("SubkeyBinding", "SubkeyRevocation") /\ \A s \in Packet : Dated(s)
    BY DEF Asked, Certified
  <2> HIDE DEF bound, subkey
  <2>5. /\ NotRevoked(subkey.signatures, primary, input, "SubkeyRevocation")
        /\ \E s \in Packet : /\ bound.latest = <<Candidate(s)>>
                             /\ InForce(s, subkey.signatures, primary, input,
                                        "SubkeyBinding", now)
    <3> HIDE DEF primary, input
    <3> QED  BY <2>1, <2>3, <2>4, SelectNewest DEF bound
  <2>6. PICK s \in Packet : /\ bound.latest = <<Candidate(s)>>
                            /\ InForce(s, subkey.signatures, primary, input,
                                       "SubkeyBinding", now)
    BY <2>5
  <2>7. binding = Candidate(s)
    BY <2>6
  <2>8. binding.policy = PolicyIn(s) /\ binding.signature = s
    BY <2>7 DEF Candidate
  <2> HIDE DEF binding
  <2>9. PICK reverse \in OP!ToSet(s.embedded) :
          /\ reverse.typ = "KeyBinding"
          /\ \E p \in OP!PolicyOf(reverse, subkey.key, input) :
                ~ OP!ValidityFails(p, subkey.key, now)
    BY <2>1, <2>8 DEF OP!ReverseHolds
  <2>10. Made(reverse, subkey.key, input) /\ ~ OP!ValidityFails(PolicyIn(reverse), subkey.key, now)
    <3>1. Made(reverse, subkey.key, input)
      BY <2>9 DEF Made
    <3>2. OP!PolicyOf(reverse, subkey.key, input) = {PolicyIn(reverse)}
      BY <3>1, MadeIs
    <3> QED  BY <2>9, <3>1, <3>2
  <2>11. input = <<primary.fp, fp>>
    BY <2>3
  <2> HIDE DEF input, first
  <2> QED
    BY <1>3, <1>5, <2>1, <2>3, <2>5, <2>6, <2>8, <2>9, <2>10, <2>11 DEF MaySign, subkey
<1> QED  BY <1>4, <1>5

\* The keys of a certificate.
Keys(certificate) ==
    {certificate.primary} \cup {s.key : s \in OP!ToSet(certificate.subkeys)}

\* What authenticate accepts was signed over this input by a key of the certificate,
\* and that key was allowed to sign both when the document says it was made and now.
THEOREM PgpAuthentic ==
    ASSUME NEW certificate, NEW Packet, NEW Component,
           Certified(certificate, Packet, Component), NEW now \in Int, NEW document, NEW input,
           Dated(document), ~ OP!DocumentFails(document),
           ~ OP!AuthenticateFails(certificate, document, input, now)
    PROVE  /\ document.over = <<input>>
           /\ document.by \in document.issuer /\ document.by \in OP!Fingerprints(certificate)
           /\ OP!Created(document) <= now
           /\ document.lifetime # 0 => ~ (now >= OP!Created(document) + document.lifetime)
           /\ MaySign(certificate, document.by, OP!Created(document))
           /\ MaySign(certificate, document.by, now)
<1> DEFINE issuer == OP!Issuer(document)
<1>1. issuer \in document.issuer
  BY DEF OP!DocumentFails, OP!Issuer
<1>2. OP!Created(document) \in Int
  BY DEF OP!DocumentFails, OP!Created, Dated
<1>3. /\ issuer \in OP!Fingerprints(certificate)
      /\ \A key \in Keys(certificate) : key.fp = issuer => OP!VerifyRaw(document, <<input>>, key) = "ok"
      /\ ~ OP!TimeFails(document, now)
      /\ ~ OP!SignerFails(certificate, issuer, OP!Created(document))
      /\ ~ OP!SignerFails(certificate, issuer, now)
  BY DEF OP!AuthenticateFails, Keys
<1>4. PICK key \in Keys(certificate) : key.fp = issuer
  BY <1>3 DEF OP!Fingerprints, Keys
<1>5. document.by = issuer /\ document.over = <<input>>
  BY <1>3, <1>4 DEF OP!VerifyRaw
<1>6. /\ OP!Created(document) <= now
      /\ document.lifetime # 0 => ~ (now >= OP!Created(document) + document.lifetime)
  BY <1>2, <1>3 DEF OP!TimeFails
<1> HIDE DEF issuer
<1>7. MaySign(certificate, issuer, OP!Created(document)) /\ MaySign(certificate, issuer, now)
  BY <1>2, <1>3, SignerMaySign
<1> QED  BY <1>1, <1>3, <1>5, <1>6, <1>7

\* What OpenPgpSigner::sign returns, authenticate accepts as long as the key may sign.
\* The fingerprints tell the certificate's keys apart, as decode ensures.
THEOREM PgpComplete ==
    ASSUME NEW signer, NEW input, NEW signed \in Int, NEW document, NEW now \in Int,
           OP!SignWith(signer, input, signed) = <<document>>,
           signer.key \in Keys(signer.certificate),
           \A key \in Keys(signer.certificate) : key.fp = signer.key.fp => key = signer.key,
           signed <= now, ~ OP!SignerFails(signer.certificate, signer.key.fp, now)
    PROVE  /\ ~ OP!DocumentFails(document)
           /\ ~ OP!AuthenticateFails(signer.certificate, document, input, now)
<1> DEFINE certificate == signer.certificate
           made == [OP!Sign(input, signer.key, signer.hash, signed) EXCEPT !.by = signer.secret]
<1>1. /\ ~ OP!SignerFails(certificate, signer.key.fp, signed)
      /\ OP!CheckedSignature(signer, input, signed) = <<document>>
  BY DEF OP!SignWith
<1>2. ~ OP!DocumentFails(made) /\ OP!VerifyRaw(made, <<input>>, signer.key) = "ok"
  BY <1>1 DEF OP!CheckedSignature
<1>3. document = made
  <2>1. <<document>> = <<made>>
    BY <1>1, <1>2 DEF OP!CheckedSignature
  <2> QED  BY <2>1
<1>4. document.issuer = {signer.key.fp} /\ document.created = {signed} /\ document.lifetime = 0
  BY <1>3 DEF OP!Sign
<1>5. OP!Issuer(document) = signer.key.fp /\ OP!Created(document) = signed
  BY <1>4 DEF OP!Issuer, OP!Created
<1>6. signer.key.fp \in OP!Fingerprints(certificate)
  BY DEF OP!Fingerprints, Keys
<1>7. ~ OP!TimeFails(document, now)
  <2>1. ~ (now < 0)
    BY DEF OP!SignerFails
  <2> QED  BY <1>4, <1>5, <2>1 DEF OP!TimeFails
<1> HIDE DEF made
<1>8. \A key \in Keys(certificate) :
        key.fp = signer.key.fp => OP!VerifyRaw(document, <<input>>, key) = "ok"
  BY <1>2, <1>3
<1>9. ~ OP!AuthenticateFails(certificate, document, input, now)
  BY <1>1, <1>5, <1>6, <1>7, <1>8 DEF OP!AuthenticateFails, Keys
<1> QED  BY <1>2, <1>3, <1>9

-----------------------------------------------------------------------------
(* The order of Java versions.                                             *)

Indexes == Nat \ {0}

\* f comes before g in the order of their first difference.
Before(f, g) ==
    \E i \in Indexes : f[i] < g[i] /\ \A j \in 1 .. (i - 1) : f[j] = g[j]

\* Of two functions that differ, one comes before the other.
LEMMA BeforeTotal ==
    ASSUME NEW f \in [Indexes -> Int], NEW g \in [Indexes -> Int], f # g
    PROVE  Before(f, g) \/ Before(g, f)
<1> DEFINE D == {i \in Indexes : f[i] # g[i]}
<1>1. D \in SUBSET Nat /\ D # {}
  BY DEF Indexes
<1>2. PICK i \in D : \A j \in D : i <= j
  <2> HIDE DEF D
  <2> QED  BY <1>1, Smallest
<1>3. i \in Indexes /\ f[i] \in Int /\ g[i] \in Int /\ f[i] # g[i]
  BY <1>2
<1>4. \A j \in 1 .. (i - 1) : f[j] = g[j]
  <2> TAKE j \in 1 .. (i - 1)
  <2>1. j \in Indexes /\ ~ (i <= j)
    BY <1>3 DEF Indexes
  <2> QED  BY <1>2, <2>1
<1>5. f[i] < g[i] \/ g[i] < f[i]
  BY <1>3
<1> QED  BY <1>3, <1>4, <1>5 DEF Before

\* Not both, and no function comes before itself.
LEMMA BeforeStrict ==
    ASSUME NEW f \in [Indexes -> Int], NEW g \in [Indexes -> Int], Before(f, g)
    PROVE  ~ Before(g, f) /\ f # g
<1>1. PICK i \in Indexes : f[i] < g[i] /\ \A j \in 1 .. (i - 1) : f[j] = g[j]
  BY DEF Before
<1>2. f[i] \in Int /\ g[i] \in Int /\ f # g
  BY <1>1
<1>3. ASSUME NEW k \in Indexes, g[k] < f[k], \A j \in 1 .. (k - 1) : g[j] = f[j]
      PROVE  FALSE
  <2>1. g[k] \in Int /\ f[k] \in Int /\ i \in Nat /\ k \in Nat /\ i > 0 /\ k > 0
    BY DEF Indexes
  <2>2. CASE i < k
    <3>1. i \in 1 .. (k - 1)
      BY <2>1, <2>2
    <3>2. g[i] = f[i]
      BY <1>3, <3>1
    <3> QED  BY <1>1, <1>2, <3>2
  <2>3. CASE k < i
    <3>1. k \in 1 .. (i - 1)
      BY <2>1, <2>3
    <3>2. g[k] = f[k]
      BY <1>1, <3>1
    <3> QED  BY <1>3, <2>1, <3>2
  <2>4. CASE i = k
    BY <1>1, <1>2, <1>3, <2>4
  <2> QED  BY <2>1, <2>2, <2>3, <2>4
<1> QED  BY <1>2, <1>3 DEF Before

\* The order is transitive.
LEMMA BeforeTransitive ==
    ASSUME NEW f \in [Indexes -> Int], NEW g \in [Indexes -> Int], NEW h \in [Indexes -> Int],
           Before(f, g), Before(g, h)
    PROVE  Before(f, h)
<1>1. PICK i \in Indexes : f[i] < g[i] /\ \A j \in 1 .. (i - 1) : f[j] = g[j]
  BY DEF Before
<1>2. PICK k \in Indexes : g[k] < h[k] /\ \A j \in 1 .. (k - 1) : g[j] = h[j]
  BY DEF Before
<1>3. /\ f[i] \in Int /\ g[i] \in Int /\ h[i] \in Int /\ f[k] \in Int /\ g[k] \in Int
      /\ h[k] \in Int /\ i \in Nat /\ k \in Nat /\ i > 0 /\ k > 0
  BY DEF Indexes
<1>4. CASE i <= k
  <2>1. g[i] <= h[i]
    <3>1. i = k \/ i \in 1 .. (k - 1)
      BY <1>3, <1>4
    <3> QED  BY <1>2, <1>3, <3>1
  <2>2. f[i] < h[i]
    BY <1>1, <1>3, <2>1
  <2>3. \A j \in 1 .. (i - 1) : f[j] = h[j]
    <3> TAKE j \in 1 .. (i - 1)
    <3>1. j \in 1 .. (k - 1)
      BY <1>3, <1>4
    <3> QED  BY <1>1, <1>2, <3>1
  <2> QED  BY <2>2, <2>3 DEF Before
<1>5. CASE k < i
  <2>1. k \in 1 .. (i - 1)
    BY <1>3, <1>5
  <2>2. f[k] < h[k]
    BY <1>1, <1>2, <1>3, <2>1
  <2>3. \A j \in 1 .. (k - 1) : f[j] = h[j]
    <3> TAKE j \in 1 .. (k - 1)
    <3>1. j \in 1 .. (i - 1)
      BY <1>3, <1>5
    <3> QED  BY <1>1, <1>2, <3>1
  <2> QED  BY <2>2, <2>3 DEF Before
<1> QED  BY <1>3, <1>4, <1>5

\* o is the order of f and g.
Orders(o, f, g) ==
    \/ o = 0 /\ f = g
    \/ o = -1 /\ Before(f, g)
    \/ o = 1 /\ Before(g, f)

\* What FirstDifference returns for sequences of one length, and functions that are
\* equal beyond it.
LEMMA FirstDifferenceIs ==
    ASSUME NEW n \in Nat, NEW a \in Seq(Int), NEW b \in Seq(Int), Len(a) = n, Len(b) = n,
           NEW f \in [Indexes -> Int], NEW g \in [Indexes -> Int],
           \A i \in 1 .. n : f[i] = a[i] /\ g[i] = b[i],
           \A i \in Indexes : i > n => f[i] = g[i]
    PROVE  Orders(JV!FirstDifference(a, b), f, g)
<1> DEFINE D == {i \in 1 .. Len(a) : a[i] # b[i]}
           first == CHOOSE i \in D : \A j \in D : i <= j
<1>1. CASE D = {}
  <2>1. JV!FirstDifference(a, b) = 0
    BY <1>1 DEF JV!FirstDifference
  <2>2. f = g
    <3>1. \A i \in Indexes : i \in 1 .. n \/ i > n
      BY DEF Indexes
    <3> QED  BY <1>1, <3>1
  <2> QED  BY <2>1, <2>2 DEF Orders
<1>2. CASE D # {}
  <2>1. D \in SUBSET Nat
    OBVIOUS
  <2>2. first \in D /\ \A j \in D : first <= j
    <3> HIDE DEF D
    <3> QED  BY <1>2, <2>1, Smallest
  <2>3. JV!FirstDifference(a, b) = JV!Sign(a[first] - b[first])
    BY <1>2 DEF JV!FirstDifference
  <2> HIDE DEF first
  <2>4. /\ first \in 1 .. n /\ a[first] # b[first] /\ a[first] \in Int /\ b[first] \in Int
        /\ first \in Indexes
    BY <2>2 DEF Indexes
  <2>5. f[first] = a[first] /\ g[first] = b[first]
    BY <2>4
  <2>6. \A j \in 1 .. (first - 1) : f[j] = g[j]
    <3> TAKE j \in 1 .. (first - 1)
    <3>1. j \in 1 .. n /\ ~ (first <= j)
      BY <2>4
    <3>2. a[j] = b[j]
      BY <2>2, <3>1
    <3> QED  BY <3>1, <3>2
  <2>7. \A j \in 1 .. (first - 1) : g[j] = f[j]
    BY <2>6
  <2>8. CASE a[first] < b[first]
    <3>1. JV!FirstDifference(a, b) = -1
      BY <2>3, <2>4, <2>8 DEF JV!Sign
    <3>2. Before(f, g)
      BY <2>4, <2>5, <2>6, <2>8 DEF Before
    <3> QED  BY <3>1, <3>2 DEF Orders
  <2>9. CASE b[first] < a[first]
    <3>1. JV!FirstDifference(a, b) = 1
      BY <2>3, <2>4, <2>9 DEF JV!Sign
    <3>2. Before(g, f)
      BY <2>4, <2>5, <2>7, <2>9 DEF Before
    <3> QED  BY <3>1, <3>2 DEF Orders
  <2> QED  BY <2>4, <2>8, <2>9
<1> QED  BY <1>1, <1>2

\* A sequence continued with a filler.
Continued(s, filler) == [i \in Indexes |-> IF i <= Len(s) THEN s[i] ELSE filler]

LEMMA ContinuedIs ==
    ASSUME NEW s \in Seq(Int), NEW filler \in Int
    PROVE  /\ Continued(s, filler) \in [Indexes -> Int]
           /\ \A i \in 1 .. Len(s) : Continued(s, filler)[i] = s[i] /\ s[i] \in Int
           /\ \A i \in Indexes : i > Len(s) => Continued(s, filler)[i] = filler
<1>1. ASSUME NEW i \in Indexes
      PROVE  (i <= Len(s) => i \in 1 .. Len(s)) /\ (i > Len(s) => ~ (i <= Len(s)))
  BY DEF Indexes
<1>2. \A i \in 1 .. Len(s) : i \in Indexes /\ i <= Len(s) /\ s[i] \in Int
  BY DEF Indexes
<1> QED  BY <1>1, <1>2 DEF Continued

\* Numbers are compared as if continued with zeros.
LEMMA NumbersOrdered ==
    ASSUME NEW a \in Seq(Nat), NEW b \in Seq(Nat)
    PROVE  Orders(JV!CompareNumbers(a, b), Continued(a, 0), Continued(b, 0))
<1> DEFINE n == IF Len(a) > Len(b) THEN Len(a) ELSE Len(b)
           c == JV!Padded(a, n)
           d == JV!Padded(b, n)
<1>1. /\ n \in Nat /\ Len(a) <= n /\ Len(b) <= n /\ a \in Seq(Int) /\ b \in Seq(Int)
      /\ Len(a) \in Nat /\ Len(b) \in Nat
  OBVIOUS
<1>2. JV!CompareNumbers(a, b) = JV!FirstDifference(c, d)
  BY DEF JV!CompareNumbers
<1> HIDE DEF n
<1>3. ASSUME NEW s \in Seq(Int), Len(s) <= n
      PROVE  /\ JV!Padded(s, n) \in Seq(Int) /\ Len(JV!Padded(s, n)) = n
             /\ \A i \in 1 .. n : JV!Padded(s, n)[i] = Continued(s, 0)[i]
  <2>1. \A i \in 1 .. n : (IF i <= Len(s) THEN s[i] ELSE 0) \in Int
    BY <1>1
  <2>2. JV!Padded(s, n) \in Seq(Int) /\ Len(JV!Padded(s, n)) = n
    BY <1>1, <2>1 DEF JV!Padded
  <2>3. \A i \in 1 .. n : i \in Indexes
    BY <1>1 DEF Indexes
  <2> QED  BY <2>2, <2>3 DEF JV!Padded, Continued
<1>4. \A i \in Indexes : i > n => Continued(a, 0)[i] = 0 /\ Continued(b, 0)[i] = 0
  <2> TAKE i \in Indexes
  <2>1. i > n => i > Len(a) /\ i > Len(b)
    BY <1>1 DEF Indexes
  <2> QED  BY <1>1, <2>1, ContinuedIs
<1>5. Continued(a, 0) \in [Indexes -> Int] /\ Continued(b, 0) \in [Indexes -> Int]
  BY <1>1, ContinuedIs
<1>6. /\ c \in Seq(Int) /\ Len(c) = n /\ d \in Seq(Int) /\ Len(d) = n
      /\ \A i \in 1 .. n : Continued(a, 0)[i] = c[i] /\ Continued(b, 0)[i] = d[i]
  BY <1>1, <1>3
<1> DEFINE f == Continued(a, 0)
           g == Continued(b, 0)
<1>7. \A i \in Indexes : i > n => f[i] = g[i]
  BY <1>4
<1> HIDE DEF c, d, f, g
<1>8. Orders(JV!FirstDifference(c, d), f, g)
  BY <1>1, <1>5, <1>6, <1>7, FirstDifferenceIs DEF f, g
<1> QED  BY <1>2, <1>8 DEF f, g

\* Something before all characters.
Blank == -1

LEMMA BlankIs == Blank \in Int /\ \A c \in Nat : Blank < c
BY DEF Blank

\* Texts are compared as if continued with blanks.
LEMMA TextsOrdered ==
    ASSUME NEW a \in Seq(Nat), NEW b \in Seq(Nat)
    PROVE  Orders(JV!CompareText(a, b), Continued(a, Blank), Continued(b, Blank))
<1> DEFINE n == IF Len(a) < Len(b) THEN Len(a) ELSE Len(b)
           c == SubSeq(a, 1, n)
           d == SubSeq(b, 1, n)
           f == Continued(a, Blank)
           g == Continued(b, Blank)
           o == JV!FirstDifference(c, d)
<1>1. /\ n \in Nat /\ n <= Len(a) /\ n <= Len(b) /\ a \in Seq(Int) /\ b \in Seq(Int)
      /\ Len(a) \in Nat /\ Len(b) \in Nat /\ (n = Len(a) \/ n = Len(b)) /\ Blank \in Int
  BY BlankIs
<1>2. JV!CompareText(a, b) = IF o # 0 THEN o ELSE JV!Sign(Len(a) - Len(b))
  BY DEF JV!CompareText
<1>3. /\ f \in [Indexes -> Int] /\ g \in [Indexes -> Int]
      /\ \A i \in 1 .. Len(a) : f[i] = a[i] /\ a[i] \in Nat
      /\ \A i \in 1 .. Len(b) : g[i] = b[i] /\ b[i] \in Nat
      /\ \A i \in Indexes : (i > Len(a) => f[i] = Blank) /\ (i > Len(b) => g[i] = Blank)
  <2>1. /\ f \in [Indexes -> Int]
        /\ \A i \in 1 .. Len(a) : f[i] = a[i]
        /\ \A i \in Indexes : i > Len(a) => f[i] = Blank
    BY <1>1, ContinuedIs
  <2>2. /\ g \in [Indexes -> Int]
        /\ \A i \in 1 .. Len(b) : g[i] = b[i]
        /\ \A i \in Indexes : i > Len(b) => g[i] = Blank
    BY <1>1, ContinuedIs
  <2>3. (\A i \in 1 .. Len(a) : a[i] \in Nat) /\ (\A i \in 1 .. Len(b) : b[i] \in Nat)
    OBVIOUS
  <2> HIDE DEF f, g
  <2> QED  BY <2>1, <2>2, <2>3
<1> SUFFICES Orders(JV!CompareText(a, b), f, g)
  OBVIOUS
<1> HIDE DEF f, g, n
<1>4. /\ c \in Seq(Int) /\ Len(c) = n /\ d \in Seq(Int) /\ Len(d) = n
      /\ \A i \in 1 .. n : c[i] = a[i] /\ d[i] = b[i]
  BY <1>1
<1> DEFINE x == Continued(c, Blank)
           y == Continued(d, Blank)
<1>5. /\ x \in [Indexes -> Int] /\ y \in [Indexes -> Int]
      /\ \A i \in 1 .. n : x[i] = c[i] /\ y[i] = d[i]
      /\ \A i \in Indexes : i > n => x[i] = y[i]
  <2> HIDE DEF c, d
  <2>1. /\ x \in [Indexes -> Int]
        /\ \A i \in 1 .. n : x[i] = c[i]
        /\ \A i \in Indexes : i > n => x[i] = Blank
    BY <1>1, <1>4, ContinuedIs
  <2>2. /\ y \in [Indexes -> Int]
        /\ \A i \in 1 .. n : y[i] = d[i]
        /\ \A i \in Indexes : i > n => y[i] = Blank
    BY <1>1, <1>4, ContinuedIs
  <2> HIDE DEF x, y
  <2> QED  BY <2>1, <2>2
<1> HIDE DEF c, d, x, y
<1>6. Orders(o, x, y)
  BY <1>1, <1>4, <1>5, FirstDifferenceIs
<1> HIDE DEF o
<1>7. \A i \in 1 .. n : i \in Indexes /\ x[i] = f[i] /\ y[i] = g[i]
  <2> TAKE i \in 1 .. n
  <2>1. i \in Indexes /\ i \in 1 .. Len(a) /\ i \in 1 .. Len(b)
    BY <1>1 DEF Indexes
  <2> QED  BY <1>3, <1>4, <1>5, <2>1
<1>8. CASE o = 0
  <2>1. x = y
    BY <1>6, <1>8 DEF Orders
  <2>2. \A i \in 1 .. n : f[i] = g[i]
    BY <1>7, <2>1
  <2>3. JV!CompareText(a, b) = JV!Sign(Len(a) - Len(b))
    BY <1>2, <1>8
  <2>4. CASE Len(a) = Len(b)
    <3>1. JV!CompareText(a, b) = 0
      BY <1>1, <2>3, <2>4 DEF JV!Sign
    <3>2. \A i \in Indexes : i \in 1 .. n \/ (i > Len(a) /\ i > Len(b))
      BY <1>1, <2>4 DEF Indexes
    <3>3. \A i \in Indexes : f[i] = g[i]
      BY <1>3, <2>2, <3>2
    <3>4. f = g
      BY <1>3, <3>3
    <3> QED  BY <3>1, <3>4 DEF Orders
  <2>5. CASE Len(a) < Len(b)
    <3>1. JV!CompareText(a, b) = -1
      BY <1>1, <2>3, <2>5 DEF JV!Sign
    <3>2. n = Len(a) /\ n + 1 \in Indexes /\ n + 1 \in 1 .. Len(b) /\ n + 1 > Len(a)
          /\ (n + 1) - 1 = n
      BY <1>1, <2>5 DEF Indexes
    <3>3. f[n + 1] < g[n + 1]
      BY <1>3, <3>2, BlankIs
    <3>4. Before(f, g)
      BY <2>2, <3>2, <3>3 DEF Before
    <3> QED  BY <3>1, <3>4 DEF Orders
  <2>6. CASE Len(b) < Len(a)
    <3>1. JV!CompareText(a, b) = 1
      BY <1>1, <2>3, <2>6 DEF JV!Sign
    <3>2. n = Len(b) /\ n + 1 \in Indexes /\ n + 1 \in 1 .. Len(a) /\ n + 1 > Len(b)
          /\ (n + 1) - 1 = n
      BY <1>1, <2>6 DEF Indexes
    <3>3. g[n + 1] < f[n + 1]
      BY <1>3, <3>2, BlankIs
    <3>4. Before(g, f)
      BY <2>2, <3>2, <3>3 DEF Before
    <3> QED  BY <3>1, <3>4 DEF Orders
  <2> QED  BY <1>1, <2>4, <2>5, <2>6
<1>9. CASE o # 0
  <2>1. JV!CompareText(a, b) = o
    BY <1>2, <1>9
  <2>2. ASSUME NEW i \in Indexes, x[i] # y[i]
        PROVE  i \in 1 .. n
    BY <1>1, <1>5, <2>2 DEF Indexes
  <2>3. CASE o = -1 /\ Before(x, y)
    <3>1. PICK i \in Indexes : x[i] < y[i] /\ \A j \in 1 .. (i - 1) : x[j] = y[j]
      BY <2>3 DEF Before
    <3>2. x[i] # y[i]
      BY <1>5, <3>1
    <3>3. i \in 1 .. n /\ \A j \in 1 .. (i - 1) : j \in 1 .. n
      BY <1>1, <2>2, <3>1, <3>2
    <3>4. f[i] < g[i] /\ \A j \in 1 .. (i - 1) : f[j] = g[j]
      BY <1>7, <3>1, <3>3
    <3>5. Before(f, g)
      BY <3>4 DEF Before
    <3> QED  BY <2>1, <2>3, <3>5 DEF Orders
  <2>4. CASE o = 1 /\ Before(y, x)
    <3>1. PICK i \in Indexes : y[i] < x[i] /\ \A j \in 1 .. (i - 1) : y[j] = x[j]
      BY <2>4 DEF Before
    <3>2. x[i] # y[i]
      BY <1>5, <3>1
    <3>3. i \in 1 .. n /\ \A j \in 1 .. (i - 1) : j \in 1 .. n
      BY <1>1, <2>2, <3>1, <3>2
    <3>4. g[i] < f[i] /\ \A j \in 1 .. (i - 1) : g[j] = f[j]
      BY <1>7, <3>1, <3>3
    <3>5. Before(g, f)
      BY <3>4 DEF Before
    <3> QED  BY <2>1, <2>4, <3>5 DEF Orders
  <2> QED  BY <1>6, <1>9, <2>3, <2>4 DEF Orders
<1> QED  BY <1>8, <1>9

\* Sequences of one length with the same elements are the same.
LEMMA SameElements ==
    ASSUME NEW S, NEW a \in Seq(S), NEW b \in Seq(S), Len(a) = Len(b),
           \A i \in 1 .. Len(a) : a[i] = b[i]
    PROVE  a = b
OBVIOUS

\* Different texts stay different when they are continued.
LEMMA TextKept ==
    ASSUME NEW a \in Seq(Nat), NEW b \in Seq(Nat), Continued(a, Blank) = Continued(b, Blank)
    PROVE  a = b
<1> DEFINE f == Continued(a, Blank)
<1>1. /\ a \in Seq(Int) /\ b \in Seq(Int) /\ Len(a) \in Nat /\ Len(b) \in Nat
      /\ \A i \in 1 .. Len(a) : a[i] \in Nat
      /\ \A i \in 1 .. Len(b) : b[i] \in Nat
  OBVIOUS
<1>2. /\ \A i \in 1 .. Len(a) : f[i] = a[i]
      /\ \A i \in Indexes : i > Len(a) => f[i] = Blank
  BY <1>1, BlankIs, ContinuedIs
<1>3. /\ \A i \in 1 .. Len(b) : f[i] = b[i]
      /\ \A i \in Indexes : i > Len(b) => f[i] = Blank
  <2> DEFINE g == Continued(b, Blank)
  <2>1. /\ \A i \in 1 .. Len(b) : g[i] = b[i]
        /\ \A i \in Indexes : i > Len(b) => g[i] = Blank
    BY <1>1, BlankIs, ContinuedIs
  <2>2. f = g
    OBVIOUS
  <2> HIDE DEF f, g
  <2> QED  BY <2>1, <2>2
<1> HIDE DEF f
<1>4. \A c \in Nat : c # Blank
  BY BlankIs
<1>5. ~ (Len(a) < Len(b))
  <2> SUFFICES ASSUME Len(a) < Len(b) PROVE FALSE
    OBVIOUS
  <2>1. Len(b) \in 1 .. Len(b) /\ Len(b) \in Indexes
    BY <1>1 DEF Indexes
  <2> QED  BY <1>1, <1>2, <1>3, <1>4, <2>1
<1>6. ~ (Len(b) < Len(a))
  <2> SUFFICES ASSUME Len(b) < Len(a) PROVE FALSE
    OBVIOUS
  <2>1. Len(a) \in 1 .. Len(a) /\ Len(a) \in Indexes
    BY <1>1 DEF Indexes
  <2> QED  BY <1>1, <1>2, <1>3, <1>4, <2>1
<1>7. Len(a) = Len(b)
  BY <1>1, <1>5, <1>6
<1> QED  BY <1>2, <1>3, <1>7, SameElements

\* Numbers without trailing zeros, as parse keeps them.
Canonical == {s \in Seq(Nat) : s # << >> /\ (Len(s) = 1 \/ s[Len(s)] # 0)}

LEMMA ZerosIs ==
    ASSUME NEW s \in Seq(Int)
    PROVE  /\ \A i \in 1 .. Len(s) : Continued(s, 0)[i] = s[i]
           /\ \A i \in Indexes : i > Len(s) => Continued(s, 0)[i] = 0
<1>1. 0 \in Int
  OBVIOUS
<1> QED  BY <1>1, ContinuedIs

\* Different ones stay different when they are continued with zeros.
LEMMA NumbersKept ==
    ASSUME NEW a \in Canonical, NEW b \in Canonical, Continued(a, 0) = Continued(b, 0)
    PROVE  a = b
<1> DEFINE f == Continued(a, 0)
<1>1. /\ a \in Seq(Int) /\ b \in Seq(Int) /\ Len(a) \in Nat /\ Len(b) \in Nat
      /\ Len(a) > 0 /\ Len(b) > 0
      /\ (Len(a) = 1 \/ a[Len(a)] # 0) /\ (Len(b) = 1 \/ b[Len(b)] # 0)
  BY DEF Canonical
<1>2. /\ \A i \in 1 .. Len(a) : f[i] = a[i]
      /\ \A i \in Indexes : i > Len(a) => f[i] = 0
  BY <1>1, ZerosIs
<1>3. /\ \A i \in 1 .. Len(b) : f[i] = b[i]
      /\ \A i \in Indexes : i > Len(b) => f[i] = 0
  <2> DEFINE g == Continued(b, 0)
  <2>1. /\ \A i \in 1 .. Len(b) : g[i] = b[i]
        /\ \A i \in Indexes : i > Len(b) => g[i] = 0
    BY <1>1, ZerosIs
  <2>2. f = g
    OBVIOUS
  <2> HIDE DEF f, g
  <2> QED  BY <2>1, <2>2
<1> HIDE DEF f
<1>5. ~ (Len(a) < Len(b))
  <2> SUFFICES ASSUME Len(a) < Len(b) PROVE FALSE
    OBVIOUS
  <2>1. Len(b) \in 1 .. Len(b) /\ Len(b) \in Indexes /\ Len(b) # 1
    BY <1>1 DEF Indexes
  <2> QED  BY <1>1, <1>2, <1>3, <2>1
<1>6. ~ (Len(b) < Len(a))
  <2> SUFFICES ASSUME Len(b) < Len(a) PROVE FALSE
    OBVIOUS
  <2>1. Len(a) \in 1 .. Len(a) /\ Len(a) \in Indexes /\ Len(a) # 1
    BY <1>1 DEF Indexes
  <2> QED  BY <1>1, <1>2, <1>3, <2>1
<1>7. Len(a) = Len(b)
  BY <1>1, <1>5, <1>6
<1> QED  BY <1>1, <1>2, <1>3, <1>7, SameElements

\* An identifier of a pre-release, or none.
Pres == {<< >>} \cup {<<t>> : t \in Seq(Nat)}

\* Numeric ones come first, the shorter before the longer, and none at all comes last.
Kind(p) == IF p = << >> THEN 2 ELSE IF JV!Numeric(p[1]) THEN 0 ELSE 1
Size(p) == IF p # << >> /\ JV!Numeric(p[1]) THEN Len(p[1]) ELSE 0
PreKey(p) ==
    [i \in Indexes |-> IF i = 1 THEN Kind(p) ELSE IF i = 2 THEN Size(p)
                       ELSE IF p = << >> THEN Blank ELSE Continued(p[1], Blank)[i - 2]]

LEMMA PreKeyIs ==
    ASSUME NEW p \in Pres
    PROVE  /\ PreKey(p) \in [Indexes -> Int]
           /\ PreKey(p)[1] = Kind(p) /\ PreKey(p)[2] = Size(p)
           /\ p # << >> => p[1] \in Seq(Nat) /\ p = <<p[1]>>
           /\ p # << >> => \A i \in Indexes : PreKey(p)[i + 2] = Continued(p[1], Blank)[i]
<1>1. p # << >> => p[1] \in Seq(Nat) /\ p = <<p[1]>>
  BY DEF Pres
<1>2. Kind(p) \in Int /\ Size(p) \in Int
  <2>1. p # << >> => Len(p[1]) \in Nat
    BY <1>1
  <2> QED  BY <2>1 DEF Kind, Size
<1>3. p # << >> => Continued(p[1], Blank) \in [Indexes -> Int]
  <2>1. p # << >> => p[1] \in Seq(Int)
    BY <1>1
  <2> QED  BY <2>1, BlankIs, ContinuedIs
<1>4. \A i \in Indexes : i # 1 /\ i # 2 => i - 2 \in Indexes
  BY DEF Indexes
<1>5. 1 \in Indexes /\ 2 \in Indexes /\ 1 # 2
      /\ \A i \in Indexes : i + 2 \in Indexes /\ i + 2 # 1 /\ i + 2 # 2 /\ (i + 2) - 2 = i
  BY DEF Indexes
<1>6. PreKey(p) \in [Indexes -> Int]
  BY <1>2, <1>3, <1>4, BlankIs DEF PreKey
<1>7. PreKey(p)[1] = Kind(p) /\ PreKey(p)[2] = Size(p)
  BY <1>5 DEF PreKey
<1>8. p # << >> => \A i \in Indexes : PreKey(p)[i + 2] = Continued(p[1], Blank)[i]
  BY <1>5 DEF PreKey
<1> QED  BY <1>1, <1>6, <1>7, <1>8

\* Pre-releases are compared by these keys.
LEMMA PresOrdered ==
    ASSUME NEW a \in Pres, NEW b \in Pres
    PROVE  /\ Orders(JV!ComparePre(a, b), PreKey(a), PreKey(b))
           /\ JV!ComparePre(a, b) = 0 => a = b
<1> DEFINE f == PreKey(a)
           g == PreKey(b)
           o == JV!ComparePre(a, b)
<1>1. /\ f \in [Indexes -> Int] /\ f[1] = Kind(a) /\ f[2] = Size(a)
      /\ a # << >> => a[1] \in Seq(Nat) /\ a = <<a[1]>>
      /\ a # << >> => \A i \in Indexes : f[i + 2] = Continued(a[1], Blank)[i]
  BY PreKeyIs
<1>2. /\ g \in [Indexes -> Int] /\ g[1] = Kind(b) /\ g[2] = Size(b)
      /\ b # << >> => b[1] \in Seq(Nat) /\ b = <<b[1]>>
      /\ b # << >> => \A i \in Indexes : g[i + 2] = Continued(b[1], Blank)[i]
  BY PreKeyIs
<1>3. 1 \in Indexes /\ 2 \in Indexes /\ 1 .. (1 - 1) = {} /\ 1 .. (2 - 1) = {1}
  BY DEF Indexes
<1>4. \A x \in Pres : x # << >> => Len(x) = 1
  BY DEF Pres
<1>5. Kind(a) \in {0, 1, 2} /\ Kind(b) \in {0, 1, 2}
  BY DEF Kind
<1>6. Len(<< >>) = 0
  OBVIOUS
<1> SUFFICES Orders(o, f, g) /\ (o = 0 => a = b)
  OBVIOUS
<1> HIDE DEF f, g
<1>7. ASSUME Kind(a) < Kind(b)  PROVE Before(f, g)
  BY <1>1, <1>2, <1>3, <1>7 DEF Before
<1>8. ASSUME Kind(b) < Kind(a)  PROVE Before(g, f)
  BY <1>1, <1>2, <1>3, <1>8 DEF Before
<1>9. CASE a = << >> /\ b = << >>
  <2>1. o = 0
    BY <1>6, <1>9 DEF JV!ComparePre, JV!Sign
  <2>2. f = g
    BY <1>9 DEF f, g
  <2> QED  BY <1>9, <2>1, <2>2 DEF Orders
<1>10. CASE a = << >> /\ b # << >>
  <2>1. o = 1
    BY <1>4, <1>6, <1>10 DEF JV!ComparePre, JV!Sign
  <2>2. Kind(b) < Kind(a)
    BY <1>10 DEF Kind
  <2> QED  BY <1>8, <2>1, <2>2 DEF Orders
<1>11. CASE a # << >> /\ b = << >>
  <2>1. o = -1
    BY <1>4, <1>6, <1>11 DEF JV!ComparePre, JV!Sign
  <2>2. Kind(a) < Kind(b)
    BY <1>11 DEF Kind
  <2> QED  BY <1>7, <2>1, <2>2 DEF Orders
<1>12. CASE a # << >> /\ b # << >>
  <2> DEFINE x == JV!Numeric(a[1])
             y == JV!Numeric(b[1])
             s == a[1]
             t == b[1]
  <2>1. o = IF x # y THEN IF x THEN -1 ELSE 1
            ELSE IF x /\ Len(s) # Len(t) THEN JV!Sign(Len(s) - Len(t))
            ELSE JV!CompareText(s, t)
    BY <1>12 DEF JV!ComparePre
  <2>2. /\ Kind(a) = (IF x THEN 0 ELSE 1) /\ Size(a) = (IF x THEN Len(s) ELSE 0)
        /\ Kind(b) = (IF y THEN 0 ELSE 1) /\ Size(b) = (IF y THEN Len(t) ELSE 0)
    BY <1>12 DEF Kind, Size
  <2>3. x \in BOOLEAN /\ y \in BOOLEAN
    BY DEF JV!Numeric
  <2>4. s \in Seq(Nat) /\ t \in Seq(Nat) /\ Len(s) \in Nat /\ Len(t) \in Nat
    BY <1>1, <1>2, <1>12
  <2> HIDE DEF x, y, s, t, o
  <2>5. CASE x /\ ~ y
    <3>1. Kind(a) < Kind(b)
      BY <2>2, <2>5
    <3>2. x # y
      BY <2>5
    <3>3. o = -1
      BY <2>1, <2>5, <3>2
    <3> QED  BY <1>7, <3>1, <3>3 DEF Orders
  <2>6. CASE ~ x /\ y
    <3>1. Kind(b) < Kind(a)
      BY <2>2, <2>6
    <3>2. x # y
      BY <2>6
    <3>3. o = 1
      BY <2>1, <2>6, <3>2
    <3> QED  BY <1>8, <3>1, <3>3 DEF Orders
  <2>7. CASE x /\ y /\ Len(s) # Len(t)
    <3>1. Kind(a) = Kind(b) /\ Size(a) = Len(s) /\ Size(b) = Len(t)
      BY <2>2, <2>7
    <3>2. CASE Len(s) < Len(t)
      <4>1. o = -1
        BY <2>1, <2>4, <2>7, <3>2 DEF JV!Sign
      <4>2. Before(f, g)
        BY <1>1, <1>2, <1>3, <3>1, <3>2 DEF Before
      <4> QED  BY <4>1, <4>2 DEF Orders
    <3>3. CASE Len(t) < Len(s)
      <4>1. o = 1
        BY <2>1, <2>4, <2>7, <3>3 DEF JV!Sign
      <4>2. Before(g, f)
        BY <1>1, <1>2, <1>3, <3>1, <3>3 DEF Before
      <4> QED  BY <4>1, <4>2 DEF Orders
    <3> QED  BY <2>4, <2>7, <3>2, <3>3
  <2>8. CASE (x <=> y) /\ (x => Len(s) = Len(t))
    <3> DEFINE c == Continued(s, Blank)
               d == Continued(t, Blank)
    <3>1. o = JV!CompareText(s, t)
      BY <2>1, <2>3, <2>8
    <3>2. Kind(a) = Kind(b) /\ Size(a) = Size(b)
      BY <2>2, <2>8
    <3>3. Orders(o, c, d)
      BY <2>4, <3>1, TextsOrdered
    <3>4. c = d => a = b
      <4>1. c = d => s = t
        BY <2>4, TextKept
      <4> QED  BY <1>1, <1>2, <1>12, <4>1 DEF s, t
    <3>5. \A i \in Indexes : f[i + 2] = c[i] /\ g[i + 2] = d[i]
      BY <1>1, <1>2, <1>12 DEF s, t
    <3> HIDE DEF c, d
    <3>6. ASSUME NEW i \in Indexes, \A j \in 1 .. (i - 1) : c[j] = d[j]
          PROVE  i + 2 \in Indexes /\ \A j \in 1 .. ((i + 2) - 1) : f[j] = g[j]
      <4>1. i + 2 \in Indexes
        BY DEF Indexes
      <4>2. ASSUME NEW j \in 1 .. ((i + 2) - 1)  PROVE f[j] = g[j]
        <5>1. j = 1 \/ j = 2 \/ (j - 2 \in 1 .. (i - 1) /\ j - 2 \in Indexes /\ (j - 2) + 2 = j)
          BY DEF Indexes
        <5>2. CASE j - 2 \in 1 .. (i - 1) /\ j - 2 \in Indexes /\ (j - 2) + 2 = j
          <6>1. f[(j - 2) + 2] = c[j - 2] /\ g[(j - 2) + 2] = d[j - 2] /\ c[j - 2] = d[j - 2]
            BY <3>5, <3>6, <5>2
          <6> QED  BY <5>2, <6>1
        <5> QED  BY <1>1, <1>2, <3>2, <5>1, <5>2
      <4> QED  BY <4>1, <4>2
    <3>7. CASE o = 0 /\ c = d
      BY <3>4, <3>7 DEF Orders, f, g
    <3>8. CASE o = -1 /\ Before(c, d)
      <4>1. PICK i \in Indexes : c[i] < d[i] /\ \A j \in 1 .. (i - 1) : c[j] = d[j]
        BY <3>8 DEF Before
      <4>2. f[i + 2] < g[i + 2]
        BY <3>5, <4>1
      <4>3. Before(f, g)
        BY <3>6, <4>1, <4>2 DEF Before
      <4> QED  BY <3>8, <4>3 DEF Orders
    <3>9. CASE o = 1 /\ Before(d, c)
      <4>1. PICK i \in Indexes : d[i] < c[i] /\ \A j \in 1 .. (i - 1) : d[j] = c[j]
        BY <3>9 DEF Before
      <4>2. g[i + 2] < f[i + 2]
        BY <3>5, <4>1
      <4>3. i + 2 \in Indexes /\ \A j \in 1 .. ((i + 2) - 1) : f[j] = g[j]
        BY <3>6, <4>1
      <4>4. Before(g, f)
        BY <4>2, <4>3 DEF Before
      <4> QED  BY <3>9, <4>4 DEF Orders
    <3> QED  BY <3>3, <3>7, <3>8, <3>9 DEF Orders
  <2> QED  BY <2>3, <2>5, <2>6, <2>7, <2>8
<1> QED  BY <1>9, <1>10, <1>11, <1>12

\* Versions as JavaVersion keeps them.
Versions == [numbers : Canonical, pre : Pres]

\* The first difference is in the numbers, or else in the pre-release.
VersionBefore(a, b) ==
    \/ Before(Continued(a.numbers, 0), Continued(b.numbers, 0))
    \/ /\ Continued(a.numbers, 0) = Continued(b.numbers, 0)
       /\ Before(PreKey(a.pre), PreKey(b.pre))

\* The keys of a version.
LEMMA KeysTyped ==
    ASSUME NEW v \in Versions
    PROVE  /\ Continued(v.numbers, 0) \in [Indexes -> Int]
           /\ PreKey(v.pre) \in [Indexes -> Int]
<1>1. v.numbers \in Canonical /\ v.pre \in Pres
  BY DEF Versions
<1>2. v.numbers \in Seq(Int) /\ 0 \in Int
  BY <1>1 DEF Canonical
<1>3. Continued(v.numbers, 0) \in [Indexes -> Int]
  BY <1>2, ContinuedIs
<1> QED  BY <1>1, <1>3, PreKeyIs

\* cmp returns that order, and Equal only for equal versions.
LEMMA CompareIs ==
    ASSUME NEW a \in Versions, NEW b \in Versions
    PROVE  \/ JV!Compare(a, b) = 0 /\ a = b
           \/ JV!Compare(a, b) = -1 /\ VersionBefore(a, b)
           \/ JV!Compare(a, b) = 1 /\ VersionBefore(b, a)
<1> DEFINE m == JV!CompareNumbers(a.numbers, b.numbers)
           p == JV!ComparePre(a.pre, b.pre)
           f == Continued(a.numbers, 0)
           g == Continued(b.numbers, 0)
           o == JV!Compare(a, b)
<1>1. /\ a.numbers \in Canonical /\ b.numbers \in Canonical /\ a.pre \in Pres /\ b.pre \in Pres
      /\ a.numbers \in Seq(Nat) /\ b.numbers \in Seq(Nat)
  BY DEF Versions, Canonical
<1>2. o = IF m # 0 THEN m ELSE p
  BY DEF JV!Compare
<1>3. Orders(m, f, g)
  BY <1>1, NumbersOrdered
<1>4. Orders(p, PreKey(a.pre), PreKey(b.pre)) /\ (p = 0 => a.pre = b.pre)
  BY <1>1, PresOrdered
<1>5. f = g => a.numbers = b.numbers
  BY <1>1, NumbersKept
<1>6. a.numbers = b.numbers /\ a.pre = b.pre => a = b
  BY DEF Versions
<1> SUFFICES \/ o = 0 /\ a = b
             \/ o = -1 /\ VersionBefore(a, b)
             \/ o = 1 /\ VersionBefore(b, a)
  OBVIOUS
<1> HIDE DEF m, p, o
<1>7. CASE m = 0
  <2>1. f = g /\ o = p
    BY <1>2, <1>3, <1>7 DEF Orders
  <2>2. \/ p = 0
        \/ p = -1 /\ Before(PreKey(a.pre), PreKey(b.pre))
        \/ p = 1 /\ Before(PreKey(b.pre), PreKey(a.pre))
    BY <1>4 DEF Orders
  <2>3. p = 0 => a = b
    BY <1>4, <1>5, <1>6, <2>1
  <2> QED  BY <2>1, <2>2, <2>3 DEF VersionBefore
<1>8. CASE m = -1 /\ Before(f, g)
  <2>1. o = -1
    BY <1>2, <1>8
  <2> QED  BY <1>8, <2>1 DEF VersionBefore
<1>9. CASE m = 1 /\ Before(g, f)
  <2>1. o = 1
    BY <1>2, <1>9
  <2> QED  BY <1>9, <2>1 DEF VersionBefore
<1> QED  BY <1>3, <1>7, <1>8, <1>9 DEF Orders

\* Ord for JavaVersion is a total order that agrees with Eq, for versions of any length:
\* cmp of the same version is Equal, swapping the arguments reverses it, and it is
\* transitive.
THEOREM VersionOrder ==
    ASSUME NEW a \in Versions, NEW b \in Versions, NEW c \in Versions
    PROVE  /\ JV!Compare(a, b) \in {-1, 0, 1}
           /\ JV!Compare(a, b) = 0 <=> a = b
           /\ JV!Compare(b, a) = - JV!Compare(a, b)
           /\ JV!Compare(a, b) < 0 /\ JV!Compare(b, c) < 0 => JV!Compare(a, c) < 0
<1>1. ASSUME NEW x \in Versions, NEW y \in Versions, VersionBefore(x, y)
      PROVE  ~ VersionBefore(y, x) /\ x # y
  <2> DEFINE f == Continued(x.numbers, 0)
             g == Continued(y.numbers, 0)
             k == PreKey(x.pre)
             l == PreKey(y.pre)
  <2>1. /\ f \in [Indexes -> Int] /\ g \in [Indexes -> Int]
        /\ k \in [Indexes -> Int] /\ l \in [Indexes -> Int]
    BY KeysTyped
  <2>2. Before(f, g) \/ (f = g /\ Before(k, l))
    BY <1>1 DEF VersionBefore
  <2>3. x = y => f = g /\ k = l
    OBVIOUS
  <2>4. SUFFICES ~ (Before(g, f) \/ (g = f /\ Before(l, k))) /\ x # y
    BY DEF VersionBefore
  <2> HIDE DEF f, g, k, l
  <2>5. Before(f, g) => ~ Before(g, f) /\ f # g
    BY <2>1, BeforeStrict
  <2>6. Before(k, l) => ~ Before(l, k) /\ k # l
    BY <2>1, BeforeStrict
  <2>7. f = g => ~ Before(g, f)
    BY <2>1, <2>5
  <2> QED  BY <2>2, <2>3, <2>5, <2>6, <2>7
<1>2. ASSUME NEW x \in Versions, NEW y \in Versions, NEW z \in Versions,
             VersionBefore(x, y), VersionBefore(y, z)
      PROVE  VersionBefore(x, z)
  <2> DEFINE f == Continued(x.numbers, 0)
             g == Continued(y.numbers, 0)
             h == Continued(z.numbers, 0)
             k == PreKey(x.pre)
             l == PreKey(y.pre)
             m == PreKey(z.pre)
  <2>1. /\ f \in [Indexes -> Int] /\ g \in [Indexes -> Int] /\ h \in [Indexes -> Int]
        /\ k \in [Indexes -> Int] /\ l \in [Indexes -> Int] /\ m \in [Indexes -> Int]
    BY KeysTyped
  <2>2. /\ Before(f, g) \/ (f = g /\ Before(k, l))
        /\ Before(g, h) \/ (g = h /\ Before(l, m))
    BY <1>2 DEF VersionBefore
  <2>3. SUFFICES Before(f, h) \/ (f = h /\ Before(k, m))
    BY DEF VersionBefore
  <2> HIDE DEF f, g, h, k, l, m
  <2>4. Before(f, g) /\ Before(g, h) => Before(f, h)
    BY <2>1, BeforeTransitive
  <2>5. Before(k, l) /\ Before(l, m) => Before(k, m)
    BY <2>1, BeforeTransitive
  <2> QED  BY <2>2, <2>4, <2>5
<1>3. ASSUME NEW x \in Versions, NEW y \in Versions
      PROVE  /\ JV!Compare(x, y) \in {-1, 0, 1}
             /\ JV!Compare(x, y) = 0 <=> x = y
             /\ JV!Compare(x, y) = -1 <=> VersionBefore(x, y)
             /\ JV!Compare(x, y) = 1 <=> VersionBefore(y, x)
  <2>1. \/ JV!Compare(x, y) = 0 /\ x = y
        \/ JV!Compare(x, y) = -1 /\ VersionBefore(x, y)
        \/ JV!Compare(x, y) = 1 /\ VersionBefore(y, x)
    BY CompareIs
  <2>2. /\ VersionBefore(x, y) => ~ VersionBefore(y, x) /\ x # y
        /\ VersionBefore(y, x) => x # y
    BY <1>1
  <2>3. x = y => ~ VersionBefore(x, y) /\ ~ VersionBefore(y, x)
    BY <1>1
  <2> QED  BY <2>1, <2>2, <2>3
<1>4. JV!Compare(a, b) \in {-1, 0, 1} /\ (JV!Compare(a, b) = 0 <=> a = b)
  BY <1>3
<1>5. JV!Compare(b, a) = - JV!Compare(a, b)
  <2>1. /\ JV!Compare(b, a) \in {-1, 0, 1}
        /\ JV!Compare(b, a) = 0 <=> JV!Compare(a, b) = 0
        /\ JV!Compare(b, a) = 1 <=> JV!Compare(a, b) = -1
    BY <1>3
  <2> QED  BY <1>4, <2>1
<1>6. JV!Compare(a, b) < 0 /\ JV!Compare(b, c) < 0 => JV!Compare(a, c) < 0
  <2>1. \A x \in Versions, y \in Versions : JV!Compare(x, y) < 0 <=> VersionBefore(x, y)
    BY <1>3
  <2> QED  BY <1>2, <2>1
<1> QED  BY <1>4, <1>5, <1>6

-----------------------------------------------------------------------------
(* Ranges of Java versions.                                                *)

Constraint == [comparator : JV!Comparators, version : Versions]

\* A timeline as parse accepts it.
Timeline(s) == s \in Seq(Constraint) /\ \A i \in 1 .. Len(s) : ~ JV!TimelineFails(s, i)

\* Its versions increase.
LEMMA TimelineIncreases ==
    ASSUME NEW s, Timeline(s)
    PROVE  \A i, j \in 1 .. Len(s) : i < j => JV!Compare(s[i].version, s[j].version) < 0
<1> DEFINE n == Len(s)
           Less(i, j) == JV!Compare(s[i].version, s[j].version) < 0
           T == {m \in 0 .. n : \A i, j \in 1 .. m : i < j => Less(i, j)}
<1>1. n \in Nat /\ \A i \in 1 .. n : s[i].version \in Versions
  <2>1. s \in Seq(Constraint)
    BY DEF Timeline
  <2>2. n \in Nat /\ \A i \in 1 .. n : s[i] \in Constraint
    BY <2>1
  <2> QED  BY <2>2 DEF Constraint
<1>2. \A i \in 1 .. n : i > 1 => Less(i - 1, i)
  <2> TAKE i \in 1 .. n
  <2> HAVE i > 1
  <2>1. i - 1 \in 1 .. n
    BY <1>1
  <2>2. ~ (JV!Compare(s[i - 1].version, s[i].version) >= 0)
    BY DEF Timeline, JV!TimelineFails
  <2>3. JV!Compare(s[i - 1].version, s[i].version) \in {-1, 0, 1}
    BY <1>1, <2>1, VersionOrder
  <2> QED  BY <2>2, <2>3
<1>3. \A i, j, k \in 1 .. n : Less(i, j) /\ Less(j, k) => Less(i, k)
  BY <1>1, VersionOrder
<1> HIDE DEF Less
<1>4. 0 \in T
  BY <1>1
<1>5. ASSUME NEW m \in 0 .. (n - 1), m \in T  PROVE m + 1 \in T
  <2>1. m + 1 \in 0 .. n /\ m + 1 \in 1 .. n /\ (m + 1) - 1 = m
    BY <1>1
  <2>2. ASSUME NEW i \in 1 .. (m + 1), NEW j \in 1 .. (m + 1), i < j  PROVE Less(i, j)
    <3>1. i \in 1 .. m /\ (j \in 1 .. m \/ j = m + 1) /\ i \in 1 .. n
      BY <1>1, <2>2
    <3>2. CASE j \in 1 .. m
      BY <1>5, <2>2, <3>1, <3>2
    <3>3. CASE j = m + 1
      <4>1. m + 1 > 1 /\ m \in 1 .. m /\ m \in 1 .. n
        BY <1>1, <3>1
      <4>2. Less(m, m + 1)
        BY <1>2, <2>1, <4>1
      <4>3. i = m \/ Less(i, m)
        <5>1. i = m \/ i < m
          BY <3>1
        <5> QED  BY <1>5, <3>1, <4>1, <5>1
      <4> QED  BY <1>3, <2>1, <3>1, <3>3, <4>1, <4>2, <4>3
    <3> QED  BY <3>1, <3>2, <3>3
  <2> QED  BY <2>1, <2>2
<1>6. \A m \in 0 .. n : m \in T
  <2> HIDE DEF T, n
  <2> QED  BY <1>1, <1>4, <1>5, Induction
<1>7. n \in T
  BY <1>1, <1>6
<1> QED  BY <1>7 DEF Less

\* The last one of these comparators before i is that of j.
LEMMA LastBeforeIs ==
    ASSUME NEW s, NEW C, NEW i \in Nat, NEW j \in 1 .. (i - 1), s[j].comparator \in C,
           \A k \in (j + 1) .. (i - 1) : s[k].comparator \notin C
    PROVE  JV!LastBefore(s, i, C) = {s[j].comparator}
<1> DEFINE found == {k \in 1 .. (i - 1) : s[k].comparator \in C}
           latest == {k \in found : \A l \in found : l <= k}
<1>1. j \in found
  OBVIOUS
<1>2. \A k \in found : k <= j
  <2> TAKE k \in found
  <2>1. k \in 1 .. (i - 1) /\ ~ (k \in (j + 1) .. (i - 1))
    OBVIOUS
  <2> QED  BY <2>1
<1>3. latest = {j}
  <2>1. \A k \in latest : k \in Int /\ j <= k /\ k <= j
    BY <1>1, <1>2
  <2>2. j \in latest
    BY <1>1, <1>2
  <2>3. \A k \in latest : k = j
    BY <2>1
  <2> HIDE DEF latest
  <2> QED  BY <2>2, <2>3
<1>4. JV!LastBefore(s, i, C) = {s[k].comparator : k \in latest}
  BY DEF JV!LastBefore
<1> QED  BY <1>3, <1>4

\* The nearest boundaries on both sides.
IsBoundary(s, i) == s[i].comparator \in JV!Boundaries

\* What a range means for the version v.  An equal version decides; otherwise the nearest
\* boundary below v, if any, must open an interval and the nearest above, if any, close
\* it; without boundaries all versions but the excluded are meant, unless some are listed.
InRange(s, v) ==
    LET below == {i \in 1 .. Len(s) : IsBoundary(s, i) /\ JV!Compare(s[i].version, v) < 0}
        above == {i \in 1 .. Len(s) : IsBoundary(s, i) /\ JV!Compare(v, s[i].version) < 0}
    IN  \/ \E i \in 1 .. Len(s) : s[i].version = v /\ s[i].comparator \in {"=", ">=", "<="}
        \/ /\ \A i \in 1 .. Len(s) : s[i].version # v
           /\ \A i \in below : (\A j \in below : j <= i) => JV!Greater(s[i].comparator)
           /\ \A i \in above : (\A j \in above : i <= j) => JV!Lesser(s[i].comparator)
           /\ \/ \E i \in 1 .. Len(s) : IsBoundary(s, i)
              \/ \A i \in 1 .. Len(s) : s[i].comparator = "!="

\* The starting value of contains.
Initially(s) ==
    LET meaningful == {i \in 1 .. Len(s) : s[i].comparator # "!="}
        first == CHOOSE i \in meaningful : \A j \in meaningful : i <= j
    IN  meaningful = {} \/ JV!Lesser(s[first].comparator)

\* The value once m constraints are passed: the last boundary among them decides.
Passed(s, m, x) ==
    /\ x \in BOOLEAN
    /\ (\A i \in 1 .. m : ~ IsBoundary(s, i)) => (x = TRUE <=> Initially(s))
    /\ \A i \in 1 .. m :
         IsBoundary(s, i) /\ (\A j \in (i + 1) .. m : ~ IsBoundary(s, j))
            => (x = TRUE <=> JV!Greater(s[i].comparator))

\* Passing one more.
LEMMA PassedStep ==
    ASSUME NEW s, Timeline(s), NEW m \in Nat, m + 1 <= Len(s), NEW x, Passed(s, m, x), NEW y,
           JV!Greater(s[m + 1].comparator) => y = TRUE,
           JV!Lesser(s[m + 1].comparator) => y = FALSE,
           ~ IsBoundary(s, m + 1) => y = x
    PROVE  Passed(s, m + 1, y)
<1> DEFINE c == s[m + 1].comparator
<1>1. c \in JV!Comparators
  <2>1. s \in Seq(Constraint)
    BY DEF Timeline
  <2>2. m + 1 \in 1 .. Len(s)
    BY <2>1
  <2>3. s[m + 1] \in Constraint
    BY <2>1, <2>2
  <2> QED  BY <2>3 DEF Constraint
<1>2. /\ IsBoundary(s, m + 1) <=> (JV!Greater(c) \/ JV!Lesser(c))
      /\ ~ (JV!Greater(c) /\ JV!Lesser(c))
  BY <1>1 DEF IsBoundary, JV!Boundaries, JV!Greater, JV!Lesser
<1>3. /\ x \in BOOLEAN
      /\ (\A i \in 1 .. m : ~ IsBoundary(s, i)) => (x = TRUE <=> Initially(s))
      /\ \A i \in 1 .. m :
           IsBoundary(s, i) /\ (\A j \in (i + 1) .. m : ~ IsBoundary(s, j))
              => (x = TRUE <=> JV!Greater(s[i].comparator))
  BY DEF Passed
<1>4. CASE IsBoundary(s, m + 1)
  <2>1. y \in BOOLEAN
    BY <1>2, <1>4
  <2>2. y = TRUE <=> JV!Greater(c)
    BY <1>2, <1>4
  <2>3. m + 1 \in 1 .. (m + 1)
    OBVIOUS
  <2>4. ASSUME NEW i \in 1 .. (m + 1), IsBoundary(s, i),
               \A j \in (i + 1) .. (m + 1) : ~ IsBoundary(s, j)
        PROVE  y = TRUE <=> JV!Greater(s[i].comparator)
    <3>1. ~ (m + 1 \in (i + 1) .. (m + 1))
      BY <1>4, <2>4
    <3>2. i = m + 1
      BY <3>1
    <3> QED  BY <2>2, <3>2
  <2>5. ~ \A i \in 1 .. (m + 1) : ~ IsBoundary(s, i)
    BY <1>4, <2>3
  <2> QED  BY <2>1, <2>4, <2>5 DEF Passed
<1>5. CASE ~ IsBoundary(s, m + 1)
  <2>1. y = x
    BY <1>5
  <2>2. 1 .. (m + 1) = (1 .. m) \cup {m + 1}
    OBVIOUS
  <2>3. \A i \in 1 .. m : (i + 1) .. (m + 1) = ((i + 1) .. m) \cup {m + 1}
    OBVIOUS
  <2>4. (\A i \in 1 .. (m + 1) : ~ IsBoundary(s, i)) => (y = TRUE <=> Initially(s))
    BY <1>3, <2>1, <2>2
  <2>5. ASSUME NEW i \in 1 .. (m + 1), IsBoundary(s, i),
               \A j \in (i + 1) .. (m + 1) : ~ IsBoundary(s, j)
        PROVE  y = TRUE <=> JV!Greater(s[i].comparator)
    <3>1. i \in 1 .. m
      BY <1>5, <2>2, <2>5
    <3>2. \A j \in (i + 1) .. m : ~ IsBoundary(s, j)
      BY <2>3, <2>5, <3>1
    <3>3. x = TRUE <=> JV!Greater(s[i].comparator)
      BY <1>3, <2>5, <3>1, <3>2
    <3> QED  BY <2>1, <3>3
  <2>6. y \in BOOLEAN
    BY <1>3, <2>1
  <2> QED  BY <2>4, <2>5, <2>6 DEF Passed
<1> QED  BY <1>4, <1>5


\* A set of the numbers to n that is not empty has a largest element.
LEMMA Largest ==
    ASSUME NEW n \in Nat, NEW S \in SUBSET (0 .. n), S # {}
    PROVE  \E x \in S : \A y \in S : y <= x
<1> DEFINE T == {k \in 0 .. n : n - k \in S}
<1>1. T \in SUBSET Nat /\ T # {}
  <2>1. PICK x \in S : TRUE
    OBVIOUS
  <2>2. n - x \in 0 .. n /\ n - (n - x) = x
    OBVIOUS
  <2>3. n - x \in T
    BY <2>2
  <2>4. T \in SUBSET Nat
    OBVIOUS
  <2> HIDE DEF T
  <2> QED  BY <2>3, <2>4
<1>2. PICK k \in T : \A l \in T : k <= l
  <2> HIDE DEF T
  <2> QED  BY <1>1, Smallest
<1>3. ASSUME NEW y \in S  PROVE y <= n - k
  <2>1. n - y \in 0 .. n /\ n - (n - y) = y
    OBVIOUS
  <2>2. n - y \in T
    BY <2>1
  <2> QED  BY <1>2, <2>2
<1> QED  BY <1>2, <1>3

\* A boundary opens if and only if it does not close; other constraints are = and !=.
LEMMA ComparatorsAre ==
    ASSUME NEW s, Timeline(s)
    PROVE  /\ Len(s) \in Nat
           /\ \A i \in 1 .. Len(s) :
                /\ s[i].version \in Versions
                /\ IsBoundary(s, i) => (JV!Greater(s[i].comparator) <=> ~ JV!Lesser(s[i].comparator))
                /\ JV!Greater(s[i].comparator) \/ JV!Lesser(s[i].comparator) => IsBoundary(s, i)
                /\ s[i].comparator \in JV!Comparators
                /\ ~ IsBoundary(s, i) => s[i].comparator \in {"=", "!="}
                /\ IsBoundary(s, i) => s[i].comparator \in JV!Comparators \ {"!="}
<1>1. s \in Seq(Constraint)
  BY DEF Timeline
<1>2. Len(s) \in Nat /\ \A i \in 1 .. Len(s) : s[i] \in Constraint
  BY <1>1
<1>3. \A i \in 1 .. Len(s) : s[i].version \in Versions /\ s[i].comparator \in JV!Comparators
  BY <1>2 DEF Constraint
<1> QED  BY <1>2, <1>3 DEF IsBoundary, JV!Boundaries, JV!Comparators, JV!Greater, JV!Lesser

\* What the parser's last check leaves of two boundaries without another between them.
LEMMA BoundariesAlternate ==
    ASSUME NEW s, Timeline(s), NEW i \in 1 .. Len(s), NEW j \in 1 .. (i - 1),
           IsBoundary(s, i), IsBoundary(s, j),
           \A k \in (j + 1) .. (i - 1) : ~ IsBoundary(s, k)
    PROVE  JV!Greater(s[j].comparator) <=> ~ JV!Greater(s[i].comparator)
<1>1. JV!LastBefore(s, i, JV!Boundaries) = {s[j].comparator}
  <2>1. s[j].comparator \in JV!Boundaries
    BY DEF IsBoundary
  <2>2. \A k \in (j + 1) .. (i - 1) : s[k].comparator \notin JV!Boundaries
    BY DEF IsBoundary
  <2>3. i \in Nat
    BY ComparatorsAre
  <2> QED  BY <2>1, <2>2, <2>3, LastBeforeIs
<1>2. ~ JV!TimelineFails(s, i)
  BY DEF Timeline
<1>3. ~ (/\ s[i].comparator \in JV!Boundaries
         /\ \E c \in JV!LastBefore(s, i, JV!Boundaries) :
               JV!Greater(c) = JV!Greater(s[i].comparator))
  BY <1>2 DEF JV!TimelineFails
<1>4. ~ (JV!Greater(s[j].comparator) = JV!Greater(s[i].comparator))
  BY <1>1, <1>3 DEF IsBoundary
<1> QED  BY <1>4 DEF JV!Greater

\* No upper bound follows a listed version without a lower bound between them.
LEMMA ListedNotClosed ==
    ASSUME NEW s, Timeline(s), NEW i \in 1 .. Len(s), NEW j \in 1 .. (i - 1),
           s[j].comparator = "=",
           \A k \in 1 .. (i - 1) : ~ IsBoundary(s, k)
    PROVE  ~ JV!Lesser(s[i].comparator)
<1> DEFINE C == JV!Comparators \ {"!="}
           S == {k \in 0 .. (i - 1) : k > 0 /\ s[k].comparator \in C}
<1>1. i \in Nat /\ i - 1 \in Nat /\ \A k \in 1 .. (i - 1) : k \in 1 .. Len(s)
  BY ComparatorsAre
<1>2. S \in SUBSET (0 .. (i - 1)) /\ j \in S
  BY <1>1 DEF JV!Comparators
<1>3. PICK k \in S : \A l \in S : l <= k
  <2> HIDE DEF S
  <2> QED  BY <1>1, <1>2, Largest
<1>4. k \in 1 .. (i - 1) /\ s[k].comparator \in C
  BY <1>1
<1>5. \A l \in (k + 1) .. (i - 1) : s[l].comparator \notin C
  <2> TAKE l \in (k + 1) .. (i - 1)
  <2>1. l \in 0 .. (i - 1) /\ l > 0 /\ ~ (l <= k)
    BY <1>1, <1>4
  <2>2. l \notin S
    BY <1>3, <2>1
  <2> QED  BY <2>1, <2>2
<1>6. JV!LastBefore(s, i, C) = {s[k].comparator}
  <2> HIDE DEF C, S
  <2> QED  BY <1>1, <1>4, <1>5, LastBeforeIs
<1>7. s[k].comparator = "="
  <2>1. ~ IsBoundary(s, k) /\ k \in 1 .. Len(s)
    BY <1>1, <1>4
  <2>2. s[k].comparator \in {"=", "!="}
    BY <2>1, ComparatorsAre
  <2> QED  BY <1>4, <2>2
<1>8. ~ JV!TimelineFails(s, i)
  BY DEF Timeline
<1> QED  BY <1>6, <1>7, <1>8 DEF JV!TimelineFails


\* Between two neighbouring constraints, contains answers what the range means.
LEMMA RangeSplit ==
    ASSUME NEW s, Timeline(s), NEW v \in Versions, NEW m \in 0 .. Len(s), NEW x, Passed(s, m, x),
           \A i \in 1 .. m : JV!Compare(s[i].version, v) < 0,
           \A i \in (m + 1) .. Len(s) : JV!Compare(v, s[i].version) < 0
    PROVE  x = TRUE <=> InRange(s, v)
<1> DEFINE n == Len(s)
           below == {i \in 1 .. n : IsBoundary(s, i) /\ JV!Compare(s[i].version, v) < 0}
           above == {i \in 1 .. n : IsBoundary(s, i) /\ JV!Compare(v, s[i].version) < 0}
           Low == \A i \in below : (\A j \in below : j <= i) => JV!Greater(s[i].comparator)
           High == \A i \in above : (\A j \in above : i <= j) => JV!Lesser(s[i].comparator)
           Meant == \/ \E i \in 1 .. n : IsBoundary(s, i)
                    \/ \A i \in 1 .. n : s[i].comparator = "!="
<1>1. n \in Nat /\ \A i \in 1 .. n : s[i].version \in Versions
  BY ComparatorsAre
<1>2. \A i \in 1 .. n : /\ JV!Compare(s[i].version, v) \in {-1, 0, 1}
                        /\ JV!Compare(v, s[i].version) = - JV!Compare(s[i].version, v)
                        /\ JV!Compare(s[i].version, v) = 0 <=> s[i].version = v
  BY <1>1, VersionOrder
<1>3. \A i \in 1 .. n : i \in 1 .. m \/ i \in (m + 1) .. n
  BY <1>1
<1>4. \A i \in 1 .. n : s[i].version # v
  BY <1>2, <1>3
<1>5. \A i \in 1 .. n : i \in below <=> IsBoundary(s, i) /\ i <= m
  BY <1>1, <1>2, <1>3
<1>6. \A i \in 1 .. n : i \in above <=> IsBoundary(s, i) /\ i > m
  BY <1>1, <1>2, <1>3
<1>7. below \in SUBSET (0 .. n) /\ above \in SUBSET Nat /\ below \in SUBSET (1 .. n) /\ above \in SUBSET (1 .. n)
  BY <1>1
<1>8. InRange(s, v) <=> Low /\ High /\ Meant
  <2>1. ~ \E i \in 1 .. n : s[i].version = v /\ s[i].comparator \in {"=", ">=", "<="}
    BY <1>4
  <2> QED  BY <1>4, <2>1 DEF InRange
<1>9. /\ (\A i \in 1 .. m : ~ IsBoundary(s, i)) => (x = TRUE <=> Initially(s))
      /\ \A i \in 1 .. m :
           IsBoundary(s, i) /\ (\A j \in (i + 1) .. m : ~ IsBoundary(s, j))
              => (x = TRUE <=> JV!Greater(s[i].comparator))
  BY DEF Passed
<1>10. CASE below # {}
  <2>1. PICK b \in below : \A j \in below : j <= b
    <3> HIDE DEF below, n
    <3> QED  BY <1>1, <1>7, <1>10, Largest
  <2>2. b \in 1 .. n /\ b \in 1 .. m /\ IsBoundary(s, b)
    BY <1>5, <1>7
  <2>3. \A j \in (b + 1) .. m : ~ IsBoundary(s, j)
    <3> TAKE j \in (b + 1) .. m
    <3>1. j \in 1 .. n /\ j <= m /\ ~ (j <= b)
      BY <1>1, <2>2
    <3> QED  BY <1>5, <2>1, <3>1
  <2>4. x = TRUE <=> JV!Greater(s[b].comparator)
    BY <1>9, <2>2, <2>3
  <2>5. Low <=> JV!Greater(s[b].comparator)
    <3>1. ASSUME NEW i \in below, \A j \in below : j <= i  PROVE i = b
      <4>1. i <= b /\ b <= i /\ i \in Nat /\ b \in Nat
        BY <1>7, <2>1, <3>1
      <4> QED  BY <4>1
    <3> HIDE DEF below
    <3> QED  BY <2>1, <3>1
  <2>6. Meant
    BY <2>2
  <2>7. JV!Greater(s[b].comparator) => High
    <3> SUFFICES ASSUME JV!Greater(s[b].comparator), NEW i \in above, \A j \in above : i <= j
                 PROVE  JV!Lesser(s[i].comparator)
      OBVIOUS
    <3>1. i \in 1 .. n /\ IsBoundary(s, i) /\ i > m
      BY <1>6, <1>7
    <3>2. b \in 1 .. (i - 1)
      BY <1>1, <2>2, <3>1
    <3>3. \A k \in (b + 1) .. (i - 1) : ~ IsBoundary(s, k)
      <4> TAKE k \in (b + 1) .. (i - 1)
      <4>1. k \in 1 .. n /\ ~ (i <= k) /\ ~ (k <= b)
        BY <1>1, <2>2, <3>1
      <4>2. k \notin above /\ k \notin below
        BY <2>1, <4>1
      <4>3. k <= m \/ k > m
        BY <1>1, <4>1
      <4> QED  BY <1>5, <1>6, <4>1, <4>2, <4>3
    <3>4. ~ JV!Greater(s[i].comparator)
      BY <2>2, <3>1, <3>2, <3>3, BoundariesAlternate
    <3> QED  BY <3>1, <3>4, ComparatorsAre
  <2> HIDE DEF Low, High, Meant
  <2> QED  BY <1>8, <2>4, <2>5, <2>6, <2>7
<1>11. CASE below = {}
  <2> DEFINE meaningful == {i \in 1 .. n : s[i].comparator # "!="}
             first == CHOOSE i \in meaningful : \A j \in meaningful : i <= j
  <2>1. \A i \in 1 .. m : ~ IsBoundary(s, i)
    <3> TAKE i \in 1 .. m
    <3>1. i \in 1 .. n /\ i <= m
      BY <1>1
    <3> QED  BY <1>5, <1>11, <3>1
  <2>2. x = TRUE <=> (meaningful = {} \/ JV!Lesser(s[first].comparator))
    BY <1>9, <2>1 DEF Initially
  <2>3. Low
    BY <1>11
  <2>4. meaningful # {} => first \in meaningful /\ \A j \in meaningful : first <= j
    <3>1. meaningful \in SUBSET Nat
      BY <1>1
    <3> HIDE DEF meaningful
    <3>2. meaningful # {} => \E i \in meaningful : \A j \in meaningful : i <= j
      BY <3>1, Smallest
    <3> QED  BY <3>2
  <2>5. CASE above # {}
    <3>1. PICK a \in above : \A j \in above : a <= j
      <4> HIDE DEF above
      <4> QED  BY <1>7, <2>5, Smallest
    <3>2. a \in 1 .. n /\ IsBoundary(s, a) /\ a \in Nat
      BY <1>6, <1>7
    <3>3. \A k \in 1 .. (a - 1) : ~ IsBoundary(s, k)
      <4> TAKE k \in 1 .. (a - 1)
      <4>1. k \in 1 .. n /\ ~ (a <= k)
        BY <1>1, <3>2
      <4>2. k \notin above
        BY <3>1, <4>1
      <4>3. k <= m \/ k > m
        BY <1>1, <4>1
      <4> QED  BY <1>5, <1>6, <1>11, <4>1, <4>2, <4>3
    <3>4. High <=> JV!Lesser(s[a].comparator)
      <4>1. ASSUME NEW i \in above, \A j \in above : i <= j  PROVE i = a
        <5>1. i <= a /\ a <= i /\ i \in Nat
          BY <1>7, <3>1, <4>1
        <5> QED  BY <3>2, <5>1
      <4> HIDE DEF above
      <4> QED  BY <3>1, <4>1
    <3>5. Meant
      BY <3>2
    <3>6. a \in meaningful
      <4>1. s[a].comparator \in JV!Comparators \ {"!="}
        BY <3>2, ComparatorsAre
      <4> QED  BY <3>2, <4>1
    <3>7. first \in 1 .. n /\ first <= a /\ s[first].comparator # "!="
      <4>1. first \in meaningful /\ first <= a
        BY <2>4, <3>6
      <4> HIDE DEF first
      <4> QED  BY <4>1
    <3> HIDE DEF first
    <3>8. CASE first = a
      <4> HIDE DEF Low, High, Meant
      <4> QED  BY <1>8, <2>2, <2>3, <3>4, <3>5, <3>6, <3>8
    <3>9. CASE first # a
      <4>1. first \in 1 .. (a - 1)
        BY <1>1, <3>2, <3>7, <3>9
      <4>2. ~ IsBoundary(s, first)
        BY <3>3, <4>1
      <4>3. s[first].comparator = "="
        BY <3>7, <4>2, ComparatorsAre
      <4>4. ~ JV!Lesser(s[first].comparator)
        BY <4>3 DEF JV!Lesser
      <4>5. ~ JV!Lesser(s[a].comparator)
        BY <3>2, <3>3, <4>1, <4>3, ListedNotClosed
      <4> HIDE DEF Low, High, Meant
      <4> QED  BY <1>8, <2>2, <2>3, <3>4, <3>5, <3>6, <4>4, <4>5
    <3> QED  BY <3>8, <3>9
  <2>6. CASE above = {}
    <3>1. High
      BY <2>6
    <3>2. \A i \in 1 .. n : ~ IsBoundary(s, i)
      <4> TAKE i \in 1 .. n
      <4>1. i <= m \/ i > m
        BY <1>1
      <4> QED  BY <1>5, <1>6, <1>11, <2>6, <4>1
    <3>3. Meant <=> meaningful = {}
      BY <3>2
    <3>4. meaningful # {} => ~ JV!Lesser(s[first].comparator)
      <4>1. SUFFICES ASSUME first \in 1 .. n  PROVE ~ JV!Lesser(s[first].comparator)
        <5>1. first \in meaningful => first \in 1 .. n
          <6> HIDE DEF first
          <6> QED  OBVIOUS
        <5> QED  BY <2>4, <5>1
      <4> HIDE DEF first
      <4>2. ~ IsBoundary(s, first)
        BY <3>2, <4>1
      <4> QED  BY <4>1, <4>2, ComparatorsAre
    <3> HIDE DEF Low, High, Meant, first, meaningful
    <3> QED  BY <1>8, <2>2, <2>3, <3>1, <3>3, <3>4
  <2> QED  BY <2>5, <2>6
<1> QED  BY <1>10, <1>11


\* The states of the loop of contains.
Scans == [done : BOOLEAN, included : BOOLEAN]

\* All of the first k constraints are below v.
AllBelow(s, v, k) == \A i \in 1 .. k : JV!Compare(s[i].version, v) < 0

\* The m-th constraint ended the loop: it has the version v, or is the first above it.
EndedAt(s, v, m, x) ==
    /\ AllBelow(s, v, m - 1)
    /\ \/ s[m].version = v /\ (x = TRUE <=> s[m].comparator \in {"=", ">=", "<="})
       \/ JV!Compare(v, s[m].version) < 0 /\ Passed(s, m - 1, x)

\* What the loop knows after k turns.
Scanned(s, v, k, state) ==
    /\ state \in Scans
    /\ state.done = FALSE => AllBelow(s, v, k) /\ Passed(s, k, state.included)
    /\ state.done = TRUE => \E m \in 1 .. k : EndedAt(s, v, m, state.included)

LEMMA ScannedStep ==
    ASSUME NEW s, Timeline(s), NEW v \in Versions, NEW k \in Nat, k + 1 <= Len(s),
           NEW state, Scanned(s, v, k, state)
    PROVE  Scanned(s, v, k + 1, JV!ScanStep(state, s[k + 1], v))
<1> DEFINE next == JV!ScanStep(state, s[k + 1], v)
           c == s[k + 1].comparator
           order == JV!Compare(v, s[k + 1].version)
           x == state.included
<1> SUFFICES Scanned(s, v, k + 1, next)
  OBVIOUS
<1>1. k + 1 \in 1 .. Len(s) /\ s[k + 1].version \in Versions
  BY ComparatorsAre
<1>2. /\ order \in {-1, 0, 1} /\ JV!Compare(s[k + 1].version, v) = - order
      /\ order = 0 <=> s[k + 1].version = v
  BY <1>1, VersionOrder
<1>3. /\ state \in Scans /\ state.done \in BOOLEAN /\ x \in BOOLEAN
      /\ state.done = FALSE => AllBelow(s, v, k) /\ Passed(s, k, x)
      /\ state.done = TRUE => \E m \in 1 .. k : EndedAt(s, v, m, x)
  BY DEF Scanned, Scans
<1>4. (k + 1) - 1 = k /\ k + 1 \in 1 .. (k + 1) /\ \A m \in 1 .. k : m \in 1 .. (k + 1)
  OBVIOUS
<1> HIDE DEF order
<1>5. CASE state.done = TRUE
  <2>1. next = state
    BY <1>5 DEF JV!ScanStep
  <2>2. \E m \in 1 .. (k + 1) : EndedAt(s, v, m, x)
    BY <1>3, <1>4, <1>5
  <2> QED  BY <1>3, <1>5, <2>1, <2>2 DEF Scanned
<1>6. CASE state.done = FALSE /\ order < 0
  <2>1. next = [state EXCEPT !.done = TRUE]
    BY <1>6 DEF JV!ScanStep, order
  <2>2. next \in Scans /\ next.done = TRUE /\ next.included = x
    BY <1>3, <2>1 DEF Scans
  <2>3. EndedAt(s, v, k + 1, x)
    BY <1>3, <1>4, <1>6 DEF EndedAt, order
  <2> HIDE DEF next, x
  <2> QED  BY <1>4, <2>2, <2>3 DEF Scanned
<1>7. CASE state.done = FALSE /\ order = 0
  <2> DEFINE y == c \in {"=", ">=", "<="}
  <2>1. next = [done |-> TRUE, included |-> y]
    BY <1>7 DEF JV!ScanStep, order
  <2>2. y \in BOOLEAN /\ (y = TRUE <=> c \in {"=", ">=", "<="})
    OBVIOUS
  <2> HIDE DEF y
  <2>3. next \in Scans /\ next.done = TRUE /\ next.included = y
    BY <2>1, <2>2 DEF Scans
  <2>4. EndedAt(s, v, k + 1, y)
    BY <1>2, <1>3, <1>4, <1>7, <2>2 DEF EndedAt
  <2> HIDE DEF next
  <2> QED  BY <1>4, <2>3, <2>4 DEF Scanned
<1>8. CASE state.done = FALSE /\ order = 1
  <2> DEFINE y == IF JV!Greater(c) THEN TRUE ELSE IF JV!Lesser(c) THEN FALSE ELSE x
  <2>1. next = [state EXCEPT !.included = y]
    BY <1>8 DEF JV!ScanStep, order
  <2>2. /\ JV!Greater(c) => y = TRUE
        /\ JV!Lesser(c) => y = FALSE
        /\ ~ IsBoundary(s, k + 1) => y = x
    BY <1>1, ComparatorsAre DEF JV!Greater, JV!Lesser
  <2>3. y \in BOOLEAN
    BY <1>3
  <2> HIDE DEF y
  <2>4. next \in Scans /\ next.done = FALSE /\ next.included = y
    BY <1>3, <1>8, <2>1, <2>3 DEF Scans
  <2>5. Passed(s, k + 1, y)
    <3> HIDE DEF x
    <3> QED  BY <1>3, <1>8, <2>2, PassedStep
  <2>6. AllBelow(s, v, k + 1)
    <3>1. JV!Compare(s[k + 1].version, v) < 0
      BY <1>2, <1>8
    <3>2. 1 .. (k + 1) = (1 .. k) \cup {k + 1}
      OBVIOUS
    <3> QED  BY <1>3, <1>8, <3>1, <3>2 DEF AllBelow
  <2> HIDE DEF next
  <2> QED  BY <2>4, <2>5, <2>6 DEF Scanned
<1>9. state.done = TRUE \/ state.done = FALSE
  BY <1>3
<1>10. order < 0 \/ order = 0 \/ order = 1
  BY <1>2
<1> HIDE DEF next
<1> QED  BY <1>5, <1>6, <1>7, <1>8, <1>9, <1>10

\* JavaRange::contains: on every timeline that parse accepts, of any length, the loop
\* answers what the range means.
THEOREM RangeContainsIs ==
    ASSUME NEW s, Timeline(s), NEW v \in Versions
    PROVE  JV!RangeContains(s, v) <=> InRange(s, v)
<1> DEFINE n == Len(s)
           start == [done |-> FALSE, included |-> Initially(s)]
           G == [z \in Scans \X (1 .. n) |-> JV!ScanStep(z[1], s[z[2]], v)]
           D(g) == g = [k \in 0 .. n |-> IF k = 0 THEN start ELSE JV!ScanStep(g[k - 1], s[k], v)]
           state == CHOOSE g : D(g)
<1>1. n \in Nat /\ \A i \in 1 .. n : s[i].version \in Versions
  BY ComparatorsAre
<1>2. Initially(s) \in BOOLEAN
  BY DEF Initially, JV!Lesser
<1>3. start \in Scans
  BY <1>2 DEF Scans
<1>4. G \in [Scans \X (1 .. n) -> Scans]
  <2>1. ASSUME NEW z \in Scans, NEW i \in 1 .. n  PROVE JV!ScanStep(z, s[i], v) \in Scans
    <3> DEFINE c == s[i].comparator
               order == JV!Compare(v, s[i].version)
               y == IF JV!Greater(c) THEN TRUE ELSE IF JV!Lesser(c) THEN FALSE ELSE z.included
    <3>1. \/ JV!ScanStep(z, s[i], v) = z
          \/ JV!ScanStep(z, s[i], v) = [z EXCEPT !.done = TRUE]
          \/ JV!ScanStep(z, s[i], v) = [done |-> TRUE, included |-> c \in {"=", ">=", "<="}]
          \/ JV!ScanStep(z, s[i], v) = [z EXCEPT !.included = y]
      BY DEF JV!ScanStep
    <3>2. y \in BOOLEAN
      BY DEF Scans
    <3> HIDE DEF y
    <3>3. [z EXCEPT !.done = TRUE] \in Scans /\ [z EXCEPT !.included = y] \in Scans
      BY <3>2 DEF Scans
    <3> DEFINE w == c \in {"=", ">=", "<="}
    <3>4. w \in BOOLEAN
      OBVIOUS
    <3> HIDE DEF w
    <3>5. [done |-> TRUE, included |-> w] \in Scans
      BY <3>4 DEF Scans
    <3> QED  BY <3>1, <3>3, <3>5 DEF w
  <2> QED  BY <2>1
<1>5. \E f : Iterates(f, n, Scans, start, G)
  <2> HIDE DEF n, G, start
  <2> QED  BY <1>1, <1>3, <1>4, Recursion
<1>6. PICK f \in [0 .. n -> Scans] : f[0] = start /\ \A i \in 1 .. n : f[i] = G[<<f[i - 1], i>>]
  BY <1>5 DEF Iterates
<1>7. \A i \in 1 .. n : f[i] = JV!ScanStep(f[i - 1], s[i], v)
  <2> TAKE i \in 1 .. n
  <2>1. i - 1 \in 0 .. n /\ f[i - 1] \in Scans
    BY <1>1
  <2> QED  BY <1>6, <2>1
<1>8. D(f)
  <2> HIDE DEF start
  <2> QED  BY <1>1, <1>6, <1>7
<1>9. D(state)
  BY <1>8
<1>10. JV!RangeContains(s, v) <=> s = << >> \/ state[n].included
  BY DEF JV!RangeContains, Initially
<1> HIDE DEF state, G
<1>11. state[0] = start /\ \A k \in 1 .. n : state[k] = JV!ScanStep(state[k - 1], s[k], v)
  <2> HIDE DEF start
  <2> QED  BY <1>1, <1>9
<1> DEFINE T == {k \in 0 .. n : Scanned(s, v, k, state[k])}
<1>12. 0 \in T
  <2>1. Passed(s, 0, Initially(s)) /\ AllBelow(s, v, 0)
    BY <1>2 DEF Passed, AllBelow
  <2>2. start.done = FALSE /\ start.included = Initially(s)
    OBVIOUS
  <2> HIDE DEF start
  <2>3. Scanned(s, v, 0, start)
    BY <1>3, <2>1, <2>2 DEF Scanned
  <2> QED  BY <1>1, <1>11, <2>3
<1>13. ASSUME NEW k \in 0 .. (n - 1), k \in T  PROVE k + 1 \in T
  <2>1. k \in Nat /\ k + 1 \in 1 .. n /\ k + 1 \in 0 .. n /\ (k + 1) - 1 = k /\ k + 1 <= Len(s)
    BY <1>1
  <2>2. Scanned(s, v, k + 1, JV!ScanStep(state[k], s[k + 1], v))
    BY <1>13, <2>1, ScannedStep
  <2> HIDE DEF n
  <2> QED  BY <1>11, <2>1, <2>2
<1>14. n \in 0 .. n /\ n \in T
  <2>1. \A k \in 0 .. n : k \in T
    <3> HIDE DEF T, n
    <3> QED  BY <1>1, <1>12, <1>13, Induction
  <2> QED  BY <1>1, <2>1
<1> DEFINE x == state[n].included
<1>15. /\ state[n].done \in BOOLEAN /\ x \in BOOLEAN
       /\ state[n].done = FALSE => AllBelow(s, v, n) /\ Passed(s, n, x)
       /\ state[n].done = TRUE => \E m \in 1 .. n : EndedAt(s, v, m, x)
  BY <1>14 DEF Scanned, Scans
<1>16. \A i, j \in 1 .. n : i < j => JV!Compare(s[i].version, s[j].version) < 0
  BY TimelineIncreases
<1> HIDE DEF x
<1>17. x = TRUE <=> InRange(s, v)
  <2>1. CASE state[n].done = FALSE
    <3>1. \A i \in 1 .. n : JV!Compare(s[i].version, v) < 0
      BY <1>15, <2>1 DEF AllBelow
    <3>2. \A i \in (n + 1) .. n : JV!Compare(v, s[i].version) < 0
      BY <1>1
    <3> QED  BY <1>14, <1>15, <2>1, <3>1, <3>2, RangeSplit
  <2>2. ASSUME NEW m \in 1 .. n, EndedAt(s, v, m, x)  PROVE x = TRUE <=> InRange(s, v)
    <3>1. CASE s[m].version = v /\ (x = TRUE <=> s[m].comparator \in {"=", ">=", "<="})
      <4>1. ASSUME NEW i \in 1 .. n, s[i].version = v  PROVE i = m
        <5>1. JV!Compare(v, v) = 0
          BY VersionOrder
        <5>2. ~ (i < m) /\ ~ (m < i)
          BY <1>16, <3>1, <4>1, <5>1
        <5> QED  BY <1>1, <5>2
      <4>2. InRange(s, v) <=> \E i \in 1 .. n : s[i].version = v /\ s[i].comparator \in {"=", ">=", "<="}
        BY <3>1 DEF InRange
      <4>3. InRange(s, v) <=> s[m].comparator \in {"=", ">=", "<="}
        BY <3>1, <4>1, <4>2
      <4> QED  BY <3>1, <4>3
    <3>2. CASE JV!Compare(v, s[m].version) < 0 /\ Passed(s, m - 1, x)
      <4>1. m - 1 \in 0 .. n /\ (m - 1) + 1 = m
        BY <1>1
      <4>2. \A i \in 1 .. (m - 1) : JV!Compare(s[i].version, v) < 0
        BY <2>2 DEF EndedAt, AllBelow
      <4>3. \A i \in ((m - 1) + 1) .. n : JV!Compare(v, s[i].version) < 0
        <5> TAKE i \in ((m - 1) + 1) .. n
        <5>1. i \in 1 .. n /\ (i = m \/ m < i)
          BY <1>1
        <5>2. CASE m < i
          <6>1. JV!Compare(s[m].version, s[i].version) < 0
            BY <1>16, <5>1, <5>2
          <6> QED  BY <1>1, <3>2, <5>1, <6>1, VersionOrder
        <5> QED  BY <3>2, <5>1, <5>2
      <4> DEFINE p == m - 1
      <4> HIDE DEF p
      <4>4. p = m - 1
        BY DEF p
      <4> QED  BY <3>2, <4>1, <4>2, <4>3, <4>4, RangeSplit
    <3> QED  BY <2>2, <3>1, <3>2 DEF EndedAt
  <2> QED  BY <1>15, <2>1, <2>2
<1>18. s = << >> => InRange(s, v)
  <2> SUFFICES ASSUME s = << >>  PROVE InRange(s, v)
    OBVIOUS
  <2>1. Len(s) = 0 /\ 1 .. 0 = {}
    OBVIOUS
  <2> QED  BY <2>1 DEF InRange
<1>19. x <=> x = TRUE
  BY <1>15
<1> QED  BY <1>10, <1>17, <1>18, <1>19 DEF x


-----------------------------------------------------------------------------
(* What parse returns is such a version, and such a timeline.              *)

\* A part of a sequence is one.
LEMMA PartIs ==
    ASSUME NEW S, NEW s \in Seq(S), NEW i \in Nat, NEW j \in Nat, 1 <= i, i <= j, j <= Len(s)
    PROVE  /\ SubSeq(s, i, j) \in Seq(S) /\ Len(SubSeq(s, i, j)) = j - i + 1
           /\ \A k \in 1 .. (j - i + 1) : SubSeq(s, i, j)[k] = s[i + k - 1]
  OBVIOUS

LEMMA TrimmedIs ==
    ASSUME NEW numbers \in Seq(Nat), numbers # << >>
    PROVE  JV!Trimmed(numbers) \in Canonical
<1> DEFINE n == Len(numbers)
           kept == {i \in 1 .. n : i = 1 \/ numbers[i] # 0}
           last == CHOOSE i \in kept : \A j \in kept : j <= i
<1>1. n \in Nat /\ 1 <= n
  OBVIOUS
<1>2. kept \in SUBSET (0 .. n) /\ 1 \in kept
  BY <1>1
<1>3. \E i \in kept : \A j \in kept : j <= i
  <2> HIDE DEF kept, n
  <2> QED  BY <1>1, <1>2, Largest
<1>4. last \in kept
  BY <1>3
<1>5. JV!Trimmed(numbers) = SubSeq(numbers, 1, last)
  BY DEF JV!Trimmed
<1> HIDE DEF last
<1>6. last \in Nat /\ 1 <= last /\ last <= n /\ (last = 1 \/ numbers[last] # 0)
  BY <1>1, <1>4
<1> DEFINE t == SubSeq(numbers, 1, last)
<1>7. /\ t \in Seq(Nat) /\ Len(t) = last - 1 + 1
      /\ \A k \in 1 .. (last - 1 + 1) : t[k] = numbers[1 + k - 1]
  BY <1>1, <1>6, PartIs
<1> HIDE DEF t
<1>8. Len(t) = last /\ t # << >> /\ t[last] = numbers[last]
  BY <1>6, <1>7
<1> QED  BY <1>5, <1>6, <1>7, <1>8 DEF Canonical, t

LEMMA TrimZerosIs ==
    ASSUME NEW text \in Seq(Nat)
    PROVE  JV!TrimZeros(text) \in Seq(Nat)
<1> DEFINE significant == {i \in 1 .. Len(text) : text[i] # 0}
           first == CHOOSE i \in significant : \A j \in significant : i <= j
<1>1. CASE significant = {}
  <2>1. JV!TrimZeros(text) = <<0>>
    BY <1>1 DEF JV!TrimZeros
  <2> QED  BY <2>1
<1>2. CASE significant # {}
  <2>1. significant \in SUBSET Nat
    OBVIOUS
  <2>2. \E i \in significant : \A j \in significant : i <= j
    <3> HIDE DEF significant
    <3> QED  BY <1>2, <2>1, Smallest
  <2>3. first \in significant
    BY <2>2
  <2>4. JV!TrimZeros(text) = SubSeq(text, first, Len(text))
    BY <1>2 DEF JV!TrimZeros
  <2> HIDE DEF first
  <2>5. first \in Nat /\ 1 <= first /\ first <= Len(text) /\ Len(text) \in Nat
    BY <2>3
  <2>6. SubSeq(text, first, Len(text)) \in Seq(Nat)
    BY <2>5, PartIs
  <2> QED  BY <2>4, <2>6
<1> QED  BY <1>1, <1>2

LEMMA NormalPreIs ==
    ASSUME NEW p \in Pres
    PROVE  [i \in 1 .. Len(p) |-> IF JV!Numeric(p[i]) THEN JV!TrimZeros(p[i]) ELSE p[i]] \in Pres
<1> DEFINE q == [i \in 1 .. Len(p) |-> IF JV!Numeric(p[i]) THEN JV!TrimZeros(p[i]) ELSE p[i]]
<1>1. CASE p = << >>
  <2>1. Len(p) = 0
    BY <1>1
  <2>2. q = << >>
    BY <2>1
  <2> QED  BY <2>2 DEF Pres
<1>2. ASSUME NEW t \in Seq(Nat), p = <<t>>  PROVE q \in Pres
  <2> DEFINE u == IF JV!Numeric(t) THEN JV!TrimZeros(t) ELSE t
  <2>1. u \in Seq(Nat)
    BY TrimZerosIs
  <2>2. Len(p) = 1 /\ p[1] = t /\ \A i \in 1 .. 1 : i = 1
    BY <1>2
  <2>3. q = [i \in 1 .. 1 |-> u]
    BY <2>2
  <2> HIDE DEF u, q
  <2>4. q = <<u>>
    BY <2>3
  <2> QED  BY <2>1, <2>4 DEF Pres
<1> QED  BY <1>1, <1>2 DEF Pres

\* Versions as written.
Decimals == [zeros : Nat, value : Nat]
Spellings == {w \in [alias : {"none", "8u", "1.8.0"}, numbers : Seq(Decimals), pre : Pres,
                     optional : Seq(STRING), build : Seq([number : Seq(Decimals), optional : Seq(STRING)])] :
                w.alias = "none" => w.numbers # << >>}

LEMMA ParsedNumbers ==
    ASSUME NEW w, w.numbers \in Seq(Decimals), w.numbers # << >>, w.pre \in Pres, JV!ParseNumbers(w).ok
    PROVE  JV!ParseNumbers(w).value \in Versions
<1> DEFINE numbers == [i \in 1 .. Len(w.numbers) |-> w.numbers[i].value]
           pre == [i \in 1 .. Len(w.pre) |->
                     IF JV!Numeric(w.pre[i]) THEN JV!TrimZeros(w.pre[i]) ELSE w.pre[i]]
<1>1. numbers \in Seq(Nat) /\ numbers # << >>
  <2>1. Len(w.numbers) \in Nat /\ Len(w.numbers) # 0
    OBVIOUS
  <2>2. \A i \in 1 .. Len(w.numbers) : w.numbers[i] \in Decimals
    OBVIOUS
  <2>3. \A i \in 1 .. Len(w.numbers) : w.numbers[i].value \in Nat
    BY <2>2 DEF Decimals
  <2>4. numbers \in Seq(Nat) /\ Len(numbers) = Len(w.numbers)
    BY <2>1, <2>3
  <2> QED  BY <2>1, <2>4
<1>2. pre \in Pres
  BY NormalPreIs
<1>3. JV!ParseNumbers(w) # JV!Fail("Invalid")
  BY DEF JV!Fail
<1>4. JV!ParseNumbers(w).value = [numbers |-> JV!Trimmed(numbers), pre |-> pre]
  BY <1>3 DEF JV!ParseNumbers
<1>5. JV!Trimmed(numbers) \in Canonical
  <2> HIDE DEF numbers
  <2> QED  BY <1>1, TrimmedIs
<1> HIDE DEF numbers, pre
<1> QED  BY <1>2, <1>4, <1>5 DEF Versions

LEMMA ParsedVersion ==
    ASSUME NEW w \in Spellings, JV!Parse(w).ok
    PROVE  JV!Parse(w).value \in Versions
<1>1. w.numbers \in Seq(Decimals) /\ w.pre \in Pres /\ (w.alias = "none" => w.numbers # << >>)
  BY DEF Spellings
<1>2. CASE w.alias = "none"
  <2>1. JV!Parse(w) = JV!ParseNumbers(w)
    BY <1>2 DEF JV!Parse
  <2> QED  BY <1>1, <1>2, <2>1, ParsedNumbers
<1>3. CASE w.alias # "none"
  <2> DEFINE e == JV!Expanded(w)
             parsed == JV!ParseNumbers(e)
  <2>1. JV!Parse(w) = IF parsed.ok THEN [parsed EXCEPT !.canonical = TRUE] ELSE parsed
    <3>1. JV!Parse(w) # JV!Fail("Invalid")
      BY DEF JV!Fail
    <3> QED  BY <1>3, <3>1 DEF JV!Parse
  <2>2. e.pre = w.pre
    BY DEF JV!Expanded
  <2>3. e.numbers \in Seq(Decimals) /\ e.numbers # << >>
    <3> DEFINE rest == IF w.numbers = << >> THEN << >> ELSE <<JV!Decimal(0), w.numbers[1]>>
    <3>1. JV!Decimal(8) \in Decimals /\ JV!Decimal(0) \in Decimals
      BY DEF JV!Decimal, Decimals
    <3>2. w.numbers # << >> => w.numbers[1] \in Decimals
      BY <1>1
    <3>3. rest \in Seq(Decimals)
      BY <3>1, <3>2
    <3>4. e.numbers = <<JV!Decimal(8)>> \o rest
      BY DEF JV!Expanded
    <3> HIDE DEF rest, e
    <3> QED  BY <3>1, <3>3, <3>4
  <2>4. parsed.ok /\ parsed.value = JV!Parse(w).value
    <3>1. parsed.ok
      <4> HIDE DEF parsed
      <4> QED  BY <2>1
    <3>2. parsed.value = JV!Parse(w).value
      <4>1. parsed # JV!Fail("Invalid")
        BY <3>1 DEF JV!Fail
      <4>2. "value" \in DOMAIN parsed /\ parsed = [parsed EXCEPT !.ok = @]
        BY <4>1 DEF JV!ParseNumbers
      <4> HIDE DEF parsed
      <4> QED  BY <2>1, <3>1, <4>2
    <3> QED  BY <3>1, <3>2
  <2> HIDE DEF e
  <2> QED  BY <1>1, <2>2, <2>3, <2>4, ParsedNumbers
<1> QED  BY <1>2, <1>3

Items == [comparator : JV!Comparators, written : Spellings]

LEMMA ParsedTimeline ==
    ASSUME NEW items \in Seq(Items), JV!ParseRange(items).ok
    PROVE  Timeline(JV!ParseRange(items).value)
<1> DEFINE n == Len(items)
           parsed == [i \in 1 .. n |-> JV!Parse(items[i].written)]
           constraints == [i \in 1 .. n |->
                             [comparator |-> items[i].comparator, version |-> parsed[i].value]]
<1>1. JV!ParseRange(items) # JV!Fail("Invalid")
  BY DEF JV!Fail
<1>2. /\ \A i \in 1 .. n : parsed[i].ok /\ ~ JV!TimelineFails(constraints, i)
      /\ JV!ParseRange(items).value = constraints
  BY <1>1 DEF JV!ParseRange, JV!Ok
<1>3. n \in Nat /\ \A i \in 1 .. n : items[i] \in Items
  OBVIOUS
<1>4. \A i \in 1 .. n : items[i].comparator \in JV!Comparators /\ items[i].written \in Spellings
  BY <1>3 DEF Items
<1>5. \A i \in 1 .. n : parsed[i].value \in Versions
  BY <1>2, <1>4, ParsedVersion
<1> HIDE DEF parsed
<1>6. \A i \in 1 .. n : constraints[i] \in Constraint
  BY <1>4, <1>5 DEF Constraint
<1>7. constraints \in Seq(Constraint) /\ Len(constraints) = n
  BY <1>3, <1>6
<1> HIDE DEF constraints
<1> QED  BY <1>2, <1>7 DEF Timeline

\* JavaRange::parse and contains, JavaVersion::parse: whatever range and version are
\* written and accepted, of any length, contains answers what the range means.
THEOREM ParsedRangeHolds ==
    ASSUME NEW items \in Seq(Items), NEW w \in Spellings,
           JV!ParseRange(items).ok, JV!Parse(w).ok
    PROVE  JV!RangeContains(JV!ParseRange(items).value, JV!Parse(w).value)
              <=> InRange(JV!ParseRange(items).value, JV!Parse(w).value)
BY ParsedVersion, ParsedTimeline, RangeContainsIs

-----------------------------------------------------------------------------
(* A JAR is recognised wherever it stands: open_auto finds the boundary of *)
(* a container that a JAR follows.                                         *)

\* The last cells of the file are those of the archive, after k others that do not end
\* with a ZIP64 locator.
EndsWith(file, archive, k) ==
    /\ Len(archive) \in Nat /\ Len(file) = k + Len(archive)
    /\ \A q \in 0 .. (Len(archive) - 1) : file[(k + q) + 1] = archive[q + 1]
    /\ k # 0 => file[k].t # "locator"

RawFields(c) == <<c.uncompressed, c.compressed, c.local, c.disk>>

\* The fields of ZIP records are numbers.
CentralNumbers(c) ==
    ~ ExpandFails(c.extra, RawFields(c)) =>
       \A i \in 1 .. 4 : Expand(c.extra, RawFields(c))[i] \in Nat
EndNumbers(r) == r.length \in Nat /\ r.offset \in Nat /\ r.count \in Nat
RecordNumbers(c) ==
    /\ c.t = "central" => CentralNumbers(c)
    /\ c.t = "eocd" => c.comment \in Nat /\ EndNumbers(c)
    /\ c.t = "end64" => c.size \in Nat /\ EndNumbers(c)
    /\ c.t = "locator" => c.record \in Nat
Numbered(archive) == \A q \in 0 .. (Len(archive) - 1) : RecordNumbers(archive[q + 1])

\* The same directory k cells later.
Moved(d, k) == [jar |-> d.jar + k, start |-> d.start + k, end |-> d.end + k, count |-> d.count]

\* A directory within an archive of n cells.
Within(d, n) ==
    /\ d.jar \in Nat /\ d.start \in Nat /\ d.end \in Nat /\ d.count \in Nat
    /\ d.jar <= d.start /\ d.start <= d.end /\ d.end < n

LEMMA LocalMoves ==
    ASSUME NEW file, NEW archive, NEW k \in Nat, EndsWith(file, archive, k),
           NEW d, Within(d, Len(archive)), NEW position \in Nat, NEW c,
           NEW compressed \in Nat, NEW uncompressed,
           ValidLocal(archive, d, position, c, compressed, uncompressed)
    PROVE  ValidLocal(file, Moved(d, k), position + k, c, compressed, uncompressed)
<1> DEFINE h == archive[position + 1]
           e == position + 1 + compressed
           sizes == <<h.uncompressed, h.compressed>>
           n == Len(archive)
<1>1. /\ n \in Nat /\ position + 1 <= d.start /\ d.start < n /\ d.start \in Nat
      /\ e \in Nat /\ e <= d.start
  <2>1. n \in Nat /\ d.start \in Nat /\ d.end \in Nat /\ d.start <= d.end /\ d.end < n
    BY DEF EndsWith, Within
  <2>2. position + 1 <= d.start /\ e <= d.start
    BY DEF ValidLocal
  <2> QED  BY <2>1, <2>2
<1>2. /\ h.t = "local" /\ h.streamed = c.streamed /\ h.name = c.name
      /\ ~h.streamed => /\ ~ExpandFails(h.extra, sizes)
                        /\ Expand(h.extra, sizes) = <<uncompressed, compressed>>
                        /\ h.crc = c.crc
      /\ h.streamed => /\ e < d.start
                       /\ archive[e + 1].t = "descriptor"
                       /\ archive[e + 1].crc = c.crc
                       /\ archive[e + 1].compressed = compressed
                       /\ archive[e + 1].uncompressed = uncompressed
  BY DEF ValidLocal
<1>3. file[(position + k) + 1] = h
  <2>1. position \in 0 .. (n - 1) /\ k + position = position + k
    BY <1>1
  <2> QED  BY <2>1 DEF EndsWith
<1>4. e < d.start => file[(e + k) + 1] = archive[e + 1]
  <2> SUFFICES ASSUME e < d.start PROVE file[(e + k) + 1] = archive[e + 1]
    OBVIOUS
  <2>1. e \in 0 .. (n - 1) /\ k + e = e + k
    BY <1>1
  <2> HIDE DEF e
  <2> QED  BY <2>1 DEF EndsWith
<1>5. /\ (position + k) + 1 + compressed = e + k
      /\ (position + k) + 1 <= d.start + k /\ e + k <= d.start + k
      /\ e < d.start => e + k < d.start + k
  BY <1>1
<1>6. Moved(d, k).start = d.start + k
  BY DEF Moved
<1> HIDE DEF e, h
<1> QED  BY <1>2, <1>3, <1>4, <1>5, <1>6 DEF ValidLocal

LEMMA CentralMoves ==
    ASSUME NEW file, NEW archive, NEW k \in Nat, EndsWith(file, archive, k), Numbered(archive),
           NEW d, Within(d, Len(archive)), NEW position \in Nat,
           ValidCentral(archive, d, position)
    PROVE  ValidCentral(file, Moved(d, k), position + k)
<1> DEFINE c == archive[position + 1]
           f == Expand(c.extra, RawFields(c))
           n == Len(archive)
<1>1. /\ position < d.end /\ c.t = "central" /\ ~ ExpandFails(c.extra, RawFields(c))
      /\ f[4] = 0 /\ d.jar + f[3] < d.start
      /\ ValidLocal(archive, d, d.jar + f[3], c, f[2], f[1])
  BY DEF ValidCentral, RawFields
<1>2. n \in Nat /\ d.end < n /\ d.end \in Nat /\ d.start \in Nat /\ d.jar \in Nat
  BY DEF EndsWith, Within
<1>3. position \in 0 .. (n - 1) /\ k + position = position + k
  BY <1>1, <1>2
<1>4. file[(position + k) + 1] = c
  BY <1>3 DEF EndsWith
<1>5. f[2] \in Nat /\ f[3] \in Nat
  <2>1. RecordNumbers(c)
    BY <1>3 DEF Numbered
  <2>2. CentralNumbers(c)
    BY <1>1, <2>1 DEF RecordNumbers
  <2>3. \A i \in 1 .. 4 : f[i] \in Nat
    BY <1>1, <2>2 DEF CentralNumbers
  <2>4. 2 \in 1 .. 4 /\ 3 \in 1 .. 4
    OBVIOUS
  <2> HIDE DEF f
  <2> QED  BY <2>3, <2>4
<1> HIDE DEF f, c
<1>6. d.jar + f[3] \in Nat
  BY <1>2, <1>5
<1>7. ValidLocal(file, Moved(d, k), (d.jar + f[3]) + k, c, f[2], f[1])
  BY <1>1, <1>5, <1>6, LocalMoves
<1>8. /\ Moved(d, k).jar + f[3] = (d.jar + f[3]) + k
      /\ (d.jar + f[3]) + k < Moved(d, k).start
      /\ position + k < Moved(d, k).end
  <2>1. Moved(d, k).jar = d.jar + k /\ Moved(d, k).start = d.start + k /\ Moved(d, k).end = d.end + k
    BY DEF Moved
  <2> DEFINE g == f[3]
             a == d.jar
             b == d.start
             z == d.end
  <2>2. /\ g \in Nat /\ a \in Nat /\ b \in Nat /\ z \in Nat
        /\ a + g < b /\ position < z
    BY <1>1, <1>2, <1>5
  <2> HIDE DEF g, a, b, z
  <2>3. (a + k) + g = (a + g) + k /\ (a + g) + k < b + k /\ position + k < z + k
    BY <2>2
  <2> QED  BY <2>1, <2>3 DEF g, a, b, z
<1>9. f = Expand(c.extra, RawFields(c))
  BY DEF f
<1> QED  BY <1>1, <1>4, <1>7, <1>8, <1>9 DEF ValidCentral, RawFields

LEMMA DirectoryMoves ==
    ASSUME NEW file, NEW archive, NEW k \in Nat, EndsWith(file, archive, k), Numbered(archive),
           NEW d, Within(d, Len(archive)), ValidDirectory(archive, d)
    PROVE  ValidDirectory(file, Moved(d, k))
<1> DEFINE last == d.start + d.count
           n == Len(archive)
<1>1. /\ n \in Nat /\ d.end < n /\ d.end \in Nat /\ d.start \in Nat /\ d.count \in Nat
      /\ last \in Nat
  BY DEF EndsWith, Within
<1>2. /\ \A i \in 1 .. d.count : ValidCentral(archive, d, d.start + i - 1)
      /\ last <= d.end
      /\ last < d.end => last + 1 = d.end /\ archive[last + 1].t = "signature"
  BY DEF ValidDirectory
<1>3. /\ Moved(d, k).start = d.start + k /\ Moved(d, k).end = d.end + k
      /\ Moved(d, k).count = d.count
  BY DEF Moved
<1>4. ASSUME NEW i \in 1 .. d.count
      PROVE  ValidCentral(file, Moved(d, k), Moved(d, k).start + i - 1)
  <2>1. d.start + i - 1 \in Nat /\ (d.start + i - 1) + k = (d.start + k) + i - 1
    BY <1>1
  <2>2. ValidCentral(file, Moved(d, k), (d.start + i - 1) + k)
    BY <1>2, <2>1, CentralMoves
  <2> QED  BY <1>3, <2>1, <2>2
<1>5. last < d.end => file[(last + k) + 1] = archive[last + 1]
  <2> SUFFICES ASSUME last < d.end PROVE file[(last + k) + 1] = archive[last + 1]
    OBVIOUS
  <2>1. last \in 0 .. (n - 1) /\ k + last = last + k
    BY <1>1
  <2> HIDE DEF last
  <2> QED  BY <2>1 DEF EndsWith
<1>6. /\ Moved(d, k).start + Moved(d, k).count = last + k
      /\ last + k <= Moved(d, k).end
      /\ last + k < Moved(d, k).end <=> last < d.end
      /\ last + 1 = d.end => (last + k) + 1 = Moved(d, k).end
  <2> DEFINE a == d.start
             b == d.count
             z == d.end
  <2>1. a \in Nat /\ b \in Nat /\ z \in Nat /\ last = a + b /\ last <= z
    BY <1>1, <1>2
  <2> HIDE DEF a, b, z, last
  <2>2. /\ (a + k) + b = last + k /\ last + k <= z + k
        /\ last + k < z + k <=> last < z
        /\ last + 1 = z => (last + k) + 1 = z + k
    BY <2>1
  <2> QED  BY <1>3, <2>2 DEF a, b, z
<1> HIDE DEF last
<1> QED  BY <1>2, <1>3, <1>4, <1>5, <1>6 DEF ValidDirectory


\* coordinates: a directory that it finds lies before the record, and further on in a file
\* in which the archive does.
LEMMA CoordinatesMove ==
    ASSUME NEW k \in Nat, NEW n \in Nat, NEW e \in Nat, NEW l \in Nat, NEW o \in Nat, NEW m \in Nat,
           e < n, NEW d \in Coordinates(e, l, o, m)
    PROVE  /\ Within(d, n) /\ d.end = e
           /\ Moved(d, k) \in Coordinates(e + k, l, o, m)
<1>1. ~ (l + o > e) /\ d = [jar |-> (e - l) - o, start |-> e - l, end |-> e, count |-> m]
  BY DEF Coordinates
<1>2. /\ d.jar = (e - l) - o /\ d.start = e - l /\ d.end = e /\ d.count = m
  BY <1>1
<1>3. /\ (e - l) - o \in Nat /\ e - l \in Nat /\ (e - l) - o <= e - l /\ e - l <= e
      /\ ~ (l + o > e + k)
      /\ ((e - l) - o) + k = ((e + k) - l) - o /\ (e - l) + k = (e + k) - l
  BY <1>1
<1>4. Within(d, n)
  BY <1>2, <1>3 DEF Within
<1>5. Moved(d, k) = [jar |-> ((e + k) - l) - o, start |-> (e + k) - l, end |-> e + k, count |-> m]
  BY <1>2, <1>3 DEF Moved
<1> QED  BY <1>2, <1>3, <1>4, <1>5 DEF Coordinates

\* directories: what an end record of the archive leads to, the same record of the file
\* leads to as many cells later.
LEMMA DirectoriesMove ==
    ASSUME NEW file, NEW archive, NEW k \in Nat, EndsWith(file, archive, k), Numbered(archive),
           NEW p \in 0 .. (Len(archive) - 1), archive[p + 1].t = "eocd",
           NEW d \in Directories(archive, p)
    PROVE  Within(d, Len(archive)) /\ Moved(d, k) \in Directories(file, p + k)
<1> DEFINE n == Len(archive)
           r == archive[p + 1]
           locator == archive[p]
<1>1. n \in Nat /\ p \in Nat /\ p < n /\ p + k \in Nat
  BY DEF EndsWith
<1>2. file[(p + k) + 1] = r
  <2>1. k + p = p + k
    BY <1>1
  <2> QED  BY <2>1 DEF EndsWith
<1>3. EndNumbers(r)
  BY DEF Numbered, RecordNumbers
<1>4. p # 0 => file[p + k] = locator
  <2> SUFFICES ASSUME p # 0 PROVE file[p + k] = locator
    OBVIOUS
  <2>1. p - 1 \in 0 .. (n - 1) /\ (k + (p - 1)) + 1 = p + k /\ (p - 1) + 1 = p
    BY <1>1
  <2> QED  BY <2>1 DEF EndsWith
<1>5. CASE p = 0 \/ locator.t # "locator"
  <2>1. /\ ~ (r.count # r.diskCount \/ MAX \in {r.count, r.length, r.offset})
        /\ d \in Coordinates(p, r.length, r.offset, r.count)
    BY <1>5 DEF Directories
  <2>2. Within(d, n) /\ Moved(d, k) \in Coordinates(p + k, r.length, r.offset, r.count)
    <3>1. n \in Nat /\ p \in Nat /\ p < n
      BY <1>1
    <3>2. r.length \in Nat /\ r.offset \in Nat /\ r.count \in Nat
      BY <1>3 DEF EndNumbers
    <3> HIDE DEF n, r
    <3> QED  BY <2>1, <3>1, <3>2, CoordinatesMove
  <2>3. p + k = 0 \/ file[p + k].t # "locator"
    <3>1. CASE p = 0
      BY <1>1, <3>1 DEF EndsWith
    <3>2. CASE p # 0
      BY <1>4, <1>5, <3>2
    <3> QED  BY <3>1, <3>2
  <2>4. Directories(file, p + k) = Coordinates(p + k, r.length, r.offset, r.count)
    <3> HIDE DEF r
    <3> QED  BY <1>2, <2>1, <2>3 DEF Directories
  <2> QED  BY <2>2, <2>4
<1>6. CASE p # 0 /\ locator.t = "locator"
  <2> DEFINE Found(f, s, x, b) == {y \in Coordinates(x, f[x + 1].length, f[x + 1].offset, f[x + 1].count) :
                                     y.jar + b = x}
             Usable(f, s, b) == {x \in Zip64Records(f, b, s) : Agrees(r, f[x + 1])}
             b == locator.record
  <2>1. /\ ~ (locator.disk # 0)
        /\ d \in UNION {Found(archive, p - 1, x, b) : x \in Usable(archive, p - 1, b)}
    BY <1>6 DEF Directories
  <2>2. PICK x \in Usable(archive, p - 1, b) : d \in Found(archive, p - 1, x, b)
    BY <2>1
  <2>3. b \in Nat
    <3>1. p - 1 \in 0 .. (n - 1) /\ (p - 1) + 1 = p
      BY <1>1, <1>6
    <3> QED  BY <1>6, <3>1 DEF Numbered, RecordNumbers
  <2>4. /\ x \in b .. ((p - 1) - 1) /\ archive[x + 1].t = "end64"
        /\ x + 1 + archive[x + 1].size = p - 1 /\ Agrees(r, archive[x + 1])
    BY <2>2 DEF Zip64Records
  <2>5. x \in Nat /\ x < n /\ x \in 0 .. (n - 1) /\ x + k \in Nat
    <3>1. x \in b .. ((p - 1) - 1)
      BY <2>4
    <3> HIDE DEF n, b, Usable
    <3> QED  BY <1>1, <2>3, <3>1
  <2>6. file[(x + k) + 1] = archive[x + 1]
    <3>1. k + x = x + k
      BY <2>5
    <3> QED  BY <2>5, <3>1 DEF EndsWith
  <2>7. archive[x + 1].size \in Nat /\ EndNumbers(archive[x + 1])
    BY <2>4, <2>5 DEF Numbered, RecordNumbers
  <2> DEFINE z == archive[x + 1]
  <2>8. d \in Coordinates(x, z.length, z.offset, z.count) /\ d.jar + b = x
    BY <2>2
  <2>9. Within(d, n) /\ Moved(d, k) \in Coordinates(x + k, z.length, z.offset, z.count)
    <3>1. n \in Nat /\ x \in Nat /\ x < n
      BY <1>1, <2>5
    <3>2. z.length \in Nat /\ z.offset \in Nat /\ z.count \in Nat
      BY <2>7 DEF EndNumbers
    <3>3. d \in Coordinates(x, z.length, z.offset, z.count)
      BY <2>8
    <3> HIDE DEF n, z, Found, Usable, b
    <3> QED  BY <3>1, <3>2, <3>3, CoordinatesMove
  <2>10. Moved(d, k).jar + b = x + k
    <3>1. d.jar \in Nat /\ Moved(d, k).jar = d.jar + k
      BY <2>9 DEF Within, Moved
    <3> DEFINE j == d.jar
    <3>2. j \in Nat /\ j + b = x /\ b \in Nat /\ x \in Nat
      BY <2>3, <2>5, <2>8, <3>1
    <3> HIDE DEF j, b
    <3>3. (j + k) + b = x + k
      BY <3>2
    <3> QED  BY <3>1, <3>3 DEF j
  <2>11. x + k \in Usable(file, (p + k) - 1, b)
    <3> DEFINE y == z.size
    <3>0. /\ p \in Nat /\ b \in Nat /\ x \in b .. ((p - 1) - 1) /\ x \in Nat
          /\ y \in Nat /\ x + 1 + y = p - 1
      BY <1>1, <2>3, <2>4, <2>5, <2>7
    <3> HIDE DEF b, y
    <3>1. x + k \in b .. (((p + k) - 1) - 1)
      BY <3>0
    <3>2. (x + k) + 1 + z.size = (p + k) - 1
      <4>1. (x + k) + 1 + y = (p + k) - 1
        BY <3>0
      <4> QED  BY <4>1 DEF y
    <3> HIDE DEF r, z
    <3>3. z.t = "end64" /\ Agrees(r, z) /\ file[(x + k) + 1] = z
      BY <2>4, <2>6 DEF z
    <3> QED  BY <3>1, <3>2, <3>3 DEF Zip64Records
  <2>12. Moved(d, k) \in Found(file, (p + k) - 1, x + k, b)
    <3> HIDE DEF z
    <3>1. file[(x + k) + 1] = z
      BY <2>6 DEF z
    <3> QED  BY <2>9, <2>10, <3>1
  <2>13. Directories(file, p + k)
           = UNION {Found(file, (p + k) - 1, y, b) : y \in Usable(file, (p + k) - 1, b)}
    <3>1. p + k # 0 /\ file[p + k] = locator
      BY <1>1, <1>4, <1>6
    <3> HIDE DEF r, locator
    <3>2. ~ (p + k = 0 \/ file[p + k].t # "locator") /\ ~ (file[p + k].disk # 0)
      BY <1>6, <2>1, <3>1
    <3> QED  BY <1>2, <3>1, <3>2 DEF Directories, b
  <2> HIDE DEF Found, Usable
  <2> QED  BY <2>9, <2>11, <2>12, <2>13
<1> QED  BY <1>5, <1>6

\* candidate_ends: what it finds in an archive it finds, as many cells later, in a file that
\* ends with the archive.
LEMMA CandidatesMove ==
    ASSUME NEW file, NEW archive, NEW k \in Nat, EndsWith(file, archive, k), Numbered(archive),
           Window \in Nat, NEW e \in CandidateEnds(archive)
    PROVE  e + k \in CandidateEnds(file)
<1>1. PICK d : /\ d \in UNION {Directories(archive, p) : p \in EndRecords(archive)}
               /\ ValidDirectory(archive, d) /\ e = d.jar
  BY DEF CandidateEnds
<1>2. PICK p \in EndRecords(archive) : d \in Directories(archive, p)
  BY <1>1
<1> DEFINE n == Len(archive)
           r == archive[p + 1]
<1>3. /\ p \in 0 .. (n - 1) /\ p >= n - Window /\ r.t = "eocd"
      /\ p + 1 + r.comment = n /\ r.disk = 0
  BY DEF EndRecords
<1>4. Within(d, n) /\ Moved(d, k) \in Directories(file, p + k)
  BY <1>2, <1>3, DirectoriesMove
<1>5. ValidDirectory(file, Moved(d, k))
  BY <1>1, <1>4, DirectoryMoves
<1>6. p + k \in EndRecords(file)
  <2>1. n \in Nat /\ Len(file) = k + n
    BY DEF EndsWith
  <2>2. r.comment \in Nat
    BY <1>3 DEF Numbered, RecordNumbers
  <2>3. file[(p + k) + 1] = r
    <3>1. k + p = p + k
      BY <1>3, <2>1
    <3> QED  BY <1>3, <3>1 DEF EndsWith
  <2>4. /\ p + k \in 0 .. (Len(file) - 1) /\ p + k >= Len(file) - Window
        /\ (p + k) + 1 + r.comment = Len(file)
    <3> DEFINE w == r.comment
    <3>1. /\ w \in Nat /\ n \in Nat /\ p \in 0 .. (n - 1) /\ p >= n - Window /\ p + 1 + w = n
          /\ Len(file) = k + n
      BY <1>3, <2>1, <2>2
    <3> HIDE DEF w, n
    <3>2. /\ p + k \in 0 .. ((k + n) - 1) /\ p + k >= (k + n) - Window
          /\ (p + k) + 1 + w = k + n
      BY <3>1
    <3> QED  BY <3>1, <3>2 DEF w
  <2> HIDE DEF r
  <2> QED  BY <1>3, <2>3, <2>4 DEF EndRecords
<1>7. Moved(d, k) \in UNION {Directories(file, q) : q \in EndRecords(file)}
  BY <1>4, <1>6
<1>8. Moved(d, k).jar = e + k
  BY <1>1 DEF Moved
<1> QED  BY <1>5, <1>7, <1>8 DEF CandidateEnds

\* The boundaries that open_auto tries are within the file.
LEMMA CandidatesWithin ==
    ASSUME NEW file, Len(file) \in Nat, Numbered(file)
    PROVE  CandidateEnds(file) \subseteq 0 .. Len(file)
<1>2. EndsWith(file, file, 0)
  <2>1. Len(file) = 0 + Len(file) /\ \A q \in 0 .. (Len(file) - 1) : (0 + q) + 1 = q + 1
    OBVIOUS
  <2> QED  BY <2>1 DEF EndsWith
<1>3. ASSUME NEW e \in CandidateEnds(file)  PROVE e \in 0 .. Len(file)
  <2>1. PICK d : d \in UNION {Directories(file, p) : p \in EndRecords(file)} /\ e = d.jar
    BY DEF CandidateEnds
  <2>2. PICK p \in EndRecords(file) : d \in Directories(file, p)
    BY <2>1
  <2>3. p \in 0 .. (Len(file) - 1) /\ file[p + 1].t = "eocd"
    BY DEF EndRecords
  <2>4. Within(d, Len(file))
    BY <1>2, <2>2, <2>3, DirectoriesMove
  <2>5. d.jar \in Nat /\ d.start \in Nat /\ d.end \in Nat
        /\ d.jar <= d.start /\ d.start <= d.end /\ d.end < Len(file)
    BY <2>4 DEF Within
  <2>6. d.jar \in 0 .. Len(file)
    BY <2>5
  <2> QED  BY <2>1, <2>6
<1> QED  BY <1>3

\* open_auto: it answers with the one boundary that opens.
LEMMA AutoDecides ==
    ASSUME NEW file, Len(file) \in Nat, Numbered(file),
           NEW e \in CandidateEnds(file) \cup {Len(file)}, Open(file, Len(file) - e).ok,
           OpenAuto(file).ok
    PROVE  OpenAuto(file) = [ok |-> TRUE, end |-> e]
<1> DEFINE ends == CandidateEnds(file) \cup {Len(file)}
           result == [x \in ends |-> Open(file, Len(file) - x)]
           opened == {x \in ends : result[x].ok}
           failed == {x \in ends : ~result[x].ok /\ result[x].kind # "Invalid"}
<1>1. OpenAuto(file) = Decide(opened, failed)
  BY DEF OpenAuto
<1>2. e \in opened
  OBVIOUS
<1>3. IsFiniteSet(opened)
  <2>1. opened \subseteq 0 .. Len(file)
    BY CandidatesWithin
  <2> DEFINE places == 0 .. Len(file)
  <2>2. IsFiniteSet(places)
    BY FS_Interval
  <2>3. opened \in SUBSET places
    BY <2>1
  <2> HIDE DEF opened, places
  <2> QED  BY <2>2, <2>3, FS_Subset
<1> HIDE DEF opened, failed
<1>4. \A kind : Fail(kind).ok = FALSE
  BY DEF Fail
<1>5. /\ Cardinality(opened) = 1
      /\ OpenAuto(file) = [ok |-> TRUE, end |-> CHOOSE x \in opened : TRUE]
  BY <1>1, <1>4 DEF Decide
<1>6. PICK x : opened = {x}
  BY <1>3, <1>5, FS_Singleton
<1>7. (CHOOSE y \in opened : TRUE) = e
  BY <1>2, <1>6
<1> QED  BY <1>5, <1>7

\* A writer's run before an archive, all of whose ZIP records have numbers.
WrittenBefore(Cell, Info, Section, sections, metadata, kind, payload, header, tail) ==
    /\ Written(Cell, Info, Section, sections, metadata, kind, payload, header, tail)
    /\ \A c \in Cell : RecordNumbers(c)
    /\ Window \in Nat

(* open_auto finds the boundary that Writer had: on what was written, with *)
(* nothing after it or with an archive in which candidate_ends sees a JAR  *)
(* from its first cell on, it answers with the end of the container, or    *)
(* with an error when another boundary opens as well.  Whatever the        *)
(* sections contain, it never takes another place for the end.             *)
THEOREM AutoFindsWritten ==
    ASSUME NEW Cell, NEW Info, NEW Section, NEW sections, NEW metadata, NEW kind, NEW payload,
           NEW header, NEW tail,
           WrittenBefore(Cell, Info, Section, sections, metadata, kind, payload, header, tail),
           tail = << >> \/ 0 \in CandidateEnds(tail),
           NEW file, file = WrittenFile(sections, metadata, kind, payload, header, tail),
           OpenAuto(file).ok
    PROVE  OpenAuto(file) = [ok |-> TRUE, end |-> Len(file) - Len(tail)]
<1> DEFINE w == WriteSections(sections)
           meta == Sealed(w, metadata, kind, payload)
           footer == [t |-> "end", metadata |-> 2, file |-> Len(w.cells) + 2]
           h == Len(header)
           c == Len(w.cells)
           n == Len(tail)
           k == h + c + 2
<1>0. Reads(Cell, Info, sections, w, meta, FinishWith(w, metadata, kind, payload),
            header, tail, file)
  BY WrittenReader DEF WrittenBefore
<1>1. /\ Wrote(Cell, w, sections, Len(sections))
      /\ Places(file, header, w.cells, meta, footer, tail)
      /\ Open(file, n).ok
  <2> HIDE DEF w, meta
  <2> QED  BY <1>0 DEF Reads
<1>2. /\ header \in Seq(Cell) /\ tail \in Seq(Cell) /\ w.cells \in Seq(Cell)
      /\ \A x \in Cell : RecordNumbers(x)
  <2>1. w.cells \in Seq(Cell)
    <3> HIDE DEF w
    <3> QED  BY <1>1 DEF Wrote
  <2> QED  BY <2>1 DEF WrittenBefore, Written
<1>3. meta.t = "metadata" /\ footer.t = "end"
  BY DEF Sealed
<1> HIDE DEF w, meta, footer
<1>4. h \in Nat /\ c \in Nat /\ n \in Nat
  BY <1>2
<1>5. /\ Len(file) = h + c + 2 + n
      /\ \A i \in 1 .. h : file[i] = header[i]
      /\ \A i \in 1 .. c : file[h + i] = w.cells[i]
      /\ file[h + c + 1] = meta
      /\ file[k] = footer
      /\ \A i \in 1 .. n : file[k + i] = tail[i]
  BY <1>1 DEF Places
<1>6. /\ \A i \in 1 .. h : header[i] \in Cell
      /\ \A i \in 1 .. c : w.cells[i] \in Cell
      /\ \A i \in 1 .. n : tail[i] \in Cell
  BY <1>2
<1>7. RecordNumbers(meta) /\ RecordNumbers(footer)
  BY <1>3 DEF RecordNumbers
<1> HIDE DEF h, c, n
<1>8. k \in Nat /\ k # 0 /\ Len(file) = k + n /\ Len(file) \in Nat /\ Len(file) - n = k
      /\ Len(file) - k = n
  BY <1>4, <1>5
<1>9. \A j \in 1 .. Len(file) : RecordNumbers(file[j])
  <2> TAKE j \in 1 .. Len(file)
  <2>1. CASE j <= h
    <3>1. j \in 1 .. h
      BY <1>4, <2>1
    <3> QED  BY <1>2, <1>5, <1>6, <3>1
  <2>2. CASE ~ (j <= h) /\ j <= h + c
    <3>1. j - h \in 1 .. c /\ h + (j - h) = j
      BY <1>4, <2>2
    <3> QED  BY <1>2, <1>5, <1>6, <3>1
  <2>3. CASE j = h + c + 1
    BY <1>5, <1>7, <2>3
  <2>4. CASE j = k
    BY <1>5, <1>7, <2>4
  <2>5. CASE ~ (j <= k)
    <3>1. j - k \in 1 .. n /\ k + (j - k) = j
      BY <1>4, <1>8, <2>5
    <3> HIDE DEF k
    <3> QED  BY <1>2, <1>5, <1>6, <3>1
  <2>6. \/ j <= h \/ (~ (j <= h) /\ j <= h + c) \/ j = h + c + 1 \/ j = k \/ ~ (j <= k)
    BY <1>4, <1>8
  <2> QED  BY <2>1, <2>2, <2>3, <2>4, <2>5, <2>6
<1>10. Numbered(file)
  <2>1. \A q \in 0 .. (Len(file) - 1) : q + 1 \in 1 .. Len(file)
    BY <1>8
  <2> QED  BY <1>9, <2>1 DEF Numbered
<1> HIDE DEF k
<1>11. k \in CandidateEnds(file) \cup {Len(file)}
  <2>1. CASE tail = << >>
    <3>1. n = 0
      BY <2>1 DEF n
    <3> QED  BY <1>8, <3>1
  <2>2. CASE 0 \in CandidateEnds(tail)
    <3>1. \A q \in 0 .. (n - 1) : q + 1 \in 1 .. n /\ k + (q + 1) = (k + q) + 1
      BY <1>4, <1>8
    <3>2. \A q \in 0 .. (n - 1) : file[(k + q) + 1] = tail[q + 1] /\ RecordNumbers(tail[q + 1])
      <4> TAKE q \in 0 .. (n - 1)
      <4>1. q + 1 \in 1 .. n /\ k + (q + 1) = (k + q) + 1
        BY <3>1
      <4>2. file[k + (q + 1)] = tail[q + 1]
        BY <1>5, <4>1
      <4>3. RecordNumbers(tail[q + 1])
        BY <1>2, <1>6, <4>1
      <4> QED  BY <4>1, <4>2, <4>3
    <3>3. EndsWith(file, tail, k)
      BY <1>3, <1>4, <1>5, <1>8, <3>2 DEF EndsWith, n
    <3>4. Numbered(tail) /\ Window \in Nat
      BY <3>2 DEF Numbered, n, WrittenBefore
    <3>5. 0 + k \in CandidateEnds(file)
      BY <1>8, <2>2, <3>3, <3>4, CandidatesMove
    <3> QED  BY <1>8, <3>5
  <2> QED  BY <2>1, <2>2
<1>12. Open(file, Len(file) - k).ok
  BY <1>1, <1>8
<1>13. OpenAuto(file) = [ok |-> TRUE, end |-> k]
  BY <1>8, <1>10, <1>11, <1>12, AutoDecides
<1> QED  BY <1>8, <1>13 DEF n

-----------------------------------------------------------------------------
(* SDK selectors: what target() writes, parse() reads.                     *)

\* A request has a product of the table, a version, a variant and, if the product is for a
\* platform, a platform.
IsRequest(r) ==
    /\ r = [product |-> r.product, version |-> r.version, variant |-> r.variant, platform |-> r.platform]
    /\ r.product \in DOMAIN Products
    /\ r.platform = << >> \/ \E o, a, l : r.platform = <<[os |-> o, arch |-> a, libc |-> l]>>

LEMMA NamesAreTexts ==
    \A t \in SR!KnownArches \cup {"windows", "linux", "macos", "freebsd", "glibc", "musl", "native"} :
       t # SR!NoText
BY Zenon DEF SR!KnownArches, SR!NoText

\* The qualifiers that target() writes.
LEMMA TargetQualifiers ==
    ASSUME NEW v, NEW o, NEW a, NEW l, NEW s,
           s = <<<<"variant", v>>>> \/ s = <<<<"variant", v>>, <<"os", o>>, <<"arch", a>>, <<"libc", l>>>>,
           NEW selector, selector.qualifiers = s, NEW d
    PROVE  /\ SR!Qualifier(selector, "variant", d) = v
           /\ SR!Qualifier(selector, "os", d) = IF Len(s) = 1 THEN d ELSE o
           /\ SR!Qualifier(selector, "arch", d) = IF Len(s) = 1 THEN d ELSE a
           /\ SR!Qualifier(selector, "libc", d) = IF Len(s) = 1 THEN d ELSE l
<1> DEFINE Given(key) == {q \in SR!ToSet(s) : q[1] = key}
<1>1. \A key : SR!Qualifier(selector, key, d)
                 = IF Given(key) = {} THEN d ELSE (CHOOSE q \in Given(key) : TRUE)[2]
  BY DEF SR!Qualifier
<1>2. \A key, q : Given(key) = {q} => SR!Qualifier(selector, key, d) = q[2]
  BY <1>1
<1>3. CASE s = <<<<"variant", v>>>>
  <2>1. SR!ToSet(s) = {<<"variant", v>>} /\ Len(s) = 1
    BY <1>3 DEF SR!ToSet
  <2>2. Given("variant") = {<<"variant", v>>} /\ Given("os") = {} /\ Given("arch") = {} /\ Given("libc") = {}
    BY <2>1
  <2> HIDE DEF Given
  <2> QED  BY <1>1, <1>2, <2>1, <2>2
<1>4. CASE s = <<<<"variant", v>>, <<"os", o>>, <<"arch", a>>, <<"libc", l>>>>
  <2>1. SR!ToSet(s) = {<<"variant", v>>, <<"os", o>>, <<"arch", a>>, <<"libc", l>>} /\ Len(s) = 4
    BY <1>4 DEF SR!ToSet
  <2>2. /\ Given("variant") = {<<"variant", v>>} /\ Given("os") = {<<"os", o>>}
        /\ Given("arch") = {<<"arch", a>>} /\ Given("libc") = {<<"libc", l>>}
    BY <2>1
  <2> HIDE DEF Given
  <2> QED  BY <1>2, <2>1, <2>2
<1> QED  BY <1>3, <1>4


LEMMA JoinedIs ==
    ASSUME NEW a, NEW b, NEW c, NEW d
    PROVE  <<a>> \o <<b, c, d>> = <<a, b, c, d>>
<1> DEFINE S == {a, b, c, d}
           s == <<a>> \o <<b, c, d>>
           t == <<a, b, c, d>>
<1>1. <<a>> \in Seq(S) /\ <<b, c, d>> \in Seq(S) /\ t \in Seq(S)
  OBVIOUS
<1>2. Len(<<a>>) = 1 /\ Len(<<b, c, d>>) = 3 /\ Len(t) = 4
  OBVIOUS
<1>3. s \in Seq(S) /\ Len(s) = 4
  BY <1>1, <1>2
<1>4. s[1] = a /\ s[2] = b /\ s[3] = c /\ s[4] = d
  OBVIOUS
<1>5. \A i \in 1 .. 4 : s[i] = t[i]
  <2>1. \A i \in 1 .. 4 : i = 1 \/ i = 2 \/ i = 3 \/ i = 4
    OBVIOUS
  <2>2. t[1] = a /\ t[2] = b /\ t[3] = c /\ t[4] = d
    OBVIOUS
  <2> HIDE DEF s, t
  <2> QED  BY <1>4, <2>1, <2>2
<1>6. s = t
  <2> HIDE DEF s, t, S
  <2> QED  BY <1>1, <1>2, <1>3, <1>5, SameElements
<1> QED  BY <1>6

LEMMA TargetQualified ==
    ASSUME NEW v, NEW o, NEW a, NEW l, NEW s, v # SR!NoText,
           \/ s = <<<<"variant", v>>>>
           \/ /\ s = <<<<"variant", v>>, <<"os", o>>, <<"arch", a>>, <<"libc", l>>>>
              /\ o # SR!NoText /\ a # SR!NoText /\ l # SR!NoText
    PROVE  ~ SR!QualifiersFail(s) /\ (Len(s) = 1 => \A q \in SR!ToSet(s) : q[1] = "variant")
<1>1. CASE s = <<<<"variant", v>>>>
  <2>1. SR!ToSet(s) = {<<"variant", v>>} /\ DOMAIN s = 1 .. 1
    BY <1>1 DEF SR!ToSet
  <2>2. \A i, j \in DOMAIN s : ~ (i < j)
    BY <2>1
  <2> QED  BY <2>1, <2>2 DEF SR!QualifiersFail
<1>2. CASE /\ s = <<<<"variant", v>>, <<"os", o>>, <<"arch", a>>, <<"libc", l>>>>
           /\ o # SR!NoText /\ a # SR!NoText /\ l # SR!NoText
  <2>1. /\ SR!ToSet(s) = {<<"variant", v>>, <<"os", o>>, <<"arch", a>>, <<"libc", l>>}
        /\ DOMAIN s = 1 .. 4 /\ Len(s) = 4
    BY <1>2 DEF SR!ToSet
  <2>2. s[1][1] = "variant" /\ s[2][1] = "os" /\ s[3][1] = "arch" /\ s[4][1] = "libc"
    BY <1>2
  <2>3. \A i \in 1 .. 4 : i = 1 \/ i = 2 \/ i = 3 \/ i = 4
    OBVIOUS
  <2>4. \A i, j \in DOMAIN s : i < j => s[i][1] # s[j][1]
    BY <2>1, <2>2, <2>3
  <2>5. \A q \in SR!ToSet(s) : q[1] \in {"variant", "os", "arch", "libc"} /\ q[2] # SR!NoText
    BY <1>2, <2>1
  <2> QED  BY <2>1, <2>4, <2>5 DEF SR!QualifiersFail
<1> QED  BY <1>1, <1>2

\* The target of a valid request, as parse, the registry or the project file has it, reads
\* as that request on every host.
LEMMA TargetRead ==
    ASSUME SR!TablesAgree, NEW r, IsRequest(r), ~ SR!RequestFails(r), NEW host
    PROVE  SR!Parse(SR!Target(r), host) = SR!Ok(r)
<1> DEFINE t == SR!Target(r)
           p == r.platform[1]
           s == t.qualifiers
           product == Products[r.product]
           request == [product |-> r.product,
                       version |-> r.version,
                       variant |-> SR!Qualifier(t, "variant", product.variants[1]),
                       platform |-> IF product.specific THEN <<SR!Targeted(t, host)>> ELSE << >>]
<1> DEFINE IsPlatform(x) == x = [os |-> x.os, arch |-> x.arch, libc |-> x.libc]
<1>1. /\ r.product \in DOMAIN Products
      /\ r.platform = << >> \/ (r.platform = <<p>> /\ IsPlatform(p))
      /\ r = [product |-> r.product, version |-> r.version, variant |-> r.variant, platform |-> r.platform]
  BY DEF IsRequest
<1>2. /\ t.prefix = "sdk" /\ t.id = r.product /\ t.version = <<r.version>>
      /\ s = <<<<"variant", r.variant>>>> \o
               (IF r.platform = << >> THEN << >>
                ELSE <<<<"os", p.os>>, <<"arch", p.arch>>, <<"libc", p.libc>>>>)
  BY DEF SR!Target
<1>3. /\ r.variant \in SR!ToSet(product.variants)
      /\ (r.platform # << >>) = product.specific
      /\ \A x \in SR!ToSet(r.platform) : ~ SR!PlatformFails(x)
  BY DEF SR!RequestFails
<1>a. product.specific <=> r.platform # << >>
  BY <1>3
<1>4. r.variant # SR!NoText
  BY <1>1, <1>3 DEF SR!TablesAgree
<1>5. SR!ProductId(t.id) = r.product
  BY <1>1, <1>2 DEF SR!ProductId, SR!TablesAgree
<1> HIDE DEF t
<1>6. SR!Parse(t, host)
        = IF SR!QualifiersFail(s) THEN SR!Fail
          ELSE IF ~ product.specific /\ \E q \in SR!ToSet(s) : q[1] # "variant" THEN SR!Fail
          ELSE IF SR!RequestFails(request) THEN SR!Fail ELSE SR!Ok(request)
  <2>1. t.version # << >> /\ t.version[1] = r.version
    BY <1>2
  <2> QED  BY <1>1, <1>2, <1>5, <2>1 DEF SR!Parse
<1>7. CASE r.platform = << >>
  <2>1. s = <<<<"variant", r.variant>>>>
    BY <1>2, <1>7
  <2>2. Len(s) = 1
    BY <2>1
  <2>3. ~ SR!QualifiersFail(s) /\ \A q \in SR!ToSet(s) : q[1] = "variant"
    BY <1>4, <2>1, <2>2, TargetQualified
  <2>4. SR!Qualifier(t, "variant", product.variants[1]) = r.variant
    BY <2>1, TargetQualifiers
  <2>5. ~ product.specific
    BY <1>a, <1>7
  <2>6. request = r
    BY <1>1, <1>7, <2>4, <2>5
  <2> HIDE DEF request, s, product
  <2> QED  BY <1>6, <2>3, <2>6 DEF t
<1>8. CASE r.platform = <<p>> /\ IsPlatform(p)
  <2>1. s = <<<<"variant", r.variant>>, <<"os", p.os>>, <<"arch", p.arch>>, <<"libc", p.libc>>>>
    <3>1. r.platform # << >>
      BY <1>8
    <3>2. \A a, b, c, d : <<a>> \o <<b, c, d>> = <<a, b, c, d>>
      BY JoinedIs
    <3>3. s = <<<<"variant", r.variant>>>> \o <<<<"os", p.os>>, <<"arch", p.arch>>, <<"libc", p.libc>>>>
      BY <1>2, <3>1
    <3> HIDE DEF p, s
    <3> QED  BY <3>2, <3>3
  <2>2. Len(s) = 4
    BY <2>1
  <2>3. ~ SR!PlatformFails(p)
    <3>1. p \in SR!ToSet(r.platform)
      BY <1>8 DEF SR!ToSet
    <3> QED  BY <1>3, <3>1
  <2>4. p.os # SR!NoText /\ p.arch \in SR!KnownArches /\ p.libc # SR!NoText /\ p.arch # SR!NoText
    <3>1. /\ p.os \in {"windows", "linux", "macos", "freebsd"} /\ p.arch \in SR!KnownArches
          /\ p.libc \in {"glibc", "musl", "native"}
      BY <2>3 DEF SR!PlatformFails, SR!KnownArches
    <3> QED  BY <3>1, NamesAreTexts
  <2>5. ~ SR!QualifiersFail(s)
    BY <1>4, <2>1, <2>4, TargetQualified
  <2>6. \A d : /\ SR!Qualifier(t, "variant", d) = r.variant
               /\ SR!Qualifier(t, "os", d) = p.os
               /\ SR!Qualifier(t, "arch", d) = p.arch
               /\ SR!Qualifier(t, "libc", d) = p.libc
    <3> TAKE d
    <3> HIDE DEF s, p
    <3>1. t.qualifiers = s
      BY DEF s
    <3> QED  BY <2>1, <2>2, <3>1, TargetQualifiers
  <2>7. SR!NormalizeArch(p.arch) = p.arch
    BY <2>4 DEF SR!NormalizeArch, SR!TablesAgree
  <2>8. SR!Targeted(t, host) = p
    <3>1. SR!Targeted(t, host) = [os |-> p.os, arch |-> p.arch, libc |-> p.libc]
      BY <2>6, <2>7 DEF SR!Targeted
    <3>2. p = [os |-> p.os, arch |-> p.arch, libc |-> p.libc]
      BY <1>8
    <3> QED  BY <3>1, <3>2
  <2>9. product.specific
    BY <1>a, <1>8
  <2>10. request = r
    BY <1>1, <1>8, <2>6, <2>8, <2>9
  <2> HIDE DEF request, s, product
  <2> QED  BY <1>6, <2>5, <2>9, <2>10 DEF t
<1> QED  BY <1>1, <1>7, <1>8 DEF t

\* SdkRequest::parse and target: whatever selector is accepted on a host, the target of its
\* request is accepted on every host and means the same product, version, variant and
\* platform there.
THEOREM TargetReadsBack ==
    ASSUME SR!TablesAgree, NEW selector, NEW host, NEW other, SR!Parse(selector, host).ok
    PROVE  SR!Parse(SR!Target(SR!Parse(selector, host).value), other) = SR!Parse(selector, host)
<1> DEFINE id == SR!ProductId(selector.id)
           product == Products[id]
           request == [product |-> id,
                       version |-> IF selector.version = << >> THEN SR!Latest ELSE selector.version[1],
                       variant |-> SR!Qualifier(selector, "variant", product.variants[1]),
                       platform |-> IF product.specific THEN <<SR!Targeted(selector, host)>> ELSE << >>]
<1>1. SR!Parse(selector, host) # SR!Fail
  BY DEF SR!Fail
<1>2. /\ id \in DOMAIN Products /\ ~ SR!RequestFails(request)
      /\ SR!Parse(selector, host) = SR!Ok(request)
  BY <1>1 DEF SR!Parse
<1>3. IsRequest(request)
  <2>1. \E o, a, l : SR!Targeted(selector, host) = [os |-> o, arch |-> a, libc |-> l]
    BY DEF SR!Targeted
  <2>2. request.platform = << >> \/ \E o, a, l : request.platform = <<[os |-> o, arch |-> a, libc |-> l]>>
    BY <2>1
  <2>3. request.product = id
    OBVIOUS
  <2> QED  BY <1>2, <2>2, <2>3 DEF IsRequest
<1>4. SR!Parse(selector, host).value = request
  BY <1>2 DEF SR!Ok
<1> HIDE DEF request
<1> QED  BY <1>2, <1>3, <1>4, TargetRead

-----------------------------------------------------------------------------
(* SDK releases: a release that a request accepts can take its place.      *)

\* A version text: its numbers and at most one build number.
Numerals == [value : Nat, zeros : Nat, digits : BOOLEAN]
VersionTexts == [numbers : Seq(Numerals), build : {b \in Seq(Numerals) : Len(b) <= 1}]

\* A version that names one release: more than a series of Java.
NamesRelease(v) == Len(v.numbers) > 1 \/ v.build # << >>

LEMMA ValuesAre ==
    ASSUME NEW s \in Seq(Numerals)
    PROVE  SR!Values(s) \in Seq(Nat) /\ Len(SR!Values(s)) = Len(s)
<1>1. \A i \in DOMAIN s : s[i].value \in Nat
  <2>1. \A n \in Numerals : n.value \in Nat
    BY DEF Numerals
  <2>2. \A i \in DOMAIN s : s[i] \in Numerals
    OBVIOUS
  <2> QED  BY <2>1, <2>2
<1>2. SR!Values(s) = [i \in 1 .. Len(s) |-> s[i].value]
  BY DEF SR!Values
<1> QED  BY <1>1, <1>2

LEMMA VersionFields ==
    ASSUME NEW v \in VersionTexts
    PROVE  v.numbers \in Seq(Numerals) /\ v.build \in Seq(Numerals)
BY DEF VersionTexts

\* A number that is left out is zero, so two versions whose numbers agree as far as either
\* one has them agree everywhere.
LEMMA ComponentsAgree ==
    ASSUME NEW a \in VersionTexts, NEW b \in VersionTexts,
           \A i \in DOMAIN (a.numbers \o b.numbers) : SR!Component(a, i) = SR!Component(b, i)
    PROVE  \A i \in Nat \ {0} : SR!Component(a, i) = SR!Component(b, i)
<1> DEFINE m == Len(a.numbers)
           n == Len(b.numbers)
<1>0. a.numbers \in Seq(Numerals) /\ b.numbers \in Seq(Numerals)
  BY DEF VersionTexts
<1>1. m \in Nat /\ n \in Nat
  BY <1>0
<1>2. DOMAIN (a.numbers \o b.numbers) = 1 .. (m + n)
  BY <1>0
<1>a. /\ \A i : ~ (i <= m) => SR!Component(a, i) = 0
      /\ \A i : ~ (i <= n) => SR!Component(b, i) = 0
  BY DEF SR!Component
<1> HIDE DEF m, n
<1>3. ASSUME NEW i \in Nat \ {0}  PROVE SR!Component(a, i) = SR!Component(b, i)
  <2>1. CASE i <= m + n
    <3>1. i \in DOMAIN (a.numbers \o b.numbers)
      BY <1>1, <1>2, <2>1
    <3> QED  BY <3>1
  <2>2. CASE ~ (i <= m + n)
    <3>1. ~ (i <= m) /\ ~ (i <= n)
      BY <1>1, <2>2
    <3> QED  BY <1>a, <3>1
  <2> QED  BY <2>1, <2>2
<1> QED  BY <1>3

\* java_matches: what a release of the request accepts, the request accepts.
LEMMA JavaNarrows ==
    ASSUME NEW w \in VersionTexts, NEW a \in VersionTexts, NEW b \in VersionTexts,
           NamesRelease(a), SR!JavaMatches(w, a), SR!JavaMatches(a, b)
    PROVE  SR!JavaMatches(w, b)
<1>1. ~ SR!NumericFails(a) /\ ~ SR!NumericFails(b) /\ (w = SR!Latest \/ ~ SR!NumericFails(w))
  BY DEF SR!JavaMatches
<1>a. a.numbers # << >>
  BY <1>1 DEF SR!NumericFails
<1>2. a # SR!Latest
  BY <1>a DEF SR!Latest
<1>3. ~ (Len(a.numbers) = 1 /\ a.build = << >>)
  <2>1. \A n : n = 1 => ~ (n > 1)
    OBVIOUS
  <2> QED  BY <2>1, Zenon DEF NamesRelease
<1>4. /\ \A i \in DOMAIN (a.numbers \o b.numbers) : SR!Component(a, i) = SR!Component(b, i)
      /\ a.build = << >> \/ SR!Values(b.build) = SR!Values(a.build)
  BY <1>2, <1>3 DEF SR!JavaMatches
<1>5. \A i \in Nat \ {0} : SR!Component(a, i) = SR!Component(b, i)
  BY <1>4, ComponentsAgree
<1>6. CASE w = SR!Latest
  BY <1>1, <1>6 DEF SR!JavaMatches
<1>7. CASE w # SR!Latest /\ Len(w.numbers) = 1 /\ w.build = << >>
  <2>1. SR!Component(a, 1) = SR!Component(w, 1)
    BY <1>7 DEF SR!JavaMatches
  <2>2. SR!Component(b, 1) = SR!Component(w, 1)
    BY <1>5, <2>1
  <2> QED  BY <1>1, <1>7, <2>2 DEF SR!JavaMatches
<1>8. CASE w # SR!Latest /\ ~ (Len(w.numbers) = 1 /\ w.build = << >>)
  <2>1. /\ \A i \in DOMAIN (w.numbers \o a.numbers) : SR!Component(w, i) = SR!Component(a, i)
        /\ w.build = << >> \/ SR!Values(a.build) = SR!Values(w.build)
    BY <1>8 DEF SR!JavaMatches
  <2>2. \A i \in Nat \ {0} : SR!Component(w, i) = SR!Component(a, i)
    BY <2>1, ComponentsAgree
  <2>3. \A i \in DOMAIN (w.numbers \o b.numbers) : i \in Nat \ {0}
    BY DEF VersionTexts
  <2>4. \A i \in DOMAIN (w.numbers \o b.numbers) : SR!Component(w, i) = SR!Component(b, i)
    BY <1>5, <2>2, <2>3
  <2>5. w.build = << >> \/ SR!Values(b.build) = SR!Values(w.build)
    <3>1. CASE w.build # << >>
      <4>1. SR!Values(a.build) = SR!Values(w.build)
        BY <2>1, <3>1
      <4>2. DOMAIN a.build = DOMAIN w.build
        BY <4>1 DEF SR!Values
      <4>3. a.build # << >>
        <5>1. a.build \in Seq(Numerals) /\ w.build \in Seq(Numerals)
          BY DEF VersionTexts
        <5> QED  BY <3>1, <4>2, <5>1
      <4> QED  BY <1>4, <4>1, <4>3
    <3> QED  BY <3>1
  <2> QED  BY <1>1, <1>8, <2>4, <2>5 DEF SR!JavaMatches
<1> QED  BY <1>6, <1>7, <1>8

LEMMA ToolNarrows ==
    ASSUME NEW w \in VersionTexts, NEW a \in VersionTexts, NEW b \in VersionTexts,
           SR!ToolMatches(w, a), SR!ToolMatches(a, b)
    PROVE  SR!ToolMatches(w, b)
<1> DEFINE W == SR!Values(w.numbers)
           A == SR!Values(a.numbers)
           B == SR!Values(b.numbers)
<1>1. ~ SR!ToolFails(a) /\ ~ SR!ToolFails(b) /\ (w = SR!Latest \/ ~ SR!ToolFails(w))
  BY DEF SR!ToolMatches
<1>a. a.numbers # << >>
  BY <1>1 DEF SR!ToolFails
<1>2. a # SR!Latest
  BY <1>a DEF SR!Latest
<1>3. /\ W \in Seq(Nat) /\ Len(W) = Len(w.numbers)
      /\ A \in Seq(Nat) /\ Len(A) = Len(a.numbers)
      /\ B \in Seq(Nat) /\ Len(B) = Len(b.numbers)
  BY ValuesAre, VersionFields
<1>4. (Len(a.numbers) < 3 /\ SR!IsPrefix(A, B)) \/ (~ (Len(a.numbers) < 3) /\ B = A)
  BY <1>2 DEF SR!ToolMatches
<1>5. CASE w = SR!Latest
  BY <1>1, <1>5 DEF SR!ToolMatches
<1>6. CASE w # SR!Latest
  <2>1. (Len(w.numbers) < 3 /\ SR!IsPrefix(W, A)) \/ (~ (Len(w.numbers) < 3) /\ A = W)
    BY <1>6 DEF SR!ToolMatches
  <2>2. CASE Len(w.numbers) < 3
    <3>1. SR!IsPrefix(W, A)
      BY <2>1, <2>2
    <3>2. SR!IsPrefix(W, B)
      <4>1. CASE B = A
        BY <3>1, <4>1
      <4>2. CASE SR!IsPrefix(A, B)
        <5> HIDE DEF W, A, B
        <5>1. /\ Len(W) <= Len(A) /\ SubSeq(W, 1, Len(W)) = SubSeq(A, 1, Len(W))
              /\ Len(A) <= Len(B) /\ SubSeq(A, 1, Len(A)) = SubSeq(B, 1, Len(A))
          BY <3>1, <4>2 DEF SR!IsPrefix
        <5>2. \A i \in 1 .. Len(W) : A[i] = B[i]
          <6> TAKE i \in 1 .. Len(W)
          <6>1. i \in 1 .. Len(A) /\ i \in 1 .. Len(B)
            <7> DEFINE l == Len(W)
                       m == Len(A)
                       n == Len(B)
            <7>1. i \in 1 .. l /\ l \in Nat /\ m \in Nat /\ n \in Nat /\ l <= m /\ m <= n
              BY <1>3, <5>1
            <7> HIDE DEF l, m, n
            <7>2. i \in 1 .. m /\ i \in 1 .. n
              BY <7>1
            <7> QED  BY <7>2 DEF m, n
          <6>2. SubSeq(A, 1, Len(A))[i] = A[i] /\ SubSeq(B, 1, Len(A))[i] = B[i]
            BY <1>3, <5>1, <6>1
          <6> QED  BY <5>1, <6>2
        <5>3. SubSeq(A, 1, Len(W)) = SubSeq(B, 1, Len(W))
          BY <1>3, <5>1, <5>2
        <5>4. Len(W) <= Len(B)
          BY <1>3, <5>1
        <5> QED  BY <5>1, <5>3, <5>4 DEF SR!IsPrefix
      <4> QED  BY <1>4, <4>1, <4>2
    <3> QED  BY <1>1, <2>2, <3>2 DEF SR!ToolMatches
  <2>3. CASE ~ (Len(w.numbers) < 3)
    <3>1. A = W
      BY <2>1, <2>3
    <3>2. ~ (Len(a.numbers) < 3)
      <4> HIDE DEF W, A
      <4> QED  BY <1>3, <2>3, <3>1
    <3>3. B = W
      BY <1>4, <3>1, <3>2
    <3> QED  BY <1>1, <2>3, <3>3 DEF SR!ToolMatches
  <2> QED  BY <2>2, <2>3
<1> QED  BY <1>5, <1>6

\* SdkRequest::accepts: a valid request that names a version accepts itself, and a release
\* that a request accepts can stand for it: whatever that release accepts, the request
\* accepts as well.  A series of Java is no release: `8.0` accepts `8`, which as a request
\* is all of Java 8.
THEOREM AcceptedStandsFor ==
    ASSUME NEW r, r.version \in VersionTexts
    PROVE  /\ r.version # SR!Latest /\ ~ SR!RequestFails(r) => SR!Accepts(r, r)
           /\ \A a, b : /\ a.version \in VersionTexts /\ b.version \in VersionTexts
                        /\ SR!Family(a) = "java" => NamesRelease(a.version)
                        /\ SR!Accepts(r, a) /\ SR!Accepts(a, b)
                        => SR!Accepts(r, b)
<1>1. ASSUME r.version # SR!Latest, ~ SR!RequestFails(r)  PROVE SR!Accepts(r, r)
  <2>1. CASE SR!Family(r) = "java"
    <3>1. ~ SR!NumericFails(r.version)
      BY <1>1, <2>1 DEF SR!RequestFails
    <3>2. SR!JavaMatches(r.version, r.version)
      BY <3>1 DEF SR!JavaMatches
    <3> QED  BY <2>1, <3>2 DEF SR!Accepts, SR!Matches
  <2>2. CASE SR!Family(r) # "java"
    <3>1. ~ SR!ToolFails(r.version)
      BY <1>1, <2>2 DEF SR!RequestFails
    <3>2. SR!Values(r.version.numbers) \in Seq(Nat)
      BY ValuesAre, VersionFields
    <3>3. SR!IsPrefix(SR!Values(r.version.numbers), SR!Values(r.version.numbers))
      <4> HIDE DEF SR!Values
      <4> QED  BY <3>2 DEF SR!IsPrefix
    <3> QED  BY <2>2, <3>1, <3>3 DEF SR!Accepts, SR!Matches, SR!ToolMatches
  <2> QED  BY <2>1, <2>2
<1>2. ASSUME NEW a, NEW b, a.version \in VersionTexts, b.version \in VersionTexts,
             SR!Family(a) = "java" => NamesRelease(a.version),
             SR!Accepts(r, a), SR!Accepts(a, b)
      PROVE  SR!Accepts(r, b)
  <2>1. /\ r.product = a.product /\ r.variant = a.variant /\ r.platform = a.platform
        /\ a.product = b.product /\ a.variant = b.variant /\ a.platform = b.platform
        /\ SR!Matches(r, a.version) /\ SR!Matches(a, b.version)
    BY <1>2 DEF SR!Accepts
  <2>2. SR!Family(r) = SR!Family(a)
    BY <2>1 DEF SR!Family
  <2>3. SR!Matches(r, b.version)
    <3>1. CASE SR!Family(r) = "java"
      BY <1>2, <2>1, <2>2, <3>1, JavaNarrows DEF SR!Matches
    <3>2. CASE SR!Family(r) # "java"
      BY <1>2, <2>1, <2>2, <3>2, ToolNarrows DEF SR!Matches
    <3> QED  BY <3>1, <3>2
  <2> QED  BY <2>1, <2>3 DEF SR!Accepts
<1> QED  BY <1>1, <1>2
=============================================================================
