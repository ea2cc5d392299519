------------------------------ MODULE PeReader ------------------------------
(***************************************************************************)
(* bela::pe::File (src/belawin/pe): the imports, delayed imports, exports  *)
(* and symbols of an executable file, and where its overlay begins.  The   *)
(* file is a sequence of cells: a number, a name with its zero, a hint or  *)
(* a symbol takes one, whatever its width; headers are read as a record.   *)
(* An address below that of its section wraps around to one that is out of *)
(* every range: here it is negative.                                       *)
(***************************************************************************)
EXTENDS Integers, Sequences, SequencesExt

Number(n) == [n |-> n, s |-> "", aux |-> 0]
Name(s)   == [n |-> 77, s |-> s, aux |-> 0]
OrdinalFlag == 1000
ImportWidth == 5   \* fields of a descriptor
DelayWidth == 8
ExportWidth == 11
NoName == ""

-----------------------------------------------------------------------------
(* Reading.  Offsets begin at 0, as in the code.                           *)

At(cells, offset) == cells[offset + 1]
Inside(cells, offset, width) == offset >= 0 /\ offset + width <= Len(cells)
\* cast_fromle, checked_cast and make_cstring_view of a bytes_view
Read(cells, offset) == IF Inside(cells, offset, 1) THEN At(cells, offset).n ELSE 0
CString(cells, offset) == IF Inside(cells, offset, 1) THEN At(cells, offset).s ELSE NoName

\* Slip: the first address behind a section is taken for one of it.
GetSectionOrEnd(f, dd) ==
  SelectInSeq(f.sections, LAMBDA s : s.va <= dd.va /\ dd.va - s.va <= s.vsize)
\* The first section with the directory, 0 if there is none.
GetSection(f, dd) ==
  SelectInSeq(f.sections, LAMBDA s : s.va <= dd.va /\ dd.va - s.va < s.vsize)

\* A section that ends behind the file is read as an empty one.
ReadSectionData(f, s) == IF s.offset + s.size > Len(f.cells) THEN <<>> ELSE SubSeq(f.cells, s.offset + 1, s.offset + s.size)

\* The directory k with its section and data; an image without one has nothing to look up.
Directory(f, k) ==
  LET dd == f.directories[k]
      s == f.sections[GetSection(f, dd)]
  IN  IF k \notin DOMAIN f.directories \/ GetSection(f, dd) = 0 THEN [va |-> 0, end |-> 0, offset |-> 0, size |-> 0, cells |-> <<>>]
      ELSE [va |-> s.va, end |-> dd.va + dd.size, offset |-> dd.va - s.va, size |-> s.size, cells |-> ReadSectionData(f, s)]

RECURSIVE Descriptors(_, _, _, _), Thunks(_, _)
\* The offsets of the descriptors, up to one whose field mark is zero.
Descriptors(d, offset, width, mark) ==
  IF offset >= d.size \/ ~Inside(d.cells, offset, width) \/ Read(d.cells, offset + mark) = 0 THEN <<>>
  ELSE <<offset>> \o Descriptors(d, offset + width, width, mark)

Thunks(d, offset) ==
  LET v == Read(d.cells, offset)
  IN  CASE offset < 0 \/ offset >= d.size \/ v = 0 -> <<>>
        [] v >= OrdinalFlag -> <<[name |-> NoName, index |-> 0, ordinal |-> v - OrdinalFlag]>> \o Thunks(d, offset + 1)
        [] OTHER -> <<[name |-> CString(d.cells, v - d.va + 1), index |-> Read(d.cells, v - d.va), ordinal |-> 0]>>
                      \o Thunks(d, offset + 1)

GetIndex(fn) == IF fn.ordinal # 0 THEN fn.ordinal ELSE fn.index
Sorted(fns) == SortSeq(fns, LAMBDA a, b : GetIndex(a) < GetIndex(b))
\* flat_hash_map::emplace: the first of a name stays.
Emplace(map, name, fns) == IF name \in DOMAIN map THEN map ELSE map @@ (name :> fns)
Nothing == [x \in {} |-> <<>>]

ImportsIn(d) ==
  FoldLeft(LAMBDA map, o : Emplace(map, CString(d.cells, Read(d.cells, o + 3) - d.va),
                                   Sorted(Thunks(d, Read(d.cells, o) - d.va))),
           Nothing, Descriptors(d, d.offset, ImportWidth, 0))
LookupImports(f) == ImportsIn(Directory(f, "import"))

\* A table of names outside of the section ends the search: vsize is its virtual size,
\* which the code compares with here.
DelayImportsIn(d, vsize, all) ==
  LET out == SelectInSeq(all, LAMBDA o : Read(d.cells, o + 4) < d.va \/ Read(d.cells, o + 4) > d.va + vsize)
  IN  FoldLeft(LAMBDA map, o : Emplace(map, CString(d.cells, Read(d.cells, o + 1) - d.va),
                                       Sorted(Thunks(d, Read(d.cells, o + 4) - d.va))),
               Nothing, IF out = 0 THEN all ELSE SubSeq(all, 1, out - 1))
LookupDelayImports(f) ==
  LET d == Directory(f, "delay")
  IN  IF d.cells = <<>> THEN Nothing
      ELSE DelayImportsIn(d, f.sections[GetSection(f, f.directories["delay"])].vsize, Descriptors(d, d.offset, DelayWidth, 2))

Field(d, k) == Read(d.cells, d.offset + k)
Table(d, k, i) == Read(d.cells, Field(d, k) - d.va + i)
Forward(d, a) == IF a > d.va + d.offset /\ a < d.end THEN CString(d.cells, a - d.va) ELSE NoName
Exported(d, i, a) == [address |-> a, forward |-> Forward(d, a), ordinal |-> i + Field(d, 5), name |-> NoName, hint |-> -1]
ExportsIn(d) ==
  IF ~Inside(d.cells, d.offset, ExportWidth) \/ Field(d, 6) = 0 \/ Field(d, 8) = 0 THEN <<>>
  ELSE FoldLeft(LAMBDA es, i : LET k == Table(d, 10, i) + 1
                               IN  IF k > Len(es) THEN es
                                   ELSE [es EXCEPT ![k].name = CString(d.cells, Table(d, 9, i) - d.va), ![k].hint = i],
                [i \in 1 .. Field(d, 6) |-> Exported(d, i - 1, Table(d, 8, i - 1))], [i \in 1 .. Field(d, 7) |-> i - 1])
LookupExports(f) == ExportsIn(Directory(f, "export"))

\* readStringTable: what is behind the symbols, its length first, which counts itself.
StringTable(f) ==
  LET offset == f.symbols + f.nsymbols
      l == At(f.cells, offset).n
  IN  IF f.symbols = 0 \/ offset + 1 >= Len(f.cells) \/ l <= 1 \/ l + offset > Len(f.cells) THEN <<>>
      ELSE SubSeq(f.cells, offset + 2, offset + l)

\* removeAuxSymbols
RECURSIVE Primary(_)
Primary(symbols) ==
  IF symbols = <<>> THEN <<>>
  ELSE <<symbols[1]>> \o Primary(SubSeq(symbols, symbols[1].aux + 2, Len(symbols)))
\* A name of a symbol or a section that is too long for its field is in the string table.
FullName(f, c) == IF c.s # NoName THEN c.s ELSE IF c.n < 1 THEN NoName ELSE CString(StringTable(f), c.n - 1)
LookupSymbols(f) ==
  LET symbols == IF f.symbols = 0 \/ f.symbols + f.nsymbols > Len(f.cells) THEN <<>>
                 ELSE SubSeq(f.cells, f.symbols + 1, f.symbols + f.nsymbols)
      primary == Primary(symbols)
  IN  [i \in DOMAIN primary |-> FullName(f, primary[i])]
SectionNames(f) == [i \in DOMAIN f.sections |-> FullName(f, f.sections[i].name)]

OverlayOffset(f) == FoldLeft(LAMBDA m, s : IF s.offset + s.size > m THEN s.offset + s.size ELSE m, -1, f.sections)

-----------------------------------------------------------------------------
(* Images.  Each is laid out from items: a library with its functions,     *)
(* linked or delayed, an exported function or a symbol.                    *)

Sum(s) == FoldLeft(+, 0, s)
Numbers(s) == [i \in DOMAIN s |-> Number(s[i])]

\* A directory of libraries at the address b, with the fields for their names and functions.
Libraries(items, b, width, dllField, namesField) ==
  LET n == Len(items)
      Length(i) == 3 * Len(items[i].functions) + 2
      Start(i) == b + width * (n + 1) + Sum([j \in 1 .. i - 1 |-> Length(j)])
      Descriptor(i) == [k \in 1 .. width |->
        CASE k = dllField + 1 -> Start(i) + Len(items[i].functions) + 1 [] k = namesField + 1 -> Start(i) [] OTHER -> 9]
      Block(i) ==
        LET fns == items[i].functions
            Hint(j) == Start(i) + Len(fns) + 2 * j
        IN  Numbers([j \in DOMAIN fns |-> IF fns[j].ordinal # 0 THEN OrdinalFlag + fns[j].ordinal ELSE Hint(j)])
              \o <<Number(0), Name(items[i].dll)>>
              \o FlattenSeq([j \in DOMAIN fns |-> <<Number(fns[j].index), Name(fns[j].name)>>])
  IN  Numbers(FlattenSeq([i \in 1 .. n |-> Descriptor(i)]) \o [k \in 1 .. width |-> 0])
        \o FlattenSeq([i \in 1 .. n |-> Block(i)])

\* The table of names goes backwards, so that a hint is not the place of the function.
OrdinalBase == 5
Code == 50 \* an address in the text
Exports(items, b) ==
  LET n == Len(items)
      named == SelectSeq([i \in 1 .. n |-> n + 1 - i], LAMBDA i : items[i].name # NoName)
      m == Len(named)
      forwards == b + ExportWidth + n + 3 * m
  IN  Numbers(<<9, 9, 9, 9, 9, OrdinalBase, n, m, b + ExportWidth, b + ExportWidth + n, b + ExportWidth + n + m>>
                \o [i \in 1 .. n |-> IF items[i].forward = NoName THEN Code + i ELSE forwards + i - 1]
                \o [i \in 1 .. m |-> b + ExportWidth + n + 2 * m + i - 1]
                \o [i \in 1 .. m |-> named[i] - 1])
        \o [i \in 1 .. m |-> Name(items[named[i]].name)]
        \o [i \in 1 .. n |-> Name(items[i].forward)]
ExportsMeant(items, first) ==
  [i \in DOMAIN items |->
     [address |-> IF items[i].forward = NoName THEN Code + i
                  ELSE first + ExportWidth + Len(items) + 3 * Len(SelectSeq(items, LAMBDA t : t.name # NoName)) + i - 1,
      forward |-> items[i].forward, ordinal |-> OrdinalBase + i - 1, name |-> items[i].name,
      hint |-> IF items[i].name = NoName THEN -1
               ELSE Len(SelectSeq(SubSeq(items, i + 1, Len(items)), LAMBDA t : t.name # NoName))]]

Kind(items, k) == SelectSeq(items, LAMBDA t : t.kind = k)
Headers == 2
\* Of each section, what is in it if it begins at the address b.
Names == <<"text", "import", "delay", "export">>
Data(items, k, b) ==
  CASE k = "text" -> <<Number(9), Number(9)>>
    [] k = "import" -> Libraries(Kind(items, k), b, ImportWidth, 3, 0)
    [] k = "delay" -> Libraries(Kind(items, k), b, DelayWidth, 1, 4)
    [] k = "export" -> Exports(Kind(items, k), b)

\* Sections that follow on one another in memory, each with a cell of padding in the file.
Place(laid, k, data) ==
  [va |-> laid.va + Len(data), raw |-> laid.raw \o Append(data, Number(0)),
   sections |-> Append(laid.sections,
     [name |-> IF k = "import" THEN Number(1) ELSE Name(".text"), va |-> laid.va, vsize |-> Len(data),
      size |-> Len(data) + 1, offset |-> Headers + Len(laid.raw)])]
Sections(items) ==
  FoldLeft(LAMBDA laid, k : Place(laid, k, Data(items, k, laid.va)), [va |-> 98, raw |-> <<>>, sections |-> <<>>], Names)

\* A symbol with what belongs to it; before long names are in the string table already.
Symbol(t, before) ==
  <<[n |-> IF t.long THEN before + 2 ELSE 0, s |-> IF t.long THEN NoName ELSE t.name, aux |-> t.aux]>>
    \o [k \in 1 .. t.aux |-> [n |-> 9, s |-> "aux", aux |-> 9]]
Long(symbols) == SelectSeq(symbols, LAMBDA t : t.long)
Symbols(symbols) ==
  FlattenSeq([i \in DOMAIN symbols |-> Symbol(symbols[i], Len(Long(SubSeq(symbols, 1, i - 1))))])

WithSymbols(laid, table, long) ==
  [cells |-> Numbers(<<9, 9>>) \o laid.raw \o table
               \o <<Number(Len(long) + 2), Name(".sectionname")>> \o [i \in DOMAIN long |-> Name(long[i].name)],
   sections |-> laid.sections,
   directories |-> [k \in {"import", "delay", "export"} |->
     LET s == laid.sections[SelectInSeq(Names, LAMBDA n : n = k)] IN [va |-> s.va, size |-> s.vsize]],
   symbols |-> Headers + Len(laid.raw), nsymbols |-> Len(table)]
Image(items) == WithSymbols(Sections(items), Symbols(Kind(items, "symbol")), Long(Kind(items, "symbol")))

Function(name, index, ordinal) == [name |-> name, index |-> index, ordinal |-> ordinal]
Items ==
  [kind : {"import", "delay"}, dll : {"a", "b"},
   functions : {<<>>, <<Function("g", 7, 0)>>, <<Function("h", 2, 0), Function(NoName, 0, 4), Function("g", 1, 0)>>}]
  \cup [kind : {"export"}, name : {NoName, "f"}, forward : {NoName, "b.g"}]
  \cup [kind : {"symbol"}, name : {"s"}, long : BOOLEAN, aux : 0 .. 1]

\* What a library is imported for is found if it is imported once.
LibrariesMeant(map, items) ==
  /\ DOMAIN map = {items[i].dll : i \in DOMAIN items}
  /\ \A i \in DOMAIN items :
       (\A j \in DOMAIN items : items[j].dll = items[i].dll => j = i) =>
         /\ ToSet(map[items[i].dll]) = ToSet(items[i].functions)
         /\ \A p, q \in DOMAIN map[items[i].dll] :
              p < q => GetIndex(map[items[i].dll][p]) <= GetIndex(map[items[i].dll][q])
ReadAs(f, items) ==
  /\ LibrariesMeant(LookupImports(f), Kind(items, "import"))
  /\ LibrariesMeant(LookupDelayImports(f), Kind(items, "delay"))
  /\ LookupExports(f) = ExportsMeant(Kind(items, "export"), f.directories["export"].va)
  /\ LookupSymbols(f) = [i \in DOMAIN Kind(items, "symbol") |-> Kind(items, "symbol")[i].name]
  /\ SectionNames(f) = <<".text", ".sectionname", ".text", ".text">>
  /\ OverlayOffset(f) = f.symbols
ReadsBack(items) == ReadAs(Image(items), items)
=============================================================================
