----------------------------- MODULE ElfReader -----------------------------
(***************************************************************************)
(* hazel::elf::File (src/hazel/elf, include/hazel/elf.hpp): the sections,  *)
(* symbols and their versions, and the dynamic strings of an ELF file.     *)
(* The file is a sequence of cells: a number or a name with its zero takes *)
(* one, whatever its width.  Numbers have two bytes here, in the order of  *)
(* the file; fields that only are copied are left out.                     *)
(***************************************************************************)
EXTENDS Integers, Sequences, SequencesExt

Number(n) == [n |-> n, s |-> ""]
Name(s)   == [n |-> 77, s |-> s]
Swap(n)   == 256 * (n % 256) + n \div 256

Magic == 127
Class32 == 1
Class64 == 2
Lsb == 1
Msb == 2
Null == 0
SymTab == 2
StrTab == 3
Dynamic == 6
DynSym == 11
VerNeed == 65534
VerSym == 65535
Needed == 1
SoName == 14
RPath == 15
RunPath == 29
Compressed == 2048
StbGlobal == 1
ShnUndef == 0

\* Widths of what is in the file, and the most headers a table may have.
IdentWidth == 4
EhdrWidth == 12
PhdrWidth == 4
ShdrWidth == 6
SymWidth == 5
NeedWidth == 5
MaxHeaders == 10000

EndianCast(f, n) == IF f.big THEN Swap(n) ELSE n
Word(f, cells, offset) == EndianCast(f, cells[offset + 1].n)
\* fd.ReadAt reads all or fails.
Readable(f, offset, width) == offset + width <= Len(f.cells)
CString(cells, offset) == IF offset < Len(cells) THEN cells[offset + 1].s ELSE ""

-----------------------------------------------------------------------------
(* Opening.                                                                *)

Opened(cells) ==
  [ok |-> FALSE, cells |-> cells, wide |-> FALSE, big |-> FALSE, progs |-> <<>>, sections |-> <<>>,
   gnuNeed |-> <<>>, gnuVersym |-> <<>>]

Header(f) ==
  [version |-> Word(f, f.cells, 4), phoff |-> Word(f, f.cells, 5), shoff |-> Word(f, f.cells, 6),
   phentsize |-> Word(f, f.cells, 7), phnum |-> Word(f, f.cells, 8),
   shentsize |-> Word(f, f.cells, 9), shnum |-> Word(f, f.cells, 10), shstrndx |-> Word(f, f.cells, 11)]

Plausible(f, h) ==
  /\ h.version = f.cells[4].n
  /\ h.phnum > 0 => h.phentsize >= PhdrWidth
  /\ h.shnum > 0 => h.shoff # 0 /\ h.shstrndx < h.shnum /\ h.shentsize >= ShdrWidth
  /\ h.phnum <= MaxHeaders /\ h.shnum <= MaxHeaders
  /\ \A i \in 0 .. h.phnum - 1 : Readable(f, h.phoff + i * h.phentsize, PhdrWidth)
  /\ \A i \in 0 .. h.shnum - 1 : Readable(f, h.shoff + i * h.shentsize, ShdrWidth)

\* The flags of a segment are at the end, or behind its type.
Segment(f, off) ==
  [Type |-> Word(f, f.cells, off),
   Off |-> Word(f, f.cells, off + (IF f.wide THEN 2 ELSE 1)), Filesz |-> Word(f, f.cells, off + (IF f.wide THEN 3 ELSE 2)),
   Flags |-> Word(f, f.cells, off + (IF f.wide THEN 1 ELSE 3))]

\* Slip: the compression header is read where the header of the section is, not its data.
Section(f, off) ==
  LET squeezed == (Word(f, f.cells, off + 2) \div Compressed) % 2 = 1
  IN  [Name |-> "", nameIndex |-> Word(f, f.cells, off), Type |-> Word(f, f.cells, off + 1), Offset |-> Word(f, f.cells, off + 3),
       FileSize |-> Word(f, f.cells, off + 4), Link |-> Word(f, f.cells, off + 5),
       Size |-> Word(f, f.cells, off + (IF ~squeezed THEN 4 ELSE IF f.wide THEN 2 ELSE 1)),
       compressionType |-> IF squeezed THEN Word(f, f.cells, off) ELSE 0]

Fits(f, s) == s.Offset + s.Size <= Len(f.cells)
SectionData(f, s) == SubSeq(f.cells, s.Offset + 1, s.Offset + s.Size)

WithNames(f, s) ==
  IF s.Type # StrTab \/ ~Fits(f, s) THEN f
  ELSE [f EXCEPT !.ok = TRUE,
                 !.sections = [i \in DOMAIN @ |-> [@[i] EXCEPT !.Name = CString(SectionData(f, s), f.sections[i].nameIndex)]]]

WithTables(f, h) ==
  [f EXCEPT !.progs = [i \in 1 .. h.phnum |-> Segment(f, h.phoff + (i - 1) * h.phentsize)],
            !.sections = [i \in 1 .. h.shnum |-> Section(f, h.shoff + (i - 1) * h.shentsize)],
            !.ok = h.shnum = 0]
ParseTables(f, h) ==
  IF ~Plausible(f, h) THEN f
  ELSE IF h.shnum = 0 THEN WithTables(f, h)
  ELSE WithNames(WithTables(f, h), WithTables(f, h).sections[h.shstrndx + 1])

Recognised(f) ==
  /\ Readable(f, 0, IdentWidth) /\ f.cells[1].n = Magic
  /\ f.cells[2].n \in {Class32, Class64} /\ f.cells[3].n \in {Lsb, Msb}
  /\ Readable(f, 0, EhdrWidth)
ParseHeader(f) == ParseTables(f, Header(f))
ParseFile(f) ==
  IF ~Recognised(f) THEN f
  ELSE ParseHeader([f EXCEPT !.wide = f.cells[2].n = Class64, !.big = f.cells[3].n = Msb])
NewFile(cells) == ParseFile(Opened(cells))

-----------------------------------------------------------------------------
(* Symbols.  A failed call has no text.                                    *)

SectionByType(f, st) == SelectInSeq(f.sections, LAMBDA s : s.Type = st)
\* The data of the first section of a type and of its string table.
Linked(f, st) ==
  LET s == f.sections[SectionByType(f, st)]
      strings == f.sections[s.Link + 1]
  IN  IF SectionByType(f, st) = 0 \/ ~Fits(f, s) \/ s.Link \notin 1 .. Len(f.sections) - 1 \/ ~Fits(f, strings)
      THEN [ok |-> FALSE, data |-> <<>>, strings |-> <<>>]
      ELSE [ok |-> TRUE, data |-> SectionData(f, s), strings |-> SectionData(f, strings)]

\* Slip: Value is the index of the section, and SectionIndex is never set.
Symbol(f, t, off) ==
  [Name |-> CString(t.strings, Word(f, t.data, off)), Info |-> t.data[off + (IF f.wide THEN 2 ELSE 4)].n,
   Value |-> Word(f, t.data, off + (IF f.wide THEN 2 ELSE 4)), SectionIndex |-> 0, Library |-> "", Version |-> ""]

\* Slip: with 64 bits the first symbol, which is none, is not skipped but the last one is.
First(f, count) == IF count > 1 /\ ~f.wide THEN 1 ELSE 0
Counted(count) == IF count > 1 THEN count - 1 ELSE count
SymbolsOf(f, t) ==
  LET count == Len(t.data) \div SymWidth
  IN  [i \in 1 .. Counted(count) |-> Symbol(f, t, SymWidth * (First(f, count) + i - 1))]
SymbolsFound(f, t) ==
  IF ~t.ok \/ Len(t.data) % SymWidth # 0 THEN [ok |-> FALSE, syms |-> <<>>, strings |-> <<>>]
  ELSE [ok |-> TRUE, syms |-> SymbolsOf(f, t), strings |-> t.strings]
GetSymbols(f, st) == SymbolsFound(f, Linked(f, st))
Symbols(f) == GetSymbols(f, SymTab)

-----------------------------------------------------------------------------
(* Versions.  gnuNeed begins with the number 0, at its first place.        *)

NoNeed == [file |-> "", name |-> ""]
\* resize, if the place is not there yet
Put(need, ndx, v) ==
  [i \in 1 .. IF ndx >= Len(need) THEN 2 * (ndx + 1) ELSE Len(need) |->
     IF i = ndx + 1 THEN v ELSE IF i <= Len(need) THEN need[i] ELSE NoNeed]

RECURSIVE Auxiliary(_, _, _, _, _, _, _), NeedsFrom(_, _, _, _, _)
Auxiliary(f, d, strings, need, j, count, file) ==
  IF count = 0 \/ j + NeedWidth > Len(d) THEN need
  ELSE LET put == Put(need, Word(f, d, j + 2), [file |-> file, name |-> CString(strings, Word(f, d, j + 3))])
           next == Word(f, d, j + 4)
       IN  IF next = 0 THEN put ELSE Auxiliary(f, d, strings, put, j + next, count - 1, file)
NeedsFrom(f, d, strings, need, i) ==
  IF i + NeedWidth > Len(d) \/ Word(f, d, i) # 1 THEN need
  ELSE LET all == Auxiliary(f, d, strings, need, i + Word(f, d, i + 3), Word(f, d, i + 1), CString(strings, Word(f, d, i + 2)))
           next == Word(f, d, i + 4)
       IN  IF next = 0 THEN all ELSE NeedsFrom(f, d, strings, all, i + next)

\* The object, and whether it has versions: what an earlier call found is kept.
WithVersym(f) ==
  LET vs == SectionByType(f, VerSym)
  IN  IF vs = 0 \/ ~Fits(f, f.sections[vs]) THEN [ok |-> FALSE, file |-> f]
      ELSE [ok |-> TRUE, file |-> [f EXCEPT !.gnuVersym = SectionData(f, f.sections[vs])]]
GnuVersionInit(f, strings) ==
  LET vn == SectionByType(f, VerNeed)
  IN  IF f.gnuNeed # <<>> THEN [ok |-> TRUE, file |-> f]
      ELSE IF vn = 0 \/ ~Fits(f, f.sections[vn]) THEN [ok |-> FALSE, file |-> f]
      ELSE WithVersym([f EXCEPT !.gnuNeed = NeedsFrom(f, SectionData(f, f.sections[vn]), strings, <<>>, 0)])

\* Of the symbol i, the first of which is 1 and follows the one that is none.
GnuVersion(f, i) ==
  LET j == Word(f, f.gnuVersym, i)
  IN  IF i >= Len(f.gnuVersym) \/ j < 2 \/ j >= Len(f.gnuNeed) THEN NoNeed ELSE f.gnuNeed[j + 1]
Versioned(f, syms) ==
  [i \in DOMAIN syms |-> [syms[i] EXCEPT !.Library = GnuVersion(f, i).file, !.Version = GnuVersion(f, i).name]]

DynamicSymbolsOf(found, init) ==
  [ok |-> TRUE, file |-> init.file, syms |-> IF init.ok THEN Versioned(init.file, found.syms) ELSE found.syms]
\* Each call changes the object it is made on.
DynamicSymbolsIn(f, found) ==
  IF ~found.ok THEN [ok |-> FALSE, file |-> f, syms |-> <<>>] ELSE DynamicSymbolsOf(found, GnuVersionInit(f, found.strings))
DynamicSymbols(f) == DynamicSymbolsIn(f, GetSymbols(f, DynSym))

Imported(s) == s.Info \div 16 = StbGlobal /\ s.SectionIndex = ShnUndef
Import(s) == [Name |-> s.Name, Library |-> s.Library, Version |-> s.Version]
ImportsOf(f, syms) == LET global == SelectSeq(Versioned(f, syms), Imported) IN [i \in DOMAIN global |-> Import(global[i])]
ImportedSymbolsIn(f, found) ==
  IF ~found.ok THEN [ok |-> FALSE, syms |-> <<>>]
  ELSE [ok |-> TRUE, syms |-> ImportsOf(GnuVersionInit(f, found.strings).file, found.syms)]
ImportedSymbols(f) == ImportedSymbolsIn(f, GetSymbols(f, DynSym))

-----------------------------------------------------------------------------
(* Dynamic strings.                                                        *)

Strings(f, t, tag) ==
  LET all == [i \in 1 .. Len(t.data) \div 2 |->
                IF Word(f, t.data, 2 * i - 2) = tag THEN CString(t.strings, Word(f, t.data, 2 * i - 1)) ELSE ""]
  IN  SelectSeq(all, LAMBDA s : s # "")
DynString(f, tag) ==
  IF tag \in {Needed, SoName, RPath, RunPath} /\ SectionByType(f, Dynamic) # 0 THEN Strings(f, Linked(f, Dynamic), tag) ELSE <<>>
FirstString(strings) == IF strings = <<>> THEN "" ELSE strings[1]
Depends(f) == DynString(f, Needed)
LibSoName(f) == FirstString(DynString(f, SoName))
Rpath(f) == FirstString(DynString(f, RPath))
\* Slip: it asks for the other path.
Rupath(f) == FirstString(DynString(f, RPath))

-----------------------------------------------------------------------------
(* Images: of the symbols and dynamic strings in items, with 32 or 64 bits, *)
(* in either order of bytes, plain or with wider headers and a compressed  *)
(* section, whole or damaged.                                              *)

Items ==
  [kind : {"symbol"}, global : {TRUE}, shndx : {ShnUndef}, need : 0 .. 3]
  \cup [kind : {"symbol"}, global : BOOLEAN, shndx : {7}, need : {0}]
  \cup [kind : {"string"}, tag : {Needed}, text : {"a", "b"}]
  \cup [kind : {"string"}, tag : {SoName, RPath, RunPath}, text : {"p"}]
Variants ==
  [wide : BOOLEAN, big : BOOLEAN, odd : BOOLEAN, damage : {"none"}]
  \cup [wide : BOOLEAN, big : {TRUE}, odd : {FALSE}, damage : {"cut", "index", "no sections"}]

Kind(items, k) == SelectSeq(items, LAMBDA t : t.kind = k)
SymbolNames == <<"f", "g", "h">>
NamesUsed == <<"", "f", "g", "h", "libc", "libm", "V1", "V2", "a", "b", "p">>
TextAt(s) == SelectInSeq(NamesUsed, LAMBDA t : t = s) - 1
VersionOf(need) == CASE need = 0 -> NoNeed
                     [] need = 1 -> [file |-> "libc", name |-> "V1"]
                     [] need = 2 -> [file |-> "libc", name |-> "V2"]
                     [] need = 3 -> [file |-> "libm", name |-> "V1"]
\* The second of a library comes first, and the last leaves a gap.
VersionIndex(need) == <<1, 2, 3, 9>>[need + 1]
NeedTable == <<1, 2, TextAt("libc"), 5, 15, 9, 0, 3, TextAt("V2"), 5, 9, 0, 2, TextAt("V1"), 0,
               1, 1, TextAt("libm"), 5, 0, 9, 0, 9, TextAt("V1"), 0>>

Numbers(v, s) == [i \in DOMAIN s |-> Number(IF v.big THEN Swap(s[i]) ELSE s[i])]
InfoOf(t) == 16 * (IF t.global THEN StbGlobal ELSE 0) + 2
\* A number of one byte has no order.
SymbolCells(v, name, info, shndx) ==
  IF v.wide THEN Numbers(v, <<name>>) \o <<Number(info)>> \o Numbers(v, <<shndx, 9, 9>>)
  ELSE Numbers(v, <<name, 9, 9>>) \o <<Number(info)>> \o Numbers(v, <<shndx>>)
SymbolTable(v, symbols) ==
  SymbolCells(v, 0, 0, 0)
    \o FlattenSeq([i \in DOMAIN symbols |-> SymbolCells(v, TextAt(SymbolNames[i]), InfoOf(symbols[i]), symbols[i].shndx)])

Contents(v, symbols, strings) ==
  LET dynstr == [i \in DOMAIN NamesUsed |-> Name(NamesUsed[i])]
      table == SymbolTable(v, symbols)
      S(name, type, cells, link) == [name |-> name, type |-> type, cells |-> cells, link |-> link, flags |-> 2]
  IN  <<S("", Null, <<>>, 0), S(".dynstr", StrTab, dynstr, 0), S(".dynsym", DynSym, table, 1), S(".symtab", SymTab, table, 1),
        S(".dynamic", Dynamic, Numbers(v, FlattenSeq([i \in DOMAIN strings |-> <<strings[i].tag, TextAt(strings[i].text)>>]) \o <<0, 0>>), 1)>>
      \o (IF \A i \in DOMAIN symbols : symbols[i].need = 0 THEN <<>>
          ELSE <<S(".gnu.version_r", VerNeed, Numbers(v, NeedTable), 1),
                 S(".gnu.version", VerSym, Numbers(v, <<0>> \o [i \in DOMAIN symbols |-> VersionIndex(symbols[i].need)]), 2)>>)
      \o (IF v.odd THEN <<[S(".debug", 1, Numbers(v, <<1, 9, 9>>), 0) EXCEPT !.flags = Compressed]>> ELSE <<>>)
\* The names of the sections are in the last of them.
WithStrings(sections) ==
  Append(sections, [name |-> ".shstrtab", type |-> StrTab, link |-> 0, flags |-> 0,
                    cells |-> Append([i \in DOMAIN sections |-> Name(sections[i].name)], Name(".shstrtab"))])

Pad(v) == IF v.odd THEN Numbers(v, <<9>>) ELSE <<>>
Start(sections, base, i) == base + FoldLeft(LAMBDA n, s : n + Len(s.cells), 0, SubSeq(sections, 1, i - 1))
SectionCells(v, sections, base, i) ==
  Numbers(v, <<i - 1, sections[i].type, sections[i].flags, Start(sections, base, i), Len(sections[i].cells), sections[i].link>>) \o Pad(v)
ProgCells(v) == Numbers(v, IF v.wide THEN <<1, 5, 8, 4>> ELSE <<1, 8, 4, 5>>) \o Pad(v)
LaidOut(v, sections, base) ==
  LET n == Len(sections)
  IN  <<Number(Magic), Number(IF v.wide THEN Class64 ELSE Class32), Number(IF v.big THEN Msb ELSE Lsb), Number(1)>>
        \o Numbers(v, <<1, EhdrWidth, Start(sections, base, n + 1), PhdrWidth + Len(Pad(v)), 1, ShdrWidth + Len(Pad(v)),
                        IF v.damage = "no sections" THEN 0 ELSE n, IF v.damage = "index" THEN n ELSE n - 1>>)
        \o ProgCells(v) \o FlattenSeq([i \in 1 .. n |-> sections[i].cells])
        \o FlattenSeq([i \in 1 .. n |-> SectionCells(v, sections, base, i)])
Damaged(v, cells) == IF v.damage = "cut" THEN Front(cells) ELSE cells
SectionsOf(v, items) == WithStrings(Contents(v, Kind(items, "symbol"), Kind(items, "string")))
Image(v, sections) == Damaged(v, LaidOut(v, sections, EhdrWidth + PhdrWidth + Len(Pad(v))))

\* What the image was made from.  A compressed section tells its size elsewhere: it is left open.
SectionsRead(f, sections) ==
  /\ Len(f.sections) = Len(sections)
  /\ \A i \in DOMAIN sections :
       /\ f.sections[i].Name = sections[i].name /\ f.sections[i].Type = sections[i].type
       /\ sections[i].flags # Compressed => f.sections[i].Size = Len(sections[i].cells)
  /\ f.progs = <<[Type |-> 1, Off |-> 8, Filesz |-> 4, Flags |-> 5]>>
NamesMeant(symbols) == [i \in DOMAIN symbols |-> SymbolNames[i]]
VersionsMeant(symbols) == [i \in DOMAIN symbols |-> VersionOf(symbols[i].need)]
\* A symbol that the file defines is not imported.
ImportsMeant(symbols) ==
  LET imported == SelectSeq([i \in DOMAIN symbols |-> i], LAMBDA i : symbols[i].global /\ symbols[i].shndx = ShnUndef)
  IN  [k \in DOMAIN imported |->
         [Name |-> SymbolNames[imported[k]], Library |-> VersionOf(symbols[imported[k]].need).file,
          Version |-> VersionOf(symbols[imported[k]].need).name]]
\* Left open, as the code does not read them: the symbols of 64 bits, a table of the null symbol
\* alone, and the imports of a file that defines global symbols.
Listed(v, symbols) == ~v.wide /\ symbols # <<>>
Undefined(symbols) == \A i \in DOMAIN symbols : symbols[i].global => symbols[i].shndx = ShnUndef
SymbolsRead(f, dynamic, symbols) ==
  /\ [i \in DOMAIN Symbols(f).syms |-> Symbols(f).syms[i].Name] = NamesMeant(symbols)
  /\ [i \in DOMAIN dynamic.syms |-> dynamic.syms[i].Name] = NamesMeant(symbols)
  /\ [i \in DOMAIN dynamic.syms |-> [file |-> dynamic.syms[i].Library, name |-> dynamic.syms[i].Version]] = VersionsMeant(symbols)
  /\ Undefined(symbols) =>
       \A g \in {f, dynamic.file} : ImportedSymbols(g) = [ok |-> TRUE, syms |-> ImportsMeant(symbols)]
TextsOf(strings, tag) ==
  LET of == SelectSeq(strings, LAMBDA t : t.tag = tag) IN [i \in DOMAIN of |-> of[i].text]
StringsRead(f, strings) ==
  /\ Depends(f) = TextsOf(strings, Needed)
  /\ LibSoName(f) = FirstString(TextsOf(strings, SoName)) /\ Rpath(f) = FirstString(TextsOf(strings, RPath))

\* What was asked before changes no answer.
Whole(f, v, items, sections, dynamic) ==
  /\ SectionsRead(f, sections)
  /\ dynamic.ok /\ DynamicSymbols(dynamic.file) = dynamic
  /\ Listed(v, Kind(items, "symbol")) => SymbolsRead(f, dynamic, Kind(items, "symbol"))
  /\ StringsRead(f, Kind(items, "string"))
ReadAs(f, v, items, sections) ==
  CASE v.damage = "none" -> f.ok /\ Whole(f, v, items, sections, DynamicSymbols(f))
    [] v.damage = "no sections" -> f.ok /\ f.sections = <<>> /\ ~DynamicSymbols(f).ok /\ Depends(f) = <<>>
    [] OTHER -> ~f.ok
ReadsBackAs(v, items, sections) == ReadAs(NewFile(Image(v, sections)), v, items, sections)
ReadsBack(items) == \A v \in Variants : ReadsBackAs(v, items, SectionsOf(v, items))
=============================================================================
