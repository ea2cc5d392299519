---------------------------- MODULE MachoReader ----------------------------
(***************************************************************************)
(* hazel::macho::File and FatFile (src/hazel/macho): the load commands of  *)
(* a Mach-O file, with its segments, sections, relocations, libraries and  *)
(* symbols.  The file is a sequence of cells: a number or a name with its  *)
(* zero takes one, whatever its width; fields that only are copied are     *)
(* left out, and so is the order of bytes, which is the machine's in every *)
(* file that is read.                                                      *)
(***************************************************************************)
EXTENDS Integers, Sequences, SequencesExt

Number(n) == [n |-> n, s |-> ""]
Name(s)   == [n |-> 77, s |-> s]

Magic32 == 50
Magic64 == 51
MagicFat == 52
LoadCmdSegment == 1
LoadCmdSymtab == 2
LoadCmdDysymtab == 11
LoadCmdDylib == 12
LoadCmdSegment64 == 25
LoadCmdRpath == 28

\* How many cells there are in what.
HeaderWidth(magic) == IF magic = Magic64 THEN 5 ELSE 4
CommandWidth == 2
RpathWidth == 3
DylibWidth == 4
SymtabWidth == 6
DysymtabWidth == 6
SegmentWidth == 4
SectionWidth == 4
SymbolWidth == 3
FatHeaderWidth == 2
FatArchWidth == 5
RelocWidth == 2

Word(cells, offset) == cells[offset + 1].n
Readable(cells, offset, width) == offset + width <= Len(cells)
Slice(cells, offset, width) == SubSeq(cells, offset + 1, offset + width)
CString(cells, offset) == IF offset < Len(cells) THEN cells[offset + 1].s ELSE ""

-----------------------------------------------------------------------------
(* Relocations.  A number of 24 bits has four here.                        *)

Bits(n, from, width) == (n \div 2^from) % 2^width
Scattered(addr) == Bits(addr, 11, 1) = 1
\* What an entry that is read again says; one of a scattered one keeps its Extern, and the
\* other keeps its Scattered.
Reloc(addr, symnum, was) ==
  IF Scattered(addr)
  THEN [was EXCEPT !.Addr = Bits(addr, 0, 4), !.Type = Bits(addr, 4, 4), !.Len = Bits(addr, 8, 2),
                   !.Pcrel = Bits(addr, 10, 1) = 1, !.Value = symnum, !.Scattered = TRUE]
  ELSE [was EXCEPT !.Addr = addr, !.Value = Bits(symnum, 0, 4), !.Pcrel = Bits(symnum, 4, 1) = 1,
                   !.Len = Bits(symnum, 5, 2), !.Extern = Bits(symnum, 7, 1) = 1, !.Type = Bits(symnum, 8, 4)]
NoReloc == [Addr |-> 0, Value |-> 0, Type |-> 0, Len |-> 0, Pcrel |-> FALSE, Extern |-> FALSE, Scattered |-> FALSE]
NoSection == [Name |-> "", Seg |-> "", Relocs |-> <<>>]

At(s, i, none) == IF i \in DOMAIN s THEN s[i] ELSE none
\* Slip: a section without relocations keeps those of the one that was at its place.
PushSection(cells, was, reloff, nreloc) ==
  IF nreloc = 0 THEN was
  ELSE [i \in 1 .. nreloc |-> Reloc(Word(cells, reloff + 2 * i - 2), Word(cells, reloff + 2 * i - 1), At(was, i, NoReloc))]

-----------------------------------------------------------------------------
(* Load commands.  c is the data of one, with its number and length.       *)

Failed(f) == [f EXCEPT !.ok = FALSE]
Load(f, load) == [f EXCEPT !.loads = Append(@, load)]

Rpath(f, c) ==
  IF Len(c) < RpathWidth \/ Word(c, 2) >= Len(c) THEN Failed(f)
  ELSE Load(f, [Cmd |-> LoadCmdRpath, Name |-> CString(c, Word(c, 2))])
Dylib(f, c) ==
  IF Len(c) < DylibWidth \/ Word(c, 2) >= Len(c) THEN Failed(f)
  ELSE Load(f, [Cmd |-> LoadCmdDylib, Name |-> CString(c, Word(c, 2))])

\* A minus before a method's name is dropped.
Method == "-m.n"
Demangled(name) == IF name = Method THEN "m.n" ELSE name
ParseSymtab(f, data, strings, nsyms) ==
  IF \E i \in 0 .. nsyms - 1 : Word(data, SymbolWidth * i) > Len(strings) THEN Failed(f)
  ELSE [f EXCEPT !.symtab = [Cmd |-> LoadCmdSymtab,
                             Syms |-> [i \in 1 .. nsyms |-> Demangled(CString(strings, Word(data, SymbolWidth * (i - 1))))]]]
Symtab(f, c) ==
  IF Len(c) < SymtabWidth THEN Failed(f)
  ELSE IF ~Readable(f.cells, Word(c, 4), Word(c, 5)) \/ ~Readable(f.cells, Word(c, 2), SymbolWidth * Word(c, 3)) THEN Failed(f)
  ELSE ParseSymtab(Load(f, [Cmd |-> LoadCmdSymtab, Name |-> ""]), Slice(f.cells, Word(c, 2), SymbolWidth * Word(c, 3)),
                   Slice(f.cells, Word(c, 4), Word(c, 5)), Word(c, 3))
Dysymtab(f, c) ==
  IF Len(c) < DysymtabWidth \/ ~Readable(f.cells, Word(c, 4), Word(c, 5)) THEN Failed(f)
  ELSE [Load(f, [Cmd |-> LoadCmdDysymtab, Name |-> ""]) EXCEPT
          !.dysymtab = [Cmd |-> LoadCmdDysymtab, Iundefsym |-> Word(c, 2), Nundefsym |-> Word(c, 3),
                        IndirectSyms |-> [i \in 1 .. Word(c, 5) |-> Word(f.cells, Word(c, 4) + i - 1)]]]

SectionOf(cells, was, c, b) ==
  [Name |-> c[b + 1].s, Seg |-> c[b + 2].s, Relocs |-> PushSection(cells, was.Relocs, Word(c, b + 2), Word(c, b + 3))]
SectionFits(cells, c, b) ==
  Readable(c, b, SectionWidth) /\ (Word(c, b + 3) > 0 => Readable(cells, Word(c, b + 2), RelocWidth * Word(c, b + 3)))
\* Slip: the sections of every segment are put over those of the one before it.
SegmentSections(f, c, nsect) ==
  [i \in 1 .. nsect |-> SectionOf(f.cells, At(f.sections, i, NoSection), c, SegmentWidth + SectionWidth * (i - 1))]
Segment(f, c) ==
  IF Len(c) < SegmentWidth \/ \E i \in 0 .. Word(c, 3) - 1 : ~SectionFits(f.cells, c, SegmentWidth + SectionWidth * i) THEN Failed(f)
  ELSE [Load(f, [Cmd |-> Word(c, 0), Name |-> CString(c, 2)]) EXCEPT !.sections = SegmentSections(f, c, Word(c, 3))]

Command(f, c) ==
  CASE Word(c, 0) = LoadCmdRpath -> Rpath(f, c)
    [] Word(c, 0) = LoadCmdDylib -> Dylib(f, c)
    [] Word(c, 0) = LoadCmdSymtab -> Symtab(f, c)
    [] Word(c, 0) = LoadCmdDysymtab -> Dysymtab(f, c)
    [] Word(c, 0) \in {LoadCmdSegment, LoadCmdSegment64} -> Segment(f, c)
    [] OTHER -> Load(f, [Cmd |-> Word(c, 0), Name |-> ""])

RECURSIVE Commands(_, _, _)
Commands(f, data, left) ==
  IF left = 0 \/ ~f.ok THEN f
  ELSE IF Len(data) < CommandWidth THEN Failed(f)
  ELSE IF Word(data, 1) < CommandWidth \/ Word(data, 1) > Len(data) THEN Failed(f)
  ELSE Commands(Command(f, SubSeq(data, 1, Word(data, 1))), SubSeq(data, Word(data, 1) + 1, Len(data)), left - 1)

\* Slip: what is meant for the other order of bytes looks at the magic number in the same one.
Recognised(cells) ==
  /\ Readable(cells, 0, 1) /\ Word(cells, 0) \in {Magic32, Magic64}
  /\ Readable(cells, 0, HeaderWidth(Word(cells, 0)))
ParseCommands(f, offset) ==
  IF ~Readable(f.cells, offset, Word(f.cells, 3)) THEN Failed(f)
  ELSE Commands(f, Slice(f.cells, offset, Word(f.cells, 3)), Word(f.cells, 2))
Opened(cells) ==
  [ok |-> TRUE, cells |-> cells, loads |-> <<>>, sections |-> <<>>, symtab |-> [Cmd |-> 0, Syms |-> <<>>],
   dysymtab |-> [Cmd |-> 0, Iundefsym |-> 0, Nundefsym |-> 0, IndirectSyms |-> <<>>]]
NewFile(cells) ==
  IF ~Recognised(cells) THEN Failed(Opened(cells)) ELSE ParseCommands(Opened(cells), HeaderWidth(Word(cells, 0)))

-----------------------------------------------------------------------------
(* Queries.                                                                *)

NamesOf(f, cmd) == LET of == SelectSeq(f.loads, LAMBDA l : l.Cmd = cmd) IN [i \in DOMAIN of |-> of[i].Name]
Depends(f) == NamesOf(f, LoadCmdDylib)
ImportedSymbols(f) ==
  IF f.dysymtab.Cmd = 0 \/ f.symtab.Cmd = 0 THEN [ok |-> FALSE, names |-> <<>>]
  ELSE [ok |-> TRUE, names |-> SubSeq(f.symtab.Syms, f.dysymtab.Iundefsym + 1,
          IF f.dysymtab.Iundefsym + f.dysymtab.Nundefsym < Len(f.symtab.Syms)
          THEN f.dysymtab.Iundefsym + f.dysymtab.Nundefsym ELSE Len(f.symtab.Syms))]
FindSection(f, name) == SelectInSeq(f.sections, LAMBDA s : s.Name = name)
FindSegment(f, name) == SelectInSeq(f.loads, LAMBDA l : l.Cmd \in {LoadCmdSegment, LoadCmdSegment64} /\ l.Name = name)

\* Slip: an architecture that can be read ends the search with an error; one that cannot is
\* looked for at the beginning of the file, where there is none.
ArchOpens(cells, i) == ~Readable(cells, FatHeaderWidth + FatArchWidth * i, FatArchWidth) /\ NewFile(cells).ok
FatFile(cells) ==
  CASE ~Readable(cells, 0, 1) -> "failed"
    [] Word(cells, 0) \in {Magic32, Magic64} -> "not fat"
    [] Word(cells, 0) # MagicFat \/ ~Readable(cells, 0, FatHeaderWidth) \/ Word(cells, 1) < 1 -> "failed"
    [] OTHER -> IF \A i \in 0 .. Word(cells, 1) - 1 : ArchOpens(cells, i) THEN "opened" ELSE "failed"

-----------------------------------------------------------------------------
(* Images: of the commands in items, with 32 or 64 bits, whole or damaged. *)

Plain == [Addr |-> 9, Value |-> 6, Type |-> 10, Len |-> 1, Pcrel |-> TRUE, Extern |-> TRUE, Scattered |-> FALSE]
Spread == [Addr |-> 5, Value |-> 300, Type |-> 6, Len |-> 1, Pcrel |-> FALSE, Extern |-> FALSE, Scattered |-> TRUE]
Items ==
  [kind : {"dylib"}, name : {"a", "b"}] \cup [kind : {"rpath", "other"}, name : {"p"}]
  \cup [kind : {"segment"}, name : {"text", "data"}, wide : {TRUE},
        sections : {<<>>, <<<<Plain>>>>, <<<<>>, <<Spread, Plain>>>>}]
  \cup [kind : {"segment"}, name : {"text"}, wide : {FALSE}, sections : {<<<<Spread>>>>}]
  \cup [kind : {"symtab"}, symbols : {<<>>, <<"f", Method, "g">>}]
  \cup [kind : {"dysymtab"}, first : 0 .. 1, count : {1, 3}]
Variants == [magic : {Magic32, Magic64}, damage : {"none", "cut", "size", "command"}]

One(b) == IF b THEN 1 ELSE 0
RelocWords(r) ==
  IF r.Scattered THEN <<r.Addr + 16 * r.Type + 256 * r.Len + 1024 * One(r.Pcrel) + 2048, r.Value>>
  ELSE <<r.Addr, r.Value + 16 * One(r.Pcrel) + 32 * r.Len + 128 * One(r.Extern) + 256 * r.Type>>
Numbers(s) == [i \in DOMAIN s |-> Number(s[i])]
Relocs(relocs) == Numbers(FlattenSeq([i \in DOMAIN relocs |-> RelocWords(relocs[i])]))
\* What a command refers to, behind all of them; a table of symbols has its names first.
Data(t) ==
  CASE t.kind = "segment" -> FlattenSeq([i \in DOMAIN t.sections |-> Relocs(t.sections[i])])
    [] t.kind = "symtab" -> <<Name("")>> \o [i \in DOMAIN t.symbols |-> Name(t.symbols[i])]
                              \o Numbers(FlattenSeq([i \in DOMAIN t.symbols |-> <<i, 9, 9>>]))
    [] t.kind = "dysymtab" -> Numbers(<<8, 7>>)
    [] OTHER -> <<>>
SectionName(i) == <<"s1", "s2">>[i]
Sized(cmd, body) == Numbers(<<cmd, Len(body) + CommandWidth>>) \o body
\* The command t whose data begins at the offset at.
CommandCells(t, at) ==
  CASE t.kind = "dylib" -> Sized(LoadCmdDylib, Numbers(<<4, 9>>) \o <<Name(t.name)>>)
    [] t.kind = "rpath" -> Sized(LoadCmdRpath, <<Number(3), Name(t.name)>>)
    [] t.kind = "other" -> Sized(99, <<>>)
    [] t.kind = "symtab" -> Sized(LoadCmdSymtab, Numbers(<<at + Len(t.symbols) + 1, Len(t.symbols), at, Len(t.symbols) + 1>>))
    [] t.kind = "dysymtab" -> Sized(LoadCmdDysymtab, Numbers(<<t.first, t.count, at, 2>>))
    [] t.kind = "segment" -> Sized(IF t.wide THEN LoadCmdSegment64 ELSE LoadCmdSegment,
         <<Name(t.name), Number(Len(t.sections))>>
           \o FlattenSeq([i \in DOMAIN t.sections |->
                <<Name(SectionName(i)), Name(t.name),
                  Number(at + FoldLeft(LAMBDA n, r : n + RelocWidth * Len(r), 0, SubSeq(t.sections, 1, i - 1))),
                  Number(Len(t.sections[i]))>>]))
Length(items) == FoldLeft(LAMBDA n, t : n + Len(CommandCells(t, 0)), 0, items)
CommandsFrom(items, at) ==
  FlattenSeq([i \in DOMAIN items |->
    CommandCells(items[i], at + FoldLeft(LAMBDA n, t : n + Len(Data(t)), 0, SubSeq(items, 1, i - 1)))])
LaidOut(v, items) ==
  Numbers(<<v.magic, 9, Len(items), Length(items) - One(v.damage = "size")>> \o (IF v.magic = Magic64 THEN <<9>> ELSE <<>>))
    \o CommandsFrom(items, HeaderWidth(v.magic) + Length(items)) \o FlattenSeq([i \in DOMAIN items |-> Data(items[i])])
Damaged(v, cells) ==
  CASE v.damage = "cut" -> Front(cells)
    [] v.damage = "command" -> [cells EXCEPT ![HeaderWidth(v.magic) + 2] = Number(1)]
    [] OTHER -> cells
Image(v, items) == Damaged(v, LaidOut(v, items))

Kind(items, k) == SelectSeq(items, LAMBDA t : t.kind = k)
ItemNames(items) == [i \in DOMAIN items |-> items[i].name]
LastOf(items) == items[Len(items)]

\* The sections of a file of several segments are left open: the code keeps the last one's.
SectionsRead(f, segments) ==
  CASE segments = <<>> -> f.sections = <<>>
    [] Len(segments) = 1 ->
         /\ [i \in DOMAIN f.sections |-> f.sections[i].Relocs] = segments[1].sections
         /\ \A i \in DOMAIN f.sections : /\ f.sections[i].Name = SectionName(i) /\ f.sections[i].Seg = segments[1].name
                                         /\ FindSection(f, SectionName(i)) = i
    [] OTHER -> TRUE
SegmentsRead(f, items) ==
  \A name \in {"text", "data"} :
    FindSegment(f, name) = SelectInSeq(items, LAMBDA t : t.kind = "segment" /\ t.name = name)
\* The undefined symbols are those that the last table of each kind says.
SymbolsMeant(symbols, d) ==
  [i \in 1 .. (IF d.first + d.count < Len(symbols) THEN d.first + d.count ELSE Len(symbols)) - d.first |->
     <<"f", "m.n", "g">>[d.first + i]]
SymbolsRead(f, tables, undefined) ==
  IF tables = <<>> \/ undefined = <<>> THEN ~ImportedSymbols(f).ok
  ELSE /\ ImportedSymbols(f) = [ok |-> TRUE, names |-> SymbolsMeant(LastOf(tables).symbols, LastOf(undefined))]
       /\ f.dysymtab.IndirectSyms = <<8, 7>>
ReadAs(f, items) ==
  /\ f.ok
  /\ Depends(f) = ItemNames(Kind(items, "dylib")) /\ NamesOf(f, LoadCmdRpath) = ItemNames(Kind(items, "rpath"))
  /\ SectionsRead(f, Kind(items, "segment")) /\ SegmentsRead(f, items)
  /\ SymbolsRead(f, Kind(items, "symtab"), Kind(items, "dysymtab"))
\* Without commands a file has nothing that could be too long.
Applies(v, items) == v.damage \in {"size", "command"} => items # <<>>
ReadsBackAs(v, items, cells) ==
  /\ IF v.damage = "none" THEN ReadAs(NewFile(cells), items) ELSE ~NewFile(cells).ok
  /\ FatFile(cells) = "not fat"
FatHeaders == Numbers(<<MagicFat, 1, 7, 3, FatHeaderWidth + FatArchWidth, 9, 0>>)
\* Of fat files only that one cut off in its headers fails: no other opens either.
ReadsBack(items) ==
  /\ \A v \in Variants : Applies(v, items) => ReadsBackAs(v, items, Image(v, items))
  /\ \A n \in 1 .. Len(FatHeaders) - 1 : FatFile(SubSeq(FatHeaders, 1, n)) = "failed"
=============================================================================
