----------------------------- MODULE ZipReader -----------------------------
(***************************************************************************)
(* hazel::zip::Reader (hazel/zip/zip.cc, decompress.cc), for files that    *)
(* are stored without compression.  A file is a sequence of cells: a       *)
(* header, a number of 8 bytes, the tag of an extra field and a character  *)
(* take one cell each.  A cell is its kind followed by its fields.  The    *)
(* comment of an archive has at most 4 cells, and Full stands for the      *)
(* values that are taken for "see the 64-bit record": 0xFFFF for the       *)
(* number of records and the size of the directory, 0xFFFFFFFF elsewhere.  *)
(***************************************************************************)
EXTENDS Integers, Sequences, SequencesExt, FiniteSetsExt

Full == 99
Blocks == <<2, 5>>        \* 1K and 65K; the third length is never tried
Capacity == 16            \* the buffer of the directory headers

Kind(cell) == cell[1]
Char(c) == <<"char", c>>
Junk == Char("junk")
Local(nameLen, extraLen) == <<"local", nameLen, extraLen>>
Header(csize, usize, pos, nameLen, extraLen, commentLen) ==
  <<"header", csize, usize, pos, nameLen, extraLen, commentLen>>
End(records, size, offset, commentLen) == <<"end", records, size, offset, commentLen>>
Locator(offset) == <<"locator", offset>>
End64(records, offset) == <<"end64", records, offset>>
Tag(tag, n) == <<"tag", tag, n>>
Num(v) == <<"num", v>>

At(file, offset) == IF offset + 1 \in DOMAIN file THEN file[offset + 1] ELSE Junk
Slice(file, offset, n) == SubSeq(file, offset + 1, offset + n)

-----------------------------------------------------------------------------
(* Where the directory is: the last record whose comment fits, in the last *)
(* block that has one.                                                     *)

\* Slip: any signature will do.
FindSignatureAny(b) == Max({i \in DOMAIN b : Kind(b[i]) = "end"} \union {0})

FindSignature(b) == Max({i \in DOMAIN b : Kind(b[i]) = "end" /\ i + b[i][5] <= Len(b)} \union {0})

NotFound == -1
InBlock(file, n) ==
  LET i == FindSignature(Slice(file, Len(file) - n, n)) IN IF i = 0 THEN NotFound ELSE Len(file) - n + i - 1
EndOffset(file) ==
  FoldLeft(LAMBDA at, n : IF at = NotFound THEN InBlock(file, Min({n, Len(file)})) ELSE at, NotFound, Blocks)

Failed == [ok |-> FALSE]
Directory(records, offset) == [ok |-> TRUE, records |-> records, offset |-> offset]

\* The 64-bit record is looked up where its locator says, from the start of the file.
Sees(end, loc) == (\E i \in 2 .. 4 : end[i] = Full) /\ Kind(loc) = "locator" /\ loc[2] > 0
DirectoryOf(file, end, loc) ==
  IF ~Sees(end, loc) THEN Directory(end[2], end[4])
  ELSE LET big == At(file, loc[2]) IN IF Kind(big) = "end64" THEN Directory(big[2], big[3]) ELSE Failed
ReadDirectoryEnd(file) ==
  LET at == EndOffset(file)
      d  == IF at = NotFound THEN Failed ELSE DirectoryOf(file, At(file, at), IF at > 0 THEN At(file, at - 1) ELSE Junk)
  IN  IF ~d.ok THEN Failed ELSE IF d.offset < 0 \/ 0 >= Len(file) THEN Failed ELSE d

-----------------------------------------------------------------------------
(* The headers of the directory.  The buffer is used for one after the     *)
(* other; the reader of the extra fields believes that more are left with  *)
(* every field that it has read, and goes on behind them.                  *)
TagOf(cell) == IF Kind(cell) = "tag" THEN cell[2] ELSE "unknown"
\* Two characters make a size that never fits, a number below 65536 makes none.
SizeOf(cell) == CASE Kind(cell) = "tag" -> cell[3] [] Kind(cell) = "num" -> 0 [] OTHER -> Capacity
Number(cell) == IF Kind(cell) = "num" THEN cell[2] ELSE Full - 1

\* The sizes and the offset that are still needed, in their order.
Needs == <<"usize", "csize", "pos">>
Zip64(f, field) ==
  LET need == SelectSeq(Needs, LAMBDA x : x \in f.need)
      Value(x) == Number(field[CHOOSE k \in DOMAIN need : need[k] = x])
  IN  IF Len(need) > Len(field) THEN Failed
      ELSE [x \in DOMAIN f |-> IF x = "need" THEN {} ELSE IF x \in f.need THEN Value(x) ELSE f[x]]
UnicodePath(f, field) ==
  IF field = <<>> \/ f.utf8 THEN f ELSE [f EXCEPT !.utf8 = TRUE, !.name = Tail(field)]

Take(f, cell, field) ==
  CASE TagOf(cell) = "zip64" -> Zip64(f, field)
    [] TagOf(cell) = "path"  -> UnicodePath(f, field)
    [] OTHER -> f
RECURSIVE Fields(_, _, _, _)
Fields(f, buffer, at, size) ==
  LET n == SizeOf(At(buffer, at))
  IN  IF ~f.ok \/ size < 1 \/ at >= Capacity \/ size - 1 < n \/ at + 1 + n > Capacity THEN f
      ELSE Fields(Take(f, At(buffer, at), Slice(buffer, at + 1, n)), buffer, at + 1 + n, size - 1 + n)

Begin(h, buffer) ==
  [ok |-> TRUE, csize |-> h[2], usize |-> h[3], pos |-> h[4], name |-> Slice(buffer, 0, h[5]), utf8 |-> FALSE,
   need |-> {x \in {"csize", "usize", "pos"} : Full = CASE x = "csize" -> h[2] [] x = "usize" -> h[3] [] x = "pos" -> h[4]}]
ReadInto(h, buffer, next) == [f |-> Fields(Begin(h, buffer), buffer, h[5], h[6]), next |-> next, buffer |-> buffer]
ReadHeader(file, offset, buffer) ==
  LET h     == At(file, offset)
      total == h[5] + h[6] + h[7]
  IN  IF Kind(h) # "header" \/ offset + 1 + total > Len(file) THEN [f |-> Failed]
      ELSE ReadInto(h, Slice(file, offset + 1, total) \o Slice(buffer, total, Capacity - total), offset + 1 + total)

Collect(done, r) ==
  IF ~r.f.ok \/ r.f.need \intersect {"csize", "pos"} # {} THEN Failed
  ELSE [ok |-> TRUE, files |-> Append(done.files, r.f), next |-> r.next, buffer |-> r.buffer]
ReadHeaders(file, n, offset, buffer) ==
  FoldLeft(LAMBDA done, i : IF done.ok THEN Collect(done, ReadHeader(file, done.next, done.buffer)) ELSE done,
           [ok |-> TRUE, files |-> <<>>, next |-> offset, buffer |-> buffer], [i \in 1 .. n |-> i])

\* The archive begins at base, where the offsets in it are counted from.
Initialize(file, base) ==
  LET d == ReadDirectoryEnd(file)
  IN  IF ~d.ok THEN Failed
      ELSE IF d.records > Len(file) THEN Failed
      ELSE ReadHeaders(file, d.records, d.offset + base, [i \in 1 .. Capacity |-> Junk])

Decompress(file, f, base) ==
  LET h == At(file, f.pos + base)
      position == f.pos + base + 1 + h[2] + h[3]
  IN  IF Kind(h) # "local" \/ position + f.csize > Len(file) THEN Failed
      ELSE [ok |-> TRUE, data |-> Slice(file, position, f.csize)]

-----------------------------------------------------------------------------
(* An archive as the format has it.  An entry has a name, data, extra      *)
(* cells in front of the data, and in the directory, if it says so, a      *)
(* 64-bit field and another name.                                          *)
Entries == [name : {1, 5}, data : {<<>>, <<Char("d")>>, <<End(0, 0, 0, 0)>>}, extra : {0, 1}, big : BOOLEAN, path : BOOLEAN]
Comments == {<<>>, <<Char("c"), Char("c"), Char("c"), Char("c")>>, <<End(0, 0, 0, 4), Char("c")>>, <<End(0, 0, 0, 0)>>}

NameOf(e) == [i \in 1 .. e.name |-> Char("n")]
LocalOf(e) == <<Local(e.name, e.extra)>> \o NameOf(e) \o [i \in 1 .. e.extra |-> Char("e")] \o e.data
HeaderOf(e, pos) ==
  LET extra == (IF e.path THEN <<Tag("path", 2), Num(0), Char("u")>> ELSE <<>>)
               \o (IF e.big THEN <<Tag("zip64", 3), Num(Len(e.data)), Num(Len(e.data)), Num(pos)>> ELSE <<>>)
      Word(v) == IF e.big THEN Full ELSE v
  IN  <<Header(Word(Len(e.data)), Word(Len(e.data)), Word(pos), e.name, Len(extra), 0)>> \o NameOf(e) \o extra

Locals(entries) == FlattenSeq([i \in DOMAIN entries |-> LocalOf(entries[i])])
Position(entries, i) == Len(Locals(SubSeq(entries, 1, i - 1)))
\* full are the fields of the last record that are Full.
Archive(entries, comment, big, full) ==
  LET body == Locals(entries) \o FlattenSeq([i \in DOMAIN entries |-> HeaderOf(entries[i], Position(entries, i))])
      n    == Len(entries)
      at   == Len(Locals(entries))
      Field(x, v) == IF x \in full THEN Full ELSE v
      end  == End(Field("records", n), Field("size", Len(body) - at), Field("offset", at), Len(comment))
  IN  body \o (IF big THEN <<End64(n, at), Locator(Len(body)), end>> ELSE <<end>>) \o comment

\* An archive gives back the files that were put into it, unless its comment holds
\* what could be the record of the directory, or it has a 64-bit record and does not
\* begin with the file.  A directory whose own size is the value that is tested is read
\* as any other.  The name of a file without a second name may be taken from
\* one that has it and comes before.
ReadAs(entries, file, base, r) ==
  /\ r.ok /\ Len(r.files) = Len(entries)
  /\ \A i \in DOMAIN entries :
       LET e == entries[i]
           f == r.files[i]
       IN  /\ f.csize = Len(e.data) /\ f.usize = Len(e.data) /\ f.pos = Position(entries, i)
           /\ Decompress(file, f, base) = [ok |-> TRUE, data |-> e.data]
           /\ e.path => f.name = <<Char("u")>>
           /\ (\A j \in 1 .. i : ~entries[j].path) => f.name = NameOf(e)
Read(entries, file, base) == ReadAs(entries, file, base, Initialize(file, base))
ReadsBack(entries) ==
  \A comment \in Comments, base \in {0, 2}, big \in BOOLEAN, full \in {{}, {"size"}, {"records", "size", "offset"}} :
    LET own == \A i \in DOMAIN comment : Kind(comment[i]) = "end" => i + comment[i][5] > Len(comment)
    IN  own /\ (big => base = 0 /\ entries # <<>>) /\ (big \/ full \subseteq {"size"}) =>
          Read(entries, [i \in 1 .. base |-> Junk] \o Archive(entries, comment, big, full), base)
=============================================================================
