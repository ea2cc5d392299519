----------------------------- MODULE SearchPath -----------------------------
(***************************************************************************)
(* What bela::env::Simulator computes from a search path: PathOrganize     *)
(* cleans the entries and removes the duplicates, LookPath finds an        *)
(* executable.  The files of the system are a set of pairs of a directory  *)
(* and the extension the name looked for has there.                        *)
(*                                                                         *)
(* An entry is a text: a drive or a share, or no root; whether a separator *)
(* follows; the names left when the dots are resolved; whether a ".." has  *)
(* nothing before it to remove, and names those behind; whether nothing at *)
(* all follows the root; and its case.  Roots of devices, and texts of     *)
(* separators alone, are left out.                                         *)
(***************************************************************************)
EXTENDS Naturals, Sequences

Entries == [root : Seq(STRING), sep : BOOLEAN, names : Seq(STRING), up : BOOLEAN, bare : BOOLEAN, upper : BOOLEAN]

\* Splitting ends at a ".." that has nothing to remove, with nothing kept; what is kept
\* is joined to the root, without a separator in front if there is none.
PathCat(e) ==
  LET names == IF e.up THEN <<>> ELSE e.names
  IN  [e EXCEPT !.sep = e.root # <<>> /\ names # <<>>, !.names = names, !.up = FALSE, !.bare = names = <<>>]

\* Two texts the set of PathOrganize, which ignores case, takes for one.
SameDir(p, q) == p.root = q.root /\ p.sep = q.sep /\ p.names = q.names /\ p.up = q.up /\ p.bare = q.bare

\* Slip: a later entry replaces the one already kept.
OrganizeLast(ps) ==
  LET kept[n \in 0 .. Len(ps)] ==
        IF n = 0 THEN <<>>
        ELSE LET p == PathCat(ps[n]) IN Append(SelectSeq(kept[n - 1], LAMBDA q : ~SameDir(p, q)), p)
  IN  kept[Len(ps)]

\* The cleaned entries in their order, each text once.
Organize(ps) ==
  LET kept[n \in 0 .. Len(ps)] ==
        IF n = 0 THEN <<>>
        ELSE LET p == PathCat(ps[n])
             IN  IF \E i \in DOMAIN kept[n - 1] : SameDir(p, kept[n - 1][i])
                 THEN kept[n - 1] ELSE Append(kept[n - 1], p)
  IN  kept[Len(ps)]

\* LookPath puts a separator behind an entry, so that a drive alone, and an empty text,
\* are roots.  In a root ".." changes nothing.
Rooted(e) == e.sep \/ e.bare
Dir(e) == [root |-> e.root, sep |-> Rooted(e), names |-> e.names, up |-> e.up /\ ~Rooted(e)]
Cwd == [root |-> <<>>, sep |-> FALSE, names |-> <<>>, up |-> FALSE]

\* LookPath tries the directories in their order, for each of them the name as
\* it is if it has an extension, then the extensions in theirs.  Files is what
\* exists under the name looked for: pairs of a directory and an extension.
LookPath(dirs, exts, Files) ==
  LET Hit(i, j) == <<dirs[i], exts[j]>> \in Files
      First(i, j) == Hit(i, j) /\ \A k \in DOMAIN dirs, m \in DOMAIN exts :
                       Hit(k, m) => i < k \/ (i = k /\ j <= m)
  IN  {<<dirs[x[1]], exts[x[2]]>> : x \in {y \in (DOMAIN dirs) \X (DOMAIN exts) : First(y[1], y[2])}}

\* The current directory is in front of the first entry.
TriedDirs(ps, absPath) ==
  [i \in (IF absPath THEN 1 ELSE 0) .. Len(ps) |-> IF i = 0 THEN Cwd ELSE Dir(ps[i])]
TriedExts(es, hasExt) == IF hasExt THEN <<"">> \o es ELSE es
Found(ps, es, Files, absPath, hasExt) == LookPath(TriedDirs(ps, absPath), TriedExts(es, hasExt), Files)

\* The entries that are the same directory when they are cleaned: those of a root that a
\* separator follows, or nothing, and relative ones with a name of their own and no "..".
Anchored(e) ==
  IF e.root # <<>> THEN Rooted(e) /\ (e.up => e.names = <<>>)
  ELSE IF e.names = <<>> THEN Rooted(e) ELSE ~Rooted(e) /\ ~e.up

\* Organising leaves each directory once and finds, whatever the extensions and the
\* files, what the cleaned entries find.  That is what was found before if every entry
\* is anchored; an entry that is not anchored is another directory when it is cleaned.
KeepsAnswer(ps, es, Files) ==
  LET qs == Organize(ps)
      cleaned == [i \in DOMAIN ps |-> PathCat(ps[i])]
  IN  /\ \A i, j \in DOMAIN qs : i # j => ~SameDir(qs[i], qs[j])
      /\ \A absPath, hasExt \in BOOLEAN :
           /\ Found(qs, es, Files, absPath, hasExt) = Found(cleaned, es, Files, absPath, hasExt)
           /\ (\A i \in DOMAIN ps : Anchored(ps[i])) =>
                Found(qs, es, Files, absPath, hasExt) = Found(ps, es, Files, absPath, hasExt)
      /\ \A i \in DOMAIN ps : Dir(PathCat(ps[i])) = Dir(ps[i]) <=> Anchored(ps[i])
=============================================================================
