-------------------------------- MODULE Path --------------------------------
(***************************************************************************)
(* bela's path algebra (src/belawin/path.cc): SplitPath, PathCat, BaseName,*)
(* DirName, PathStripName and the root of a path.  A path is a sequence of *)
(* characters: "sep" (either slash), ".", ":", "?" and letters.            *)
(***************************************************************************)
EXTENDS Naturals, Sequences, SequencesExt

Letters == {"a", "b"}
IsSep(p, i) == p[i] = "sep"

\* The parts of a path between separators, the empty ones left out.
Pieces(p) ==
  LET Next(done, c) == IF c = "sep" THEN Append(done, <<>>)
                       ELSE [done EXCEPT ![Len(done)] = Append(@, c)]
  IN  SelectSeq(FoldLeft(Next, <<<<>>>>, p), LAMBDA n : n # <<>>)

\* Slip: a ".." with nothing before it is dropped.
SplitOntoClamped(p, output) ==
  LET Next(done, n) ==
        CASE n = <<".", ".">> -> [done EXCEPT !.names = IF @ = <<>> THEN @ ELSE Front(@)]
          [] n = <<".">>      -> done
          [] OTHER            -> [done EXCEPT !.names = Append(@, n)]
  IN  FoldLeft(Next, [ok |-> TRUE, names |-> output], Pieces(p))

\* SplitPathInternal: the names of p after those of output, each ".." taking
\* back one; with none to take back it fails, and reads no further.
SplitOnto(p, output) ==
  LET Next(done, n) ==
        CASE ~done.ok         -> done
          [] n = <<".", ".">> -> IF done.names = <<>> THEN [done EXCEPT !.ok = FALSE]
                                 ELSE [done EXCEPT !.names = Front(@)]
          [] n = <<".">>      -> done
          [] OTHER            -> [done EXCEPT !.names = Append(@, n)]
  IN  FoldLeft(Next, [ok |-> TRUE, names |-> output], Pieces(p))

SplitPath(p) == LET s == SplitOnto(p, <<>>) IN IF s.ok THEN s.names ELSE <<>>

\* How many characters of p are a root: a drive, a device (with its drive), or a
\* server and its share.
PathRootLen(p) ==
  LET drive(i)  == Len(p) >= i + 1 /\ p[i] \in Letters /\ p[i + 1] = ":"
      device    == Len(p) >= 6 /\ IsSep(p, 1) /\ IsSep(p, 2) /\ p[3] \in {".", "?"} /\ IsSep(p, 4)
      network   == Len(p) >= 5 /\ IsSep(p, 1) /\ IsSep(p, 2) /\ p[3] \notin {"sep", "."}
      Seps      == {n \in 4 .. Len(p) - 1 : IsSep(p, n)}
      share     == Min(Seps) + 1
      After     == {n \in share .. Len(p) : IsSep(p, n)}
  IN  IF drive(1) THEN 2
      ELSE IF device THEN (IF drive(5) THEN 6 ELSE 4)
      ELSE IF network /\ Seps # {} /\ p[share] \notin {"sep", "."}
           THEN (IF After = {} THEN Len(p) ELSE Min(After) - 1)
      ELSE 0

\* The first piece gives the root; that it fails to split is not looked at.
PathCat(pieces) ==
  LET p0    == Head(pieces)
      rlen  == PathRootLen(p0)
      first == [ok |-> TRUE, names |-> SplitOnto(SubSeq(p0, rlen + 1, Len(p0)), <<>>).names]
      Cat(done, p) == IF done.ok THEN SplitOnto(p, done.names) ELSE done
      all   == FoldLeft(Cat, first, Tail(pieces))
      Join(s, n) == s \o (IF s = <<>> THEN <<>> ELSE <<"sep">>) \o n
  IN  IF all.ok THEN FoldLeft(Join, SubSeq(p0, 1, rlen), all.names) ELSE <<".">>

\* The end of p without the separators there.
Trimmed(p) == LET ends == {i \in DOMAIN p : ~IsSep(p, i)} IN IF ends = {} THEN 0 ELSE Max(ends)
LastSep(p) == LET seps == {i \in DOMAIN p : IsSep(p, i)} IN IF seps = {} THEN 0 ELSE Max(seps)

BaseName(p) ==
  LET q    == IF Len(p) > 2 /\ p[2] = ":" THEN SubSeq(p, 3, Len(p)) ELSE p
      name == SubSeq(q, 1, Trimmed(q))
  IN  IF name = <<>> \/ (Len(p) = 2 /\ p[2] = ":") THEN <<".">>
      ELSE SubSeq(name, LastSep(name) + 1, Len(name))

\* "/" if there are only separators before the last name, "." if there are none.
DirName(p) ==
  LET upto == LastSep(SubSeq(p, 1, Trimmed(p)))
      dir  == Trimmed(SubSeq(p, 1, upto))
  IN  IF p = <<>> THEN <<".">>
      ELSE IF Trimmed(p) = 0 THEN <<"sep">>
      ELSE IF upto = 0 THEN <<".">>
      ELSE IF dir = 0 THEN <<"sep">> ELSE SubSeq(p, 1, dir)

\* DirName in place; where that is "/" or ".", the path stays.
PathStripName(p) ==
  LET dir == Trimmed(SubSeq(p, 1, LastSep(SubSeq(p, 1, Trimmed(p)))))
  IN  IF dir = 0 THEN p ELSE SubSeq(p, 1, dir)

-----------------------------------------------------------------------------
(* The reference: which names are left is said of the whole list at once.  *)

Count(cs, i, j, up) == Cardinality({k \in i .. j : (cs[k] = <<".", ".">>) = up})
\* More ".." than names in front of some point.
Escapes(cs) == \E j \in DOMAIN cs : Count(cs, 1, j, TRUE) > Count(cs, 1, j, FALSE)
Kept(cs) ==
  LET kept == {i \in DOMAIN cs : /\ cs[i] # <<".", ".">>
                                 /\ \A j \in i .. Len(cs) :
                                      Count(cs, i + 1, j, TRUE) <= Count(cs, i + 1, j, FALSE)}
  IN  [k \in 1 .. Cardinality(kept) |->
         cs[CHOOSE i \in kept : Cardinality({j \in kept : j <= i}) = k]]

Names(p) == SelectSeq(Pieces(p), LAMBDA n : n # <<".">>)
Resolved(pieces) ==
  LET p0    == Head(pieces)
      rlen  == PathRootLen(p0)
      cs0   == Names(SubSeq(p0, rlen + 1, Len(p0)))
      cs    == (IF Escapes(cs0) THEN <<>> ELSE cs0) \o FlattenSeq([i \in DOMAIN Tail(pieces) |-> Names(Tail(pieces)[i])])
  IN  [root |-> SubSeq(p0, 1, rlen), out |-> Escapes(cs), names |-> Kept(cs)]

\* PathCat resolves every piece against those before it and never leaves the
\* root; a path it has cleaned it leaves alone; and a clean path is its DirName
\* and its BaseName put together (with a colon in the root only, as in the name
\* of any file, and a root that is seen again: \\.\ by itself is not, and DirName
\* takes its last separator).
IsCleaned(p, r) ==
  LET rlen  == Len(r.root)
      plain == ~r.out /\ PathRootLen(p) = rlen /\ \A i \in DOMAIN p : p[i] = ":" => i <= rlen
  IN  /\ IF r.out THEN p = <<".">>
         ELSE /\ SubSeq(p, 1, Len(r.root)) = r.root
              /\ Pieces(SubSeq(p, Len(r.root) + 1, Len(p))) = r.names
      /\ plain => PathCat(<<p>>) = p
      /\ plain /\ r.names # <<>> /\ PathRootLen(DirName(p)) = rlen => PathCat(<<DirName(p), BaseName(p)>>) = p
      /\ plain /\ Len(r.names) > 1 => PathStripName(p) = DirName(p)
Cleans(pieces) == IsCleaned(PathCat(pieces), Resolved(pieces))
=============================================================================
