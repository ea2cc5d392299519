--------------------------- MODULE MCForceDelete ---------------------------
(***************************************************************************)
(* A folder "d" with a folder "s", a file "f" in that, which may be        *)
(* read-only, a link "l" in "d" to "o", outside, with a file "x"; "n" may  *)
(* be created in "s".                                                      *)
(***************************************************************************)
EXTENDS ForceDelete

MCParent == [n \in Node |-> CASE n \in {"s", "l"} -> "d" [] n \in {"f", "n"} -> "s" [] n = "x" -> "o" [] OTHER -> "top"]
MCLinkedTo == [n \in Links |-> "o"]

MCSetting(workers, fresh, posix, forbids, denied, used, creates) ==
  [workers |-> workers, fresh |-> fresh, posix |-> posix, readonly |-> forbids,
   denied |-> denied, used |-> used, creates |-> creates]

\* One worker left alone, on each kind of file system, ...
MCAlone == {MCSetting({1}, TRUE, posix, forbids, {}, {}, FALSE) : posix \in BOOLEAN, forbids \in SUBSET {"s", "f"}}

\* ... two at work on one tree while a file is opened or created, ...
MCTwo == {MCSetting({1, 2}, TRUE, FALSE, {"f"}, {}, {"f"}, FALSE), MCSetting({1, 2}, TRUE, TRUE, {"f"}, {}, {}, TRUE)}

\* ... and one that never clears its error_code.
MCReuse == {MCSetting({1}, FALSE, TRUE, {"f"}, denied, {"f"}, FALSE) : denied \in {{}, {"f"}}}

MCSettings == MCAlone \cup MCTwo \cup MCReuse
=============================================================================
