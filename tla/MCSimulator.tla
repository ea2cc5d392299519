---------------------------- MODULE MCSimulator ----------------------------
(* Small environments for the runs of Simulator. *)
EXTENDS Simulator

Entry(root, sep, names, up) ==
  [root |-> root, sep |-> sep, names |-> names, up |-> up, bare |-> ~sep /\ names = <<>> /\ ~up, upper |-> FALSE]

MCSysPath == <<Entry(<<>>, TRUE, <<"go">>, FALSE)>>              \* \go
MCSystemPaths == <<Entry(<<"C:">>, TRUE, <<"system32">>, FALSE)>>  \* C:\system32
MCPathext == <<".exe">>
MCDefaultExts == <<".com", ".exe">>
MCKnown == {"HOME"}
MCNames == {"HOME", "PATHEXT"}
MCSysVars == [n \in {"HOME"} |-> <<"sys">>]
MCBashVars == [n \in {"HOME"} |-> <<"bash">>]
MCOneVal == {"v"}
MCOneExt == {".exe"}
MCSpelling == {Entry(<<>>, FALSE, <<"go">>, TRUE)}               \* ..\go
MCOwn == [t \in Threads |-> IF t = "t1" THEN "s1" ELSE "s2"]
=============================================================================
