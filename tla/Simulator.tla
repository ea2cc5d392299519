----------------------------- MODULE Simulator -----------------------------
(***************************************************************************)
(* bela::env::Simulator: an environment kept beside the one of the         *)
(* process.  An object holds the search path, the executable extensions,   *)
(* the other variables, and the environment block MakeEnv made last, which *)
(* MakeEnv returns again until an operation clears it.                     *)
(*                                                                         *)
(* The class has no lock: its operations run one at a time on an object.   *)
(* MakeEnv is the exception.  Process::Execute and Process::Capture call   *)
(* it through a pointer to a const Simulator, from the thread they run on, *)
(* so it is cut here where it touches the cached block.                    *)
(*                                                                         *)
(* Names are names up to case, those of the lists, "Path" and "PATHEXT",   *)
(* among them: only AppendEnv and InsertEnv send PATHEXT to its list.  An  *)
(* entry of the path is one of SearchPath; a variable is a sequence of the *)
(* values joined by ';'.  The environment of the process                   *)
(* (GetEnvironmentStringsW, the system directories of MakePathEnv) is      *)
(* constant.                                                               *)
(***************************************************************************)
EXTENDS Naturals, Sequences, FiniteSets, SearchPath

CONSTANTS
  Sims,         \* Simulator objects
  Threads,      \* threads that run child processes
  Of,           \* Of[t]: the Simulator that thread t runs them with
  Spellings,    \* entries of the path the operations are given
  Exts,         \* executable extensions
  Names, Vals,  \* names and values of variables
  SysPath, SysPathext, SysVars,  \* the environment of the process
  Known,        \* the names listed in env_wstrings
  SystemPaths,  \* the entries of MakePathEnv
  BashVars,     \* what AddBashCompatible adds
  DefaultExts,  \* defaultexts
  MaxPaths, MaxExts, MaxVals,  \* entries of the path, extensions, values in a variable (bounds)
  SetUpFirst    \* no initialisation, assignment or move once a block is made

\* What the operations, the process and the tables of the code can put into an object.
Given == {SysPath[i] : i \in DOMAIN SysPath} \cup {SystemPaths[i] : i \in DOMAIN SystemPaths} \cup Spellings
Listed == [root : {p.root : p \in Given}, sep : BOOLEAN, names : {<<>>} \cup {p.names : p \in Given},
           up : BOOLEAN, bare : BOOLEAN, upper : BOOLEAN]
AllExts == Exts \cup {SysPathext[i] : i \in DOMAIN SysPathext} \cup {DefaultExts[i] : i \in DOMAIN DefaultExts}
AllNames == Names \cup DOMAIN SysVars \cup DOMAIN BashVars
AllVals == Vals \cup UNION {UNION {{f[n][i] : i \in DOMAIN f[n]} : n \in DOMAIN f} : f \in {SysVars, BashVars}}

ASSUME OfAssumption == Of \in [Threads -> Sims]
ASSUME PathsAssumption == Spellings \subseteq Listed /\ SystemPaths \in Seq(Listed) /\ SysPath \in Seq(Listed)
ASSUME ExtsAssumption == SysPathext \in Seq(AllExts) /\ DefaultExts \in Seq(AllExts)
ASSUME ValsAssumption ==
  \A f \in {SysVars, BashVars} : \A n \in DOMAIN f : f[n] \in Seq(AllVals) /\ Len(f[n]) <= MaxVals
ASSUME BoundsAssumption == MaxPaths \in Nat /\ MaxExts \in Nat \ {0} /\ MaxVals \in Nat
ASSUME SetUpFirstAssumption == SetUpFirst \in BOOLEAN

VARIABLES paths, pathexts, envmap, cachedEnv, pc

vars == <<paths, pathexts, envmap, cachedEnv, pc>>

NoVars == [n \in {} |-> <<>>]

\* The three parts of a block; a cached one grows part by part.
PathPart(s) == <<"Path", paths[s]>>
PathextPart(s) == <<"PATHEXT", pathexts[s]>>
VarsPart(s) == <<"vars", envmap[s]>>
Block(s) == <<PathPart(s), PathextPart(s), VarsPart(s)>>

\* No thread is inside MakeEnv on s: the caller may operate on it.
Quiet(s) == \A t \in Threads : Of[t] = s => pc[t] = "idle"

\* The callers that set an object up before they make its block.
MaySetUp(s) == Quiet(s) /\ (SetUpFirst => cachedEnv[s] = <<>>)

\* map.emplace: an entry that is there stays.
Emplace(e, f) == [n \in DOMAIN e \cup DOMAIN f |-> IF n \in DOMAIN e THEN e[n] ELSE f[n]]
Assign(e, n, v) == [m \in DOMAIN e \cup {n} |-> IF m = n THEN v ELSE e[m]]
Without(e, n) == [m \in DOMAIN e \ {n} |-> e[m]]

Clear(s) == cachedEnv' = [cachedEnv EXCEPT ![s] = <<>>]

Init ==
  /\ paths = [s \in Sims |-> <<>>]
  /\ pathexts = [s \in Sims |-> <<>>]
  /\ envmap = [s \in Sims |-> NoVars]
  /\ cachedEnv = [s \in Sims |-> <<>>]
  /\ pc = [t \in Threads |-> "idle"]

-----------------------------------------------------------------------------
(* Setting up: these leave the cached block alone.                         *)

\* An empty PATHEXT replaces the list, another one is appended to it.
CleanupPathExt(es) == IF SysPathext = <<>> THEN DefaultExts ELSE es \o SysPathext

InitializeEnv(s) ==
  /\ MaySetUp(s)
  /\ Len(paths[s] \o SysPath) <= MaxPaths /\ Len(CleanupPathExt(pathexts[s])) <= MaxExts
  /\ paths' = [paths EXCEPT ![s] = @ \o [i \in DOMAIN SysPath |-> PathCat(SysPath[i])]]
  /\ pathexts' = [pathexts EXCEPT ![s] = CleanupPathExt(@)]
  /\ envmap' = [envmap EXCEPT ![s] = Emplace(@, SysVars)]
  /\ UNCHANGED <<cachedEnv, pc>>

InitializeCleanupEnv(s) ==
  /\ MaySetUp(s)
  /\ Len(paths[s] \o SystemPaths) <= MaxPaths /\ Len(CleanupPathExt(pathexts[s])) <= MaxExts
  /\ paths' = [paths EXCEPT ![s] = @ \o SystemPaths]
  /\ pathexts' = [pathexts EXCEPT ![s] = CleanupPathExt(@)]
  /\ envmap' = [envmap EXCEPT ![s] = Emplace(@, [n \in DOMAIN SysVars \cap Known |-> SysVars[n]])]
  /\ UNCHANGED <<cachedEnv, pc>>

AddBashCompatible(s) ==
  /\ MaySetUp(s)
  /\ envmap' = [envmap EXCEPT ![s] = Emplace(@, BashVars)]
  /\ UNCHANGED <<paths, pathexts, cachedEnv, pc>>

\* The loop of the copies runs over the map of the target itself, so the
\* variables of the source are not copied.
CopyConstruct(s, other) ==
  /\ Quiet(s) /\ Quiet(other)
  /\ paths' = [paths EXCEPT ![s] = paths[other]]
  /\ pathexts' = [pathexts EXCEPT ![s] = pathexts[other]]
  /\ envmap' = [envmap EXCEPT ![s] = NoVars]
  /\ Clear(s)
  /\ UNCHANGED pc

CopyAssign(s, other) ==
  /\ MaySetUp(s) /\ Quiet(other)
  /\ paths' = [paths EXCEPT ![s] = paths[other]]
  /\ pathexts' = [pathexts EXCEPT ![s] = pathexts[other]]
  /\ UNCHANGED <<envmap, cachedEnv, pc>>

Moved(s, other) ==
  /\ paths' = [paths EXCEPT ![s] = paths[other], ![other] = <<>>]
  /\ pathexts' = [pathexts EXCEPT ![s] = pathexts[other], ![other] = <<>>]
  /\ envmap' = [envmap EXCEPT ![s] = envmap[other], ![other] = NoVars]

MoveConstruct(s, other) ==
  /\ Quiet(s) /\ MaySetUp(other)
  /\ Moved(s, other)
  /\ Clear(s)
  /\ UNCHANGED pc

MoveAssign(s, other) ==
  /\ MaySetUp(s) /\ MaySetUp(other)
  /\ Moved(s, other)
  /\ UNCHANGED <<cachedEnv, pc>>

-----------------------------------------------------------------------------
(* Operations that clear the cached block.                                 *)

\* Slip: the block is not cleared.
EraseEnvKeepsCache(s, n) ==
  /\ Quiet(s) /\ n \in DOMAIN envmap[s]
  /\ envmap' = [envmap EXCEPT ![s] = Without(@, n)]
  /\ UNCHANGED <<paths, pathexts, cachedEnv, pc>>

EraseEnv(s, n) ==
  /\ Quiet(s) /\ n \in DOMAIN envmap[s]
  /\ envmap' = [envmap EXCEPT ![s] = Without(@, n)]
  /\ Clear(s)
  /\ UNCHANGED <<paths, pathexts, pc>>

\* The overloads of PathPushFront and PathAppend, with one directory or more.
PathPushFront(s, ps) ==
  /\ Quiet(s) /\ Len(ps \o paths[s]) <= MaxPaths
  /\ paths' = [paths EXCEPT ![s] = ps \o @]
  /\ Clear(s)
  /\ UNCHANGED <<pathexts, envmap, pc>>

PathAppend(s, ps) ==
  /\ Quiet(s) /\ Len(paths[s] \o ps) <= MaxPaths
  /\ paths' = [paths EXCEPT ![s] = @ \o ps]
  /\ Clear(s)
  /\ UNCHANGED <<pathexts, envmap, pc>>

PathOrganize(s) ==
  /\ Quiet(s)
  /\ paths' = [paths EXCEPT ![s] = Organize(@)]
  /\ Clear(s)
  /\ UNCHANGED <<pathexts, envmap, pc>>

\* An extension given to AppendEnv or InsertEnv under the name PATHEXT.
\* InsertEnv hands the iterators of another vector to insert, which is
\* defined, and so modelled, only while there is no extension yet.
AppendPathext(s, e) ==
  /\ Quiet(s) /\ Len(pathexts[s]) < MaxExts
  /\ pathexts' = [pathexts EXCEPT ![s] = Append(@, e)]
  /\ Clear(s)
  /\ UNCHANGED <<paths, envmap, pc>>

InsertPathext(s, e) ==
  /\ Quiet(s) /\ pathexts[s] = <<>>
  /\ pathexts' = [pathexts EXCEPT ![s] = <<e>>]
  /\ Clear(s)
  /\ UNCHANGED <<paths, envmap, pc>>

Value(s, n) == IF n \in DOMAIN envmap[s] THEN envmap[s][n] ELSE <<>>

Put(s, n, v) ==
  /\ Quiet(s) /\ Len(v) <= MaxVals
  /\ envmap' = [envmap EXCEPT ![s] = Assign(@, n, v)]
  /\ Clear(s)
  /\ UNCHANGED <<paths, pathexts, pc>>

\* Slip: PATHEXT is a variable like any other.
AppendEnvPlain(s, n, v) == Put(s, n, Value(s, n) \o <<v>>)

AppendEnv(s, n, v) ==
  IF n = "PATHEXT" THEN AppendPathext(s, v) ELSE Put(s, n, Value(s, n) \o <<v>>)

InsertEnv(s, n, v) ==
  IF n = "PATHEXT" THEN InsertPathext(s, v) ELSE Put(s, n, <<v>> \o Value(s, n))

\* Also PutEnv, whose value may be empty.
SetEnv(s, n, v, force) == (force \/ n \notin DOMAIN envmap[s]) /\ Put(s, n, v)

-----------------------------------------------------------------------------
(* MakeEnv                                                                 *)

Goto(t, l) == pc' = [pc EXCEPT ![t] = l]

AppendPart(t, from, to, part) ==
  /\ pc[t] = from
  /\ cachedEnv' = [cachedEnv EXCEPT ![Of[t]] = Append(@, part)]
  /\ Goto(t, to)
  /\ UNCHANGED <<paths, pathexts, envmap>>

MakeEnv(t) ==
  /\ pc[t] = "idle"
  /\ Goto(t, IF cachedEnv[Of[t]] # <<>> THEN "copy" ELSE "assign")
  /\ UNCHANGED <<paths, pathexts, envmap, cachedEnv>>

\* makeInternalEnv: assign, append, append.
AssignPath(t) ==
  /\ pc[t] = "assign"
  /\ cachedEnv' = [cachedEnv EXCEPT ![Of[t]] = <<PathPart(Of[t])>>]
  /\ Goto(t, "pathext")
  /\ UNCHANGED <<paths, pathexts, envmap>>

AppendPathextPart(t) == AppendPart(t, "pathext", "vars", PathextPart(Of[t]))
AppendVarsPart(t) == AppendPart(t, "vars", "copy", VarsPart(Of[t]))

\* The block is copied to the caller.
CopyBlock(t) == pc[t] = "copy" /\ Goto(t, "idle") /\ UNCHANGED <<paths, pathexts, envmap, cachedEnv>>

-----------------------------------------------------------------------------
\* The sequences of directories an operation is given.
SomePaths == {<<p>> : p \in Spellings} \cup {<<p, q>> : p, q \in Spellings}

SetUp(s) ==
  \/ InitializeEnv(s) \/ InitializeCleanupEnv(s) \/ AddBashCompatible(s)
  \/ \E o \in Sims \ {s} : CopyConstruct(s, o) \/ CopyAssign(s, o) \/ MoveConstruct(s, o) \/ MoveAssign(s, o)

Change(s) ==
  \/ \E ps \in SomePaths : PathPushFront(s, ps) \/ PathAppend(s, ps)
  \/ PathOrganize(s)
  \/ \E nv \in ((Names \ {"PATHEXT"}) \X Vals) \cup ({"PATHEXT"} \X Exts) :
       AppendEnv(s, nv[1], nv[2]) \/ InsertEnv(s, nv[1], nv[2])
  \/ \E n \in Names, v \in {<<>>} \cup {<<x>> : x \in Vals}, force \in BOOLEAN : SetEnv(s, n, v, force)
  \/ \E n \in Names : EraseEnv(s, n)

Make(t) == MakeEnv(t) \/ AssignPath(t) \/ AppendPathextPart(t) \/ AppendVarsPart(t) \/ CopyBlock(t)

Next == (\E s \in Sims : SetUp(s) \/ Change(s)) \/ (\E t \in Threads : Make(t))

Spec == Init /\ [][Next]_vars

-----------------------------------------------------------------------------
(* Properties                                                              *)

\* Every list stays within its bound, and a cached block has at most the parts
\* that MakeEnv has appended so far when each object has its own thread.
TypeOK ==
  /\ \A s \in Sims :
       /\ paths[s] \in Seq(Listed) /\ Len(paths[s]) <= MaxPaths
       /\ pathexts[s] \in Seq(AllExts) /\ Len(pathexts[s]) <= MaxExts
       /\ DOMAIN envmap[s] \subseteq AllNames
       /\ \A n \in DOMAIN envmap[s] : envmap[s][n] \in Seq(AllVals) /\ Len(envmap[s][n]) <= MaxVals
       /\ Len(cachedEnv[s]) <= 3
  /\ pc \in [Threads -> {"idle", "assign", "pathext", "vars", "copy"}]

\* "MakeEnv make environment string": the block a call returns is the one of
\* the paths, extensions and variables the object has now, not of what it had
\* when the block was cached and not half of one that another thread makes.
MakesCurrentBlock == \A t \in Threads : pc[t] = "copy" => cachedEnv[Of[t]] = Block(Of[t])

=============================================================================
