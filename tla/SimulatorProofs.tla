-------------------------- MODULE SimulatorProofs --------------------------
(***************************************************************************)
(* Every MakeEnv of Simulator returns the block of the object's current    *)
(* state, for any number of objects and threads, provided that an object   *)
(* is set up before its first block is made and that no two threads run    *)
(* children with the same object.  Both provisos are needed: without the   *)
(* first the run Simulator_stale finds an old block, and without the       *)
(* second a thread copies the block another has half made.  The types need *)
(* only the second.                                                        *)
(***************************************************************************)
EXTENDS Simulator, SequenceTheorems, TLAPS

\* What the proofs add to the specification: the discipline of the callers.
OwnThreads == \A t, u \in Threads : Of[t] = Of[u] => t = u
Discipline == SetUpFirst /\ OwnThreads

Domains ==
  /\ DOMAIN paths = Sims /\ DOMAIN pathexts = Sims /\ DOMAIN envmap = Sims /\ DOMAIN cachedEnv = Sims
  /\ DOMAIN pc = Threads

\* Out of MakeEnv the cached block is empty or current.
CacheFresh == \A s \in Sims : Quiet(s) => cachedEnv[s] \in {<<>>, Block(s)}

\* Inside it, it holds the parts appended so far, and they are current.
PartsFresh ==
  \A t \in Threads :
    /\ pc[t] = "pathext" => cachedEnv[Of[t]] = <<PathPart(Of[t])>>
    /\ pc[t] = "vars" => cachedEnv[Of[t]] = <<PathPart(Of[t]), PathextPart(Of[t])>>
    /\ pc[t] = "copy" => cachedEnv[Of[t]] = Block(Of[t])

IInv == Domains /\ CacheFresh /\ PartsFresh

\* A step that changes the objects of C only, which no thread is using, and
\* leaves them without a block.
Touches(C) ==
  /\ pc' = pc
  /\ Domains'
  /\ \A s \in Sims :
       IF s \in C THEN Quiet(s) /\ cachedEnv[s]' = <<>>
       ELSE /\ paths[s]' = paths[s] /\ pathexts[s]' = pathexts[s]
            /\ envmap[s]' = envmap[s] /\ cachedEnv[s]' = cachedEnv[s]

-----------------------------------------------------------------------------
\* A block that is not touched stays the block.
LEMMA SameBlock ==
  ASSUME NEW s, paths[s]' = paths[s], pathexts[s]' = pathexts[s], envmap[s]' = envmap[s]
  PROVE  /\ PathPart(s)' = PathPart(s) /\ PathextPart(s)' = PathextPart(s)
         /\ VarsPart(s)' = VarsPart(s) /\ Block(s)' = Block(s)
BY DEF PathPart, PathextPart, VarsPart, Block

\* Clearing the block of every object that changes keeps the invariant.
LEMMA TouchesKeeps == ASSUME NEW C, IInv, Touches(C) PROVE IInv'
<1>1. Domains'
  BY DEF Touches
<1>2. ASSUME NEW s \in Sims, Quiet(s)' PROVE (cachedEnv[s] \in {<<>>, Block(s)})'
  <2>1. Quiet(s)
    BY <1>2 DEF Touches, Quiet
  <2>2. CASE s \in C
    BY <2>2 DEF Touches
  <2>3. CASE s \notin C
    BY <2>1, <2>3, SameBlock DEF Touches, IInv, CacheFresh
  <2>4. QED
    BY <2>2, <2>3
<1>3. ASSUME NEW t \in Threads, pc[t]' # "idle" PROVE Of[t] \notin C
  BY <1>3, OfAssumption DEF Touches, Quiet
<1>4. ASSUME NEW t \in Threads, Of[t] \notin C
      PROVE  /\ cachedEnv[Of[t]]' = cachedEnv[Of[t]] /\ pc[t]' = pc[t]
             /\ PathPart(Of[t])' = PathPart(Of[t]) /\ PathextPart(Of[t])' = PathextPart(Of[t])
             /\ Block(Of[t])' = Block(Of[t])
  <2>1. Of[t] \in Sims
    BY OfAssumption
  <2>2. /\ paths[Of[t]]' = paths[Of[t]] /\ pathexts[Of[t]]' = pathexts[Of[t]]
        /\ envmap[Of[t]]' = envmap[Of[t]] /\ cachedEnv[Of[t]]' = cachedEnv[Of[t]] /\ pc[t]' = pc[t]
    BY <1>4, <2>1 DEF Touches
  <2>3. QED
    BY <2>2 DEF PathPart, PathextPart, VarsPart, Block
<1>5. PartsFresh'
  BY <1>3, <1>4 DEF IInv, PartsFresh
<1>6. CacheFresh'
  BY <1>2 DEF CacheFresh
<1>7. QED
  BY <1>1, <1>5, <1>6 DEF IInv

-----------------------------------------------------------------------------
\* Setting up an object touches it, and a move its source, only.
LEMMA SetUpTouches == ASSUME Discipline, IInv, NEW s \in Sims, SetUp(s) PROVE \E C : Touches(C)
<1> USE DEF Touches, IInv, Domains
<1>1. CASE InitializeEnv(s)
  <2>1. Touches({s})
    BY <1>1 DEF InitializeEnv, MaySetUp, Discipline
  <2>2. QED
    BY <2>1
<1>2. CASE InitializeCleanupEnv(s)
  <2>1. Touches({s})
    BY <1>2 DEF InitializeCleanupEnv, MaySetUp, Discipline
  <2>2. QED
    BY <2>1
<1>3. CASE AddBashCompatible(s)
  <2>1. Touches({s})
    BY <1>3 DEF AddBashCompatible, MaySetUp, Discipline
  <2>2. QED
    BY <2>1
<1>4. ASSUME NEW o \in Sims \ {s}, CopyConstruct(s, o) PROVE Touches({s})
  BY <1>4 DEF CopyConstruct, Clear
<1>5. ASSUME NEW o \in Sims \ {s}, CopyAssign(s, o) PROVE Touches({s})
  BY <1>5 DEF CopyAssign, MaySetUp, Discipline
<1>6. ASSUME NEW o \in Sims \ {s}, MoveConstruct(s, o) PROVE Touches({s, o})
  BY <1>6 DEF MoveConstruct, Moved, MaySetUp, Clear, Discipline
<1>7. ASSUME NEW o \in Sims \ {s}, MoveAssign(s, o) PROVE Touches({s, o})
  BY <1>7 DEF MoveAssign, Moved, MaySetUp, Discipline
<1>8. QED
  BY <1>1, <1>2, <1>3, <1>4, <1>5, <1>6, <1>7 DEF SetUp

\* A change of an object touches it only, and clears its block.
LEMMA ChangeTouches == ASSUME IInv, NEW s \in Sims, Change(s) PROVE Touches({s})
<1> USE DEF Touches, IInv, Domains, Clear
<1>1. ASSUME NEW ps, PathPushFront(s, ps) \/ PathAppend(s, ps) PROVE Touches({s})
  BY <1>1 DEF PathPushFront, PathAppend
<1>2. CASE PathOrganize(s)
  BY <1>2 DEF PathOrganize
<1>3. ASSUME NEW n, NEW v, Put(s, n, v) PROVE Touches({s})
  BY <1>3 DEF Put
<1>4. ASSUME NEW e, AppendPathext(s, e) \/ InsertPathext(s, e) PROVE Touches({s})
  BY <1>4 DEF AppendPathext, InsertPathext
<1>5. ASSUME NEW n, NEW v, AppendEnv(s, n, v) \/ InsertEnv(s, n, v) PROVE Touches({s})
  BY <1>3, <1>4, <1>5 DEF AppendEnv, InsertEnv
<1>6. ASSUME NEW n, NEW v, NEW force, SetEnv(s, n, v, force) PROVE Touches({s})
  BY <1>3, <1>6 DEF SetEnv
<1>7. ASSUME NEW n, EraseEnv(s, n) PROVE Touches({s})
  BY <1>7 DEF EraseEnv
<1>8. QED
  BY <1>1, <1>2, <1>5, <1>6, <1>7 DEF Change

-----------------------------------------------------------------------------
\* Appending a part to the first one or two of them.
LEMMA AppendPartTo ==
  ASSUME NEW x, NEW y, NEW z
  PROVE  Append(<<x>>, y) = <<x, y>> /\ Append(<<x, y>>, z) = <<x, y, z>>
<1> DEFINE S == {x, y, z}
<1>1. <<x>> \in Seq(S) /\ <<x, y>> \in Seq(S) /\ y \in S /\ z \in S
  OBVIOUS
<1>2. Append(<<x>>, y) = <<x, y>>
  <2>1. Append(<<x>>, y) \in Seq(S) /\ Len(Append(<<x>>, y)) = 2
    BY <1>1
  <2>2. Append(<<x>>, y)[1] = x /\ Append(<<x>>, y)[2] = y
    BY <1>1
  <2>3. \A i \in 1 .. 2 : Append(<<x>>, y)[i] = <<x, y>>[i]
    BY <2>2
  <2>4. QED
    BY <1>1, <2>1, <2>3, SeqEqual
<1>3. Append(<<x, y>>, z) = <<x, y, z>>
  <2>1. Append(<<x, y>>, z) \in Seq(S) /\ Len(Append(<<x, y>>, z)) = 3
    BY <1>1
  <2>2. Append(<<x, y>>, z)[1] = x /\ Append(<<x, y>>, z)[2] = y /\ Append(<<x, y>>, z)[3] = z
    BY <1>1
  <2>3. \A i \in 1 .. 3 : Append(<<x, y>>, z)[i] = <<x, y, z>>[i]
    BY <2>2
  <2>4. <<x, y, z>> \in Seq(S) /\ Len(<<x, y, z>>) = 3
    OBVIOUS
  <2>5. QED
    BY <2>1, <2>3, <2>4, SeqEqual
<1>4. QED
  BY <1>2, <1>3

\* The steps of MakeEnv touch the block of one object, which one thread uses.
LEMMA MakeKeeps == ASSUME Discipline, IInv, NEW t \in Threads, Make(t) PROVE IInv'
<1>1. /\ Of[t] \in Sims
      /\ \A u \in Threads : u # t => Of[u] # Of[t] /\ Of[u] \in Sims
  BY OfAssumption DEF Discipline, OwnThreads
<1>2. /\ UNCHANGED <<paths, pathexts, envmap>>
      /\ \A s \in Sims : Block(s)' = Block(s) /\ PathPart(s)' = PathPart(s) /\ PathextPart(s)' = PathextPart(s)
  BY DEF Make, MakeEnv, AssignPath, AppendPathextPart, AppendVarsPart, AppendPart, CopyBlock,
         Block, PathPart, PathextPart, VarsPart
<1>3. /\ Domains'
      /\ \A s \in Sims : s # Of[t] => cachedEnv[s]' = cachedEnv[s]
      /\ \A u \in Threads : u # t => pc[u]' = pc[u]
  BY <1>2 DEF IInv, Domains, Make, MakeEnv, AssignPath, AppendPathextPart, AppendVarsPart, AppendPart,
              CopyBlock, Goto
<1>4. /\ pc[t]' = "idle" => cachedEnv[Of[t]]' = Block(Of[t])
      /\ pc[t]' = "pathext" => cachedEnv[Of[t]]' = <<PathPart(Of[t])>>
      /\ pc[t]' = "vars" => cachedEnv[Of[t]]' = <<PathPart(Of[t]), PathextPart(Of[t])>>
      /\ pc[t]' = "copy" => cachedEnv[Of[t]]' = Block(Of[t])
  <2>1. CASE MakeEnv(t)
    <3>1. Quiet(Of[t])
      BY <1>1, <2>1 DEF Quiet, MakeEnv
    <3>2. cachedEnv[Of[t]] \in {<<>>, Block(Of[t])}
      BY <1>1, <3>1 DEF IInv, CacheFresh
    <3>3. QED
      BY <2>1, <3>2 DEF MakeEnv, Goto, IInv, Domains
  <2>2. CASE AssignPath(t)
    BY <1>1, <2>2 DEF AssignPath, Goto, IInv, Domains
  <2>3. CASE AppendPathextPart(t)
    <3>1. cachedEnv[Of[t]] = <<PathPart(Of[t])>>
      BY <2>3 DEF AppendPathextPart, AppendPart, IInv, PartsFresh
    <3>2. cachedEnv[Of[t]]' = Append(cachedEnv[Of[t]], PathextPart(Of[t])) /\ pc[t]' = "vars"
      BY <1>1, <2>3 DEF AppendPathextPart, AppendPart, Goto, IInv, Domains
    <3>3. cachedEnv[Of[t]]' = <<PathPart(Of[t]), PathextPart(Of[t])>>
      BY <3>1, <3>2, AppendPartTo
    <3>4. QED
      BY <3>2, <3>3
  <2>4. CASE AppendVarsPart(t)
    <3>1. cachedEnv[Of[t]] = <<PathPart(Of[t]), PathextPart(Of[t])>>
      BY <2>4 DEF AppendVarsPart, AppendPart, IInv, PartsFresh
    <3>2. cachedEnv[Of[t]]' = Append(cachedEnv[Of[t]], VarsPart(Of[t])) /\ pc[t]' = "copy"
      BY <1>1, <2>4 DEF AppendVarsPart, AppendPart, Goto, IInv, Domains
    <3>3. cachedEnv[Of[t]]' = Block(Of[t])
      BY <3>1, <3>2, AppendPartTo DEF Block
    <3>4. QED
      BY <3>2, <3>3
  <2>5. CASE CopyBlock(t)
    BY <2>5 DEF CopyBlock, Goto, IInv, Domains, PartsFresh
  <2>6. QED
    BY <2>1, <2>2, <2>3, <2>4, <2>5 DEF Make
<1>5. CacheFresh'
  <2> SUFFICES ASSUME NEW s \in Sims, Quiet(s)' PROVE (cachedEnv[s] \in {<<>>, Block(s)})'
    BY DEF CacheFresh
  <2>1. CASE s = Of[t]
    <3>1. pc[t]' = "idle"
      BY <2>1 DEF Quiet
    <3>2. QED
      BY <1>1, <1>2, <1>4, <2>1, <3>1
  <2>2. CASE s # Of[t]
    <3>1. Quiet(s)
      BY <1>3, <2>2 DEF Quiet
    <3>2. QED
      BY <1>2, <1>3, <2>2, <3>1 DEF IInv, CacheFresh
  <2>3. QED
    BY <2>1, <2>2
<1>6. PartsFresh'
  <2> SUFFICES ASSUME NEW u \in Threads
               PROVE (/\ pc[u] = "pathext" => cachedEnv[Of[u]] = <<PathPart(Of[u])>>
                      /\ pc[u] = "vars" => cachedEnv[Of[u]] = <<PathPart(Of[u]), PathextPart(Of[u])>>
                      /\ pc[u] = "copy" => cachedEnv[Of[u]] = Block(Of[u]))'
    BY DEF PartsFresh
  <2>1. CASE u = t
    BY <1>1, <1>2, <1>4, <2>1
  <2>2. CASE u # t
    BY <1>1, <1>2, <1>3, <2>2 DEF IInv, PartsFresh
  <2>3. QED
    BY <2>1, <2>2
<1>7. QED
  BY <1>3, <1>5, <1>6 DEF IInv

\* The inductive invariant of the discipline.
LEMMA IInvHolds == ASSUME Discipline PROVE Spec => []IInv
<1>1. Init => IInv
  BY DEF Init, IInv, Domains, CacheFresh, PartsFresh
<1>2. ASSUME IInv, [Next]_vars PROVE IInv'
  <2>1. CASE \E s \in Sims : SetUp(s)
    BY <1>2, <2>1, SetUpTouches, TouchesKeeps
  <2>2. CASE \E s \in Sims : Change(s)
    BY <1>2, <2>2, ChangeTouches, TouchesKeeps
  <2>3. CASE \E t \in Threads : Make(t)
    BY <1>2, <2>3, MakeKeeps
  <2>4. CASE UNCHANGED vars
    BY <1>2, <2>4 DEF vars, IInv, Domains, CacheFresh, PartsFresh, Quiet, Block, PathPart, PathextPart, VarsPart
  <2>5. QED
    BY <1>2, <2>1, <2>2, <2>3, <2>4 DEF Next
<1>3. QED
  BY <1>1, <1>2, PTL DEF Spec

\* MakeEnv returns the block of what the object holds: the cache is never
\* stale and never half made, whatever the operations between two calls.
THEOREM MakeEnvIsCurrent == ASSUME Discipline PROVE Spec => []MakesCurrentBlock
<1>1. IInv => MakesCurrentBlock
  BY DEF IInv, PartsFresh, MakesCurrentBlock
<1>2. QED
  BY <1>1, IInvHolds, PTL

-----------------------------------------------------------------------------
(* Types.  A thread appends to the block it has begun, so its block has as *)
(* many parts as its steps have put there, unless another thread appends   *)
(* to it as well.                                                          *)

PathLists == {ps \in Seq(Listed) : Len(ps) <= MaxPaths}
ExtLists == {es \in Seq(AllExts) : Len(es) <= MaxExts}
ValLists == {vs \in Seq(AllVals) : Len(vs) <= MaxVals}
IsMap(e) == DOMAIN e \subseteq AllNames /\ \A n \in DOMAIN e : e[n] \in ValLists
IsObject(s) == paths[s] \in PathLists /\ pathexts[s] \in ExtLists /\ IsMap(envmap[s])

IsSeq(b) == b \in Seq({b[i] : i \in DOMAIN b})
PartsCounted ==
  /\ \A s \in Sims : IsSeq(cachedEnv[s]) /\ Len(cachedEnv[s]) <= 3
  /\ \A t \in Threads : /\ pc[t] = "pathext" => Len(cachedEnv[Of[t]]) = 1
                        /\ pc[t] = "vars" => Len(cachedEnv[Of[t]]) = 2

TInv ==
  /\ Domains
  /\ \A s \in Sims : IsObject(s)
  /\ pc \in [Threads -> {"idle", "assign", "pathext", "vars", "copy"}]
  /\ PartsCounted

\* What is known of Organize for every input; nothing is asked here.
AP == INSTANCE AlgorithmProofs
        WITH what <- "SearchPath", input <- <<>>, Exts <- <<>>, Placements <- {}, Alphabet <- <<>>, MaxLen <- <<>>, Half <- 1,
             HiMax <- 7, LoWord <- 8, Unit <- 1, PerSecond <- 2, SecondsPerMinute <- 1, ShortSeconds <- 1

LEMMA CleanIsListed == \A e \in Listed : PathCat(e) \in Listed
<1> SUFFICES ASSUME NEW e \in Listed PROVE PathCat(e) \in Listed
  OBVIOUS
<1>1. e.root \in {p.root : p \in Given} /\ e.names \in {<<>>} \cup {p.names : p \in Given} /\ e.upper \in BOOLEAN
  BY DEF Listed
<1> DEFINE names == IF e.up THEN <<>> ELSE e.names
<1>2. names \in {<<>>} \cup {p.names : p \in Given}
  BY <1>1
<1>3. PathCat(e) = [root |-> e.root, sep |-> e.root # <<>> /\ names # <<>>, names |-> names, up |-> FALSE,
                   bare |-> names = <<>>, upper |-> e.upper]
  <2>1. e \in [root : {p.root : p \in Given}, sep : BOOLEAN, names : {<<>>} \cup {p.names : p \in Given},
               up : BOOLEAN, bare : BOOLEAN, upper : BOOLEAN]
    BY DEF Listed
  <2>2. PathCat(e) = [e EXCEPT !.sep = e.root # <<>> /\ names # <<>>, !.names = names, !.up = FALSE, !.bare = names = <<>>]
    BY Zenon DEF PathCat
  <2> HIDE DEF names
  <2>3. QED
    BY <2>1, <2>2
<1> HIDE DEF names
<1>4. QED
  BY <1>1, <1>2, <1>3 DEF Listed

LEMMA OrganizeShortens == ASSUME NEW ps \in Seq(Listed) PROVE Organize(ps) \in Seq(Listed) /\ Len(Organize(ps)) <= Len(ps)
<1>1. AP!KeptWell(AP!Organize(ps), Len(ps), ps, Listed)
  <2>1. \A e \in Listed : AP!PathCat(e) \in Listed
    BY CleanIsListed DEF PathCat, AP!PathCat
  <2>2. QED
    BY <2>1, AP!OrganizeWell
<1>2. Organize(ps) = AP!Organize(ps)
  BY Zenon DEF Organize, AP!Organize, SameDir, AP!SameDir, PathCat, AP!PathCat
<1>3. QED
  BY <1>1, <1>2 DEF AP!KeptWell

LEMMA TypedPaths ==
  /\ \A ps \in PathLists : Organize(ps) \in PathLists
  /\ \A ps \in Seq(Listed), qs \in Seq(Listed) : ps \o qs \in Seq(Listed)
  /\ SystemPaths \in Seq(Listed) /\ SysPath \in Seq(Listed)
  /\ LET cleaned == [i \in DOMAIN SysPath |-> PathCat(SysPath[i])]
     IN  cleaned \in Seq(Listed) /\ Len(cleaned) = Len(SysPath)
<1>1. ASSUME NEW ps \in PathLists PROVE Organize(ps) \in PathLists
  <2>1. ps \in Seq(Listed) /\ Len(ps) \in Nat /\ Len(ps) <= MaxPaths
    BY DEF PathLists
  <2>2. Organize(ps) \in Seq(Listed) /\ Len(Organize(ps)) <= Len(ps)
    BY <2>1, OrganizeShortens
  <2>3. Len(Organize(ps)) \in Nat
    BY <2>2
  <2>4. Len(Organize(ps)) <= MaxPaths
    BY <2>1, <2>2, <2>3, BoundsAssumption
  <2>5. QED
    BY <2>2, <2>4 DEF PathLists
<1>2. \A ps \in Seq(Listed), qs \in Seq(Listed) : ps \o qs \in Seq(Listed)
  BY ConcatProperties
<1>3. SystemPaths \in Seq(Listed) /\ SysPath \in Seq(Listed)
  BY PathsAssumption
<1> DEFINE cleaned == [i \in DOMAIN SysPath |-> PathCat(SysPath[i])]
<1>4. cleaned \in Seq(Listed) /\ Len(cleaned) = Len(SysPath)
  <2>1. DOMAIN SysPath = 1 .. Len(SysPath) /\ Len(SysPath) \in Nat /\ \A i \in 1 .. Len(SysPath) : SysPath[i] \in Listed
    BY <1>3, ElementOfSeq, LenProperties
  <2>2. \A i \in 1 .. Len(SysPath) : PathCat(SysPath[i]) \in Listed
    BY <2>1, CleanIsListed
  <2>3. QED
    BY <2>1, <2>2
<1>5. QED
  BY <1>1, <1>2, <1>3, <1>4

LEMMA TypedExts ==
  /\ \A es \in ExtLists : LET c == CleanupPathExt(es) IN Len(c) <= MaxExts => c \in ExtLists
  /\ \A es \in ExtLists, e \in Exts : Len(es) < MaxExts => Append(es, e) \in ExtLists /\ <<e>> \in ExtLists
<1>1. SysPathext \in Seq(AllExts) /\ DefaultExts \in Seq(AllExts) /\ Exts \subseteq AllExts
  BY ExtsAssumption DEF AllExts
<1>2. ASSUME NEW es \in ExtLists PROVE LET c == CleanupPathExt(es) IN Len(c) <= MaxExts => c \in ExtLists
  BY <1>1, ConcatProperties DEF ExtLists, CleanupPathExt
<1>3. ASSUME NEW es \in ExtLists, NEW e \in Exts, Len(es) < MaxExts PROVE Append(es, e) \in ExtLists /\ <<e>> \in ExtLists
  <2>1. es \in Seq(AllExts) /\ e \in AllExts /\ Len(es) \in Nat
    BY <1>1 DEF ExtLists
  <2>2. Append(es, e) \in Seq(AllExts) /\ Len(Append(es, e)) = Len(es) + 1
    BY <2>1, AppendProperties
  <2>3. <<e>> \in Seq(AllExts) /\ Len(<<e>>) = 1
    BY <2>1
  <2>4. Len(es) + 1 <= MaxExts /\ 1 <= MaxExts
    BY <1>3, <2>1, BoundsAssumption
  <2>5. QED
    BY <2>2, <2>3, <2>4 DEF ExtLists
<1>4. QED
  BY <1>2, <1>3

LEMMA TypedMaps ==
  /\ IsMap(NoVars) /\ IsMap(SysVars) /\ IsMap(BashVars) /\ IsMap([n \in DOMAIN SysVars \cap Known |-> SysVars[n]])
  /\ \A e, f : IsMap(e) /\ IsMap(f) => IsMap(Emplace(e, f))
  /\ \A e, n : IsMap(e) => IsMap(Without(e, n))
  /\ \A e : \A n \in Names, v \in ValLists : IsMap(e) => IsMap(Assign(e, n, v))
<1>1. IsMap(NoVars)
  BY DEF IsMap, NoVars
<1>2. \A f \in {SysVars, BashVars} : IsMap(f)
  BY ValsAssumption DEF IsMap, ValLists, AllNames
<1>3. IsMap([n \in DOMAIN SysVars \cap Known |-> SysVars[n]])
  BY <1>2 DEF IsMap
<1>4. \A e, f : IsMap(e) /\ IsMap(f) => IsMap(Emplace(e, f))
  BY DEF IsMap, Emplace
<1>5. \A e, n : IsMap(e) => IsMap(Without(e, n))
  BY DEF IsMap, Without
<1>6. \A e : \A n \in Names, v \in ValLists : IsMap(e) => IsMap(Assign(e, n, v))
  BY DEF IsMap, Assign, AllNames
<1>7. QED
  BY <1>1, <1>2, <1>3, <1>4, <1>5, <1>6

\* The values that the operations put under a name.
LEMMA TypedValues ==
  ASSUME NEW s \in Sims, IsMap(envmap[s]), NEW n, NEW v \in Vals
  PROVE  /\ Value(s, n) \o <<v>> \in Seq(AllVals) /\ <<v>> \o Value(s, n) \in Seq(AllVals)
         /\ <<>> \in Seq(AllVals) /\ <<v>> \in Seq(AllVals)
<1>1. v \in AllVals
  BY DEF AllVals
<1>2. Value(s, n) \in Seq(AllVals)
  BY DEF IsMap, ValLists, Value
<1>3. QED
  BY <1>1, <1>2, ConcatProperties

\* Setting up leaves objects objects.
LEMMA SetUpObjects == ASSUME TInv, NEW s \in Sims, SetUp(s) PROVE \A r \in Sims : IsObject(r)'
<1>1. Domains /\ \A r \in Sims : paths[r] \in PathLists /\ pathexts[r] \in ExtLists /\ IsMap(envmap[r])
  BY DEF TInv, IsObject
<1>2. <<>> \in PathLists /\ <<>> \in ExtLists
  BY BoundsAssumption DEF PathLists, ExtLists
<1>3. CASE InitializeEnv(s)
  <2> DEFINE cleaned == [i \in DOMAIN SysPath |-> PathCat(SysPath[i])]
  <2>1. paths[s] \o cleaned \in PathLists
    <3>1. paths[s] \in Seq(Listed) /\ cleaned \in Seq(Listed) /\ Len(cleaned) = Len(SysPath) /\ SysPath \in Seq(Listed)
      BY <1>1, TypedPaths DEF PathLists
    <3>2. Len(paths[s] \o SysPath) <= MaxPaths
      BY <1>3 DEF InitializeEnv
    <3> HIDE DEF cleaned
    <3>3. paths[s] \o cleaned \in Seq(Listed) /\ Len(paths[s] \o cleaned) = Len(paths[s]) + Len(cleaned)
      BY <3>1, ConcatProperties
    <3>4. Len(paths[s] \o SysPath) = Len(paths[s]) + Len(SysPath)
      BY <3>1, ConcatProperties
    <3>5. QED
      BY <3>1, <3>2, <3>3, <3>4 DEF PathLists
  <2>2. CleanupPathExt(pathexts[s]) \in ExtLists
    BY <1>1, <1>3, TypedExts DEF InitializeEnv
  <2>3. IsMap(Emplace(envmap[s], SysVars))
    BY <1>1, TypedMaps
  <2>4. /\ paths' = [paths EXCEPT ![s] = @ \o cleaned]
        /\ pathexts' = [pathexts EXCEPT ![s] = CleanupPathExt(@)]
        /\ envmap' = [envmap EXCEPT ![s] = Emplace(@, SysVars)]
    BY <1>3 DEF InitializeEnv
  <2> HIDE DEF cleaned
  <2>5. QED
    BY <1>1, <2>1, <2>2, <2>3, <2>4 DEF IsObject, Domains
<1>4. CASE InitializeCleanupEnv(s)
  <2>1. paths[s] \o SystemPaths \in PathLists
    BY <1>1, <1>4, TypedPaths DEF InitializeCleanupEnv, PathLists
  <2>2. CleanupPathExt(pathexts[s]) \in ExtLists
    BY <1>1, <1>4, TypedExts DEF InitializeCleanupEnv
  <2> DEFINE known == [n \in DOMAIN SysVars \cap Known |-> SysVars[n]]
  <2>3. IsMap(Emplace(envmap[s], known))
    BY <1>1, TypedMaps
  <2>4. /\ paths' = [paths EXCEPT ![s] = @ \o SystemPaths]
        /\ pathexts' = [pathexts EXCEPT ![s] = CleanupPathExt(@)]
        /\ envmap' = [envmap EXCEPT ![s] = Emplace(@, known)]
    BY <1>4 DEF InitializeCleanupEnv
  <2> HIDE DEF known
  <2>5. QED
    BY <1>1, <2>1, <2>2, <2>3, <2>4 DEF IsObject, Domains
<1>5. CASE AddBashCompatible(s)
  <2>1. IsMap(Emplace(envmap[s], BashVars))
    BY <1>1, TypedMaps
  <2>2. QED
    BY <1>1, <1>5, <2>1 DEF AddBashCompatible, IsObject, Domains
<1>6. ASSUME NEW o \in Sims \ {s}, CopyConstruct(s, o) \/ CopyAssign(s, o) PROVE \A r \in Sims : IsObject(r)'
  BY <1>1, <1>6, TypedMaps DEF CopyConstruct, CopyAssign, IsObject, Domains
<1>7. ASSUME NEW o \in Sims \ {s}, MoveConstruct(s, o) \/ MoveAssign(s, o) PROVE \A r \in Sims : IsObject(r)'
  BY <1>1, <1>2, <1>7, TypedMaps DEF MoveConstruct, MoveAssign, Moved, IsObject, Domains
<1>8. QED
  BY <1>3, <1>4, <1>5, <1>6, <1>7 DEF SetUp

\* So do the changes.
LEMMA ChangeObjects == ASSUME TInv, NEW s \in Sims, Change(s) PROVE \A r \in Sims : IsObject(r)'
<1>1. Domains /\ \A r \in Sims : paths[r] \in PathLists /\ pathexts[r] \in ExtLists /\ IsMap(envmap[r])
  BY DEF TInv, IsObject
<1>2. ASSUME NEW ps \in SomePaths, PathPushFront(s, ps) \/ PathAppend(s, ps) PROVE \A r \in Sims : IsObject(r)'
  <2>1. ps \in Seq(Listed)
    <3>1. ASSUME NEW p \in Spellings, NEW q \in Spellings PROVE <<p>> \in Seq(Listed) /\ <<p, q>> \in Seq(Listed)
      <4>1. p \in Listed /\ q \in Listed
        BY PathsAssumption
      <4>2. QED
        BY <4>1
    <3>2. (\E p \in Spellings : ps = <<p>>) \/ (\E p, q \in Spellings : ps = <<p, q>>)
      BY DEF SomePaths
    <3>3. QED
      BY <3>1, <3>2
  <2>2. ps \o paths[s] \in Seq(Listed) /\ paths[s] \o ps \in Seq(Listed)
    BY <1>1, <2>1, TypedPaths DEF PathLists
  <2>3. CASE PathPushFront(s, ps)
    BY <1>1, <2>2, <2>3 DEF PathPushFront, IsObject, Domains, PathLists
  <2>4. CASE PathAppend(s, ps)
    BY <1>1, <2>2, <2>4 DEF PathAppend, IsObject, Domains, PathLists
  <2>5. QED
    BY <1>2, <2>3, <2>4
<1>3. CASE PathOrganize(s)
  <2>1. Organize(paths[s]) \in PathLists
    BY <1>1, TypedPaths
  <2>2. QED
    BY <1>1, <1>3, <2>1 DEF PathOrganize, IsObject, Domains
<1>4. ASSUME NEW e \in Exts, AppendPathext(s, e) \/ InsertPathext(s, e) PROVE \A r \in Sims : IsObject(r)'
  <2>1. CASE AppendPathext(s, e)
    <3>1. Append(pathexts[s], e) \in ExtLists
      BY <1>1, <2>1, TypedExts DEF AppendPathext
    <3>2. QED
      BY <1>1, <2>1, <3>1 DEF AppendPathext, IsObject, Domains
  <2>2. CASE InsertPathext(s, e)
    <3>1. pathexts[s] = <<>> /\ Len(<<>>) = 0
      BY <2>2 DEF InsertPathext
    <3>2. Len(pathexts[s]) < MaxExts
      BY <3>1, BoundsAssumption
    <3>3. <<e>> \in ExtLists
      BY <1>1, <3>2, TypedExts
    <3>4. QED
      BY <1>1, <2>2, <3>3 DEF InsertPathext, IsObject, Domains
  <2>3. QED
    BY <1>4, <2>1, <2>2
<1>5. ASSUME NEW n \in Names, NEW v \in Seq(AllVals), Put(s, n, v) PROVE \A r \in Sims : IsObject(r)'
  <2>1. v \in ValLists
    BY <1>5 DEF Put, ValLists
  <2>2. IsMap(Assign(envmap[s], n, v))
    BY <1>1, <2>1, TypedMaps
  <2>3. QED
    BY <1>1, <1>5, <2>2 DEF Put, IsObject, Domains
<1>6. ASSUME NEW n \in Names \ {"PATHEXT"}, NEW v \in Vals, AppendEnv(s, n, v) \/ InsertEnv(s, n, v) PROVE \A r \in Sims : IsObject(r)'
  <2>1. Value(s, n) \o <<v>> \in Seq(AllVals) /\ <<v>> \o Value(s, n) \in Seq(AllVals)
    BY <1>1, TypedValues
  <2>2. QED
    BY <1>5, <1>6, <2>1 DEF AppendEnv, InsertEnv
<1>7. ASSUME NEW e \in Exts, AppendEnv(s, "PATHEXT", e) \/ InsertEnv(s, "PATHEXT", e) PROVE \A r \in Sims : IsObject(r)'
  BY <1>4, <1>7 DEF AppendEnv, InsertEnv
<1>8. ASSUME NEW nv \in ((Names \ {"PATHEXT"}) \X Vals) \cup ({"PATHEXT"} \X Exts), AppendEnv(s, nv[1], nv[2]) \/ InsertEnv(s, nv[1], nv[2])
      PROVE  \A r \in Sims : IsObject(r)'
  <2>1. (nv[1] \in Names \ {"PATHEXT"} /\ nv[2] \in Vals) \/ (nv[1] = "PATHEXT" /\ nv[2] \in Exts)
    OBVIOUS
  <2>2. QED
    BY <1>6, <1>7, <1>8, <2>1
<1>9. ASSUME NEW n \in Names, NEW v \in {<<>>} \cup {<<x>> : x \in Vals}, NEW force, SetEnv(s, n, v, force)
      PROVE  \A r \in Sims : IsObject(r)'
  <2>1. v \in Seq(AllVals)
    <3>1. <<>> \in Seq(AllVals)
      OBVIOUS
    <3>2. QED
      BY <1>1, <3>1, TypedValues
  <2>2. QED
    BY <1>5, <1>9, <2>1 DEF SetEnv
<1>10. ASSUME NEW n, EraseEnv(s, n) PROVE \A r \in Sims : IsObject(r)'
  <2>1. IsMap(Without(envmap[s], n))
    BY <1>1, TypedMaps
  <2>2. QED
    BY <1>1, <1>10, <2>1 DEF EraseEnv, IsObject, Domains
<1>11. QED
  BY <1>2, <1>3, <1>8, <1>9, <1>10 DEF Change

\* An appended part is one more.
LEMMA OneMorePart ==
  ASSUME NEW b, IsSeq(b), NEW x
  PROVE  IsSeq(Append(b, x)) /\ Len(Append(b, x)) = Len(b) + 1
<1> DEFINE S == {b[i] : i \in DOMAIN b} \cup {x}
<1>1. b \in Seq(S) /\ x \in S
  BY SeqMonotonic, {b[i] : i \in DOMAIN b} \subseteq S DEF IsSeq
<1> HIDE DEF S
<1>2. Append(b, x) \in Seq(S) /\ Len(Append(b, x)) = Len(b) + 1
  BY <1>1, AppendProperties
<1>3. IsSeq(Append(b, x))
  <2> DEFINE a == Append(b, x)
  <2> HIDE DEF a
  <2>1. Len(a) \in Nat /\ DOMAIN a = 1 .. Len(a) /\ a = [i \in 1 .. Len(a) |-> a[i]]
    <3>1. a \in Seq(S)
      BY <1>2 DEF a
    <3>2. QED
      BY <3>1
  <2>2. \A i \in 1 .. Len(a) : a[i] \in {a[j] : j \in DOMAIN a}
    BY <2>1
  <2>3. a \in Seq({a[j] : j \in DOMAIN a})
    BY <2>1, <2>2
  <2>4. QED
    BY <2>3 DEF IsSeq, a
<1>4. QED
  BY <1>2, <1>3

LEMMA ShortParts ==
  /\ IsSeq(<<>>) /\ Len(<<>>) = 0
  /\ \A x : IsSeq(<<x>>) /\ Len(<<x>>) = 1
BY DEF IsSeq

\* The operations leave the blocks alone, or empty those that no thread makes.
LEMMA OperationsSpareBlocks ==
  ASSUME Domains, NEW s \in Sims, SetUp(s) \/ Change(s)
  PROVE  /\ pc' = pc /\ Domains'
         /\ \A r \in Sims : cachedEnv[r]' = cachedEnv[r] \/ (Quiet(r) /\ cachedEnv[r]' = <<>>)
<1> DEFINE Spared == /\ pc' = pc /\ Domains'
                     /\ \A r \in Sims : cachedEnv[r]' = cachedEnv[r] \/ (Quiet(r) /\ cachedEnv[r]' = <<>>)
<1> USE DEF Domains
<1>1. ASSUME SetUp(s) PROVE Spared
  <2>1. CASE InitializeEnv(s) \/ InitializeCleanupEnv(s) \/ AddBashCompatible(s)
    BY <2>1 DEF InitializeEnv, InitializeCleanupEnv, AddBashCompatible
  <2>2. ASSUME NEW o \in Sims \ {s}, CopyConstruct(s, o) \/ CopyAssign(s, o) PROVE Spared
    BY <2>2 DEF CopyConstruct, CopyAssign, Clear
  <2>3. ASSUME NEW o \in Sims \ {s}, MoveConstruct(s, o) \/ MoveAssign(s, o) PROVE Spared
    BY <2>3 DEF MoveConstruct, MoveAssign, Moved, Clear
  <2>4. QED
    BY <1>1, <2>1, <2>2, <2>3 DEF SetUp
<1>2. ASSUME Change(s) PROVE Spared
  <2> USE DEF Clear
  <2>1. ASSUME NEW ps, PathPushFront(s, ps) \/ PathAppend(s, ps) PROVE Spared
    BY <2>1 DEF PathPushFront, PathAppend
  <2>2. CASE PathOrganize(s)
    BY <2>2 DEF PathOrganize
  <2>3. ASSUME NEW n, NEW v, Put(s, n, v) PROVE Spared
    BY <2>3 DEF Put
  <2>4. ASSUME NEW e, AppendPathext(s, e) \/ InsertPathext(s, e) PROVE Spared
    BY <2>4 DEF AppendPathext, InsertPathext
  <2>5. ASSUME NEW n, NEW v, AppendEnv(s, n, v) \/ InsertEnv(s, n, v) PROVE Spared
    BY <2>3, <2>4, <2>5 DEF AppendEnv, InsertEnv
  <2>6. ASSUME NEW n, NEW v, NEW force, SetEnv(s, n, v, force) PROVE Spared
    BY <2>3, <2>6 DEF SetEnv
  <2>7. ASSUME NEW n, EraseEnv(s, n) PROVE Spared
    BY <2>7 DEF EraseEnv
  <2> HIDE DEF Spared
  <2>8. QED
    BY <1>2, <2>1, <2>2, <2>5, <2>6, <2>7 DEF Change
<1>3. QED
  BY <1>1, <1>2

LEMMA OperationsCountParts ==
  ASSUME TInv, NEW s \in Sims, SetUp(s) \/ Change(s)
  PROVE  PartsCounted'
<1>1. /\ pc' = pc
      /\ \A r \in Sims : cachedEnv[r]' = cachedEnv[r] \/ (Quiet(r) /\ cachedEnv[r]' = <<>>)
  BY OperationsSpareBlocks DEF TInv
<1>2. \A r \in Sims : IsSeq(cachedEnv[r]) /\ Len(cachedEnv[r]) <= 3
  BY DEF TInv, PartsCounted
<1>3. ASSUME NEW r \in Sims PROVE IsSeq(cachedEnv[r]') /\ Len(cachedEnv[r]') <= 3
  BY <1>1, <1>2, ShortParts
<1>4. ASSUME NEW t \in Threads, pc[t]' \in {"pathext", "vars"} PROVE cachedEnv[Of[t]]' = cachedEnv[Of[t]] /\ pc[t]' = pc[t]
  <2>1. Of[t] \in Sims /\ ~Quiet(Of[t])
    BY <1>1, <1>4, OfAssumption DEF Quiet
  <2>2. QED
    BY <1>1, <2>1
<1>5. \A t \in Threads : /\ pc[t]' = "pathext" => Len(cachedEnv[Of[t]]') = 1
                         /\ pc[t]' = "vars" => Len(cachedEnv[Of[t]]') = 2
  BY <1>4 DEF TInv, PartsCounted
<1>6. QED
  BY <1>3, <1>5 DEF PartsCounted, IsSeq

\* A step of MakeEnv is the only one that appends to its block.
LEMMA MakeTyped == ASSUME OwnThreads, TInv, NEW t \in Threads, Make(t) PROVE TInv'
<1> DEFINE s == Of[t]
<1>1. s \in Sims /\ s = Of[t] /\ \A u \in Threads : u # t => Of[u] # s /\ Of[u] \in Sims
  BY OfAssumption DEF OwnThreads
<1>2. Domains /\ pc \in [Threads -> {"idle", "assign", "pathext", "vars", "copy"}]
  BY DEF TInv
<1>3. /\ UNCHANGED <<paths, pathexts, envmap>>
      /\ Domains'
      /\ pc' \in [Threads -> {"idle", "assign", "pathext", "vars", "copy"}]
      /\ \A u \in Threads : u # t => pc[u]' = pc[u]
      /\ \A r \in Sims : r # s => cachedEnv[r]' = cachedEnv[r]
  BY <1>1, <1>2 DEF Make, MakeEnv, AssignPath, AppendPathextPart, AppendVarsPart, AppendPart, CopyBlock, Goto, Domains
<1>4. \A r \in Sims : IsSeq(cachedEnv[r]) /\ Len(cachedEnv[r]) <= 3
  BY DEF TInv, PartsCounted
<1> HIDE DEF s
<1>5. /\ IsSeq(cachedEnv[s]') /\ Len(cachedEnv[s]') <= 3
      /\ pc[t]' = "pathext" => Len(cachedEnv[s]') = 1
      /\ pc[t]' = "vars" => Len(cachedEnv[s]') = 2
  <2> DEFINE OneMore(x) == IsSeq(Append(cachedEnv[s], x)) /\ Len(Append(cachedEnv[s], x)) = Len(cachedEnv[s]) + 1
  <2>0. \A x : OneMore(x)
    BY <1>1, <1>4, OneMorePart
  <2>1. CASE MakeEnv(t) \/ CopyBlock(t)
    BY <1>1, <1>2, <1>4, <2>1 DEF MakeEnv, CopyBlock, Goto
  <2>2. CASE AssignPath(t)
    <3>1. cachedEnv[s]' = <<PathPart(s)>> /\ pc[t]' = "pathext"
      BY <1>1, <1>2, <2>2 DEF AssignPath, Goto, Domains
    <3>2. QED
      BY <3>1, ShortParts
  <2>3. CASE AppendPathextPart(t)
    <3>1. cachedEnv[s]' = Append(cachedEnv[s], PathextPart(s)) /\ pc[t]' = "vars" /\ pc[t] = "pathext"
      BY <1>1, <1>2, <2>3 DEF AppendPathextPart, AppendPart, Goto, Domains
    <3>2. Len(cachedEnv[s]) = 1
      BY <1>1, <3>1 DEF TInv, PartsCounted
    <3>3. OneMore(PathextPart(s))
      BY <2>0
    <3>4. QED
      BY <1>1, <3>1, <3>2, <3>3
  <2>4. CASE AppendVarsPart(t)
    <3>1. cachedEnv[s]' = Append(cachedEnv[s], VarsPart(s)) /\ pc[t]' = "copy" /\ pc[t] = "vars"
      BY <1>1, <1>2, <2>4 DEF AppendVarsPart, AppendPart, Goto, Domains
    <3>2. Len(cachedEnv[s]) = 2
      BY <1>1, <3>1 DEF TInv, PartsCounted
    <3>3. OneMore(VarsPart(s))
      BY <2>0
    <3>4. QED
      BY <1>1, <3>1, <3>2, <3>3
  <2>5. QED
    BY <2>1, <2>2, <2>3, <2>4 DEF Make
<1>6. PartsCounted'
  <2>1. \A r \in Sims : IsSeq(cachedEnv[r]') /\ Len(cachedEnv[r]') <= 3
    BY <1>3, <1>4, <1>5
  <2>2. \A u \in Threads : u # t => cachedEnv[Of[u]]' = cachedEnv[Of[u]] /\ pc[u]' = pc[u]
    BY <1>1, <1>3
  <2>3. \A u \in Threads : /\ pc[u]' = "pathext" => Len(cachedEnv[Of[u]]') = 1
                           /\ pc[u]' = "vars" => Len(cachedEnv[Of[u]]') = 2
    BY <1>1, <1>5, <2>2 DEF TInv, PartsCounted
  <2>4. QED
    BY <2>1, <2>3 DEF PartsCounted, IsSeq
<1>7. \A r \in Sims : IsObject(r)'
  BY <1>3 DEF TInv, IsObject
<1>8. QED
  BY <1>3, <1>6, <1>7 DEF TInv

\* Every list stays within its bound and holds what the operations were given,
\* and no block has more than its three parts: with a thread to each object, but
\* whatever the order of the operations, those after the first block included.
THEOREM TypeCorrect == ASSUME OwnThreads PROVE Spec => []TypeOK
<1>1. Init => TInv
  <2> SUFFICES ASSUME Init PROVE TInv
    OBVIOUS
  <2>1. Domains /\ pc \in [Threads -> {"idle", "assign", "pathext", "vars", "copy"}]
    BY DEF Init, Domains
  <2>2. <<>> \in PathLists /\ <<>> \in ExtLists /\ IsMap(NoVars)
    BY BoundsAssumption, TypedMaps DEF PathLists, ExtLists
  <2>3. \A s \in Sims : IsObject(s)
    BY <2>2 DEF Init, IsObject
  <2>4. PartsCounted
    BY ShortParts DEF Init, PartsCounted
  <2>5. QED
    BY <2>1, <2>3, <2>4 DEF TInv
<1>2. ASSUME TInv, [Next]_vars PROVE TInv'
  <2>1. ASSUME NEW s \in Sims, SetUp(s) \/ Change(s) PROVE TInv'
    <3>1. pc' = pc /\ Domains'
      BY <1>2, <2>1, OperationsSpareBlocks DEF TInv
    <3>2. \A r \in Sims : IsObject(r)'
      BY <1>2, <2>1, SetUpObjects, ChangeObjects
    <3>3. PartsCounted'
      BY <1>2, <2>1, OperationsCountParts
    <3>4. QED
      BY <1>2, <3>1, <3>2, <3>3 DEF TInv
  <2>2. ASSUME NEW t \in Threads, Make(t) PROVE TInv'
    BY <1>2, <2>2, MakeTyped
  <2>3. CASE UNCHANGED vars
    BY <1>2, <2>3 DEF vars, TInv, Domains, IsObject, PartsCounted, IsSeq
  <2>4. QED
    BY <1>2, <2>1, <2>2, <2>3 DEF Next
<1>3. TInv => TypeOK
  <2> SUFFICES ASSUME TInv PROVE TypeOK
    OBVIOUS
  <2>1. \A s \in Sims : IsObject(s) /\ Len(cachedEnv[s]) <= 3
    BY DEF TInv, PartsCounted
  <2>2. pc \in [Threads -> {"idle", "assign", "pathext", "vars", "copy"}]
    BY DEF TInv
  <2>3. QED
    BY <2>1, <2>2 DEF TypeOK, IsObject, IsMap, PathLists, ExtLists, ValLists
<1>4. QED
  BY <1>1, <1>2, <1>3, PTL DEF Spec
=============================================================================
