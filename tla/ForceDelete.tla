----------------------------- MODULE ForceDelete -----------------------------
(***************************************************************************)
(* bela::fs::ForceDeleteFile and ForceDeleteFolders: a tree of files is    *)
(* deleted by several workers at once, while another process opens some of *)
(* its files and creates some.                                             *)
(*                                                                         *)
(* A worker is the machine of the recursive force_delete_folders: its      *)
(* stack holds a Finder for each folder it is in.  The file system is      *)
(* external: a name that is marked for deletion refuses to be opened, and  *)
(* goes when the handle that marked it is closed, if the file system has   *)
(* POSIX deletion, or when the last of its handles is closed.              *)
(***************************************************************************)
EXTENDS Naturals, Sequences

CONSTANTS
  Worker,        \* threads that delete
  Node,          \* files, folders and links, by path
  Dirs, Links,   \* those that are folders, those that are links to a folder
  Parent,        \* the folder of each node, or Top
  Top,           \* the folder of the topmost nodes, which no one deletes
  LinkedTo,      \* the folder that each link leads to
  Targets,       \* the nodes that callers delete
  Inside,        \* the targets and all that is under them, links not followed
  Late,          \* nodes that are not there at first
  Settings       \* circumstances of a run, see Setting

ASSUME TreeAssumption ==
  /\ Dirs \subseteq Node /\ Links \subseteq Node \ Dirs
  /\ Parent \in [Node -> Dirs \cup {Top}] /\ Top \notin Node /\ LinkedTo \in [Links -> Dirs]
\* No folder is in itself, however deep.
ASSUME AcyclicAssumption == \A S \in SUBSET Node : S # {} => \E n \in S : Parent[n] \notin S
ASSUME TargetsAssumption ==
  /\ Targets \subseteq Inside /\ Inside \subseteq Node
  /\ \A n \in Node : Parent[n] \in Inside => n \in Inside

\* The threads that call; whether each call gets an error_code of its own;
\* whether the file system has FileDispositionInfoEx; the nodes with an attribute
\* that forbids deletion, those whose attributes this user may not write, those
\* that another process opens; whether it creates those in Late, each once.
Setting ==
  [workers : SUBSET Worker, fresh : BOOLEAN, posix : BOOLEAN, readonly : SUBSET Node,
   denied : SUBSET Node, used : SUBSET Node, creates : BOOLEAN]

ASSUME SettingsAssumption == Settings \subseteq Setting /\ Late \subseteq Node \ Dirs

VARIABLES
  setting,   \* the circumstances
  exists,    \* names in the file system
  pending,   \* names marked for deletion
  readonly,  \* nodes with an attribute that forbids deletion
  late,      \* nodes still to be created
  other,     \* how the other process has a node open
  pc,        \* where each worker is
  call,      \* the call it makes
  cur,       \* the path of the ForceDeleteFile or force_delete_folders it is in
  open,      \* FileHandle is open
  try,       \* the SetFileInformationByHandle it is at
  stack,     \* its Finders: the folder, and the entries not yet returned
  ok,        \* what ForceDeleteFile is about to return
  ec,        \* the caller's error_code
  result     \* how its last call ended

fs == <<setting, exists, pending, readonly, late, other>>
vars == <<fs, pc, call, cur, open, try, stack, ok, ec, result>>

Children(d) == {n \in exists : Parent[n] = d}

\* FindFirstFileW follows a link; the entries are those of that moment.
Listing(n) == Children(IF n \in Links THEN LinkedTo[n] ELSE n)

\* Why CreateFileW fails, with DELETE alone or with the attributes too.
OpenError(n, attributes) ==
  CASE n \notin exists -> IF Parent[n] \in exists \cup {Top} THEN "missing" ELSE "nopath"
    [] n \in pending -> "denied"
    [] other[n] = "locks" -> "locked"
    [] attributes /\ n \in setting.denied -> "denied"
    [] OTHER -> "none"

\* Attempts 1 and 2 ask for POSIX deletion, 3 and 4 for that of every system.
AsksPosix(attempt) == attempt <= 2

\* What SetFileInformationByHandle may answer.
Answers(n, attempt) ==
  CASE AsksPosix(attempt) /\ ~setting.posix -> {"unsupported"}
    [] n \in pending \/ n \notin exists -> {"none", "denied"}
    [] n \in readonly -> {"denied"}
    [] Children(n) # {} -> {"notempty"}
    [] OTHER -> {"none"}

\* A handle or a Finder is open on n.
HandlesOn(n, opened, finders, use) ==
  \/ use[n] # "no"
  \/ \E p \in Worker : opened[p] /\ cur[p] = n
  \/ \E p \in Worker : \E i \in DOMAIN finders[p] : finders[p][i].dir = n

\* The names in Goes vanish.
Vanish(Goes) == exists' = exists \ Goes /\ pending' = pending \ Goes

Init ==
  /\ setting \in Settings
  /\ exists = Node \ Late /\ pending = {} /\ readonly = setting.readonly
  /\ late = IF setting.creates THEN Late ELSE {}
  /\ other = [n \in Node |-> "no"]
  /\ pc = [p \in Worker |-> "idle"] /\ call \in [Worker -> {[node |-> n, folders |-> FALSE] : n \in Targets}]
  /\ cur = [p \in Worker |-> call[p].node]
  /\ open = [p \in Worker |-> FALSE] /\ try = [p \in Worker |-> 1]
  /\ stack = [p \in Worker |-> <<>>] /\ ok = [p \in Worker |-> FALSE]
  /\ ec = [p \in Worker |-> "none"] /\ result = [p \in Worker |-> "none"]

Goto(p, label) == pc' = [pc EXCEPT ![p] = label]

\* A call of ForceDeleteFile or ForceDeleteFolders, which begins with the former.
Call(p, n, folders) ==
  /\ pc[p] = "idle" /\ Goto(p, "open")
  /\ call' = [call EXCEPT ![p] = [node |-> n, folders |-> folders]] /\ cur' = [cur EXCEPT ![p] = n]
  /\ ec' = IF setting.fresh THEN [ec EXCEPT ![p] = "none"] ELSE ec
  /\ result' = [result EXCEPT ![p] = "none"]
  /\ UNCHANGED <<fs, open, try, stack, ok>>

\* ForceDeleteFile is about to return b, with the error e if b is FALSE.
Returns(p, b, e) ==
  /\ Goto(p, "return") /\ ok' = [ok EXCEPT ![p] = b]
  /\ ec' = IF b THEN ec ELSE [ec EXCEPT ![p] = e]

Opened(p) == Goto(p, "dispose") /\ open' = [open EXCEPT ![p] = TRUE] /\ try' = [try EXCEPT ![p] = 1]

\* The first CreateFileW.  What it failed with is not what the code looks at.
Open(p) ==
  /\ pc[p] = "open"
  /\ LET e == OpenError(cur[p], TRUE)
     IN  \/ e = "none" /\ Opened(p) /\ UNCHANGED <<ok, ec>>
         \/ e # "none" /\ ec[p] = "missing" /\ Returns(p, TRUE, e) /\ UNCHANGED <<open, try>>
         \/ e # "none" /\ ec[p] \notin {"missing", "denied"} /\ Returns(p, FALSE, e) /\ UNCHANGED <<open, try>>
         \/ e # "none" /\ ec[p] = "denied" /\ Goto(p, "reopen") /\ UNCHANGED <<open, try, ok, ec>>
  /\ UNCHANGED <<fs, call, cur, stack, result>>

Reopen(p) ==
  /\ pc[p] = "reopen"
  /\ LET e == OpenError(cur[p], FALSE)
     IN  \/ e = "none" /\ Opened(p) /\ UNCHANGED <<ok, ec>>
         \/ e # "none" /\ Returns(p, FALSE, e) /\ UNCHANGED <<open, try>>
  /\ UNCHANGED <<fs, call, cur, stack, result>>

\* Slip: the attributes are cleared, but the deletion is not tried again.
AfterNoRetry(attempt, answer) == IF AsksPosix(attempt) /\ answer = "unsupported" THEN "fallback" ELSE "fails"

\* What follows a refused deletion: the attributes are cleared once in each
\* class, and the second class is for systems that do not know the first.
After(attempt, answer) ==
  IF answer = "denied" /\ attempt \in {1, 3} THEN "clear"
  ELSE IF AsksPosix(attempt) /\ answer = "unsupported" THEN "fallback" ELSE "fails"

Dispose(p) ==
  /\ pc[p] = "dispose"
  /\ \E answer \in Answers(cur[p], try[p]) :
       \/ /\ answer = "none" /\ Returns(p, TRUE, answer) /\ UNCHANGED try
          /\ pending' = pending \cup ({cur[p]} \cap exists)
       \/ /\ answer # "none" /\ After(try[p], answer) = "fallback"
          /\ try' = [try EXCEPT ![p] = 3] /\ UNCHANGED <<pc, ok, ec, pending>>
       \/ /\ answer # "none" /\ After(try[p], answer) = "clear" /\ Goto(p, "clear")
          /\ UNCHANGED <<try, ok, ec, pending>>
       \/ /\ answer # "none" /\ After(try[p], answer) = "fails" /\ Returns(p, FALSE, answer)
          /\ UNCHANGED <<try, pending>>
  /\ UNCHANGED <<setting, exists, readonly, late, other, call, cur, open, stack, result>>

\* Slip: the code goes back without a count of the attempts.
ClearAgain(p) ==
  /\ pc[p] = "clear" /\ Goto(p, "dispose")
  /\ readonly' = IF cur[p] \in setting.denied THEN readonly ELSE readonly \ {cur[p]}
  /\ UNCHANGED <<setting, exists, pending, late, other, call, cur, open, try, stack, ok, ec, result>>

\* remove_file_hide_attribute; a handle opened for DELETE alone may not.
Clear(p) ==
  /\ pc[p] = "clear" /\ Goto(p, "dispose")
  /\ readonly' = IF cur[p] \in setting.denied THEN readonly ELSE readonly \ {cur[p]}
  /\ try' = [try EXCEPT ![p] = @ + 1]
  /\ UNCHANGED <<setting, exists, pending, late, other, call, cur, open, stack, ok, ec, result>>

Ends(p, how) == Goto(p, "idle") /\ result' = [result EXCEPT ![p] = how]

\* The folder that the innermost force_delete_folders deletes at its end.
AtFolder(p) == stack[p] # <<>> /\ cur[p] = stack[p][Len(stack[p])].dir

\* Slip: force_delete_folders returns true whatever became of the folder itself.
SucceedsAtFolder(p) == ok[p] \/ AtFolder(p)

Succeeds(p) == ok[p]

\* A folder that was deleted gives its Finder back; a failure gives all back.
Pop(p) == [stack EXCEPT ![p] = IF ~Succeeds(p) THEN <<>> ELSE IF AtFolder(p) THEN SubSeq(@, 1, Len(@) - 1) ELSE @]

\* ForceDeleteFolders goes into a folder that ForceDeleteFile found not empty.
Enters(p) == stack[p] = <<>> /\ call[p].folders /\ ec[p] = "notempty"

\* Slip: the handle is closed if the file was deleted.
CloseDeleted(p) == open' = IF ok[p] THEN [open EXCEPT ![p] = FALSE] ELSE open

Close(p) == open' = [open EXCEPT ![p] = FALSE]

\* FileHandle is closed, and ForceDeleteFile returns to the loop that called
\* it, to ForceDeleteFolders or to the caller.
Return(p) ==
  /\ pc[p] = "return" /\ Close(p) /\ stack' = Pop(p)
  /\ Vanish({n \in pending : \/ ~HandlesOn(n, open', stack', other)
                             \/ open[p] /\ ok[p] /\ AsksPosix(try[p]) /\ n = cur[p]})
  /\ \/ Succeeds(p) /\ stack'[p] # <<>> /\ Goto(p, "next") /\ UNCHANGED result
     \/ Succeeds(p) /\ stack'[p] = <<>> /\ Ends(p, "ok")
     \/ ~Succeeds(p) /\ Enters(p) /\ Goto(p, "find") /\ UNCHANGED result
     \/ ~Succeeds(p) /\ ~Enters(p) /\ Ends(p, "failed")
  /\ UNCHANGED <<setting, readonly, late, other, call, cur, try, ok, ec>>

\* Finder::First on the folder.
Find(p) ==
  /\ pc[p] = "find"
  /\ LET e == IF cur[p] \notin exists THEN "nopath" ELSE IF cur[p] \in pending THEN "denied" ELSE "none"
     IN  \/ /\ e = "none" /\ Goto(p, "next") /\ UNCHANGED <<ok, ec>>
            /\ stack' = [stack EXCEPT ![p] = Append(@, [dir |-> cur[p], left |-> Listing(cur[p])])]
         \/ e # "none" /\ Returns(p, FALSE, e) /\ UNCHANGED stack
  /\ UNCHANGED <<fs, call, cur, open, try, result>>

\* Slip: links are treated as the folders they lead to.
RecursesIntoLinks(n) == n \in Dirs \cup Links

Recurses(n) == n \in Dirs

\* One round of the loop, or the end of it: the folder itself.
NextEntry(p) ==
  /\ pc[p] = "next"
  /\ LET top == stack[p][Len(stack[p])]
     IN  \/ \E n \in top.left :
              /\ stack' = [stack EXCEPT ![p][Len(stack[p])].left = @ \ {n}]
              /\ cur' = [cur EXCEPT ![p] = n] /\ Goto(p, IF Recurses(n) THEN "find" ELSE "open")
         \/ /\ top.left = {} /\ UNCHANGED stack
            /\ cur' = [cur EXCEPT ![p] = top.dir] /\ Goto(p, "open")
  /\ UNCHANGED <<fs, call, open, try, ok, ec, result>>

\* The other process opens a node, sharing its deletion or not, ...
Use(n, how) ==
  /\ n \in exists \ pending /\ other[n] = "no"
  /\ how = "locks" => ~\E p \in Worker : open[p] /\ cur[p] = n
  /\ other' = [other EXCEPT ![n] = how]
  /\ UNCHANGED <<setting, exists, pending, readonly, late, pc, call, cur, open, try, stack, ok, ec, result>>

\* ... closes it, ...
Unuse(n) ==
  /\ other[n] # "no" /\ other' = [other EXCEPT ![n] = "no"]
  /\ Vanish({m \in pending : ~HandlesOn(m, open, stack, other')})
  /\ UNCHANGED <<setting, readonly, late, pc, call, cur, open, try, stack, ok, ec, result>>

\* ... and creates one.
Create(n) ==
  /\ Parent[n] \in (exists \ pending) \cup {Top}
  /\ exists' = exists \cup {n} /\ late' = late \ {n}
  /\ UNCHANGED <<setting, pending, readonly, other, pc, call, cur, open, try, stack, ok, ec, result>>

Step(p) == Open(p) \/ Reopen(p) \/ Dispose(p) \/ Clear(p) \/ Return(p) \/ Find(p) \/ NextEntry(p)

Others ==
  \/ \E n \in setting.used : Unuse(n) \/ \E how \in {"shares", "locks"} : Use(n, how)
  \/ \E n \in late : Create(n)

Next ==
  \/ \E p \in setting.workers : Step(p) \/ \E n \in Targets, folders \in BOOLEAN : Call(p, n, folders)
  \/ Others

Spec == Init /\ [][Next]_vars

\* The threads run.
FairSpec == Spec /\ \A p \in Worker : WF_vars(Step(p))

-----------------------------------------------------------------------------
Finder == [dir : Dirs, left : SUBSET Node]

Error == {"none", "missing", "nopath", "denied", "locked", "notempty", "unsupported"}

TypeOK ==
  /\ setting \in Settings /\ exists \subseteq Node /\ pending \subseteq exists /\ readonly \subseteq Node /\ late \subseteq Late
  /\ other \in [Node -> {"no", "shares", "locks"}]
  /\ pc \in [Worker -> {"idle", "open", "reopen", "dispose", "clear", "return", "find", "next"}]
  /\ call \in [Worker -> [node : Targets, folders : BOOLEAN]] /\ cur \in [Worker -> Node]
  /\ open \in [Worker -> BOOLEAN] /\ try \in [Worker -> 1 .. 4] /\ stack \in [Worker -> Seq(Finder)]
  /\ ok \in [Worker -> BOOLEAN] /\ ec \in [Worker -> Error] /\ result \in [Worker -> {"none", "ok", "failed"}]

\* A call that returns true has deleted its path, or has marked it and leaves
\* it to the last handle that others hold.
OkMeansGone == setting.fresh => \A p \in Worker : result[p] = "ok" => call[p].node \notin exists \ pending

\* Nothing outside the trees is deleted, and no folder that a link in them
\* leads to, nor what is in it.
OutsideKept == Node \ (Inside \cup Late) \subseteq exists

\* What was marked is gone when no call runs and no one else has it open: no
\* handle and no Finder was forgotten.
MarkedIsGone ==
  (\A p \in Worker : pc[p] = "idle") /\ (\A n \in Node : other[n] = "no") => pending = {}

Undisturbed ==
  /\ setting.fresh /\ setting.denied = {} /\ setting.used = {} /\ ~setting.creates
  /\ \A p, q \in setting.workers : p = q

\* Undisturbed, a call fails for a path that is not there only, or because it
\* was asked to delete one file and found a folder with something in it; and
\* so neither attributes, links, depth nor the kind of file system stop it.
AloneDeletes ==
  Undisturbed => \A p \in Worker : result[p] = "failed" /\ call[p].node \in exists
                                     => ec[p] = "notempty" /\ ~call[p].folders

\* A path that is not there is nothing to delete, and no failure.
MissingIsDone == \A p \in Worker : result[p] = "failed" => ec[p] # "missing"

\* Every call returns, however often the other process is in the way.
EveryCallReturns == \A p \in Worker : pc[p] # "idle" ~> pc[p] = "idle"
=============================================================================
