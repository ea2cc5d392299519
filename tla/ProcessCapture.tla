---------------------------- MODULE ProcessCapture ----------------------------
(***************************************************************************)
(* bela::process: threads of one process run child processes.  Capture     *)
(* gives the child the write end of a pipe and reads the other end until   *)
(* it is told that no writer is left; Execute only waits for the child,    *)
(* with Ctrl+C ignored meanwhile.                                          *)
(*                                                                         *)
(* The kernel objects are external: a child started with bInheritHandles   *)
(* gets every handle of the process that is inheritable at that moment,    *)
(* whichever thread made it; a pipe reports its end when it is empty and   *)
(* no process holds its write end; a full pipe blocks its writer; a write  *)
(* of no byte makes one read return no byte.                               *)
(***************************************************************************)
EXTENDS Naturals, Sequences, FiniteSets

CONSTANTS
  Capturers,   \* threads that call Capture, each with a Process of its own
  Executors,   \* threads that call Execute
  MaxOut,      \* chunks the children of one Process write at most (bound)
  PipeSize,    \* chunks a pipe holds
  MaxCalls,    \* threads that are in a call at one time (bound)
  EmptyWrites  \* children may write no byte to their output

Threads == Capturers \cup Executors
Ends == {"r", "w"}
Handles == Capturers \X Ends

ASSUME ThreadsDisjoint == Capturers \cap Executors = {}
ASSUME BoundsAssumption ==
  /\ MaxOut \in Nat /\ PipeSize \in Nat \ {0} /\ MaxCalls \in Nat
  /\ EmptyWrites \in BOOLEAN

VARIABLES
  pc,           \* pc[t]: the next call thread t makes
  ours,         \* handles open in this process
  inheritable,  \* those of them a child inherits
  child,        \* child[t]: the process t started
  theirs,       \* theirs[t]: the pipe handles of that process
  pipe,         \* pipe[t]: what is in the pipe of t
  wrote,        \* wrote[t]: chunks the children of t's Process wrote to their output
  out,          \* out[t]: chunks in Process::out, which no call clears
  cut,          \* cut[t]: a write of no byte ended the reading of one of its calls
  ok,           \* ok[t]: the last call of t succeeded
  ignoreCtrl    \* the process ignores Ctrl+C

vars == <<pc, ours, inheritable, child, theirs, pipe, wrote, out, cut, ok, ignoreCtrl>>
kids == <<child, theirs>>
data == <<pipe, wrote, out, cut>>

PipeOf(t) == {<<t, e>> : e \in Ends}
Holders(h) == {c \in Threads : child[c] = "running" /\ h \in theirs[c]}
HasWriter(t) == <<t, "w">> \in ours \/ Holders(<<t, "w">>) # {}
HasReader(t) == <<t, "r">> \in ours \/ Holders(<<t, "r">>) # {}

\* A thread begins a call: no more than MaxCalls are in one.
MayCall(t) == pc[t] = "idle" /\ Cardinality({u \in Threads : pc[u] # "idle"}) < MaxCalls

Goto(t, l) == pc' = [pc EXCEPT ![t] = l]
Return(t, r) == Goto(t, "idle") /\ ok' = [ok EXCEPT ![t] = r]

\* Closing the last handles of this process to the pipe of t.  What other
\* children still hold of it is of no use to anybody.
DropPipe(t) ==
  /\ ours' = ours \ PipeOf(t)
  /\ inheritable' = inheritable \ PipeOf(t)
  /\ theirs' = [c \in Threads |-> theirs[c] \ PipeOf(t)]

Init ==
  /\ pc = [t \in Threads |-> "idle"]
  /\ ours = {} /\ inheritable = {}
  /\ child = [t \in Threads |-> "none"]
  /\ theirs = [t \in Threads |-> {}]
  /\ pipe = [t \in Capturers |-> <<>>]
  /\ wrote = [t \in Capturers |-> 0]
  /\ out = [t \in Capturers |-> 0]
  /\ cut = [t \in Capturers |-> FALSE]
  /\ ok = [t \in Threads |-> FALSE]
  /\ ignoreCtrl = FALSE

\* The thread goes on with another Process object.
NewProcess(t) ==
  /\ pc[t] = "idle"
  /\ wrote' = [wrote EXCEPT ![t] = 0]
  /\ out' = [out EXCEPT ![t] = 0]
  /\ cut' = [cut EXCEPT ![t] = FALSE]
  /\ ok' = [ok EXCEPT ![t] = FALSE]
  /\ UNCHANGED <<pc, ours, inheritable, kids, pipe, ignoreCtrl>>

-----------------------------------------------------------------------------
(* create_process_redirect                                                 *)

\* CreatePipe with an inheritable security attribute: both ends are.
CreatePipe(t) ==
  /\ MayCall(t)
  /\ Goto(t, "unshare")
  /\ ours' = ours \cup PipeOf(t)
  /\ inheritable' = inheritable \cup PipeOf(t)
  /\ pipe' = [pipe EXCEPT ![t] = <<>>]
  /\ ok' = [ok EXCEPT ![t] = FALSE]
  /\ UNCHANGED <<kids, wrote, out, cut, ignoreCtrl>>

CreatePipeFails(t) ==
  /\ pc[t] = "idle"
  /\ ok' = [ok EXCEPT ![t] = FALSE]
  /\ UNCHANGED <<pc, ours, inheritable, kids, data, ignoreCtrl>>

\* Slip: the wrong end is made private.
UnshareWrite(t) ==
  /\ pc[t] = "unshare"
  /\ Goto(t, "spawn")
  /\ inheritable' = inheritable \ {<<t, "w">>}
  /\ UNCHANGED <<ours, kids, data, ok, ignoreCtrl>>

\* SetHandleInformation(fdout, HANDLE_FLAG_INHERIT, 0).
Unshare(t) ==
  /\ pc[t] = "unshare"
  /\ Goto(t, "spawn")
  /\ inheritable' = inheritable \ {<<t, "r">>}
  /\ UNCHANGED <<ours, kids, data, ok, ignoreCtrl>>

\* CreateProcessW(..., bInheritHandles = TRUE, ...).
Spawn(t) ==
  /\ pc[t] = "spawn"
  /\ Goto(t, "closeWrite")
  /\ child' = [child EXCEPT ![t] = "running"]
  /\ theirs' = [theirs EXCEPT ![t] = inheritable]
  /\ UNCHANGED <<ours, inheritable, data, ok, ignoreCtrl>>

\* Slip: an error path that frees none of the ends.
RedirectFailsOpen(t) ==
  /\ pc[t] \in {"unshare", "spawn"}
  /\ Return(t, FALSE)
  /\ UNCHANGED <<ours, inheritable, kids, data, ignoreCtrl>>

\* SetHandleInformation or CreateProcessW fails: both ends are freed.
RedirectFails(t) ==
  /\ pc[t] \in {"unshare", "spawn"}
  /\ DropPipe(t)
  /\ Return(t, FALSE)
  /\ UNCHANGED <<child, data, ignoreCtrl>>

\* Slip: the process is waited for before its output is read.
WaitFirst(t) ==
  /\ pc[t] = "closeWrite" /\ child[t] = "exited"
  /\ Goto(t, "read")
  /\ ours' = ours \ {<<t, "w">>}
  /\ inheritable' = inheritable \ {<<t, "w">>}
  /\ UNCHANGED <<kids, data, ok, ignoreCtrl>>

\* Free(si.hStdOutput): from here on only children can write.
CloseWrite(t) ==
  /\ pc[t] = "closeWrite"
  /\ Goto(t, "read")
  /\ ours' = ours \ {<<t, "w">>}
  /\ inheritable' = inheritable \ {<<t, "w">>}
  /\ UNCHANGED <<kids, data, ok, ignoreCtrl>>

-----------------------------------------------------------------------------
(* wait_and_stream_output, wait_and_close_handles                          *)

Read(t) ==
  /\ pc[t] = "read"
  /\ pipe[t] # <<>> /\ Head(pipe[t]) = "chunk"
  /\ pipe' = [pipe EXCEPT ![t] = Tail(@)]
  /\ out' = [out EXCEPT ![t] = @ + 1]
  /\ UNCHANGED <<pc, ours, inheritable, kids, wrote, cut, ok, ignoreCtrl>>

\* Slip: the reading stops when the child has exited.
ReadEndsOnExit(t) ==
  /\ pc[t] = "read" /\ child[t] = "exited"
  /\ Goto(t, "wait")
  /\ ours' = ours \ {<<t, "r">>}
  /\ UNCHANGED <<inheritable, kids, data, ok, ignoreCtrl>>

\* ReadFile fails at the end of the pipe, or returns no byte: CloseHandle(fdout).
ReadEnds(t) ==
  /\ pc[t] = "read"
  /\ IF pipe[t] = <<>> THEN ~HasWriter(t) ELSE Head(pipe[t]) = "empty"
  /\ cut' = [cut EXCEPT ![t] = @ \/ pipe[t] # <<>>]
  /\ Goto(t, "wait")
  /\ ours' = ours \ {<<t, "r">>}
  /\ UNCHANGED <<inheritable, kids, pipe, wrote, out, ok, ignoreCtrl>>

\* WaitForSingleObject(pi.hProcess), GetExitCodeProcess, CloseHandle.
WaitCapture(t) ==
  /\ pc[t] = "wait" /\ t \in Capturers
  /\ child[t] = "exited"
  /\ child' = [child EXCEPT ![t] = "none"]
  /\ DropPipe(t)
  /\ Return(t, TRUE)
  /\ UNCHANGED <<data, ignoreCtrl>>

-----------------------------------------------------------------------------
(* ExecuteInternal                                                         *)

\* CreateProcessW(..., bInheritHandles = FALSE, ...).
ExecSpawn(t) ==
  /\ MayCall(t)
  /\ Goto(t, "ctrlOn")
  /\ child' = [child EXCEPT ![t] = "running"]
  /\ ok' = [ok EXCEPT ![t] = FALSE]
  /\ UNCHANGED <<ours, inheritable, theirs, data, ignoreCtrl>>

ExecSpawnFails(t) ==
  /\ pc[t] = "idle"
  /\ ok' = [ok EXCEPT ![t] = FALSE]
  /\ UNCHANGED <<pc, ours, inheritable, kids, data, ignoreCtrl>>

\* SetConsoleCtrlHandler(nullptr, TRUE) is a switch of the whole process.
CtrlOn(t) ==
  /\ pc[t] = "ctrlOn"
  /\ Goto(t, "wait")
  /\ ignoreCtrl' = TRUE
  /\ UNCHANGED <<ours, inheritable, kids, data, ok>>

\* Slip: the closer turns the switch over, as if no other thread used it.
WaitExecuteToggles(t) ==
  /\ pc[t] = "wait" /\ t \in Executors
  /\ child[t] = "exited"
  /\ child' = [child EXCEPT ![t] = "none"]
  /\ ignoreCtrl' = ~ignoreCtrl
  /\ Return(t, TRUE)
  /\ UNCHANGED <<ours, inheritable, theirs, data>>

\* The wait ends and the closer switches Ctrl+C back, whether or not another
\* thread waits.
WaitExecute(t) ==
  /\ pc[t] = "wait" /\ t \in Executors
  /\ child[t] = "exited"
  /\ child' = [child EXCEPT ![t] = "none"]
  /\ ignoreCtrl' = FALSE
  /\ Return(t, TRUE)
  /\ UNCHANGED <<ours, inheritable, theirs, data>>

-----------------------------------------------------------------------------
(* Children: they write to their output, may close it, and may exit.       *)

CanWrite(c) == child[c] = "running" /\ <<c, "w">> \in theirs[c] /\ HasReader(c)

ChildWrite(c) ==
  /\ CanWrite(c)
  /\ wrote[c] < MaxOut /\ Len(pipe[c]) < PipeSize
  /\ pipe' = [pipe EXCEPT ![c] = Append(@, "chunk")]
  /\ wrote' = [wrote EXCEPT ![c] = @ + 1]
  /\ UNCHANGED <<pc, ours, inheritable, kids, out, cut, ok, ignoreCtrl>>

ChildWriteEmpty(c) ==
  /\ EmptyWrites /\ CanWrite(c)
  /\ Len(pipe[c]) < PipeSize
  /\ pipe' = [pipe EXCEPT ![c] = Append(@, "empty")]
  /\ UNCHANGED <<pc, ours, inheritable, kids, wrote, out, cut, ok, ignoreCtrl>>

ChildCloses(c) ==
  /\ child[c] = "running" /\ <<c, "w">> \in theirs[c]
  /\ theirs' = [theirs EXCEPT ![c] = @ \ {<<c, "w">>}]
  /\ UNCHANGED <<pc, ours, inheritable, child, data, ok, ignoreCtrl>>

ChildExits(c) ==
  /\ child[c] = "running"
  /\ child' = [child EXCEPT ![c] = "exited"]
  /\ theirs' = [theirs EXCEPT ![c] = {}]
  /\ UNCHANGED <<pc, ours, inheritable, data, ok, ignoreCtrl>>

\* What a thread does by itself once its call has begun.
CaptureStep(t) ==
  Unshare(t) \/ Spawn(t) \/ RedirectFails(t) \/ CloseWrite(t) \/ Read(t) \/ ReadEnds(t) \/ WaitCapture(t)

ExecuteStep(t) == CtrlOn(t) \/ WaitExecute(t)

Next ==
  \/ \E t \in Capturers : NewProcess(t) \/ CreatePipe(t) \/ CreatePipeFails(t) \/ CaptureStep(t)
  \/ \E t \in Executors : ExecSpawn(t) \/ ExecSpawnFails(t) \/ ExecuteStep(t)
  \/ \E c \in Capturers : ChildWrite(c) \/ ChildWriteEmpty(c) \/ ChildCloses(c)
  \/ \E c \in Threads : ChildExits(c)

\* The threads keep running; nothing is assumed of the children.
Fairness == (\A t \in Capturers : WF_vars(CaptureStep(t))) /\ (\A t \in Executors : WF_vars(ExecuteStep(t)))

Spec == Init /\ [][Next]_vars /\ Fairness

-----------------------------------------------------------------------------
TypeOK ==
  /\ pc \in [Threads -> {"idle", "unshare", "spawn", "closeWrite", "read", "ctrlOn", "wait"}]
  /\ ours \subseteq Handles /\ inheritable \subseteq ours
  /\ child \in [Threads -> {"none", "running", "exited"}]
  /\ theirs \in [Threads -> SUBSET Handles]
  /\ pipe \in [Capturers -> Seq({"chunk", "empty"})]
  /\ \A t \in Capturers : Len(pipe[t]) <= PipeSize
  /\ wrote \in [Capturers -> 0 .. MaxOut]
  /\ out \in [Capturers -> 0 .. MaxOut]
  /\ cut \in [Capturers -> BOOLEAN]
  /\ ok \in [Threads -> BOOLEAN]
  /\ ignoreCtrl \in BOOLEAN

\* A Capture that succeeds leaves in Process::out all that its child wrote, after
\* what the earlier children of the same object wrote, however the writes, the
\* exit of the child and those of other children interleave; only a write of no
\* byte ends the reading loop early.
CaptureComplete ==
  \A t \in Capturers : ok[t] /\ ~cut[t] => out[t] = wrote[t] /\ pipe[t] = <<>>

\* A child never inherits the read end of the pipe it writes to, on which it
\* would be its own reader once this process has closed it.
ReadEndNotInherited == \A t \in Capturers : <<t, "r">> \notin theirs[t]

\* Every handle of a pipe is closed when its call has returned, on the error
\* paths too.
NoHandleLeft == \A t \in Capturers : pc[t] = "idle" => ours \cap PipeOf(t) = {}

\* The switch of ExecuteInternal belongs to the process, and every Execute turns
\* it on and off.  In whatever order several of them begin and end, Ctrl+C is
\* ignored only while one of them waits for its child: the last to end leaves a
\* process that can be interrupted.
CtrlRestored == ignoreCtrl => \E t \in Executors : pc[t] = "wait"

\* Child c, running, keeps the call of t from returning: the child of the call
\* unless it waits itself, for room in a pipe that can still be read, or another
\* child that inherited an end of that pipe.
HoldsUp(c, t) ==
  /\ child[c] = "running"
  /\ IF c = t THEN t \in Capturers => Len(pipe[t]) < PipeSize \/ ~HasReader(t)
              ELSE theirs[c] \cap PipeOf(t) # {}

\* A call waits for children only, and for none that waits for the call: over
\* and over it has returned, or a running child holds it up.
WaitsForChildrenOnly == \A t \in Threads : []<>(pc[t] = "idle" \/ \E c \in Threads : HoldsUp(c, t))
=============================================================================
