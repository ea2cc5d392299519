----------------------------- MODULE AtomicWrite -----------------------------
(***************************************************************************)
(* bela::io on one file: AtomicWriteText (write "<file>.<pid>.new", move   *)
(* it over the file), WriteText (write the file itself) and ReadFile, by   *)
(* threads of several processes that may die at any point.                 *)
(*                                                                         *)
(* Win32 is modelled by what io.cc relies on.  No handle of io.cc is       *)
(* opened with FILE_SHARE_DELETE, so an open file can be neither moved,    *)
(* replaced nor deleted; WriteText opens without FILE_SHARE_WRITE, so a    *)
(* file has one writer at a time; a read handle shares everything else.    *)
(* As a file is always truncated by its only writer before it is written,  *)
(* its bytes are a prefix of one text: a text and a length stand for them. *)
(***************************************************************************)
EXTENDS Integers, FiniteSets

CONSTANTS
  Writers,       \* threads that call AtomicWriteText
  PlainWriters,  \* threads that call WriteText on the file
  Readers,       \* threads that call ReadFile
  Pids,          \* process ids; a pid also names the temporary file it gives
  Pid,           \* Pid[th] = GetCurrentProcessId() in thread th
  Texts,         \* the texts written
  Size,          \* Size[t]: the number of blocks of text t, its mark included
  MaxRead,       \* ReadFile's maxsize, in blocks
  Target,        \* the name of the file
  Absent,        \* no file has this name
  NoText

AllWriters == Writers \cup PlainWriters
Threads == AllWriters \cup Readers
Names == Pids \cup {Target}

ASSUME ThreadsAssumption ==
  /\ Writers \cap PlainWriters = {} /\ AllWriters \cap Readers = {}
  /\ Pid \in [Threads -> Pids]
  /\ Target \notin Pids

\* An empty text cannot be told from a truncated file: texts have a block.
ASSUME TextsAssumption ==
  /\ Texts # {} /\ NoText \notin Texts
  /\ Size \in [Texts -> Nat \ {0}]
  /\ MaxRead \in Nat \ {0}

\* What a file holds: the first len blocks of a text.
Contents == UNION {{[text |-> t, len |-> k] : k \in 0 .. Size[t]} : t \in Texts}

ASSUME AbsentAssumption == Absent \notin Contents

VARIABLES
  disk,  \* disk[n]: the content of the file named n, or Absent
  pc,    \* pc[th]: the next call th makes
  arg,   \* arg[w]: the text w writes
  off,   \* off[th]: blocks written or read so far
  want,  \* want[r]: blocks r has to read
  from,  \* from[r]: the texts the blocks in r's buffer come from
  ret    \* ret[th]: what the last call returned

vars == <<disk, pc, arg, off, want, from, ret>>

Smaller(a, b) == IF a <= b THEN a ELSE b

Whole(t) == [text |-> t, len |-> Size[t]]

\* Slip: no temporary file.
FileItself(w) == Target

\* The file a writer opens: its process's temporary file, or the file itself.
FileOf(w) == IF w \in PlainWriters THEN Target ELSE Pid[w]

HoldsForWrite(w, n) == w \in AllWriters /\ pc[w] \in {"write", "closeOk", "closeBad"} /\ n = FileOf(w)
HoldsForRead(r, n) == r \in Readers /\ pc[r] \in {"size", "read"} /\ n = Target
Open(n) == \E th \in Threads : HoldsForWrite(th, n) \/ HoldsForRead(th, n)
OpenForWrite(n) == \E w \in AllWriters : HoldsForWrite(w, n)

Goto(th, l) == pc' = [pc EXCEPT ![th] = l]
Return(th, b) == Goto(th, "idle") /\ ret' = [ret EXCEPT ![th] = b]

Init ==
  /\ disk \in [Names -> Contents \cup {Absent}]
  /\ disk[Target] \in {Whole(t) : t \in Texts} \cup {Absent}
  /\ pc = [th \in Threads |-> "idle"]
  /\ arg = [w \in AllWriters |-> NoText]
  /\ off = [th \in Threads |-> 0]
  /\ want = [r \in Readers |-> 0]
  /\ from = [r \in Readers |-> {}]
  /\ ret = [th \in Threads |-> "none"]

-----------------------------------------------------------------------------
(* AtomicWriteText and WriteText.                                          *)

Call(w, t) ==
  /\ pc[w] = "idle"
  /\ arg' = [arg EXCEPT ![w] = t]
  /\ off' = [off EXCEPT ![w] = 0]
  /\ ret' = [ret EXCEPT ![w] = "none"]
  /\ Goto(w, "create")
  /\ UNCHANGED <<disk, want, from>>

\* CreateFileW(..., FILE_SHARE_READ, CREATE_ALWAYS) truncates or makes the file.
Create(w) ==
  /\ pc[w] = "create"
  /\ ~OpenForWrite(FileOf(w))
  /\ disk' = [disk EXCEPT ![FileOf(w)] = [text |-> arg[w], len |-> 0]]
  /\ Goto(w, "write")
  /\ UNCHANGED <<arg, off, want, from, ret>>

\* It fails on a sharing violation, or for any other reason.
CreateFails(w) ==
  /\ pc[w] = "create"
  /\ Return(w, "false")
  /\ UNCHANGED <<disk, arg, off, want, from>>

\* Slip: WriteFull without its loop.
WriteOnce(w) ==
  /\ pc[w] = "write"
  /\ \E n \in 1 .. Size[arg[w]] :
       /\ off' = [off EXCEPT ![w] = n]
       /\ disk' = [disk EXCEPT ![FileOf(w)] = [text |-> arg[w], len |-> n]]
  /\ Goto(w, "closeOk")
  /\ UNCHANGED <<arg, want, from, ret>>

\* One WriteFile of WriteFull: it may write less than it was asked to.
WriteSome(w) ==
  /\ pc[w] = "write"
  /\ \E n \in 1 .. Size[arg[w]] - off[w] :
       /\ off' = [off EXCEPT ![w] = @ + n]
       /\ disk' = [disk EXCEPT ![FileOf(w)] = [text |-> arg[w], len |-> off[w] + n]]
       /\ Goto(w, IF off[w] + n = Size[arg[w]] THEN "closeOk" ELSE "write")
  /\ UNCHANGED <<arg, want, from, ret>>

WriteFails(w) ==
  /\ pc[w] = "write"
  /\ Goto(w, "closeBad")
  /\ UNCHANGED <<disk, arg, off, want, from, ret>>

\* The closer of WriteText runs; AtomicWriteText gives up on a failed write
\* and leaves the temporary file where it is.
CloseOk(w) ==
  /\ pc[w] = "closeOk"
  /\ IF w \in PlainWriters THEN Return(w, "true")
     ELSE Goto(w, "move") /\ UNCHANGED ret
  /\ UNCHANGED <<disk, arg, off, want, from>>

\* Slip: the result of WriteText is not looked at.
CloseBadIgnored(w) ==
  /\ pc[w] = "closeBad"
  /\ Goto(w, "move")
  /\ UNCHANGED <<disk, arg, off, want, from, ret>>

CloseBad(w) ==
  /\ pc[w] = "closeBad"
  /\ Return(w, "false")
  /\ UNCHANGED <<disk, arg, off, want, from>>

\* MoveFileExW(newfile, file, COPY_ALLOWED | REPLACE_EXISTING), same volume.
Move(w) ==
  /\ pc[w] = "move"
  /\ disk[Pid[w]] # Absent /\ ~Open(Pid[w]) /\ ~Open(Target)
  /\ disk' = [disk EXCEPT ![Target] = disk[Pid[w]], ![Pid[w]] = Absent]
  /\ Return(w, "true")
  /\ UNCHANGED <<arg, off, want, from>>

\* Slip: the result of MoveFileExW is not looked at.
MoveFailsIgnored(w) ==
  /\ pc[w] = "move"
  /\ Return(w, "true")
  /\ UNCHANGED <<disk, arg, off, want, from>>

MoveFails(w) ==
  /\ pc[w] = "move"
  /\ Goto(w, "delete")
  /\ UNCHANGED <<disk, arg, off, want, from, ret>>

\* DeleteFileW(newfile): its result is ignored.
Delete(w) ==
  /\ pc[w] = "delete"
  /\ \/ ~Open(Pid[w]) /\ disk' = [disk EXCEPT ![Pid[w]] = Absent]
     \/ UNCHANGED disk
  /\ Return(w, "false")
  /\ UNCHANGED <<arg, off, want, from>>

-----------------------------------------------------------------------------
(* ReadFile.                                                               *)

CallRead(r) ==
  /\ pc[r] = "idle"
  /\ off' = [off EXCEPT ![r] = 0]
  /\ want' = [want EXCEPT ![r] = 0]
  /\ from' = [from EXCEPT ![r] = {}]
  /\ ret' = [ret EXCEPT ![r] = "none"]
  /\ Goto(r, "open")
  /\ UNCHANGED <<disk, arg>>

\* NewFile: OPEN_EXISTING; a writer's handle shares reading.
OpenRead(r) ==
  /\ pc[r] = "open"
  /\ disk[Target] # Absent
  /\ Goto(r, "size")
  /\ UNCHANGED <<disk, arg, off, want, from, ret>>

GetSize(r) ==
  /\ pc[r] = "size"
  /\ want' = [want EXCEPT ![r] = Smaller(MaxRead, disk[Target].len)]
  /\ Goto(r, "read")
  /\ UNCHANGED <<disk, arg, off, from, ret>>

\* One ReadFile of ReadFull: the bytes at the file pointer, as they are now.
ReadSome(r) ==
  /\ pc[r] = "read"
  /\ \E n \in 1 .. Smaller(want[r], disk[Target].len) - off[r] :
       off' = [off EXCEPT ![r] = @ + n]
  /\ from' = [from EXCEPT ![r] = @ \cup {disk[Target].text}]
  /\ UNCHANGED <<disk, pc, arg, want, ret>>

\* ReadFull got no byte: the file became shorter than the size it had.
AtEOF(r) == pc[r] = "read" /\ off[r] < want[r] /\ off[r] >= disk[Target].len

\* Slip: ReadFull without its loop.
ReadDoneEarly(r) ==
  /\ pc[r] = "read"
  /\ off[r] > 0
  /\ Return(r, "true")
  /\ UNCHANGED <<disk, arg, off, want, from>>

ReadDone(r) ==
  /\ pc[r] = "read"
  /\ off[r] = want[r]
  /\ Return(r, "true")
  /\ UNCHANGED <<disk, arg, off, want, from>>

\* CreateFileW, the size query or ReadFile fails, or ReadFile is AtEOF.
ReadFails(r) ==
  /\ pc[r] \in {"open", "size", "read"}
  /\ Return(r, "false")
  /\ UNCHANGED <<disk, arg, off, want, from>>

-----------------------------------------------------------------------------
\* Process p dies: its handles are closed, its files stay as they are.  A new
\* process may later have the same id.
Crash(p) ==
  LET Dead == {th \in Threads : Pid[th] = p}
  IN /\ pc' = [th \in Threads |-> IF th \in Dead THEN "idle" ELSE pc[th]]
     /\ ret' = [th \in Threads |-> IF th \in Dead THEN "none" ELSE ret[th]]
     /\ UNCHANGED <<disk, arg, off, want, from>>

WriterStep(w) ==
  \/ Create(w) \/ CreateFails(w) \/ WriteSome(w) \/ WriteFails(w)
  \/ CloseOk(w) \/ CloseBad(w) \/ Move(w) \/ MoveFails(w) \/ Delete(w)

ReaderStep(r) ==
  OpenRead(r) \/ GetSize(r) \/ ReadSome(r) \/ ReadDone(r) \/ ReadFails(r)

Next ==
  \/ \E w \in AllWriters : (\E t \in Texts : Call(w, t)) \/ WriterStep(w)
  \/ \E r \in Readers : CallRead(r) \/ ReaderStep(r)
  \/ \E p \in Pids : Crash(p)

Spec == Init /\ [][Next]_vars

-----------------------------------------------------------------------------
TypeOK ==
  /\ disk \in [Names -> Contents \cup {Absent}]
  /\ pc \in [Threads -> {"idle", "create", "write", "closeOk", "closeBad", "move",
                         "delete", "open", "size", "read"}]
  /\ \A w \in AllWriters : pc[w] \notin {"open", "size", "read"}
  /\ \A r \in Readers : pc[r] \in {"idle", "open", "size", "read"}
  /\ \A w \in PlainWriters : pc[w] \notin {"move", "delete"}
  /\ arg \in [AllWriters -> Texts \cup {NoText}]
  /\ \A w \in AllWriters : pc[w] # "idle" => arg[w] \in Texts
  /\ off \in [Threads -> Nat]
  /\ want \in [Readers -> Nat]
  /\ from \in [Readers -> SUBSET Texts]
  /\ ret \in [Threads -> {"none", "true", "false"}]
  /\ \A r \in Readers : pc[r] \in {"size", "read"} => disk[Target] # Absent

\* io.hpp calls AtomicWriteText an atomic write: at every moment, between any
\* two steps of any thread and after any crash, the file is absent or holds
\* one text in full.
TargetWhole == disk[Target] # Absent => disk[Target].len = Size[disk[Target].text]

\* A writer that is told "true" finds its own text, in full, in the file.
OkMeansWritten ==
  [][\A w \in AllWriters :
       ret[w] # "true" /\ ret'[w] = "true" => disk'[Target] = Whole(arg[w])]_vars

\* ReadFile's "true" comes with the beginning of one text, up to maxsize: never
\* blocks of two texts and never less than the text has.
ReadsOneText ==
  \A r \in Readers : ret[r] = "true" =>
    \E t \in Texts : from[r] = {t} /\ off[r] = Smaller(MaxRead, Size[t])

\* A reader never finds the file shorter than the size it was told.
NoEarlyEOF == \A r \in Readers : ~AtEOF(r)

\* AtomicWriteText and ReadFile implement the atomic file of AtomicFile: a
\* write takes effect at its move, a read at the moment the file is opened.
FileValue == IF disk[Target] = Absent THEN NoText ELSE disk[Target].text

CallOf == [c \in Writers \cup Readers |->
  CASE pc[c] = "idle" -> IF ret[c] = "none" THEN "idle" ELSE ret[c]
    [] pc[c] \in {"size", "read"} -> "sampled"
    [] OTHER -> "pending"]

TheText(S) == CHOOSE t \in Texts : S = {t}

SeenBy == [r \in Readers |->
  IF pc[r] \in {"size", "read"} THEN FileValue
  ELSE IF pc[r] = "idle" /\ ret[r] = "true" THEN TheText(from[r]) ELSE NoText]

AFile == INSTANCE AtomicFile WITH
  value <- FileValue, call <- CallOf, arg <- [w \in Writers |-> arg[w]], seen <- SeenBy

IsAtomicFile == AFile!ASpec
=============================================================================
