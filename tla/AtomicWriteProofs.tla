-------------------------- MODULE AtomicWriteProofs --------------------------
(***************************************************************************)
(* AtomicWrite for any number of threads, processes, texts and blocks.     *)
(***************************************************************************)
EXTENDS AtomicWrite, TLAPS

Writing == {"write", "closeOk", "closeBad"}

\* The share mode gives a file one writer.
OneWriter ==
  \A v, w \in AllWriters :
    pc[v] \in Writing /\ pc[w] \in Writing /\ FileOf(v) = FileOf(w) => v = w

\* While a writer has its file open the file holds what it wrote so far, and
\* until the move its temporary file holds its text.
FileMatches ==
  \A w \in AllWriters :
    /\ pc[w] = "create" => off[w] = 0
    /\ pc[w] \in Writing => /\ disk[FileOf(w)] = [text |-> arg[w], len |-> off[w]]
                            /\ off[w] <= Size[arg[w]]
    /\ pc[w] = "closeOk" => off[w] = Size[arg[w]]
    /\ pc[w] = "move" => disk[Pid[w]] = Whole(arg[w])

\* A reader's buffer is a prefix of what the file, which cannot be replaced
\* while the reader has it open, still holds.
BufferMatches ==
  \A r \in Readers :
    /\ pc[r] \in {"open", "size"} => off[r] = 0 /\ from[r] = {}
    /\ pc[r] \in {"size", "read"} => disk[Target] # Absent
    /\ pc[r] = "read" =>
         /\ want[r] = Smaller(MaxRead, Size[disk[Target].text])
         /\ off[r] <= want[r]
         /\ from[r] = IF off[r] = 0 THEN {} ELSE {disk[Target].text}
    /\ ret[r] = "true" => pc[r] = "idle"

WriterInv == OneWriter /\ FileMatches
IInv == TargetWhole /\ BufferMatches /\ ReadsOneText

DistinctPids == \A v, w \in Writers : Pid[v] = Pid[w] => v = w

-----------------------------------------------------------------------------
\* The parts of what a file holds.
LEMMA ContentsFields ==
  ASSUME NEW c \in Contents
  PROVE  c.text \in Texts /\ c.len \in 0 .. Size[c.text] /\ c = [text |-> c.text, len |-> c.len]
BY TextsAssumption DEF Contents

\* A text cut anywhere is a content.
LEMMA ContentsIntro ==
  ASSUME NEW t \in Texts, NEW k \in 0 .. Size[t]
  PROVE  [text |-> t, len |-> k] \in Contents
BY DEF Contents

\* Every thread has a pid, and a writer's file has a name.
LEMMA FileNames ==
  /\ \A th \in Threads : Pid[th] \in Pids /\ Pid[th] # Target
  /\ \A w \in AllWriters : FileOf(w) \in Names
  /\ \A w \in AllWriters \ PlainWriters : w \in Writers
BY ThreadsAssumption DEF Threads, Names, AllWriters, FileOf

\* Writers and readers are different threads.
LEMMA ThreadSets ==
  /\ Writers \subseteq AllWriters /\ PlainWriters \subseteq AllWriters
  /\ AllWriters \subseteq Threads /\ Readers \subseteq Threads
  /\ AllWriters \cap Readers = {}
BY ThreadsAssumption DEF Threads, AllWriters

\* Types, and writers and readers at their own labels, whatever the pids are.
THEOREM TypeCorrect == Spec => []TypeOK
<1> USE DEF TypeOK
<1>1. Init => TypeOK
  BY TextsAssumption, ThreadsAssumption DEF Init, AllWriters, Threads
<1>2. TypeOK /\ [Next]_vars => TypeOK'
  <2> SUFFICES ASSUME TypeOK, [Next]_vars PROVE TypeOK'
    OBVIOUS
  <2> USE FileNames, ThreadSets
  <2>1. ASSUME NEW w \in AllWriters, NEW t \in Texts, Call(w, t) PROVE TypeOK'
    BY <2>1 DEF Call, Goto
  <2>2. ASSUME NEW w \in AllWriters, Create(w) PROVE TypeOK'
    <3>1. [text |-> arg[w], len |-> 0] \in Contents
      BY <2>2, ContentsIntro, TextsAssumption DEF Create
    <3> QED BY <2>2, <3>1, AbsentAssumption DEF Create, Goto
  <2>3. ASSUME NEW w \in AllWriters, WriteSome(w) PROVE TypeOK'
    <3>1. arg[w] \in Texts /\ Size[arg[w]] \in Nat /\ off[w] \in Nat /\ w \in Threads
      BY <2>3, TextsAssumption DEF WriteSome, Threads
    <3>2. PICK n \in 1 .. Size[arg[w]] - off[w] :
            /\ off' = [off EXCEPT ![w] = @ + n]
            /\ disk' = [disk EXCEPT ![FileOf(w)] = [text |-> arg[w], len |-> off[w] + n]]
            /\ Goto(w, IF off[w] + n = Size[arg[w]] THEN "closeOk" ELSE "write")
      BY <2>3 DEF WriteSome
    <3>3. off[w] + n \in 0 .. Size[arg[w]]
      BY <3>1
    <3>4. [text |-> arg[w], len |-> off[w] + n] \in Contents
      BY <3>1, <3>3, ContentsIntro
    <3>5. disk' \in [Names -> Contents \cup {Absent}] /\ off' \in [Threads -> Nat]
      BY <3>1, <3>2, <3>3, <3>4
    <3> QED BY <2>3, <3>1, <3>2, <3>4, <3>5, AbsentAssumption DEF WriteSome, Goto
  <2>4. ASSUME NEW w \in AllWriters,
               CreateFails(w) \/ WriteFails(w) \/ CloseOk(w) \/ CloseBad(w) \/ MoveFails(w)
        PROVE  TypeOK'
    BY <2>4 DEF CreateFails, WriteFails, CloseOk, CloseBad, MoveFails, Goto, Return
  <2>5. ASSUME NEW w \in AllWriters, Move(w) \/ Delete(w) PROVE TypeOK'
    <3>1. w \in Threads /\ Pid[w] \in Names /\ Target \in Names
      BY DEF Threads, Names
    <3>2. disk' \in [Names -> Contents \cup {Absent}]
      BY <2>5, <3>1 DEF Move, Delete
    <3> QED BY <2>5, <3>1, <3>2, AbsentAssumption DEF Move, Delete, Goto, Return
  <2>6. ASSUME NEW r \in Readers, CallRead(r) \/ OpenRead(r) \/ ReadDone(r) \/ ReadFails(r)
        PROVE  TypeOK'
    <3>1. CASE CallRead(r) \/ OpenRead(r)
      BY <3>1 DEF CallRead, OpenRead, Goto
    <3>2. CASE ReadDone(r) \/ ReadFails(r)
      BY <3>2 DEF ReadDone, ReadFails, Goto, Return
    <3> QED BY <2>6, <3>1, <3>2
  <2>7. ASSUME NEW r \in Readers, GetSize(r) PROVE TypeOK'
    <3>1. disk[Target] \in Contents
      BY <2>7 DEF GetSize, Names
    <3>2. want' \in [Readers -> Nat]
      BY <2>7, <3>1, ContentsFields, TextsAssumption DEF GetSize, Smaller
    <3> QED BY <2>7, <3>2 DEF GetSize, Goto
  <2>8. ASSUME NEW r \in Readers, ReadSome(r) PROVE TypeOK'
    <3>1. disk[Target] \in Contents /\ disk[Target].text \in Texts
      BY <2>8, ContentsFields DEF ReadSome, Names
    <3>2. from' \in [Readers -> SUBSET Texts]
      BY <2>8, <3>1 DEF ReadSome
    <3>3. off' \in [Threads -> Nat]
      BY <2>8 DEF ReadSome, Threads
    <3> QED BY <2>8, <3>2, <3>3 DEF ReadSome
  <2>9. ASSUME NEW p \in Pids, Crash(p) PROVE TypeOK'
    BY <2>9 DEF Crash
  <2>10. CASE UNCHANGED vars
    BY <2>10 DEF vars
  <2> QED
    BY <2>1, <2>2, <2>3, <2>4, <2>5, <2>6, <2>7, <2>8, <2>9, <2>10
       DEF Next, WriterStep, ReaderStep
<1> QED BY <1>1, <1>2, PTL DEF Spec
-----------------------------------------------------------------------------
\* The share mode and the private temporary names keep every file matched to
\* its writer: one step at a time.
LEMMA WriterInvInit == Init => WriterInv
BY ThreadSets DEF Init, WriterInv, OneWriter, FileMatches, Writing

\* One step of any thread, or a crash, keeps a file matched to its writer.
LEMMA WriterInvStep ==
  ASSUME DistinctPids, TypeOK, WriterInv, [Next]_vars
  PROVE  WriterInv'
<1> USE FileNames, ThreadSets DEF TypeOK, WriterInv, OneWriter, FileMatches, Writing
<1>1. ASSUME NEW w \in AllWriters, NEW t \in Texts, Call(w, t) PROVE WriterInv'
  BY <1>1 DEF Call, Goto
<1>2. ASSUME NEW w \in AllWriters, Create(w) PROVE WriterInv'
  <2>1. \A v \in AllWriters : pc[v] \in Writing => FileOf(v) # FileOf(w)
    BY <1>2 DEF Create, OpenForWrite, HoldsForWrite
  <2>2. \A v \in AllWriters : v # w /\ pc[v] = "move" => Pid[v] # FileOf(w)
    BY DEF DistinctPids, FileOf
  <2> QED BY <1>2, <2>1, <2>2, TextsAssumption DEF Create, Goto
<1>3. ASSUME NEW w \in AllWriters, WriteSome(w) PROVE WriterInv'
  <2>1. \A v \in AllWriters : v # w /\ pc[v] \in Writing => FileOf(v) # FileOf(w)
    BY <1>3 DEF WriteSome
  <2>2. \A v \in AllWriters : v # w /\ pc[v] = "move" => Pid[v] # FileOf(w)
    BY DEF DistinctPids, FileOf
  <2> QED BY <1>3, <2>1, <2>2, TextsAssumption DEF WriteSome, Goto
<1>4. ASSUME NEW w \in AllWriters,
             CreateFails(w) \/ WriteFails(w) \/ CloseBad(w) \/ MoveFails(w)
      PROVE  WriterInv'
  BY <1>4 DEF CreateFails, WriteFails, CloseBad, MoveFails, Goto, Return
<1>5. ASSUME NEW w \in AllWriters, CloseOk(w) PROVE WriterInv'
  BY <1>5 DEF CloseOk, Goto, Return, Whole, FileOf
<1>6. ASSUME NEW w \in AllWriters, Move(w) PROVE WriterInv'
  <2>1. \A v \in AllWriters : pc[v] \in Writing => FileOf(v) # Target /\ FileOf(v) # Pid[w]
    BY <1>6 DEF Move, Open, HoldsForWrite
  <2>2. \A v \in AllWriters : v # w /\ pc[v] = "move" => Pid[v] # Pid[w]
    BY <1>6 DEF DistinctPids, Move
  <2>3. \A n \in Names : n # Target /\ n # Pid[w] => disk'[n] = disk[n]
    BY <1>6 DEF Move
  <2>4. pc' = [pc EXCEPT ![w] = "idle"] /\ UNCHANGED <<arg, off>>
    BY <1>6 DEF Move, Goto, Return
  <2>5. OneWriter'
    BY <2>4
  <2>6. FileMatches'
    BY <2>1, <2>2, <2>3, <2>4 DEF Names
  <2> QED BY <2>5, <2>6
<1>7. ASSUME NEW w \in AllWriters, Delete(w) PROVE WriterInv'
  <2>1. ASSUME disk' # disk
        PROVE  \A v \in AllWriters : pc[v] \in Writing => FileOf(v) # Pid[w]
    BY <1>7, <2>1 DEF Delete, Open, HoldsForWrite
  <2>2. \A v \in AllWriters : v # w /\ pc[v] = "move" => Pid[v] # Pid[w]
    BY <1>7 DEF DistinctPids, Delete
  <2>3. \A n \in Names : n # Pid[w] => disk'[n] = disk[n]
    BY <1>7 DEF Delete
  <2>4. pc' = [pc EXCEPT ![w] = "idle"] /\ UNCHANGED <<arg, off>>
    BY <1>7 DEF Delete, Goto, Return
  <2>5. OneWriter'
    BY <2>4
  <2>6. FileMatches'
    BY <2>1, <2>2, <2>3, <2>4 DEF Names
  <2> QED BY <2>5, <2>6
<1>8. ASSUME NEW r \in Readers, CallRead(r) \/ ReaderStep(r) PROVE WriterInv'
  BY <1>8 DEF CallRead, ReaderStep, OpenRead, GetSize, ReadSome, ReadDone,
              ReadFails, Goto, Return
<1>9. ASSUME NEW p \in Pids, Crash(p) PROVE WriterInv'
  BY <1>9 DEF Crash
<1>10. CASE UNCHANGED vars
  BY <1>10 DEF vars
<1> QED
  BY <1>1, <1>2, <1>3, <1>4, <1>5, <1>6, <1>7, <1>8, <1>9, <1>10 DEF Next, WriterStep

\* So it is in every state.
LEMMA WriterInvHolds == ASSUME DistinctPids PROVE Spec => []WriterInv
<1>1. TypeOK /\ WriterInv /\ [Next]_vars => WriterInv'
  BY WriterInvStep
<1> QED BY <1>1, WriterInvInit, TypeCorrect, PTL DEF Spec

\* With a process per AtomicWriteText caller, a writer that is told "true"
\* finds its text in the file, whatever plain writers and readers do.
THEOREM OkMeansWrittenHolds == ASSUME DistinctPids PROVE Spec => OkMeansWritten
<1>1. TypeOK /\ WriterInv /\ [Next]_vars =>
        [\A w \in AllWriters : ret[w] # "true" /\ ret'[w] = "true" => disk'[Target] = Whole(arg[w])]_vars
  <2> SUFFICES ASSUME TypeOK, WriterInv, Next, NEW w \in AllWriters,
                      ret[w] # "true", ret'[w] = "true"
               PROVE  disk'[Target] = Whole(arg[w])
    OBVIOUS
  <2> USE FileNames, ThreadSets DEF TypeOK
  <2>1. CASE CloseOk(w)
    BY <2>1 DEF CloseOk, Goto, Return, WriterInv, FileMatches, Whole, FileOf, Writing
  <2>2. CASE Move(w)
    <3>1. disk'[Target] = disk[Pid[w]]
      BY <2>2 DEF Move, Names
    <3> QED BY <2>2, <3>1 DEF Move, WriterInv, FileMatches
  <2>3. CASE ~CloseOk(w) /\ ~Move(w)
    <3>1. ret'[w] = ret[w] \/ ret'[w] # "true"
      <4>1. ASSUME NEW v \in AllWriters, NEW t \in Texts, Call(v, t) PROVE ret'[w] # "true" \/ ret'[w] = ret[w]
        BY <4>1 DEF Call
      <4>2. ASSUME NEW v \in AllWriters, WriterStep(v) PROVE ret'[w] # "true" \/ ret'[w] = ret[w]
        BY <4>2, <2>3 DEF WriterStep, Create, CreateFails, WriteSome, WriteFails, CloseOk, CloseBad,
           Move, MoveFails, Delete, Return, Goto
      <4>3. ASSUME NEW r \in Readers, CallRead(r) \/ ReaderStep(r) PROVE ret'[w] = ret[w]
        BY <4>3 DEF CallRead, ReaderStep, OpenRead, GetSize, ReadSome, ReadDone, ReadFails, Return
      <4>4. ASSUME NEW p \in Pids, Crash(p) PROVE ret'[w] # "true" \/ ret'[w] = ret[w]
        BY <4>4 DEF Crash
      <4> QED BY <4>1, <4>2, <4>3, <4>4 DEF Next
    <3> QED BY <3>1
  <2> QED BY <2>1, <2>2, <2>3
<1> QED BY <1>1, WriterInvHolds, TypeCorrect, PTL DEF Spec, OkMeansWritten
-----------------------------------------------------------------------------
\* Every writer of the file is an AtomicWriteText with its own process.
OwnProcesses == DistinctPids /\ PlainWriters = {}

\* Only a move changes the file, and no reader has it open then.
LEMMA TargetSteps ==
  ASSUME OwnProcesses, TypeOK, [Next]_vars, disk'[Target] # disk[Target]
  PROVE  \E w \in Writers : Move(w)
<1> USE FileNames, ThreadSets DEF TypeOK
<1>0. \A w \in AllWriters : w \in Writers /\ FileOf(w) = Pid[w] /\ Pid[w] \in Pids /\ Pid[w] # Target
  BY DEF OwnProcesses, FileOf
<1>1. Target \in Names
  BY DEF Names
<1>2. ASSUME NEW w \in AllWriters, NEW t \in Texts, Call(w, t) PROVE FALSE
  BY <1>2 DEF Call
<1>3. ASSUME NEW w \in AllWriters, WriterStep(w), ~Move(w) PROVE FALSE
  BY <1>0, <1>1, <1>3 DEF WriterStep, Create, CreateFails, WriteSome, WriteFails, CloseOk,
     CloseBad, MoveFails, Delete
<1>4. ASSUME NEW r \in Readers, CallRead(r) \/ ReaderStep(r) PROVE FALSE
  BY <1>4 DEF CallRead, ReaderStep, OpenRead, GetSize, ReadSome, ReadDone, ReadFails
<1>5. ASSUME NEW p \in Pids, Crash(p) PROVE FALSE
  BY <1>5 DEF Crash
<1> QED BY <1>0, <1>2, <1>3, <1>4, <1>5 DEF Next, vars

\* A step of a writer, or a crash, leaves the buffers of the readers alone.
LEMMA WriterFrame ==
  ASSUME TypeOK, NEW w \in AllWriters, (\E t \in Texts : Call(w, t)) \/ WriterStep(w)
  PROVE  \A r \in Readers : /\ pc'[r] = pc[r] /\ ret'[r] = ret[r] /\ off'[r] = off[r]
                            /\ want'[r] = want[r] /\ from'[r] = from[r]
BY ThreadSets DEF TypeOK, Call, WriterStep, Create, CreateFails, WriteSome, WriteFails, CloseOk, CloseBad,
   Move, MoveFails, Delete, Goto, Return

\* The file is whole at first, and the buffers are empty.
LEMMA IInvInit == Init => IInv
BY ThreadSets, TextsAssumption, AbsentAssumption
   DEF Init, IInv, TargetWhole, BufferMatches, ReadsOneText, Whole

\* With a process per writer, every step keeps the file whole and a reader's
\* buffer the beginning of what the open file holds.
LEMMA IInvStep ==
  ASSUME OwnProcesses, TypeOK, WriterInv, IInv, [Next]_vars
  PROVE  IInv'
<1> USE FileNames, ThreadSets DEF TypeOK, IInv
<1>1. TargetWhole'
  <2>1. CASE disk'[Target] = disk[Target]
    BY <2>1 DEF TargetWhole
  <2>2. CASE disk'[Target] # disk[Target]
    <3>1. PICK w \in Writers : Move(w)
      BY <2>2, TargetSteps
    <3>2. disk'[Target] = disk[Pid[w]] /\ pc[w] = "move"
      BY <3>1 DEF Move, Names
    <3>3. disk'[Target] = Whole(arg[w])
      BY <3>2 DEF WriterInv, FileMatches
    <3> QED BY <3>3 DEF TargetWhole, Whole
  <2> QED BY <2>1, <2>2
<1>2. (BufferMatches /\ ReadsOneText)'
  <2> USE DEF BufferMatches, ReadsOneText
  <2>0. disk[Target] # Absent =>
          /\ disk[Target].text \in Texts /\ disk[Target].len = Size[disk[Target].text]
          /\ Size[disk[Target].text] \in Nat \ {0}
    BY ContentsFields, TextsAssumption DEF TargetWhole, Names
  <2>1. ASSUME NEW w \in AllWriters, (\E t \in Texts : Call(w, t)) \/ WriterStep(w)
        PROVE  (BufferMatches /\ ReadsOneText)'
    <3>1. CASE disk'[Target] = disk[Target]
      <4>1. ReadsOneText'
        BY <2>1, WriterFrame
      <4>2. ASSUME NEW r \in Readers
            PROVE  /\ pc'[r] = pc[r] /\ ret'[r] = ret[r] /\ off'[r] = off[r]
                   /\ want'[r] = want[r] /\ from'[r] = from[r]
        BY <2>1, WriterFrame
      <4>3. BufferMatches'
        BY ONLY <3>1, <4>2, BufferMatches DEF BufferMatches
      <4> QED BY ONLY <4>1, <4>3
    <3>2. CASE disk'[Target] # disk[Target]
      <4>1. \A r \in Readers : pc[r] \notin {"size", "read"}
        BY <3>2, TargetSteps DEF Move, Open, HoldsForRead
      <4> QED BY <2>1, <4>1, WriterFrame
    <3> QED BY <3>1, <3>2
  <2>2. ASSUME NEW r \in Readers, CallRead(r) PROVE (BufferMatches /\ ReadsOneText)'
    BY <2>2 DEF CallRead, Goto
  <2>3. ASSUME NEW r \in Readers, OpenRead(r) PROVE (BufferMatches /\ ReadsOneText)'
    BY <2>3 DEF OpenRead, Goto
  <2>4. ASSUME NEW r \in Readers, GetSize(r) PROVE (BufferMatches /\ ReadsOneText)'
    BY <2>0, <2>4, TextsAssumption DEF GetSize, Goto, Smaller
  <2>5. ASSUME NEW r \in Readers, ReadSome(r) PROVE (BufferMatches /\ ReadsOneText)'
    <3>1. disk[Target] # Absent /\ want[r] \in Nat /\ off[r] \in Nat /\ r \in Threads
      BY <2>5 DEF ReadSome
    <3>2. PICK n \in 1 .. Smaller(want[r], disk[Target].len) - off[r] :
            off' = [off EXCEPT ![r] = @ + n]
      BY <2>5 DEF ReadSome
    <3>3. off'[r] \in 1 .. want[r]
      BY <2>0, <3>1, <3>2 DEF Smaller
    <3>4. from'[r] = {disk[Target].text}
      BY <2>5 DEF ReadSome
    <3>5. pc[r] = "read" /\ UNCHANGED <<disk, pc, want, ret>>
      BY <2>5 DEF ReadSome
    <3>6. \A q \in Readers : q # r => off'[q] = off[q] /\ from'[q] = from[q]
      BY <2>5, <3>2 DEF ReadSome
    <3>7. ReadsOneText'
      BY <3>1, <3>5, <3>6
    <3>8. ret[r] # "true" /\ off'[r] # 0 /\ off'[r] <= want[r]
      BY <3>1, <3>3, <3>5
    <3>9. ASSUME NEW q \in Readers
          PROVE  /\ q # r => off'[q] = off[q] /\ from'[q] = from[q]
                 /\ q = r => off'[q] # 0 /\ off'[q] <= want[q] /\ from'[q] = {disk[Target].text}
      BY <3>4, <3>6, <3>8
    <3>10. BufferMatches'
      BY ONLY <3>5, <3>8, <3>9, BufferMatches, r \in Readers DEF BufferMatches
    <3> QED BY ONLY <3>7, <3>10
  <2>6. ASSUME NEW r \in Readers, ReadDone(r) PROVE (BufferMatches /\ ReadsOneText)'
    <3>1. off[r] = Smaller(MaxRead, Size[disk[Target].text]) /\ off[r] # 0
      BY <2>0, <2>6, TextsAssumption DEF ReadDone, Smaller
    <3>2. from[r] = {disk[Target].text} /\ disk[Target].text \in Texts
      BY <2>0, <2>6, <3>1 DEF ReadDone
    <3>3. pc' = [pc EXCEPT ![r] = "idle"] /\ ret' = [ret EXCEPT ![r] = "true"]
      BY <2>6 DEF ReadDone, Goto, Return
    <3>4. UNCHANGED <<disk, off, want, from>>
      BY <2>6 DEF ReadDone
    <3>5. ReadsOneText'
      BY <3>1, <3>2, <3>3, <3>4
    <3>6. BufferMatches'
      BY <3>3, <3>4
    <3> QED BY ONLY <3>5, <3>6
  <2>7. ASSUME NEW r \in Readers, ReadFails(r) PROVE (BufferMatches /\ ReadsOneText)'
    <3>1. pc' = [pc EXCEPT ![r] = "idle"] /\ ret' = [ret EXCEPT ![r] = "false"]
      BY <2>7 DEF ReadFails, Goto, Return
    <3>2. UNCHANGED <<disk, off, want, from>>
      BY <2>7 DEF ReadFails
    <3>3. ReadsOneText'
      BY <3>1, <3>2
    <3>4. BufferMatches'
      BY <3>1, <3>2
    <3> QED BY ONLY <3>3, <3>4
  <2>8. ASSUME NEW p \in Pids, Crash(p) PROVE (BufferMatches /\ ReadsOneText)'
    BY <2>8 DEF Crash
  <2>9. CASE UNCHANGED vars
    <3>1. ReadsOneText'
      BY <2>9 DEF vars
    <3>2. BufferMatches'
      BY <2>9 DEF vars
    <3> QED BY ONLY <3>1, <3>2
  <2> QED
    BY <2>1, <2>2, <2>3, <2>4, <2>5, <2>6, <2>7, <2>8, <2>9 DEF Next, ReaderStep
<1> QED BY <1>1, <1>2

\* With a process per writer and no WriteText of the file, the file is whole at
\* every moment and every successful ReadFile returns one text.
THEOREM FileStaysWhole ==
  ASSUME OwnProcesses
  PROVE  Spec => [](TargetWhole /\ ReadsOneText /\ NoEarlyEOF)
<1>1. TypeOK /\ WriterInv /\ IInv /\ [Next]_vars => IInv'
  BY IInvStep
<1>2. TypeOK /\ IInv => TargetWhole /\ ReadsOneText /\ NoEarlyEOF
  <2> SUFFICES ASSUME TypeOK, IInv, NEW r \in Readers, AtEOF(r) PROVE FALSE
    BY DEF IInv, NoEarlyEOF
  <2>1. disk[Target] \in Contents /\ disk[Target] # Absent
    BY DEF AtEOF, TypeOK, Names
  <2>2. want[r] = Smaller(MaxRead, disk[Target].len) /\ off[r] \in Nat
    BY <2>1, ThreadSets DEF AtEOF, IInv, BufferMatches, TargetWhole, TypeOK
  <2>3. disk[Target].len \in Nat
    BY <2>1, ContentsFields, TextsAssumption
  <2> QED BY <2>2, <2>3, TextsAssumption DEF AtEOF, Smaller
<1>3. Spec => []WriterInv
  BY WriterInvHolds DEF OwnProcesses
<1> QED BY <1>1, <1>2, <1>3, IInvInit, TypeCorrect, PTL DEF Spec

\* Under the same assumption a ReadFile that succeeds returns one text, although
\* the file may be replaced between its calls.
THEOREM ReadersGetOneText == ASSUME OwnProcesses PROVE Spec => []ReadsOneText
BY FileStaysWhole, PTL

\* Nor does one find the file shorter than the size it was told.
THEOREM NoReadEndsEarly == ASSUME OwnProcesses PROVE Spec => []NoEarlyEOF
BY FileStaysWhole, PTL
-----------------------------------------------------------------------------
\* The refinement: every step is a step of the atomic file or changes nothing
\* of it.
ArgOf == [w \in Writers |-> arg[w]]

\* The text of a set of one.
LEMMA TheTextOfOne == ASSUME NEW t \in Texts PROVE TheText({t}) = t
BY DEF TheText

\* The first states are first states of the atomic file.
LEMMA RefinesInit == ASSUME PlainWriters = {}, Init PROVE AFile!AInit
BY ThreadSets, AbsentAssumption
   DEF Init, AFile!AInit, AFile!Clients, FileValue, CallOf, SeenBy, Whole

\* The file and the readers' view of it change with the file only.
LEMMA ViewFrame ==
  ASSUME TypeOK, NEW w \in AllWriters, (\E t \in Texts : Call(w, t)) \/ WriterStep(w),
         disk'[Target] = disk[Target]
  PROVE  FileValue' = FileValue /\ SeenBy' = SeenBy
BY WriterFrame DEF FileValue, SeenBy

\* A step of a writer is seen in its own call only.
LEMMA CallFrame ==
  ASSUME TypeOK, NEW w \in AllWriters, (\E t \in Texts : Call(w, t)) \/ WriterStep(w)
  PROVE  \A c \in Writers \cup Readers : c # w => CallOf'[c] = CallOf[c]
BY ThreadSets DEF TypeOK, CallOf, Call, WriterStep, Create, CreateFails, WriteSome, WriteFails,
   CloseOk, CloseBad, Move, MoveFails, Delete, Goto, Return

\* The mapped calls are functions of the callers.
LEMMA CallDomain ==
  /\ CallOf = [c \in Writers \cup Readers |-> CallOf[c]]
  /\ CallOf' = [c \in Writers \cup Readers |-> CallOf'[c]]
BY DEF CallOf

\* Every step is one of the atomic file, or changes nothing of it.
LEMMA RefinesNext ==
  ASSUME OwnProcesses, TypeOK, WriterInv, IInv, [Next]_vars
  PROVE  [AFile!ANext]_AFile!avars
<1> USE FileNames, ThreadSets DEF TypeOK
<1>0. \A w \in AllWriters : w \in Writers /\ w \notin Readers /\ w \notin PlainWriters
  BY DEF OwnProcesses
<1>1. ASSUME NEW w \in AllWriters, NEW t \in Texts, Call(w, t) PROVE AFile!InvokeWrite(w)
  <2>1. FileValue' = FileValue /\ SeenBy' = SeenBy
    BY <1>1, ViewFrame DEF Call
  <2>2. ArgOf' = [ArgOf EXCEPT ![w] = t]
    BY <1>0, <1>1 DEF Call, ArgOf
  <2>3. CallOf[w] \in {"idle", "true", "false"} /\ CallOf'[w] = "pending"
    BY <1>0, <1>1 DEF Call, CallOf, Goto
  <2>4. CallOf' = [CallOf EXCEPT ![w] = "pending"]
    <3>1. \A c \in Writers \cup Readers : c # w => CallOf'[c] = CallOf[c]
      BY <1>1, CallFrame
    <3> QED BY <1>0, <2>3, <3>1, CallDomain
  <2> QED BY <2>1, <2>2, <2>3, <2>4 DEF AFile!InvokeWrite, AFile!Ended, ArgOf
<1>2. ASSUME NEW w \in AllWriters,
             Create(w) \/ WriteSome(w) \/ WriteFails(w) \/ CloseOk(w) \/ MoveFails(w)
      PROVE  UNCHANGED AFile!avars
  <2>1. disk'[Target] = disk[Target]
    BY <1>0, <1>2, TargetSteps DEF Next, WriterStep, Create, WriteSome, WriteFails, CloseOk,
       MoveFails, FileOf, Names
  <2>2. FileValue' = FileValue /\ SeenBy' = SeenBy
    BY <1>2, <2>1, ViewFrame DEF WriterStep
  <2>3. CallOf'[w] = CallOf[w]
    BY <1>0, <1>2 DEF CallOf, Create, WriteSome, WriteFails, CloseOk, MoveFails, Goto
  <2>4. CallOf' = CallOf
    <3>1. \A c \in Writers \cup Readers : c # w => CallOf'[c] = CallOf[c]
      BY <1>2, CallFrame DEF WriterStep
    <3>2. \A c \in Writers \cup Readers : CallOf'[c] = CallOf[c]
      BY <2>3, <3>1
    <3>3. [c \in Writers \cup Readers |-> CallOf'[c]] = [c \in Writers \cup Readers |-> CallOf[c]]
      BY <3>2
    <3> QED BY ONLY <3>3, CallDomain
  <2>5. ArgOf' = ArgOf
    BY <1>2 DEF ArgOf, Create, WriteSome, WriteFails, CloseOk, MoveFails
  <2> QED BY <2>2, <2>4, <2>5 DEF AFile!avars, ArgOf
<1>3. ASSUME NEW w \in AllWriters, CreateFails(w) \/ CloseBad(w) \/ Delete(w) PROVE AFile!Abort(w)
  <2>1. disk'[Target] = disk[Target]
    BY <1>3, FileNames DEF CreateFails, CloseBad, Delete, Names
  <2>2. FileValue' = FileValue /\ SeenBy' = SeenBy
    BY <1>3, <2>1, ViewFrame DEF WriterStep
  <2>3. CallOf[w] = "pending" /\ CallOf'[w] = "false"
    BY <1>0, <1>3 DEF CallOf, CreateFails, CloseBad, Delete, Goto, Return
  <2>4. CallOf' = [CallOf EXCEPT ![w] = "false"]
    <3>1. \A c \in Writers \cup Readers : c # w => CallOf'[c] = CallOf[c]
      BY <1>3, CallFrame DEF WriterStep
    <3> QED BY <1>0, <2>3, <3>1, CallDomain
  <2>5. ArgOf' = ArgOf
    BY <1>3 DEF ArgOf, CreateFails, CloseBad, Delete
  <2> QED BY <2>2, <2>3, <2>4, <2>5 DEF AFile!Abort, ArgOf
<1>4. ASSUME NEW w \in AllWriters, Move(w) PROVE AFile!Commit(w)
  <2>1. disk'[Target] = Whole(arg[w]) /\ disk'[Target] # Absent
    BY <1>4, AbsentAssumption DEF Move, WriterInv, FileMatches, Names
  <2>2. FileValue' = arg[w]
    BY <2>1 DEF FileValue, Whole
  <2>3. \A r \in Readers : pc[r] \notin {"size", "read"}
    BY <1>4 DEF Move, Open, HoldsForRead
  <2>4. SeenBy' = SeenBy
    BY <1>4, <2>3, WriterFrame DEF SeenBy, WriterStep
  <2>5. CallOf[w] = "pending" /\ CallOf'[w] = "true"
    BY <1>0, <1>4 DEF CallOf, Move, Goto, Return
  <2>6. CallOf' = [CallOf EXCEPT ![w] = "true"]
    BY <1>0, <1>4, <2>5, CallFrame, CallDomain DEF WriterStep
  <2>7. ArgOf' = ArgOf /\ ArgOf[w] = arg[w]
    BY <1>0, <1>4 DEF ArgOf, Move
  <2> QED BY <2>2, <2>4, <2>5, <2>6, <2>7 DEF AFile!Commit, ArgOf
<1>5. ASSUME NEW r \in Readers, CallRead(r) PROVE AFile!InvokeRead(r)
  BY <1>5 DEF AFile!InvokeRead, AFile!Ended, CallRead, Goto, CallOf, SeenBy, FileValue
<1>6. ASSUME NEW r \in Readers, OpenRead(r) PROVE AFile!Sample(r)
  <2>1. FileValue # NoText
    BY <1>6, ContentsFields, TextsAssumption DEF OpenRead, FileValue, Names
  <2> QED BY <1>6, <2>1 DEF AFile!Sample, OpenRead, Goto, CallOf, SeenBy, FileValue
<1>7. ASSUME NEW r \in Readers, GetSize(r) \/ ReadSome(r) PROVE UNCHANGED AFile!avars
  BY <1>7 DEF AFile!avars, GetSize, ReadSome, Goto, CallOf, SeenBy, FileValue
<1>8. ASSUME NEW r \in Readers, ReadDone(r) PROVE AFile!EndRead(r)
  <2>1. disk[Target] # Absent /\ disk[Target] \in Contents
    BY <1>8 DEF ReadDone, Names
  <2>2. from[r] = {disk[Target].text} /\ disk[Target].text \in Texts
    BY <1>8, <2>1, ContentsFields, TextsAssumption
       DEF ReadDone, IInv, BufferMatches, TargetWhole, Smaller
  <2>3. TheText(from[r]) = FileValue
    BY <2>1, <2>2, TheTextOfOne DEF FileValue
  <2> QED BY <1>8, <2>3 DEF AFile!EndRead, ReadDone, Goto, Return, CallOf, SeenBy, FileValue
<1>9. ASSUME NEW r \in Readers, ReadFails(r) PROVE AFile!AbortRead(r)
  <2>1. pc' = [pc EXCEPT ![r] = "idle"] /\ ret' = [ret EXCEPT ![r] = "false"]
    BY <1>9 DEF ReadFails, Goto, Return
  <2>2. UNCHANGED <<disk, arg, off, want, from>> /\ pc[r] \in {"open", "size", "read"}
    BY <1>9 DEF ReadFails
  <2>3. CallOf[r] \in {"pending", "sampled"} /\ CallOf' = [CallOf EXCEPT ![r] = "false"]
    BY <2>1, <2>2 DEF CallOf
  <2>4. SeenBy' = [SeenBy EXCEPT ![r] = NoText] /\ FileValue' = FileValue
    BY <2>1, <2>2 DEF SeenBy, FileValue
  <2> QED BY <2>2, <2>3, <2>4 DEF AFile!AbortRead
<1>10. ASSUME NEW p \in Pids, Crash(p)
       PROVE  AFile!Die({c \in Writers \cup Readers : Pid[c] = p})
  BY <1>10 DEF AFile!Die, AFile!Clients, Crash, CallOf, SeenBy, FileValue
<1>11. CASE UNCHANGED vars
  BY <1>11 DEF vars, AFile!avars, CallOf, SeenBy, FileValue
<1> QED
  BY <1>0, <1>1, <1>2, <1>3, <1>4, <1>5, <1>6, <1>7, <1>8, <1>9, <1>10, <1>11
     DEF Next, WriterStep, ReaderStep, AFile!ANext, AFile!Clients

\* With a process per writer, AtomicWriteText and ReadFile are an atomic file.
THEOREM ImplementsAtomicFile == ASSUME OwnProcesses PROVE Spec => IsAtomicFile
<1>1. Spec => AFile!AInit
  BY RefinesInit DEF OwnProcesses, Spec
<1>2. TypeOK /\ WriterInv /\ IInv /\ [Next]_vars => IInv'
  BY IInvStep
<1>3. TypeOK /\ WriterInv /\ IInv /\ [Next]_vars => [AFile!ANext]_AFile!avars
  BY RefinesNext
<1>4. Spec => []WriterInv
  BY WriterInvHolds DEF OwnProcesses
<1> QED BY <1>1, <1>2, <1>3, <1>4, IInvInit, TypeCorrect, PTL DEF Spec, IsAtomicFile, AFile!ASpec
=============================================================================
