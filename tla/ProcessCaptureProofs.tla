-------------------------- MODULE ProcessCaptureProofs --------------------------
(***************************************************************************)
(* For any number of threads, output and size of the pipes: Capture        *)
(* returns the whole output of its children and leaves no handle.  The     *)
(* argument counts the chunks that are still in a pipe: what was read and  *)
(* what is in the pipe are together what was written (Counted), until a    *)
(* write of no byte cuts the reading short.  A handle is followed through  *)
(* the calls of its own thread (HandlesOf); handles that other threads'    *)
(* children inherited in between do no harm, as only a thread's own child  *)
(* writes to its pipe.                                                     *)
(***************************************************************************)
EXTENDS ProcessCapture, SequenceTheorems, TLAPS

Items == {"chunk", "empty"}

\* n chunks are in s: f[i] of them among the first i items.
Chunk(x) == IF x = "chunk" THEN 1 ELSE 0
Counts(f, s, n) ==
  /\ f[0] = 0 /\ f[Len(s)] = n
  /\ \A i \in 1 .. Len(s) : f[i] = f[i - 1] + Chunk(s[i])
  /\ \A i, j \in 0 .. Len(s) : i <= j => f[i] <= f[j]
Tally(s, n) == \E f \in [0 .. Len(s) -> Nat] : Counts(f, s, n)

\* The types that need no argument about what is counted.
Types ==
  /\ pc \in [Threads -> {"idle", "unshare", "spawn", "closeWrite", "read", "ctrlOn", "wait"}]
  /\ ours \subseteq Handles /\ inheritable \subseteq ours
  /\ child \in [Threads -> {"none", "running", "exited"}]
  /\ theirs \in [Threads -> SUBSET Handles]
  /\ pipe \in [Capturers -> Seq(Items)]
  /\ \A t \in Capturers : Len(pipe[t]) <= PipeSize
  /\ wrote \in [Capturers -> 0 .. MaxOut]
  /\ out \in [Capturers -> Nat]
  /\ cut \in [Capturers -> BOOLEAN]
  /\ ok \in [Threads -> BOOLEAN]
  /\ ignoreCtrl \in BOOLEAN

\* The handles of t's pipe, by the call that t makes next.
HandlesOf(t) ==
  /\ pc[t] \in {"idle", "wait"} => <<t, "r">> \notin ours
  /\ pc[t] \in {"idle", "wait", "read"} => <<t, "w">> \notin ours
  /\ pc[t] \in {"spawn", "closeWrite", "read", "wait"} => <<t, "r">> \notin inheritable
  /\ <<t, "r">> \notin theirs[t]

\* When t's child runs, and when it can no longer write.
ChildOf(t) ==
  /\ pc[t] # "ctrlOn"
  /\ child[t] = "running" => pc[t] \in {"closeWrite", "read", "wait"}
  /\ pc[t] = "wait" /\ ~cut[t] => pipe[t] = <<>> /\ ~(child[t] = "running" /\ <<t, "w">> \in theirs[t])
  /\ pc[t] \in {"unshare", "spawn"} => pipe[t] = <<>>
  /\ ok[t] => pc[t] = "idle" /\ (~cut[t] => pipe[t] = <<>>)

\* Before and between the calls all that was written was read; within one, the
\* rest is in the pipe.
Counted(t) ==
  IF pc[t] = "idle"
  THEN out[t] <= wrote[t] /\ (~cut[t] => out[t] = wrote[t])
  ELSE \E k \in Nat : /\ Tally(pipe[t], k) /\ out[t] + k <= wrote[t]
                      /\ ~cut[t] => out[t] + k = wrote[t]

Inv == Types /\ \A t \in Capturers : HandlesOf(t) /\ ChildOf(t) /\ Counted(t)

-----------------------------------------------------------------------------
(* Counting the chunks of a sequence                                       *)

LEMMA TallyOfNone == Tally(<<>>, 0)
<1> DEFINE f == [i \in 0 .. Len(<<>>) |-> 0]
<1>1. f \in [0 .. Len(<<>>) -> Nat] /\ Len(<<>>) = 0
  OBVIOUS
<1>2. Counts(f, <<>>, 0)
  BY DEF Counts
<1> QED BY <1>1, <1>2 DEF Tally

\* Nothing in the pipe is no chunk.
LEMMA NoneTallies == ASSUME NEW n \in Nat, Tally(<<>>, n) PROVE n = 0
BY DEF Tally, Counts

LEMMA TallyOfAppend ==
  ASSUME NEW s \in Seq(Items), NEW n \in Nat, Tally(s, n), NEW x \in Items
  PROVE  Tally(Append(s, x), n + Chunk(x))
<1> DEFINE r == Append(s, x)
           m == n + Chunk(x)
<1>1. PICK f \in [0 .. Len(s) -> Nat] : Counts(f, s, n)
  BY DEF Tally
<1>2. /\ Len(s) \in Nat /\ Len(r) = Len(s) + 1 /\ r[Len(s) + 1] = x
      /\ \A i \in 1 .. Len(s) : r[i] = s[i]
  BY AppendProperties, LenProperties
<1>3. m \in Nat /\ n <= m /\ Chunk(x) \in Nat
  BY DEF Chunk
<1> DEFINE g == [i \in 0 .. Len(s) + 1 |-> IF i = Len(s) + 1 THEN m ELSE f[i]]
<1> HIDE DEF r
<1>4. g \in [0 .. Len(r) -> Nat]
  <2>1. ASSUME NEW i \in 0 .. Len(s) + 1 PROVE (IF i = Len(s) + 1 THEN m ELSE f[i]) \in Nat
    <3> HIDE DEF m
    <3> QED BY <1>2, <1>3
  <2> QED BY <1>2, <2>1
<1>5. g[Len(s) + 1] = m /\ \A i \in 0 .. Len(s) : g[i] = f[i] /\ f[i] \in Nat
  BY <1>2
<1> HIDE DEF g
<1>6. g[0] = 0 /\ g[Len(r)] = m
  BY <1>1, <1>2, <1>5 DEF Counts
<1>7. ASSUME NEW i \in 1 .. Len(r) PROVE g[i] = g[i - 1] + Chunk(r[i])
  <2>1. CASE i = Len(s) + 1
    <3>1. g[i] = m /\ g[i - 1] = n /\ r[i] = x
      BY <1>1, <1>2, <1>5, <2>1 DEF Counts
    <3> QED BY <3>1
  <2>2. CASE i # Len(s) + 1
    <3>1. i \in 1 .. Len(s) /\ i \in 0 .. Len(s) /\ i - 1 \in 0 .. Len(s)
      BY <1>2, <2>2
    <3>2. g[i] = f[i] /\ g[i - 1] = f[i - 1] /\ r[i] = s[i]
      BY <1>2, <1>5, <3>1
    <3> QED BY <1>1, <3>1, <3>2 DEF Counts
  <2> QED BY <2>1, <2>2
<1>8. ASSUME NEW i \in 0 .. Len(r), NEW j \in 0 .. Len(r), i <= j PROVE g[i] <= g[j]
  <2> HIDE DEF m
  <2>1. CASE j = Len(s) + 1
    <3>1. CASE i = j
      <4>1. g[i] = m
        BY <1>5, <2>1, <3>1
      <4> QED BY <4>1, <1>3, <3>1
    <3>2. CASE i # j
      <4>1. i \in 0 .. Len(s) /\ Len(s) \in 0 .. Len(s) /\ i <= Len(s)
        BY <1>2, <1>8, <2>1, <3>2
      <4>2. f[i] <= f[Len(s)] /\ f[Len(s)] = n
        BY <1>1, <4>1 DEF Counts
      <4>3. g[i] = f[i] /\ f[i] \in Nat /\ g[j] = m
        BY <1>5, <2>1, <4>1
      <4> QED BY <1>3, <4>2, <4>3
    <3> QED BY <3>1, <3>2
  <2>2. CASE j # Len(s) + 1
    <3>1. i \in 0 .. Len(s) /\ j \in 0 .. Len(s) /\ i <= j
      BY <1>2, <1>8, <2>2
    <3>2. f[i] <= f[j]
      BY <1>1, <3>1 DEF Counts
    <3> QED BY <1>5, <3>1, <3>2
  <2> QED BY <2>1, <2>2
<1>9. Counts(g, r, m)
  <2> HIDE DEF m
  <2> QED BY <1>6, <1>7, <1>8 DEF Counts
<1> QED BY <1>4, <1>9 DEF Tally, r

\* Taking a chunk out.
LEMMA TallyOfTail ==
  ASSUME NEW s \in Seq(Items), NEW n \in Nat, Tally(s, n), s # <<>>, Head(s) = "chunk"
  PROVE  n - 1 \in Nat /\ Tally(Tail(s), n - 1)
<1> DEFINE r == Tail(s)
<1>1. PICK f \in [0 .. Len(s) -> Nat] : Counts(f, s, n)
  BY DEF Tally
<1>2. /\ Len(s) \in Nat /\ Len(s) >= 1 /\ Len(r) = Len(s) - 1 /\ s[1] = "chunk"
      /\ \A i \in 1 .. Len(r) : r[i] = s[i + 1]
  BY HeadTailProperties, LenProperties, EmptySeq
<1> HIDE DEF r
<1>3. f[1] = 1
  BY <1>1, <1>2 DEF Counts, Chunk
<1>4. ASSUME NEW i \in 1 .. Len(s) PROVE f[i] \in Nat /\ f[i] >= 1 /\ f[i] - 1 \in Nat
  <2>1. 1 \in 0 .. Len(s) /\ i \in 0 .. Len(s) /\ 1 <= i
    BY <1>2
  <2>2. f[1] <= f[i] /\ f[i] \in Nat
    BY <1>1, <2>1 DEF Counts
  <2> QED BY <1>3, <2>2
<1> DEFINE g == [i \in 0 .. Len(r) |-> f[i + 1] - 1]
<1>5. \A i \in 0 .. Len(r) : i + 1 \in 1 .. Len(s) /\ g[i] = f[i + 1] - 1 /\ g[i] \in Nat
  BY <1>2, <1>4
<1>6. g \in [0 .. Len(r) -> Nat]
  BY <1>5
<1> HIDE DEF g
<1>7. n - 1 \in Nat
  BY <1>1, <1>2, <1>4 DEF Counts
<1>8. g[0] = 0 /\ g[Len(r)] = n - 1
  <2>1. 0 \in 0 .. Len(r) /\ Len(r) \in 0 .. Len(r) /\ Len(r) + 1 = Len(s)
    BY <1>2
  <2>2. g[0] = f[1] - 1 /\ g[Len(r)] = f[Len(s)] - 1
    BY <1>5, <2>1
  <2> QED BY <1>1, <1>3, <2>2 DEF Counts
<1>9. ASSUME NEW i \in 1 .. Len(r) PROVE g[i] = g[i - 1] + Chunk(r[i])
  <2>1. i + 1 \in 1 .. Len(s) /\ i \in 0 .. Len(r) /\ i - 1 \in 0 .. Len(r) /\ i - 1 + 1 = i
        /\ i + 1 - 1 = i /\ i \in 1 .. Len(s)
    BY <1>2
  <2>2. f[i + 1] = f[i] + Chunk(s[i + 1])
    BY <1>1, <2>1 DEF Counts
  <2>3. g[i] = f[i + 1] - 1 /\ g[i - 1] = f[i] - 1 /\ r[i] = s[i + 1]
    BY <1>2, <1>5, <2>1
  <2>4. f[i] \in Nat /\ Chunk(s[i + 1]) \in Nat
    BY <1>4, <2>1 DEF Chunk
  <2> QED BY <2>2, <2>3, <2>4
<1>10. ASSUME NEW i \in 0 .. Len(r), NEW j \in 0 .. Len(r), i <= j PROVE g[i] <= g[j]
  <2>1. i + 1 \in 0 .. Len(s) /\ j + 1 \in 0 .. Len(s) /\ i + 1 <= j + 1
    BY <1>2, <1>10
  <2>2. f[i + 1] <= f[j + 1] /\ f[i + 1] \in Nat /\ f[j + 1] \in Nat
    BY <1>1, <2>1 DEF Counts
  <2> QED BY <1>5, <2>2
<1>11. Counts(g, r, n - 1)
  BY <1>8, <1>9, <1>10 DEF Counts
<1> QED BY <1>6, <1>7, <1>11 DEF Tally, r
-----------------------------------------------------------------------------
(* The parts of the invariant, step by step                                *)

\* The two ends of a pipe.
LEMMA PipeEnds == \A t : PipeOf(t) = {<<t, "r">>, <<t, "w">>}
BY DEF PipeOf, Ends

LEMMA EndsAreHandles == \A t \in Capturers : <<t, "r">> \in Handles /\ <<t, "w">> \in Handles
BY DEF Handles, Ends

LEMMA PipeAppend ==
  ASSUME NEW s \in Seq(Items), NEW x \in Items
  PROVE  Append(s, x) \in Seq(Items) /\ Len(Append(s, x)) = Len(s) + 1 /\ Len(s) \in Nat
BY AppendProperties, LenProperties

LEMMA PipeTail ==
  ASSUME NEW s \in Seq(Items), s # <<>>
  PROVE  Tail(s) \in Seq(Items) /\ Len(Tail(s)) = Len(s) - 1 /\ Len(s) \in Nat
BY HeadTailProperties, LenProperties

LEMMA NoneIsPipe == <<>> \in Seq(Items) /\ Len(<<>>) = 0
BY EmptySeq

LEMMA TypesInit == Init => Types
<1> SUFFICES ASSUME Init PROVE Types
  OBVIOUS
<1> HIDE DEF Items
<1>1. pipe \in [Capturers -> Seq(Items)] /\ \A t \in Capturers : Len(pipe[t]) <= PipeSize
  BY NoneIsPipe, BoundsAssumption DEF Init
<1>2. wrote \in [Capturers -> 0 .. MaxOut] /\ out \in [Capturers -> Nat]
  BY BoundsAssumption DEF Init
<1>3. ours \subseteq Handles /\ inheritable \subseteq ours /\ theirs \in [Threads -> SUBSET Handles]
  BY DEF Init
<1>4. /\ pc \in [Threads -> {"idle", "unshare", "spawn", "closeWrite", "read", "ctrlOn", "wait"}]
      /\ child \in [Threads -> {"none", "running", "exited"}]
      /\ ok \in [Threads -> BOOLEAN]
      /\ cut \in [Capturers -> BOOLEAN] /\ ignoreCtrl \in BOOLEAN
  BY DEF Init
<1> QED BY <1>1, <1>2, <1>3, <1>4 DEF Types

LEMMA TypesStep == Types /\ (\A t \in Capturers : HandlesOf(t)) /\ [Next]_vars => Types'
<1> SUFFICES ASSUME Types, \A t \in Capturers : HandlesOf(t), [Next]_vars PROVE Types'
  OBVIOUS
<1> USE ThreadsDisjoint, BoundsAssumption DEF Threads
<1>1. ASSUME NEW t \in Capturers, NewProcess(t) PROVE Types'
  BY <1>1 DEF NewProcess, kids, Types
<1>2. ASSUME NEW t \in Capturers, CreatePipe(t) PROVE Types'
  <2>1. pipe' \in [Capturers -> Seq(Items)] /\ \A c \in Capturers : Len(pipe'[c]) <= PipeSize
    <3> HIDE DEF Items
    <3> QED BY <1>2, NoneIsPipe DEF CreatePipe, MayCall, Types
  <2> QED BY <1>2, <2>1, PipeEnds, EndsAreHandles DEF CreatePipe, MayCall, kids, Types, Goto
<1>3. ASSUME NEW t \in Capturers, CreatePipeFails(t) PROVE Types'
  BY <1>3 DEF CreatePipeFails, kids, data, Types
<1>4. ASSUME NEW t \in Capturers, Unshare(t) PROVE Types'
  BY <1>4 DEF Unshare, kids, data, Types, Goto
<1>5. ASSUME NEW t \in Capturers, Spawn(t) PROVE Types'
  BY <1>5, PipeEnds, EndsAreHandles DEF Spawn, data, Types, Goto
<1>6. ASSUME NEW t \in Capturers, RedirectFails(t) PROVE Types'
  BY <1>6, PipeEnds, EndsAreHandles DEF RedirectFails, data, Types, Goto, Return, DropPipe
<1>7. ASSUME NEW t \in Capturers, CloseWrite(t) PROVE Types'
  BY <1>7, PipeEnds, EndsAreHandles DEF CloseWrite, kids, data, Types, Goto
<1>8. ASSUME NEW t \in Capturers, Read(t) PROVE Types'
  BY <1>8 DEF Read, kids, Types
<1>9. ASSUME NEW t \in Capturers, ReadEnds(t) PROVE Types'
  <2>1. cut' \in [Capturers -> BOOLEAN]
    <3>1. (cut[t] \/ pipe[t] # <<>>) \in BOOLEAN
      OBVIOUS
    <3> QED BY <1>9, <3>1, Zenon DEF ReadEnds, Types
  <2>2. /\ UNCHANGED <<inheritable, child, theirs, pipe, wrote, out, ok, ignoreCtrl>>
        /\ pc' = [pc EXCEPT ![t] = "wait"] /\ ours' = ours \ {<<t, "r">>}
    BY <1>9 DEF ReadEnds, Goto, kids
  <2>3. inheritable \subseteq ours'
    BY <1>9, <2>2 DEF Types, HandlesOf, ReadEnds
  <2> QED BY <2>1, <2>2, <2>3 DEF Types
<1>10. ASSUME NEW t \in Capturers, WaitCapture(t) PROVE Types'
  BY <1>10, PipeEnds, EndsAreHandles DEF WaitCapture, data, Types, Goto, Return, DropPipe
<1>11. ASSUME NEW t \in Executors, ExecSpawn(t) PROVE Types'
  BY <1>11 DEF ExecSpawn, MayCall, data, Types, Goto
<1>12. ASSUME NEW t \in Executors, ExecSpawnFails(t) PROVE Types'
  BY <1>12 DEF ExecSpawnFails, kids, data, Types
<1>13. ASSUME NEW t \in Executors, CtrlOn(t) PROVE Types'
  BY <1>13 DEF CtrlOn, kids, data, Types, Goto
<1>14. ASSUME NEW t \in Executors, WaitExecute(t) PROVE Types'
  BY <1>14 DEF WaitExecute, data, Types, Goto, Return
<1>15. ASSUME NEW t \in Capturers, ChildWrite(t) PROVE Types'
  <2>1. pipe[t] \in Seq(Items) /\ "chunk" \in Items
    BY DEF Types, Items
  <2>2. Append(pipe[t], "chunk") \in Seq(Items) /\ Len(Append(pipe[t], "chunk")) = Len(pipe[t]) + 1 /\ Len(pipe[t]) \in Nat
    BY <2>1, PipeAppend
  <2>3. pipe' = [pipe EXCEPT ![t] = Append(pipe[t], "chunk")] /\ Len(pipe[t]) < PipeSize
    BY <1>15 DEF ChildWrite
  <2> HIDE DEF Items
  <2>4. pipe' \in [Capturers -> Seq(Items)]
    BY <2>2, <2>3 DEF Types
  <2>5. ASSUME NEW c \in Capturers PROVE Len(pipe'[c]) <= PipeSize
    BY <2>2, <2>3 DEF Types
  <2> QED BY <1>15, <2>4, <2>5 DEF ChildWrite, kids, Types
<1>16. ASSUME NEW t \in Capturers, ChildWriteEmpty(t) PROVE Types'
  <2>1. pipe[t] \in Seq(Items) /\ "empty" \in Items
    BY DEF Types, Items
  <2>2. Append(pipe[t], "empty") \in Seq(Items) /\ Len(Append(pipe[t], "empty")) = Len(pipe[t]) + 1 /\ Len(pipe[t]) \in Nat
    BY <2>1, PipeAppend
  <2>3. pipe' = [pipe EXCEPT ![t] = Append(pipe[t], "empty")] /\ Len(pipe[t]) < PipeSize
    BY <1>16 DEF ChildWriteEmpty
  <2> HIDE DEF Items
  <2>4. pipe' \in [Capturers -> Seq(Items)]
    BY <2>2, <2>3 DEF Types
  <2>5. ASSUME NEW c \in Capturers PROVE Len(pipe'[c]) <= PipeSize
    BY <2>2, <2>3 DEF Types
  <2> QED BY <1>16, <2>4, <2>5 DEF ChildWriteEmpty, kids, Types
<1>17. ASSUME NEW t \in Capturers, ChildCloses(t) PROVE Types'
  BY <1>17, PipeEnds, EndsAreHandles DEF ChildCloses, data, Types
<1>18. ASSUME NEW t \in Threads, ChildExits(t) PROVE Types'
  BY <1>18, PipeEnds, EndsAreHandles DEF ChildExits, data, Types
<1>19. CASE UNCHANGED vars
  BY <1>19 DEF vars, kids, data, Types
<1> QED BY <1>1, <1>2, <1>3, <1>4, <1>5, <1>6, <1>7, <1>8, <1>9, <1>10, <1>11, <1>12, <1>13, <1>14, <1>15,
     <1>16, <1>17, <1>18, <1>19 DEF Next, CaptureStep, ExecuteStep

\* A step on a pipe is a step of the call that made it.
LEMMA HandlesStep ==
  Types /\ (\A u \in Capturers : HandlesOf(u)) /\ [Next]_vars => \A u \in Capturers : HandlesOf(u)'
<1> SUFFICES ASSUME Types, NEW u \in Capturers, HandlesOf(u), [Next]_vars PROVE HandlesOf(u)'
  OBVIOUS
<1> USE ThreadsDisjoint DEF Threads, Types
<1>1. ASSUME NEW t \in Capturers, NewProcess(t) PROVE HandlesOf(u)'
  BY <1>1 DEF NewProcess, kids, HandlesOf
<1>2. ASSUME NEW t \in Capturers, CreatePipe(t) PROVE HandlesOf(u)'
  BY <1>2, PipeEnds DEF CreatePipe, MayCall, kids, HandlesOf, Goto
<1>3. ASSUME NEW t \in Capturers, CreatePipeFails(t) PROVE HandlesOf(u)'
  BY <1>3 DEF CreatePipeFails, kids, data, HandlesOf
<1>4. ASSUME NEW t \in Capturers, Unshare(t) PROVE HandlesOf(u)'
  BY <1>4 DEF Unshare, kids, data, HandlesOf, Goto
<1>5. ASSUME NEW t \in Capturers, Spawn(t) PROVE HandlesOf(u)'
  BY <1>5, PipeEnds DEF Spawn, data, HandlesOf, Goto
<1>6. ASSUME NEW t \in Capturers, RedirectFails(t) PROVE HandlesOf(u)'
  BY <1>6, PipeEnds DEF RedirectFails, data, HandlesOf, Goto, Return, DropPipe
<1>7. ASSUME NEW t \in Capturers, CloseWrite(t) PROVE HandlesOf(u)'
  BY <1>7, PipeEnds DEF CloseWrite, kids, data, HandlesOf, Goto
<1>8. ASSUME NEW t \in Capturers, Read(t) PROVE HandlesOf(u)'
  BY <1>8 DEF Read, kids, HandlesOf
<1>9. ASSUME NEW t \in Capturers, ReadEnds(t) PROVE HandlesOf(u)'
  BY <1>9, PipeEnds DEF ReadEnds, kids, HandlesOf, Goto
<1>10. ASSUME NEW t \in Capturers, WaitCapture(t) PROVE HandlesOf(u)'
  BY <1>10, PipeEnds DEF WaitCapture, data, HandlesOf, Goto, Return, DropPipe
<1>11. ASSUME NEW t \in Executors, ExecSpawn(t) PROVE HandlesOf(u)'
  BY <1>11 DEF ExecSpawn, MayCall, data, HandlesOf, Goto
<1>12. ASSUME NEW t \in Executors, ExecSpawnFails(t) PROVE HandlesOf(u)'
  BY <1>12 DEF ExecSpawnFails, kids, data, HandlesOf
<1>13. ASSUME NEW t \in Executors, CtrlOn(t) PROVE HandlesOf(u)'
  BY <1>13 DEF CtrlOn, kids, data, HandlesOf, Goto
<1>14. ASSUME NEW t \in Executors, WaitExecute(t) PROVE HandlesOf(u)'
  BY <1>14 DEF WaitExecute, data, HandlesOf, Goto, Return
<1>15. ASSUME NEW t \in Capturers, ChildWrite(t) PROVE HandlesOf(u)'
  BY <1>15, PipeEnds DEF ChildWrite, kids, HandlesOf
<1>16. ASSUME NEW t \in Capturers, ChildWriteEmpty(t) PROVE HandlesOf(u)'
  BY <1>16, PipeEnds DEF ChildWriteEmpty, kids, HandlesOf
<1>17. ASSUME NEW t \in Capturers, ChildCloses(t) PROVE HandlesOf(u)'
  BY <1>17, PipeEnds DEF ChildCloses, data, HandlesOf
<1>18. ASSUME NEW t \in Threads, ChildExits(t) PROVE HandlesOf(u)'
  BY <1>18, PipeEnds DEF ChildExits, data, HandlesOf
<1>19. CASE UNCHANGED vars
  BY <1>19 DEF vars, kids, data, HandlesOf
<1> QED BY <1>1, <1>2, <1>3, <1>4, <1>5, <1>6, <1>7, <1>8, <1>9, <1>10, <1>11, <1>12, <1>13, <1>14, <1>15,
     <1>16, <1>17, <1>18, <1>19 DEF Next, CaptureStep, ExecuteStep

LEMMA ChildStep ==
  Types /\ (\A u \in Capturers : HandlesOf(u) /\ ChildOf(u)) /\ [Next]_vars => \A u \in Capturers : ChildOf(u)'
<1> SUFFICES ASSUME Types, NEW u \in Capturers, HandlesOf(u), ChildOf(u), [Next]_vars PROVE ChildOf(u)'
  OBVIOUS
<1> USE ThreadsDisjoint DEF Threads, Types
<1>1. ASSUME NEW t \in Capturers, NewProcess(t) PROVE ChildOf(u)'
  BY <1>1 DEF NewProcess, kids, ChildOf
<1>2. ASSUME NEW t \in Capturers, CreatePipe(t) PROVE ChildOf(u)'
  BY <1>2, PipeEnds DEF CreatePipe, MayCall, kids, ChildOf, Goto
<1>3. ASSUME NEW t \in Capturers, CreatePipeFails(t) PROVE ChildOf(u)'
  BY <1>3 DEF CreatePipeFails, kids, data, ChildOf
<1>4. ASSUME NEW t \in Capturers, Unshare(t) PROVE ChildOf(u)'
  BY <1>4 DEF Unshare, kids, data, ChildOf, Goto
<1>5. ASSUME NEW t \in Capturers, Spawn(t) PROVE ChildOf(u)'
  BY <1>5, PipeEnds DEF Spawn, data, ChildOf, Goto
<1>6. ASSUME NEW t \in Capturers, RedirectFails(t) PROVE ChildOf(u)'
  BY <1>6, PipeEnds DEF RedirectFails, data, ChildOf, Goto, Return, DropPipe
<1>7. ASSUME NEW t \in Capturers, CloseWrite(t) PROVE ChildOf(u)'
  BY <1>7, PipeEnds DEF CloseWrite, kids, data, ChildOf, Goto
<1>8. ASSUME NEW t \in Capturers, Read(t) PROVE ChildOf(u)'
  BY <1>8 DEF Read, kids, ChildOf
<1>9. ASSUME NEW t \in Capturers, ReadEnds(t) PROVE ChildOf(u)'
  <2>1. CASE u = t
    <3>1. /\ pc[u] = "read" /\ pc'[u] = "wait" /\ UNCHANGED <<child, theirs, pipe, ok>>
          /\ cut'[u] = (cut[u] \/ pipe[u] # <<>>)
      BY <1>9, <2>1 DEF ReadEnds, Goto, kids
    <3>2. pipe[u] = <<>> => ~(child[u] = "running" /\ <<u, "w">> \in theirs[u])
      BY <1>9, <2>1 DEF ReadEnds, HasWriter, Holders
    <3>3. ~cut'[u] => pipe[u] = <<>>
      BY ONLY <3>1, Zenon
    <3>4. ~ok[u]
      BY <3>1 DEF ChildOf
    <3> QED BY <3>1, <3>2, <3>3, <3>4 DEF ChildOf
  <2>2. CASE u # t
    BY <1>9, <2>2 DEF ReadEnds, Goto, kids, ChildOf
  <2> QED BY <2>1, <2>2
<1>10. ASSUME NEW t \in Capturers, WaitCapture(t) PROVE ChildOf(u)'
  BY <1>10, PipeEnds DEF WaitCapture, data, ChildOf, Goto, Return, DropPipe
<1>11. ASSUME NEW t \in Executors, ExecSpawn(t) PROVE ChildOf(u)'
  BY <1>11 DEF ExecSpawn, MayCall, data, ChildOf, Goto
<1>12. ASSUME NEW t \in Executors, ExecSpawnFails(t) PROVE ChildOf(u)'
  BY <1>12 DEF ExecSpawnFails, kids, data, ChildOf
<1>13. ASSUME NEW t \in Executors, CtrlOn(t) PROVE ChildOf(u)'
  BY <1>13 DEF CtrlOn, kids, data, ChildOf, Goto
<1>14. ASSUME NEW t \in Executors, WaitExecute(t) PROVE ChildOf(u)'
  BY <1>14 DEF WaitExecute, data, ChildOf, Goto, Return
<1>15. ASSUME NEW t \in Capturers, ChildWrite(t) PROVE ChildOf(u)'
  <2>1. CASE u = t
    <3>1. child[u] = "running" /\ <<u, "w">> \in theirs[u]
      BY <1>15, <2>1 DEF ChildWrite, CanWrite
    <3>2. pc[u] # "idle" /\ (pc[u] = "wait" => cut[u]) /\ pc[u] \notin {"unshare", "spawn"} /\ ~ok[u]
      BY <3>1 DEF ChildOf
    <3>3. UNCHANGED <<pc, child, theirs, cut, ok>>
      BY <1>15 DEF ChildWrite, kids
    <3> QED BY <3>1, <3>2, <3>3 DEF ChildOf
  <2>2. CASE u # t
    BY <1>15, <2>2 DEF ChildWrite, kids, ChildOf
  <2> QED BY <2>1, <2>2
<1>16. ASSUME NEW t \in Capturers, ChildWriteEmpty(t) PROVE ChildOf(u)'
  <2>1. CASE u = t
    <3>1. child[u] = "running" /\ <<u, "w">> \in theirs[u]
      BY <1>16, <2>1 DEF ChildWriteEmpty, CanWrite
    <3>2. pc[u] # "idle" /\ (pc[u] = "wait" => cut[u]) /\ pc[u] \notin {"unshare", "spawn"} /\ ~ok[u]
      BY <3>1 DEF ChildOf
    <3>3. UNCHANGED <<pc, child, theirs, cut, ok>>
      BY <1>16 DEF ChildWriteEmpty, kids
    <3> QED BY <3>1, <3>2, <3>3 DEF ChildOf
  <2>2. CASE u # t
    BY <1>16, <2>2 DEF ChildWriteEmpty, kids, ChildOf
  <2> QED BY <2>1, <2>2
<1>17. ASSUME NEW t \in Capturers, ChildCloses(t) PROVE ChildOf(u)'
  BY <1>17, PipeEnds DEF ChildCloses, data, ChildOf
<1>18. ASSUME NEW t \in Threads, ChildExits(t) PROVE ChildOf(u)'
  BY <1>18, PipeEnds DEF ChildExits, data, ChildOf
<1>19. CASE UNCHANGED vars
  BY <1>19 DEF vars, kids, data, ChildOf
<1> QED BY <1>1, <1>2, <1>3, <1>4, <1>5, <1>6, <1>7, <1>8, <1>9, <1>10, <1>11, <1>12, <1>13, <1>14, <1>15,
     <1>16, <1>17, <1>18, <1>19 DEF Next, CaptureStep, ExecuteStep

LEMMA CountedStep ==
  Types /\ (\A u \in Capturers : HandlesOf(u) /\ ChildOf(u) /\ Counted(u)) /\ [Next]_vars
    => \A u \in Capturers : Counted(u)'
<1> SUFFICES ASSUME Types, NEW u \in Capturers, HandlesOf(u), ChildOf(u), Counted(u), [Next]_vars PROVE Counted(u)'
  OBVIOUS
<1> USE ThreadsDisjoint DEF Threads, Types
<1>1. ASSUME NEW t \in Capturers, NewProcess(t) PROVE Counted(u)'
  BY <1>1 DEF NewProcess, kids, Counted, ChildOf
<1>2. ASSUME NEW t \in Capturers, CreatePipe(t) PROVE Counted(u)'
  <2>1. CASE u = t
    <3>1. out[u] <= wrote[u] /\ (~cut[u] => out[u] = wrote[u]) /\ out[u] \in Nat
      BY <1>2, <2>1 DEF CreatePipe, MayCall, Counted
    <3>2. pc'[u] = "unshare" /\ pipe'[u] = <<>> /\ UNCHANGED <<out, wrote, cut>>
      BY <1>2, <2>1 DEF CreatePipe, MayCall, Goto
    <3>3. out'[u] + 0 <= wrote'[u] /\ (~cut'[u] => out'[u] + 0 = wrote'[u]) /\ Tally(pipe'[u], 0)
      BY <3>1, <3>2, TallyOfNone
    <3> QED BY <3>2, <3>3 DEF Counted
  <2>2. CASE u # t
    BY <1>2, <2>2 DEF CreatePipe, MayCall, Goto, kids, Counted
  <2> QED BY <2>1, <2>2
<1>3. ASSUME NEW t \in Capturers, CreatePipeFails(t) PROVE Counted(u)'
  BY <1>3 DEF CreatePipeFails, kids, data, Counted, ChildOf
<1>4. ASSUME NEW t \in Capturers, Unshare(t) PROVE Counted(u)'
  BY <1>4 DEF Unshare, kids, data, Counted, ChildOf, Goto
<1>5. ASSUME NEW t \in Capturers, Spawn(t) PROVE Counted(u)'
  BY <1>5 DEF Spawn, data, Counted, ChildOf, Goto
<1>6. ASSUME NEW t \in Capturers, RedirectFails(t) PROVE Counted(u)'
  <2>1. CASE u = t
    <3>1. pc[u] \in {"unshare", "spawn"} /\ pc'[u] = "idle" /\ UNCHANGED data
      BY <1>6, <2>1 DEF RedirectFails, Return, Goto
    <3>2. PICK k \in Nat : Tally(pipe[u], k) /\ out[u] + k <= wrote[u] /\ (~cut[u] => out[u] + k = wrote[u])
      BY <3>1 DEF Counted
    <3>3. k = 0
      BY <3>1, <3>2, NoneTallies DEF ChildOf
    <3> QED BY <3>1, <3>2, <3>3 DEF Counted, data
  <2>2. CASE u # t
    BY <1>6, <2>2 DEF RedirectFails, Return, Goto, data, Counted
  <2> QED BY <2>1, <2>2
<1>7. ASSUME NEW t \in Capturers, CloseWrite(t) PROVE Counted(u)'
  BY <1>7 DEF CloseWrite, kids, data, Counted, ChildOf, Goto
<1>8. ASSUME NEW t \in Capturers, Read(t) PROVE Counted(u)'
  <2>1. CASE u = t
    <3>1. pc[u] = "read" /\ pipe[u] # <<>> /\ Head(pipe[u]) = "chunk" /\ pipe[u] \in Seq(Items) /\ out[u] \in Nat
      BY <1>8, <2>1 DEF Read
    <3>2. UNCHANGED <<pc, wrote, cut>> /\ pipe'[u] = Tail(pipe[u]) /\ out'[u] = out[u] + 1
      BY <1>8, <2>1 DEF Read
    <3>3. PICK k \in Nat : Tally(pipe[u], k) /\ out[u] + k <= wrote[u] /\ (~cut[u] => out[u] + k = wrote[u])
      BY <3>1 DEF Counted
    <3>4. k - 1 \in Nat /\ Tally(Tail(pipe[u]), k - 1)
      BY <3>1, <3>3, TallyOfTail
    <3>5. out'[u] + (k - 1) = out[u] + k
      BY ONLY <3>1, <3>2, k \in Nat, SMTT(20)
    <3>6. pc'[u] # "idle" /\ Tally(pipe'[u], k - 1) /\ out'[u] + (k - 1) <= wrote'[u]
          /\ (~cut'[u] => out'[u] + (k - 1) = wrote'[u])
      BY <3>1, <3>2, <3>3, <3>4, <3>5
    <3> QED BY <3>4, <3>6 DEF Counted
  <2>2. CASE u # t
    BY <1>8, <2>2 DEF Read, kids, Counted
  <2> QED BY <2>1, <2>2
<1>9. ASSUME NEW t \in Capturers, ReadEnds(t) PROVE Counted(u)'
  BY <1>9 DEF ReadEnds, kids, Counted, ChildOf, Goto
<1>10. ASSUME NEW t \in Capturers, WaitCapture(t) PROVE Counted(u)'
  <2>1. CASE u = t
    <3>1. pc[u] = "wait" /\ pc'[u] = "idle" /\ UNCHANGED data /\ out[u] \in Nat /\ wrote[u] \in Nat
      BY <1>10, <2>1 DEF WaitCapture, Return, Goto
    <3>2. PICK k \in Nat : Tally(pipe[u], k) /\ out[u] + k <= wrote[u] /\ (~cut[u] => out[u] + k = wrote[u])
      BY <3>1 DEF Counted
    <3>3. out[u] <= wrote[u]
      BY <3>1, <3>2
    <3>4. ~cut[u] => k = 0
      BY <3>1, <3>2, NoneTallies DEF ChildOf
    <3> QED BY <3>1, <3>2, <3>3, <3>4 DEF Counted, data
  <2>2. CASE u # t
    BY <1>10, <2>2 DEF WaitCapture, Return, Goto, data, Counted
  <2> QED BY <2>1, <2>2
<1>11. ASSUME NEW t \in Executors, ExecSpawn(t) PROVE Counted(u)'
  BY <1>11 DEF ExecSpawn, MayCall, data, Counted, ChildOf, Goto
<1>12. ASSUME NEW t \in Executors, ExecSpawnFails(t) PROVE Counted(u)'
  BY <1>12 DEF ExecSpawnFails, kids, data, Counted, ChildOf
<1>13. ASSUME NEW t \in Executors, CtrlOn(t) PROVE Counted(u)'
  BY <1>13 DEF CtrlOn, kids, data, Counted, ChildOf, Goto
<1>14. ASSUME NEW t \in Executors, WaitExecute(t) PROVE Counted(u)'
  BY <1>14 DEF WaitExecute, data, Counted, ChildOf, Goto, Return
<1>15. ASSUME NEW t \in Capturers, ChildWrite(t) PROVE Counted(u)'
  <2>1. CASE u = t
    <3>1. child[u] = "running"
      BY <1>15, <2>1 DEF ChildWrite, CanWrite
    <3>2. pc[u] # "idle" /\ pipe[u] \in Seq(Items) /\ wrote[u] \in Nat /\ out[u] \in Nat
      BY <3>1 DEF ChildOf
    <3>3. PICK k \in Nat : Tally(pipe[u], k) /\ out[u] + k <= wrote[u] /\ (~cut[u] => out[u] + k = wrote[u])
      BY <3>2 DEF Counted
    <3>4. Tally(Append(pipe[u], "chunk"), k + 1) /\ k + 1 \in Nat
      <4>1. Tally(Append(pipe[u], "chunk"), k + Chunk("chunk"))
        BY <3>2, <3>3, TallyOfAppend DEF Items
      <4> QED BY <4>1 DEF Chunk
    <3>5. /\ UNCHANGED <<pc, out, cut>> /\ pipe'[u] = Append(pipe[u], "chunk") /\ wrote'[u] = wrote[u] + 1
      BY <1>15, <2>1 DEF ChildWrite
    <3>6. out'[u] + (k + 1) <= wrote'[u] /\ (~cut'[u] => out'[u] + (k + 1) = wrote'[u])
      <4>1. out'[u] = out[u] /\ cut'[u] = cut[u] /\ wrote'[u] = wrote[u] + 1
        BY <3>5
      <4>2. out[u] + (k + 1) <= wrote[u] + 1 /\ (~cut[u] => out[u] + (k + 1) = wrote[u] + 1)
        BY ONLY <3>2, <3>3, k \in Nat, SMTT(20)
      <4> QED BY ONLY <4>1, <4>2, Zenon
    <3>7. pc'[u] # "idle" /\ Tally(pipe'[u], k + 1)
      BY <3>2, <3>4, <3>5
    <3> QED BY <3>4, <3>6, <3>7 DEF Counted
  <2>2. CASE u # t
    BY <1>15, <2>2 DEF ChildWrite, Counted
  <2> QED BY <2>1, <2>2
<1>16. ASSUME NEW t \in Capturers, ChildWriteEmpty(t) PROVE Counted(u)'
  <2>1. CASE u = t
    <3>1. child[u] = "running"
      BY <1>16, <2>1 DEF ChildWriteEmpty, CanWrite
    <3>2. pc[u] # "idle" /\ pipe[u] \in Seq(Items) /\ wrote[u] \in Nat /\ out[u] \in Nat
      BY <3>1 DEF ChildOf
    <3>3. PICK k \in Nat : Tally(pipe[u], k) /\ out[u] + k <= wrote[u] /\ (~cut[u] => out[u] + k = wrote[u])
      BY <3>2 DEF Counted
    <3>4. Tally(Append(pipe[u], "empty"), k) /\ k \in Nat
      <4>1. Tally(Append(pipe[u], "empty"), k + Chunk("empty"))
        BY <3>2, <3>3, TallyOfAppend DEF Items
      <4> QED BY <4>1 DEF Chunk
    <3>5. /\ UNCHANGED <<pc, out, cut>> /\ pipe'[u] = Append(pipe[u], "empty") /\ wrote'[u] = wrote[u]
      BY <1>16, <2>1 DEF ChildWriteEmpty
    <3>6. out'[u] + k <= wrote'[u] /\ (~cut'[u] => out'[u] + k = wrote'[u])
      <4>1. out'[u] = out[u] /\ cut'[u] = cut[u] /\ wrote'[u] = wrote[u]
        BY <3>5
      <4>2. out[u] + k <= wrote[u] /\ (~cut[u] => out[u] + k = wrote[u])
        BY ONLY <3>2, <3>3, k \in Nat, SMTT(20)
      <4> QED BY ONLY <4>1, <4>2, Zenon
    <3>7. pc'[u] # "idle" /\ Tally(pipe'[u], k)
      BY <3>2, <3>4, <3>5
    <3> QED BY <3>4, <3>6, <3>7 DEF Counted
  <2>2. CASE u # t
    BY <1>16, <2>2 DEF ChildWriteEmpty, Counted
  <2> QED BY <2>1, <2>2
<1>17. ASSUME NEW t \in Capturers, ChildCloses(t) PROVE Counted(u)'
  BY <1>17 DEF ChildCloses, data, Counted, ChildOf
<1>18. ASSUME NEW t \in Threads, ChildExits(t) PROVE Counted(u)'
  BY <1>18 DEF ChildExits, data, Counted, ChildOf
<1>19. CASE UNCHANGED vars
  BY <1>19 DEF vars, kids, data, Counted, ChildOf
<1> QED BY <1>1, <1>2, <1>3, <1>4, <1>5, <1>6, <1>7, <1>8, <1>9, <1>10, <1>11, <1>12, <1>13, <1>14, <1>15,
     <1>16, <1>17, <1>18, <1>19 DEF Next, CaptureStep, ExecuteStep

-----------------------------------------------------------------------------
(* The theorems                                                            *)

LEMMA InvInit == Init => Inv
<1> SUFFICES ASSUME Init PROVE Inv
  OBVIOUS
<1>1. \A t \in Capturers : HandlesOf(t) /\ ChildOf(t) /\ Counted(t)
  BY DEF Init, HandlesOf, ChildOf, Counted, Threads
<1> QED BY <1>1, TypesInit DEF Inv

LEMMA InvHolds == Spec => []Inv
<1>1. Inv /\ [Next]_vars => Inv'
  BY TypesStep, HandlesStep, ChildStep, CountedStep DEF Inv
<1> QED BY <1>1, InvInit, PTL DEF Spec

\* What is counted bounds what was read.
LEMMA ReadWithinWritten == Inv => \A t \in Capturers : out[t] \in 0 .. MaxOut
<1> SUFFICES ASSUME Inv, NEW t \in Capturers PROVE out[t] \in 0 .. MaxOut
  OBVIOUS
<1>1. out[t] \in Nat /\ wrote[t] \in 0 .. MaxOut /\ Counted(t)
  BY DEF Inv, Types
<1>2. out[t] <= wrote[t]
  BY <1>1 DEF Counted
<1> QED BY <1>1, <1>2, BoundsAssumption

\* The threads, their children, handles and pipes are of their types whatever
\* calls fail; a Process never holds more output than was written.
THEOREM TypeCorrect == Spec => []TypeOK
<1>1. Inv => TypeOK
  <2> SUFFICES ASSUME Inv PROVE TypeOK
    OBVIOUS
  <2>1. out \in [Capturers -> 0 .. MaxOut]
    BY ReadWithinWritten DEF Inv, Types
  <2> QED BY <2>1 DEF Inv, Types, TypeOK, Items
<1> QED BY <1>1, InvHolds, PTL

\* A Capture that succeeds has returned all that its children wrote, for any
\* number of threads, children that inherit each other's handles, and pipes of
\* any size.
THEOREM AllOutputIsCaptured == Spec => []CaptureComplete
<1>1. Inv => CaptureComplete
  <2> SUFFICES ASSUME Inv, NEW t \in Capturers, ok[t], ~cut[t]
               PROVE  out[t] = wrote[t] /\ pipe[t] = <<>>
    BY DEF CaptureComplete
  <2> QED BY DEF Inv, ChildOf, Counted
<1> QED BY <1>1, InvHolds, PTL

\* A call of Capture that has returned, with success or not, has left no handle of
\* its pipe open.
THEOREM HandlesAreClosed == Spec => []NoHandleLeft
<1>1. Inv => NoHandleLeft
  BY PipeEnds DEF Inv, HandlesOf, NoHandleLeft
<1> QED BY <1>1, InvHolds, PTL

\* No child holds the read end of the pipe it writes to, on any path through Capture.
THEOREM ReadEndStaysOurs == Spec => []ReadEndNotInherited
<1>1. Inv => ReadEndNotInherited
  BY PipeEnds DEF Inv, HandlesOf, ReadEndNotInherited
<1> QED BY <1>1, InvHolds, PTL

\* Ctrl+C is never left ignored: as long as it is, some thread is in the wait of an
\* Execute, for any number of threads that use the one switch of the process.
THEOREM CtrlIsRestored == Spec => []CtrlRestored
<1>1. Init => CtrlRestored
  BY DEF Init, CtrlRestored
<1>2. Inv /\ CtrlRestored /\ [Next]_vars => CtrlRestored'
  <2> SUFFICES ASSUME Types, CtrlRestored, [Next]_vars
               PROVE  CtrlRestored'
    BY DEF Inv
  \* Who waits goes on waiting, unless the call that returns is an Execute.
  <2>a. ASSUME ignoreCtrl' = ignoreCtrl, \A u \in Executors : pc[u] = "wait" => pc'[u] = "wait"
        PROVE  CtrlRestored'
    BY <2>a DEF CtrlRestored
  <2> USE ThreadsDisjoint DEF Threads, Types
  <2>1. ASSUME NEW t \in Capturers, NewProcess(t) PROVE CtrlRestored'
    BY <2>1, <2>a DEF NewProcess, kids
  <2>2. ASSUME NEW t \in Capturers, CreatePipe(t) PROVE CtrlRestored'
    BY <2>2, <2>a DEF CreatePipe, MayCall, kids, Goto
  <2>3. ASSUME NEW t \in Capturers, CreatePipeFails(t) PROVE CtrlRestored'
    BY <2>3, <2>a DEF CreatePipeFails, kids, data
  <2>4. ASSUME NEW t \in Capturers, Unshare(t) PROVE CtrlRestored'
    BY <2>4, <2>a DEF Unshare, kids, data, Goto
  <2>5. ASSUME NEW t \in Capturers, Spawn(t) PROVE CtrlRestored'
    BY <2>5, <2>a DEF Spawn, data, Goto
  <2>6. ASSUME NEW t \in Capturers, RedirectFails(t) PROVE CtrlRestored'
    BY <2>6, <2>a DEF RedirectFails, data, Goto, Return, DropPipe
  <2>7. ASSUME NEW t \in Capturers, CloseWrite(t) PROVE CtrlRestored'
    BY <2>7, <2>a DEF CloseWrite, kids, data, Goto
  <2>8. ASSUME NEW t \in Capturers, Read(t) PROVE CtrlRestored'
    BY <2>8, <2>a DEF Read, kids
  <2>9. ASSUME NEW t \in Capturers, ReadEnds(t) PROVE CtrlRestored'
    BY <2>9, <2>a DEF ReadEnds, kids, Goto
  <2>10. ASSUME NEW t \in Capturers, WaitCapture(t) PROVE CtrlRestored'
    BY <2>10, <2>a DEF WaitCapture, data, Goto, Return, DropPipe
  <2>11. ASSUME NEW t \in Executors, ExecSpawn(t) PROVE CtrlRestored'
    BY <2>11, <2>a DEF ExecSpawn, MayCall, data, Goto
  <2>12. ASSUME NEW t \in Executors, ExecSpawnFails(t) PROVE CtrlRestored'
    BY <2>12, <2>a DEF ExecSpawnFails, kids, data
  <2>13. ASSUME NEW t \in Executors, CtrlOn(t) PROVE CtrlRestored'
    BY <2>13 DEF CtrlOn, kids, data, Goto, CtrlRestored
  <2>14. ASSUME NEW t \in Executors, WaitExecute(t) PROVE CtrlRestored'
    BY <2>14 DEF WaitExecute, Goto, Return, CtrlRestored
  <2>15. ASSUME NEW t \in Capturers, ChildWrite(t) PROVE CtrlRestored'
    BY <2>15, <2>a DEF ChildWrite, kids
  <2>16. ASSUME NEW t \in Capturers, ChildWriteEmpty(t) PROVE CtrlRestored'
    BY <2>16, <2>a DEF ChildWriteEmpty, kids
  <2>17. ASSUME NEW t \in Capturers, ChildCloses(t) PROVE CtrlRestored'
    BY <2>17, <2>a DEF ChildCloses, data
  <2>18. ASSUME NEW t \in Threads, ChildExits(t) PROVE CtrlRestored'
    BY <2>18, <2>a DEF ChildExits, data
  <2>19. CASE UNCHANGED vars
    BY <2>19 DEF vars, CtrlRestored
  <2> QED BY <2>1, <2>2, <2>3, <2>4, <2>5, <2>6, <2>7, <2>8, <2>9, <2>10, <2>11, <2>12, <2>13, <2>14, <2>15,
       <2>16, <2>17, <2>18, <2>19 DEF Next, CaptureStep, ExecuteStep
<1> QED BY <1>1, <1>2, InvInit, InvHolds, PTL DEF Spec
=============================================================================
