------------------------- MODULE ForceDeleteProofs -------------------------
(***************************************************************************)
(* ForceDelete for any tree, any number of workers and any setting: what   *)
(* is outside the trees is kept, a call that returns true has deleted its  *)
(* path, no path stays marked for deletion that nobody has open, and a     *)
(* worker that nothing disturbs deletes whatever it is given.              *)
(***************************************************************************)
EXTENDS ForceDelete, SequenceTheorems, TLAPS

\* Finders of folders inside the trees, the first one of the folder root.
Chain(s, root) ==
  /\ s \in Seq(Finder)
  /\ \A i \in 1 .. Len(s) : s[i].dir \in Inside /\ s[i].left \subseteq Inside
  /\ s # <<>> => s[1].dir = root

\* Where a worker is: inside the trees, in folders that are no links, and at
\* the call's own path when it is in none of them.
Placed(p) ==
  /\ cur[p] \in Inside
  /\ Chain(stack[p], call[p].node)
  /\ pc[p] = "find" => cur[p] \in Dirs
  /\ pc[p] = "return" /\ ~ok[p] /\ ec[p] = "notempty" => cur[p] \in Dirs
  /\ pc[p] = "next" => stack[p] # <<>>
  /\ pc[p] = "clear" => try[p] \in {1, 3}
  /\ pc[p] = "idle" => stack[p] = <<>>
  /\ pc[p] # "idle" /\ stack[p] = <<>> => cur[p] = call[p].node

Remains(n) == n \in exists \ pending

\* What a worker with an error_code of its own may claim.
Truthful(p) ==
  /\ pc[p] \in {"open", "reopen", "dispose", "clear", "find", "next"} => ec[p] \in {"none", "notempty"}
  /\ pc[p] = "return" /\ ok[p] => ec[p] \in {"none", "notempty"} /\ (cur[p] \notin Late => ~Remains(cur[p]))
  /\ result[p] = "ok" => ~Remains(call[p].node)

IInv ==
  /\ TypeOK /\ OutsideKept /\ pending \subseteq Inside
  /\ \A p \in Worker : Placed(p)

\* Whether a worker's handle is open.
Holding(p) ==
  /\ pc[p] \in {"dispose", "clear"} => open[p]
  /\ pc[p] \in {"idle", "open", "reopen", "find", "next"} => ~open[p]

\* What is marked is held by someone, who will let it go.
HInv == (\A m \in pending : HandlesOn(m, open, stack, other)) /\ \A p \in Worker : Holding(p)

TInv == setting.fresh => \A p \in Worker : Truthful(p)

-----------------------------------------------------------------------------
\* What the assumptions and the type invariant give every step.
LEMMA SettingFacts ==
  ASSUME setting \in Settings
  PROVE  setting \in Setting /\ setting.workers \subseteq Worker /\ setting.readonly \subseteq Node
         /\ setting.fresh \in BOOLEAN
BY SettingsAssumption DEF Setting

\* The errors that Win32 answers with are those the model names.
LEMMA ErrorsTyped ==
  /\ \A n, attributes : OpenError(n, attributes) \in Error /\ OpenError(n, attributes) # "notempty"
  /\ \A n, attempt : Answers(n, attempt) \subseteq Error
BY DEF OpenError, Answers, Error

\* What ForceDeleteFile is about to return is typed, and so is its error.
LEMMA ReturnsTyped ==
  ASSUME TypeOK, NEW p \in Worker, NEW b \in BOOLEAN, NEW e \in Error, Returns(p, b, e)
  PROVE  ok' \in [Worker -> BOOLEAN] /\ ec' \in [Worker -> Error]
BY DEF TypeOK, Returns

\* An attempt is one of the four.
LEMMA TryTyped ==
  ASSUME TypeOK, NEW p \in Worker
  PROVE  [try EXCEPT ![p] = 1] \in [Worker -> 1 .. 4] /\ [try EXCEPT ![p] = 3] \in [Worker -> 1 .. 4]
<1>1. try \in [Worker -> 1 .. 4] /\ 1 \in 1 .. 4 /\ 3 \in 1 .. 4
  BY DEF TypeOK
<1> HIDE DEF TypeOK
<1>2. QED
  BY ONLY <1>1, p \in Worker, Zenon

\* The first states are typed.
LEMMA TypeInit == Init => TypeOK
<1> SUFFICES ASSUME Init PROVE TypeOK
  OBVIOUS
<1>1. /\ setting \in Settings /\ exists \subseteq Node /\ pending \subseteq exists /\ readonly \subseteq Node
      /\ late \subseteq Late
  BY SettingFacts DEF Init
<1>2. other \in [Node -> {"no", "shares", "locks"}]
  BY DEF Init
<1>3. /\ call \in [Worker -> [node : Targets, folders : BOOLEAN]] /\ cur \in [Worker -> Node]
  <2>1. call \in [Worker -> [node : Targets, folders : BOOLEAN]]
    <3> DEFINE First == {[node |-> n, folders |-> FALSE] : n \in Targets}
    <3>1. First \subseteq [node : Targets, folders : BOOLEAN]
      <4>1. \A n \in Targets : [node |-> n, folders |-> FALSE] \in [node : Targets, folders : BOOLEAN]
        OBVIOUS
      <4>2. QED
        BY <4>1, Zenon
    <3>2. call \in [Worker -> First]
      BY DEF Init
    <3> HIDE DEF First
    <3>3. QED
      BY <3>1, <3>2
  <2>2. \A p \in Worker : call[p].node \in Node
    BY <2>1, TargetsAssumption
  <2>3. QED
    BY <2>1, <2>2 DEF Init
<1>4. /\ pc \in [Worker -> {"idle", "open", "reopen", "dispose", "clear", "return", "find", "next"}]
      /\ open \in [Worker -> BOOLEAN] /\ try \in [Worker -> 1 .. 4] /\ stack \in [Worker -> Seq(Finder)]
      /\ ok \in [Worker -> BOOLEAN] /\ ec \in [Worker -> Error] /\ result \in [Worker -> {"none", "ok", "failed"}]
  BY EmptySeq DEF Init, Error
<1>5. QED
  BY <1>1, <1>2, <1>3, <1>4 DEF TypeOK

\* The last Finder of a chain, and the chain without it.
LEMMA ChainPop ==
  ASSUME NEW s, NEW root, Chain(s, root), s # <<>>
  PROVE  /\ s[Len(s)] \in Finder /\ s[Len(s)].dir \in Inside \cap Dirs /\ s[Len(s)].left \subseteq Inside
         /\ Chain(SubSeq(s, 1, Len(s) - 1), root)
         /\ SubSeq(s, 1, Len(s) - 1) = <<>> => s[Len(s)].dir = root
<1> DEFINE t == SubSeq(s, 1, Len(s) - 1)
<1>1. s \in Seq(Finder) /\ Len(s) \in Nat /\ Len(s) # 0
  BY LenProperties, EmptySeq DEF Chain
<1>2. Len(s) \in 1 .. Len(s) /\ 1 \in 1 .. Len(s)
  BY <1>1
<1>3. s[Len(s)] \in Finder
  BY <1>1, <1>2, ElementOfSeq
<1>4. s[Len(s)].dir \in Inside \cap Dirs /\ s[Len(s)].left \subseteq Inside
  BY <1>2, <1>3 DEF Chain, Finder
<1>5. t \in Seq(Finder) /\ Len(t) = Len(s) - 1 /\ \A i \in 1 .. Len(s) - 1 : t[i] = s[i]
  <2>1. \A i \in 1 .. Len(s) - 1 : s[i] \in Finder /\ i \in 1 .. Len(s)
    BY <1>1, ElementOfSeq
  <2>2. 1 \in Int /\ Len(s) - 1 \in Int
    BY <1>1
  <2>3. /\ t \in Seq(Finder)
        /\ Len(t) = IF 1 <= Len(s) - 1 THEN Len(s) - 1 - 1 + 1 ELSE 0
        /\ \A i \in 1 .. Len(s) - 1 - 1 + 1 : t[i] = s[1 + i - 1]
    BY <2>1, <2>2, SubSeqProperties
  <2>4. \A i \in 1 .. Len(s) - 1 : 1 + i - 1 = i
    OBVIOUS
  <2>5. Len(s) - 1 - 1 + 1 = Len(s) - 1 /\ (IF 1 <= Len(s) - 1 THEN Len(s) - 1 - 1 + 1 ELSE 0) = Len(s) - 1
    <3>1. \A k \in Nat \ {0} : k - 1 - 1 + 1 = k - 1
      OBVIOUS
    <3>2. \A k \in Nat \ {0} : ~ 1 <= k - 1 => k - 1 = 0
      OBVIOUS
    <3>3. QED
      BY <1>1, <3>1, <3>2, Zenon
  <2> HIDE DEF t
  <2>6. Len(t) = Len(s) - 1
    BY <2>3, <2>5, Zenon
  <2>7. \A i \in 1 .. Len(s) - 1 : t[i] = s[i]
    BY <2>3, <2>4, <2>5, Zenon
  <2>8. QED
    BY <2>3, <2>6, <2>7, Zenon
<1> HIDE DEF t
<1>6. Chain(t, root)
  BY <1>1, <1>5 DEF Chain
<1>7. t = <<>> => s[Len(s)].dir = root
  <2> SUFFICES ASSUME t = <<>> PROVE s[Len(s)].dir = root
    OBVIOUS
  <2>1. Len(s) = 1
    BY <1>1, <1>5, EmptySeq
  <2>2. QED
    BY <2>1 DEF Chain
<1>8. QED
  BY <1>3, <1>4, <1>6, <1>7 DEF t

\* A chain with one more Finder.
LEMMA ChainPush ==
  ASSUME NEW s, NEW root, Chain(s, root), NEW f \in Finder, f.dir \in Inside, f.left \subseteq Inside,
         s = <<>> => f.dir = root
  PROVE  Chain(Append(s, f), root) /\ Append(s, f) # <<>>
<1>1. s \in Seq(Finder) /\ Len(s) \in Nat
  BY LenProperties DEF Chain
<1>2. /\ Append(s, f) \in Seq(Finder) /\ Append(s, f) # <<>> /\ Len(Append(s, f)) = Len(s) + 1
      /\ \A i \in 1 .. Len(s) : Append(s, f)[i] = s[i]
      /\ Append(s, f)[Len(s) + 1] = f
  BY <1>1, AppendProperties
<1>3. \A i \in 1 .. Len(Append(s, f)) : Append(s, f)[i].dir \in Inside /\ Append(s, f)[i].left \subseteq Inside
  BY <1>1, <1>2 DEF Chain
<1>4. Append(s, f)[1].dir = root
  <2>1. CASE s = <<>>
    BY <2>1, <1>2
  <2>2. CASE s # <<>>
    <3>1. 1 \in 1 .. Len(s)
      BY <2>2, <1>1, EmptySeq
    <3>2. QED
      BY <2>2, <3>1, <1>2 DEF Chain
  <2>3. QED
    BY <2>1, <2>2
<1>5. QED
  BY <1>2, <1>3, <1>4 DEF Chain

\* A chain whose last Finder has returned an entry.
LEMMA ChainTake ==
  ASSUME NEW s, NEW root, Chain(s, root), s # <<>>, NEW n
  PROVE  LET t == [s EXCEPT ![Len(s)] = [s[Len(s)] EXCEPT !.left = s[Len(s)].left \ {n}]]
         IN  Chain(t, root) /\ t # <<>>
<1> DEFINE f == [s[Len(s)] EXCEPT !.left = s[Len(s)].left \ {n}]
<1> DEFINE t == [s EXCEPT ![Len(s)] = f]
<1>1. s \in Seq(Finder) /\ Len(s) \in Nat /\ Len(s) # 0
  BY LenProperties, EmptySeq DEF Chain
<1>2. s[Len(s)] \in Finder /\ s[Len(s)].left \subseteq Inside
  BY ChainPop
<1>3. f \in Finder /\ f.dir = s[Len(s)].dir /\ f.left \subseteq Inside
  BY <1>2 DEF Finder
<1> HIDE DEF f
<1>4. t \in Seq(Finder) /\ Len(t) = Len(s)
  BY <1>1, <1>3, ExceptSeq
<1>5. \A i \in 1 .. Len(s) : t[i] = IF i = Len(s) THEN f ELSE s[i]
  BY <1>1
<1>6. \A i \in 1 .. Len(t) : t[i].dir = s[i].dir /\ t[i].left \subseteq Inside
  BY <1>3, <1>4, <1>5 DEF Chain
<1>7. t # <<>>
  BY <1>1, <1>4
<1>8. 1 \in 1 .. Len(t)
  BY <1>1, <1>4
<1> HIDE DEF t
<1>9. Chain(t, root)
  BY <1>4, <1>6, <1>8 DEF Chain
<1>10. QED
  BY <1>7, <1>9 DEF t, f

\* What the steps of one worker leave typed, apart from its stack.
LEMMA TypeKept ==
  ASSUME TypeOK, NEW p \in Worker, Placed(p),
         Open(p) \/ Reopen(p) \/ Dispose(p) \/ Clear(p) \/ Return(p) \/ Find(p) \/ NextEntry(p),
         stack' \in [Worker -> Seq(Finder)]
  PROVE  TypeOK'
<1> DEFINE Rest ==
      /\ setting' \in Settings /\ readonly' \subseteq Node /\ late' \subseteq Late
      /\ other' \in [Node -> {"no", "shares", "locks"}]
      /\ pc' \in [Worker -> {"idle", "open", "reopen", "dispose", "clear", "return", "find", "next"}]
      /\ call' \in [Worker -> [node : Targets, folders : BOOLEAN]]
      /\ open' \in [Worker -> BOOLEAN] /\ try' \in [Worker -> 1 .. 4]
      /\ ok' \in [Worker -> BOOLEAN] /\ ec' \in [Worker -> Error] /\ result' \in [Worker -> {"none", "ok", "failed"}]
<1> DEFINE Names == exists' \subseteq Node /\ pending' \subseteq exists'
<1>1. CASE Open(p) \/ Reopen(p)
  <2>1. Rest
    <3>1. \A e : e = OpenError(cur[p], TRUE) \/ e = OpenError(cur[p], FALSE) => e \in Error
      BY ErrorsTyped
    <3>2. UNCHANGED <<ok, ec>> \/ \E b \in BOOLEAN, e \in Error : Returns(p, b, e)
      BY <1>1, <3>1, Zenon DEF Open, Reopen
    <3>3. pc' = [pc EXCEPT ![p] = "dispose"] \/ pc' = [pc EXCEPT ![p] = "return"] \/ pc' = [pc EXCEPT ![p] = "reopen"]
      BY <1>1, Zenon DEF Open, Reopen, Opened, Returns, Goto
    <3>4. (open' = [open EXCEPT ![p] = TRUE] /\ try' = [try EXCEPT ![p] = 1]) \/ UNCHANGED <<open, try>>
      BY <1>1, Zenon DEF Open, Reopen, Opened
    <3>5. pc' \in [Worker -> {"idle", "open", "reopen", "dispose", "clear", "return", "find", "next"}]
      BY <3>3 DEF TypeOK
    <3>6. open' \in [Worker -> BOOLEAN] /\ try' \in [Worker -> 1 .. 4]
      <4>1. open' \in [Worker -> BOOLEAN]
        BY <3>4 DEF TypeOK
      <4>2. try' \in [Worker -> 1 .. 4]
        BY <3>4, TryTyped DEF TypeOK
      <4>3. QED
        BY <4>1, <4>2
    <3>7. QED
      BY <1>1, <3>2, <3>5, <3>6, ReturnsTyped DEF TypeOK, Open, Reopen, fs
  <2>2. Names /\ cur' \in [Worker -> Node]
    BY <1>1 DEF TypeOK, Open, Reopen, fs
  <2>3. QED
    BY <2>1, <2>2 DEF TypeOK
<1>2. CASE Dispose(p)
  <2>1. Rest
    <3>1. Answers(cur[p], try[p]) \subseteq Error
      BY ErrorsTyped
    <3>2. UNCHANGED <<ok, ec>> \/ \E b \in BOOLEAN, e \in Error : Returns(p, b, e)
      BY <1>2, <3>1, Zenon DEF Dispose
    <3>3. pc' = [pc EXCEPT ![p] = "clear"] \/ pc' = [pc EXCEPT ![p] = "return"] \/ UNCHANGED pc
      BY <1>2, Zenon DEF Dispose, Returns, Goto
    <3>4. try' = [try EXCEPT ![p] = 3] \/ UNCHANGED try
      BY <1>2, Zenon DEF Dispose
    <3>5. pc' \in [Worker -> {"idle", "open", "reopen", "dispose", "clear", "return", "find", "next"}]
      BY <3>3 DEF TypeOK
    <3>6. try' \in [Worker -> 1 .. 4]
      BY <3>4, TryTyped DEF TypeOK
    <3>7. QED
      BY <1>2, <3>2, <3>5, <3>6, ReturnsTyped DEF TypeOK, Dispose
  <2>2. Names /\ cur' \in [Worker -> Node]
    BY <1>2 DEF TypeOK, Dispose
  <2>3. QED
    BY <2>1, <2>2 DEF TypeOK
<1>3. CASE Clear(p)
  <2>1. Rest
    <3>1. try[p] \in {1, 3}
      BY <1>3 DEF Placed, Clear
    <3>2. QED
      BY <1>3, <3>1 DEF TypeOK, Clear, Goto
  <2>2. Names /\ cur' \in [Worker -> Node]
    BY <1>3 DEF TypeOK, Clear
  <2>3. QED
    BY <2>1, <2>2 DEF TypeOK
<1>4. CASE Return(p)
  <2>1. Rest
    BY <1>4 DEF TypeOK, Return, Close, Ends, Goto
  <2>2. Names /\ cur' \in [Worker -> Node]
    BY <1>4 DEF TypeOK, Return, Vanish
  <2>3. QED
    BY <2>1, <2>2 DEF TypeOK
<1>5. CASE Find(p)
  <2>1. Rest
    BY <1>5 DEF TypeOK, Find, Returns, Goto, fs, Error
  <2>2. Names /\ cur' \in [Worker -> Node]
    BY <1>5 DEF TypeOK, Find, fs
  <2>3. QED
    BY <2>1, <2>2 DEF TypeOK
<1>6. CASE NextEntry(p)
  <2>1. Rest
    BY <1>6 DEF TypeOK, NextEntry, Goto, fs
  <2>2. Names
    BY <1>6 DEF TypeOK, NextEntry, fs
  <2>3. cur' \in [Worker -> Node]
    <3>1. stack[p] \in Seq(Finder) /\ stack[p] # <<>>
      BY <1>6 DEF TypeOK, Placed, NextEntry
    <3>2. stack[p][Len(stack[p])] \in Finder
      BY <3>1, LenProperties, ElementOfSeq, EmptySeq
    <3>3. stack[p][Len(stack[p])].dir \in Node /\ stack[p][Len(stack[p])].left \subseteq Node
      BY <3>2, TreeAssumption DEF Finder
    <3>4. QED
      BY <1>6, <3>3 DEF TypeOK, NextEntry
  <2>4. QED
    BY <2>1, <2>2, <2>3 DEF TypeOK
<1>7. QED
  BY <1>1, <1>2, <1>3, <1>4, <1>5, <1>6

\* A step of a worker keeps its call, and its Finders are a chain.
LEMMA StepStack ==
  ASSUME TypeOK, NEW p \in Worker, Placed(p), Step(p)
  PROVE  /\ UNCHANGED call /\ stack' \in [Worker -> Seq(Finder)]
         /\ \A q \in Worker \ {p} : stack'[q] = stack[q]
         /\ Chain(stack'[p], call[p].node)
<1> DEFINE Goal(s) == stack' = [stack EXCEPT ![p] = s] /\ Chain(s, call[p].node)
<1>1. Chain(stack[p], call[p].node) /\ stack \in [Worker -> Seq(Finder)] /\ cur[p] \in Inside
  BY DEF TypeOK, Placed
<1>2. ASSUME NEW s, Goal(s)
      PROVE  /\ stack' \in [Worker -> Seq(Finder)] /\ \A q \in Worker \ {p} : stack'[q] = stack[q]
             /\ Chain(stack'[p], call[p].node)
  <2>1. s \in Seq(Finder)
    BY <1>2 DEF Chain
  <2>2. QED
    BY <1>1, <1>2, <2>1
<1>3. UNCHANGED call
  BY DEF Step, Open, Reopen, Dispose, Clear, Return, Find, NextEntry
<1>4. CASE UNCHANGED stack
  <2>1. stack' = [stack EXCEPT ![p] = stack[p]]
    BY <1>1, <1>4
  <2>2. QED
    BY <1>1, <1>2, <1>3, <2>1
<1>5. CASE Return(p)
  <2>1. PICK s : /\ stack' = [stack EXCEPT ![p] = s]
                 /\ s = IF ~Succeeds(p) THEN <<>>
                        ELSE IF AtFolder(p) THEN SubSeq(stack[p], 1, Len(stack[p]) - 1) ELSE stack[p]
    BY <1>5, Zenon DEF Return, Pop
  <2>2. Chain(<<>>, call[p].node)
    BY EmptySeq DEF Chain
  <2>3. AtFolder(p) => Chain(SubSeq(stack[p], 1, Len(stack[p]) - 1), call[p].node)
    BY <1>1, ChainPop, Zenon DEF AtFolder
  <2>4. Chain(s, call[p].node)
    BY <1>1, <2>1, <2>2, <2>3, Zenon
  <2>5. QED
    BY <1>2, <1>3, <2>1, <2>4
<1>6. CASE Find(p) /\ stack' # stack
  <2> DEFINE f == [dir |-> cur[p], left |-> Listing(cur[p])]
  <2>1. stack' = [stack EXCEPT ![p] = Append(stack[p], f)]
    BY <1>6 DEF Find
  <2>2. cur[p] \in Dirs /\ (stack[p] = <<>> => cur[p] = call[p].node)
    BY <1>6 DEF Find, Placed
  <2>3. Listing(cur[p]) \subseteq Inside
    BY <1>1, <2>2, TreeAssumption, TargetsAssumption DEF Listing, Children, TypeOK
  <2>4. f \in Finder /\ f.dir = cur[p] /\ f.left \subseteq Inside
    BY <2>2, <2>3, TargetsAssumption DEF Finder
  <2> HIDE DEF f
  <2>5. Chain(Append(stack[p], f), call[p].node)
    BY <1>1, <2>2, <2>4, ChainPush
  <2>6. QED
    BY <1>2, <1>3, <2>1, <2>5
<1>7. CASE NextEntry(p) /\ stack' # stack
  <2>1. stack[p] # <<>>
    BY <1>7 DEF NextEntry, Placed
  <2> DEFINE t(n) == [stack[p] EXCEPT ![Len(stack[p])] =
                       [stack[p][Len(stack[p])] EXCEPT !.left = stack[p][Len(stack[p])].left \ {n}]]
  <2>2. PICK n : stack' = [stack EXCEPT ![p] = t(n)]
    BY <1>7 DEF NextEntry
  <2>3. Chain(t(n), call[p].node)
    BY <1>1, <2>1, ChainTake
  <2> HIDE DEF t
  <2>4. QED
    BY <1>2, <1>3, <2>2, <2>3
<1>8. QED
  BY <1>4, <1>5, <1>6, <1>7 DEF Step, Open, Reopen, Dispose, Clear

\* A step of a worker leaves the other workers where they are.
LEMMA StepFrame ==
  ASSUME TypeOK, NEW p \in Worker, Placed(p), Step(p), NEW q \in Worker \ {p}
  PROVE  /\ pc'[q] = pc[q] /\ cur'[q] = cur[q] /\ call'[q] = call[q] /\ try'[q] = try[q]
         /\ ok'[q] = ok[q] /\ ec'[q] = ec[q] /\ stack'[q] = stack[q] /\ result'[q] = result[q]
<1>1. stack'[q] = stack[q] /\ call'[q] = call[q]
  BY StepStack
<1>2. pc'[q] = pc[q]
  BY DEF TypeOK, Step, Open, Reopen, Opened, Dispose, Clear, Return, Find, NextEntry, Returns, Ends, Goto
<1>3. cur'[q] = cur[q] /\ try'[q] = try[q]
  BY DEF TypeOK, Step, Open, Reopen, Opened, Dispose, Clear, Return, Find, NextEntry
<1>4. ok'[q] = ok[q] /\ ec'[q] = ec[q]
  BY DEF TypeOK, Step, Open, Reopen, Dispose, Clear, Return, Find, NextEntry, Returns
<1>5. result'[q] = result[q]
  BY DEF TypeOK, Step, Open, Reopen, Dispose, Clear, Return, Find, NextEntry, Ends
<1>6. QED
  BY <1>1, <1>2, <1>3, <1>4, <1>5

\* What is deleted was marked, and what is marked is inside the trees.
LEMMA StepInside ==
  ASSUME TypeOK, OutsideKept, pending \subseteq Inside, NEW p \in Worker, Placed(p), Step(p)
  PROVE  OutsideKept' /\ pending' \subseteq Inside
<1>1. CASE UNCHANGED <<exists, pending>>
  BY <1>1 DEF OutsideKept
<1>2. CASE Dispose(p)
  BY <1>2 DEF Dispose, OutsideKept, Placed
<1>3. CASE Return(p)
  BY <1>3 DEF Return, Vanish, OutsideKept
<1>4. QED
  BY <1>1, <1>2, <1>3 DEF Step, Open, Reopen, Clear, Find, NextEntry, fs

\* After its step, a worker is inside the trees.
LEMMA StepPlaced ==
  ASSUME TypeOK, NEW p \in Worker, Placed(p), Step(p)
  PROVE  Placed(p)'
<1>1. Chain(stack'[p], call'[p].node)
  BY StepStack
<1> DEFINE Own == /\ cur[p] \in Inside
                  /\ pc[p] = "find" => cur[p] \in Dirs
                  /\ pc[p] = "return" /\ ~ok[p] /\ ec[p] = "notempty" => cur[p] \in Dirs
                  /\ pc[p] = "clear" => try[p] \in {1, 3}
           Deep == /\ pc[p] = "next" => stack[p] # <<>>
                   /\ pc[p] = "idle" => stack[p] = <<>>
                   /\ pc[p] # "idle" /\ stack[p] = <<>> => cur[p] = call[p].node
<1>2. Own /\ Deep /\ Chain(stack[p], call[p].node)
  BY DEF Placed
<1>3. CASE Open(p) \/ Reopen(p)
  <2>1. OpenError(cur[p], TRUE) # "notempty" /\ OpenError(cur[p], FALSE) # "notempty"
    BY ErrorsTyped
  <2>2. /\ UNCHANGED <<stack, cur, call>>
        /\ \/ pc' = [pc EXCEPT ![p] = "dispose"] \/ pc' = [pc EXCEPT ![p] = "reopen"]
           \/ pc' = [pc EXCEPT ![p] = "return"]
    BY <1>3, Zenon DEF Open, Reopen, Opened, Returns, Goto
  <2>3. pc[p] # "idle" /\ pc'[p] \in {"dispose", "reopen", "return"}
    BY <1>3, <2>2 DEF Open, Reopen, TypeOK
  <2>4. pc'[p] = "return" /\ ~ok'[p] => ec'[p] # "notempty"
    <3>1. \/ pc' = [pc EXCEPT ![p] = "dispose"] \/ pc' = [pc EXCEPT ![p] = "reopen"]
          \/ ok' = [ok EXCEPT ![p] = TRUE]
          \/ ec' = [ec EXCEPT ![p] = OpenError(cur[p], TRUE)] \/ ec' = [ec EXCEPT ![p] = OpenError(cur[p], FALSE)]
      BY <1>3 DEF Open, Reopen, Opened, Returns, Goto
    <3>2. QED
      BY <2>1, <3>1 DEF TypeOK
  <2>5. QED
    BY <1>1, <1>2, <2>2, <2>3, <2>4 DEF Placed
<1>4. CASE Dispose(p)
  <2>1. /\ UNCHANGED <<stack, cur, call>> /\ pc[p] = "dispose"
        /\ \/ pc' = pc \/ pc' = [pc EXCEPT ![p] = "clear"] \/ pc' = [pc EXCEPT ![p] = "return"]
    BY <1>4, Zenon DEF Dispose, Returns, Goto
  <2>2. pc'[p] \in {"dispose", "clear", "return"}
    BY <2>1 DEF TypeOK
  <2>3. pc'[p] = "clear" => try'[p] \in {1, 3}
    BY <1>4 DEF Dispose, After, Returns, Goto, TypeOK
  <2>4. pc'[p] = "return" /\ ~ok'[p] /\ ec'[p] = "notempty" => cur[p] \in Dirs
    <3> SUFFICES ASSUME pc'[p] = "return", ~ok'[p], ec'[p] = "notempty" PROVE cur[p] \in Dirs
      OBVIOUS
    <3>1. "notempty" \in Answers(cur[p], try[p])
      BY <1>4 DEF Dispose, Returns, Goto, TypeOK
    <3>2. Children(cur[p]) # {}
      BY <3>1 DEF Answers
    <3>3. PICK n \in exists : Parent[n] = cur[p]
      BY <3>2 DEF Children
    <3>4. n \in Node /\ cur[p] \in Node
      BY DEF TypeOK
    <3>5. QED
      BY <3>3, <3>4, TreeAssumption
  <2>5. QED
    BY <1>1, <1>2, <2>1, <2>2, <2>3, <2>4 DEF Placed
<1>5. CASE Clear(p)
  BY <1>1, <1>2, <1>5 DEF Clear, Goto, Placed, TypeOK
<1>6. CASE Return(p)
  <2>1. UNCHANGED <<cur, call, ok, ec, try>> /\ pc[p] = "return"
    BY <1>6 DEF Return
  <2>2. \/ Succeeds(p) /\ stack'[p] # <<>> /\ pc'[p] = "next"
        \/ Succeeds(p) /\ stack'[p] = <<>> /\ pc'[p] = "idle"
        \/ ~Succeeds(p) /\ Enters(p) /\ pc'[p] = "find"
        \/ ~Succeeds(p) /\ pc'[p] = "idle"
    BY <1>6 DEF Return, Goto, Ends, TypeOK
  <2>3. ~Succeeds(p) => stack'[p] = <<>>
    BY <1>6 DEF Return, Pop, TypeOK
  <2>4. ~Succeeds(p) /\ Enters(p) => cur[p] = call[p].node /\ cur[p] \in Dirs
    BY <1>2, <2>1 DEF Enters, Succeeds
  <2>5. QED
    BY <1>1, <1>2, <2>1, <2>2, <2>3, <2>4 DEF Placed
<1>7. CASE Find(p)
  <2>1. UNCHANGED <<cur, call, try>> /\ pc[p] = "find"
    BY <1>7 DEF Find
  <2>2. \/ pc'[p] = "next" /\ stack'[p] = Append(stack[p], [dir |-> cur[p], left |-> Listing(cur[p])])
        \/ pc'[p] = "return" /\ UNCHANGED stack
    BY <1>7 DEF Find, Goto, Returns, TypeOK
  <2>3. Append(stack[p], [dir |-> cur[p], left |-> Listing(cur[p])]) # <<>>
    <3> DEFINE f == [dir |-> cur[p], left |-> Listing(cur[p])]
    <3>1. stack[p] \in Seq(Finder)
      BY DEF TypeOK
    <3>2. f \in Finder
      BY <1>2, <2>1, TargetsAssumption DEF Finder, Listing, Children, TypeOK
    <3> HIDE DEF f
    <3>3. Append(stack[p], f) # <<>>
      BY <3>1, <3>2, AppendProperties
    <3>4. QED
      BY <3>3 DEF f
  <2>4. cur[p] \in Dirs
    BY <1>2, <2>1
  <2>5. QED
    BY <1>1, <1>2, <2>1, <2>2, <2>3, <2>4 DEF Placed
<1>8. CASE NextEntry(p)
  <2>1. pc[p] = "next" /\ stack[p] # <<>> /\ stack[p] \in Seq(Finder)
    BY <1>2, <1>8 DEF NextEntry, TypeOK
  <2>2. stack[p][Len(stack[p])].dir \in Inside /\ stack[p][Len(stack[p])].left \subseteq Inside
    BY <1>2, <2>1, ChainPop
  <2>3. /\ cur'[p] \in Inside /\ pc'[p] \in {"find", "open"} /\ (pc'[p] = "find" => cur'[p] \in Dirs)
    BY <1>8, <2>2 DEF NextEntry, Recurses, Goto, TypeOK
  <2>4. stack'[p] # <<>>
    <3>1. CASE UNCHANGED stack
      BY <2>1, <3>1
    <3>2. CASE stack' # stack
      <4> DEFINE t(n) == [stack[p] EXCEPT ![Len(stack[p])] =
                           [stack[p][Len(stack[p])] EXCEPT !.left = stack[p][Len(stack[p])].left \ {n}]]
      <4>1. PICK n : stack' = [stack EXCEPT ![p] = t(n)]
        BY <1>8, <3>2 DEF NextEntry
      <4>2. t(n) # <<>>
        BY <1>2, <2>1, ChainTake
      <4> HIDE DEF t
      <4>3. QED
        BY <4>1, <4>2 DEF TypeOK
    <3>3. QED
      BY <3>1, <3>2
  <2>5. QED
    BY <1>1, <2>3, <2>4 DEF Placed
<1>9. QED
  BY <1>3, <1>4, <1>5, <1>6, <1>7, <1>8 DEF Step

\* A worker that begins a call is inside the trees; the others stay.
LEMMA CallPlaced ==
  ASSUME IInv, NEW p \in Worker, NEW n \in Targets, NEW folders \in BOOLEAN, Call(p, n, folders)
  PROVE  IInv'
<1>1. UNCHANGED <<fs, open, try, stack, ok>>
  BY DEF Call
<1>2. TypeOK'
  <2>1. call' \in [Worker -> [node : Targets, folders : BOOLEAN]]
    BY DEF IInv, TypeOK, Call
  <2>2. n \in Node /\ "none" \in Error
    BY TargetsAssumption DEF Error
  <2>3. ec' \in [Worker -> Error] /\ cur' \in [Worker -> Node]
    BY <2>2 DEF IInv, TypeOK, Call
  <2>4. /\ pc' \in [Worker -> {"idle", "open", "reopen", "dispose", "clear", "return", "find", "next"}]
        /\ result' \in [Worker -> {"none", "ok", "failed"}]
    BY DEF IInv, TypeOK, Call, Goto
  <2>5. QED
    BY <1>1, <2>1, <2>3, <2>4 DEF IInv, TypeOK, fs
<1>3. OutsideKept' /\ pending' \subseteq Inside
  BY <1>1 DEF IInv, OutsideKept, fs
<1>4. Placed(p)'
  <2>1. pc[p] = "idle" /\ pc'[p] = "open" /\ cur'[p] = n /\ call'[p].node = n
    BY DEF IInv, TypeOK, Call, Goto
  <2>2. stack[p] = <<>> /\ stack'[p] = <<>>
    BY <1>1, <2>1 DEF IInv, Placed
  <2>3. Chain(<<>>, n)
    BY EmptySeq DEF Chain
  <2>4. n \in Inside
    BY TargetsAssumption
  <2>5. QED
    BY <2>1, <2>2, <2>3, <2>4 DEF Placed
<1>5. ASSUME NEW q \in Worker \ {p} PROVE Placed(q)'
  <2>1. pc'[q] = pc[q] /\ cur'[q] = cur[q] /\ call'[q] = call[q] /\ ec'[q] = ec[q]
    BY DEF IInv, TypeOK, Call, Goto
  <2>2. Placed(q)
    BY DEF IInv
  <2>3. QED
    BY <1>1, <2>1, <2>2 DEF Placed
<1>6. QED
  BY <1>2, <1>3, <1>4, <1>5 DEF IInv

\* The other process changes neither the trees' outside nor a worker.
LEMMA OthersPlaced ==
  ASSUME IInv, Others
  PROVE  IInv'
<1>1. UNCHANGED <<pc, call, cur, open, try, stack, ok, ec, result>>
  BY DEF Others, Use, Unuse, Create
<1>2. TypeOK'
  <2>1. setting.used \subseteq Node
    BY SettingsAssumption DEF IInv, TypeOK, Setting
  <2>2. other' \in [Node -> {"no", "shares", "locks"}]
    BY <2>1 DEF Others, Use, Unuse, Create, IInv, TypeOK
  <2>3. exists' \subseteq Node /\ pending' \subseteq exists'
    BY SettingsAssumption DEF Others, Use, Unuse, Create, Vanish, IInv, TypeOK
  <2>4. UNCHANGED <<setting, readonly>> /\ late' \subseteq Late
    BY DEF Others, Use, Unuse, Create, IInv, TypeOK
  <2>5. QED
    BY <1>1, <2>2, <2>3, <2>4 DEF IInv, TypeOK
<1>3. OutsideKept' /\ pending' \subseteq Inside
  BY DEF Others, Use, Unuse, Create, Vanish, IInv, OutsideKept
<1>4. \A p \in Worker : Placed(p)'
  BY <1>1 DEF IInv, Placed
<1>5. QED
  BY <1>2, <1>3, <1>4 DEF IInv

\* Every step keeps the invariant.
LEMMA IInvKept == IInv /\ [Next]_vars => IInv'
<1> SUFFICES ASSUME IInv, [Next]_vars PROVE IInv'
  OBVIOUS
<1>1. ASSUME NEW p \in setting.workers, Step(p) PROVE IInv'
  <2>1. p \in Worker /\ TypeOK /\ OutsideKept /\ pending \subseteq Inside /\ Placed(p)
    BY SettingFacts DEF IInv, TypeOK
  <2>2. stack' \in [Worker -> Seq(Finder)]
    BY <1>1, <2>1, StepStack
  <2>3. TypeOK'
    BY <1>1, <2>1, <2>2, TypeKept DEF Step
  <2>4. OutsideKept' /\ pending' \subseteq Inside
    BY <1>1, <2>1, StepInside
  <2>5. Placed(p)'
    BY <1>1, <2>1, StepPlaced
  <2>6. ASSUME NEW q \in Worker \ {p} PROVE Placed(q)'
    BY <1>1, <2>1, StepFrame DEF IInv, Placed
  <2>7. QED
    BY <2>3, <2>4, <2>5, <2>6 DEF IInv
<1>2. ASSUME NEW p \in setting.workers, NEW n \in Targets, NEW folders \in BOOLEAN, Call(p, n, folders)
      PROVE  IInv'
  BY <1>2, CallPlaced, SettingFacts DEF IInv, TypeOK
<1>3. CASE Others
  BY <1>3, OthersPlaced
<1>4. CASE UNCHANGED vars
  BY <1>4 DEF vars, fs, IInv, TypeOK, OutsideKept, Placed, Chain
<1>5. QED
  BY <1>1, <1>2, <1>3, <1>4 DEF Next

\* And the first states have it.
LEMMA IInvInit == Init => IInv
<1> SUFFICES ASSUME Init PROVE IInv
  OBVIOUS
<1>1. TypeOK
  BY TypeInit
<1>2. OutsideKept /\ pending \subseteq Inside
  BY DEF Init, OutsideKept
<1>3. ASSUME NEW p \in Worker PROVE Placed(p)
  <2>1. call[p].node \in Inside
    BY <1>1, TargetsAssumption DEF TypeOK
  <2>2. Chain(<<>>, call[p].node)
    BY EmptySeq DEF Chain
  <2>3. QED
    BY <2>1, <2>2 DEF Init, Placed
<1>4. QED
  BY <1>1, <1>2, <1>3 DEF IInv

\* TypeOK, for any tree and any number of workers.
THEOREM TypeCorrect == Spec => []TypeOK
<1>1. IInv => TypeOK
  BY DEF IInv
<1>2. QED
  BY <1>1, IInvInit, IInvKept, PTL DEF Spec

\* However the workers, the other process and the links in the trees are, a
\* recursive deletion never deletes a name outside its trees.
THEOREM OutsideStays == Spec => []OutsideKept
<1>1. IInv => OutsideKept
  BY DEF IInv
<1>2. QED
  BY <1>1, IInvInit, IInvKept, PTL DEF Spec

-----------------------------------------------------------------------------
\* A path that no one creates anew stays deleted.
LEMMA StaysGone ==
  ASSUME TypeOK, [Next]_vars, NEW n, n \notin Late, ~Remains(n)
  PROVE  ~Remains(n)'
<1>1. CASE Others
  BY <1>1 DEF Others, Use, Unuse, Create, Vanish, Remains, TypeOK
<1>2. ASSUME NEW p \in setting.workers, Dispose(p) PROVE ~Remains(n)'
  BY <1>2 DEF Dispose, Remains
<1>3. ASSUME NEW p \in setting.workers, Return(p) PROVE ~Remains(n)'
  BY <1>3 DEF Return, Vanish, Remains
<1>4. CASE UNCHANGED fs
  BY <1>4 DEF fs, Remains
<1>5. QED
  BY <1>1, <1>2, <1>3, <1>4 DEF Next, Step, Open, Reopen, Clear, Find, NextEntry, Call, vars, fs, Remains

\* With an error_code of its own for each call, a worker's claims are true.
LEMMA StepTruthful ==
  ASSUME TypeOK, Targets \cap Late = {}, NEW p \in Worker, Placed(p), Truthful(p), Step(p), [Next]_vars
  PROVE  Truthful(p)'
<1>1. call'[p] = call[p] /\ call[p].node \in Targets
  BY StepStack DEF TypeOK
<1>2. result[p] = "ok" => ~Remains(call[p].node)'
  BY <1>1, StaysGone DEF Truthful
<1>3. CASE Open(p)
  <2>1. ec[p] \in {"none", "notempty"}
    BY <1>3 DEF Open, Truthful
  <2>2. UNCHANGED <<result, cur>>
    BY <1>3 DEF Open
  <2>3. \/ pc' = [pc EXCEPT ![p] = "dispose"] /\ UNCHANGED ec
        \/ pc' = [pc EXCEPT ![p] = "return"] /\ ok' = [ok EXCEPT ![p] = FALSE]
    BY <1>3, <2>1 DEF Open, Opened, Returns, Goto
  <2>4. QED
    BY <1>1, <1>2, <2>1, <2>2, <2>3 DEF Truthful, TypeOK
<1>4. CASE Reopen(p)
  <2>1. ec[p] \in {"none", "notempty"}
    BY <1>4 DEF Reopen, Truthful
  <2>2. UNCHANGED <<result, cur>>
    BY <1>4 DEF Reopen
  <2>3. \/ pc' = [pc EXCEPT ![p] = "dispose"] /\ UNCHANGED ec
        \/ pc' = [pc EXCEPT ![p] = "return"] /\ ok' = [ok EXCEPT ![p] = FALSE]
    BY <1>4, Zenon DEF Reopen, Opened, Returns, Goto
  <2>4. QED
    BY <1>1, <1>2, <2>1, <2>2, <2>3 DEF Truthful, TypeOK
<1>5. CASE Dispose(p)
  <2>1. ec[p] \in {"none", "notempty"}
    BY <1>5 DEF Dispose, Truthful
  <2>2. UNCHANGED <<result, cur, exists>>
    BY <1>5 DEF Dispose
  <2>3. \/ (UNCHANGED pc \/ pc' = [pc EXCEPT ![p] = "clear"]) /\ UNCHANGED ec
        \/ pc' = [pc EXCEPT ![p] = "return"] /\ ok' = [ok EXCEPT ![p] = FALSE]
        \/ /\ pc' = [pc EXCEPT ![p] = "return"] /\ UNCHANGED ec
           /\ pending' = pending \cup ({cur[p]} \cap exists)
    BY <1>5 DEF Dispose, Returns, Goto
  <2>4. pc[p] = "dispose"
    BY <1>5 DEF Dispose
  <2>5. QED
    BY <1>1, <1>2, <2>1, <2>2, <2>3, <2>4 DEF Truthful, TypeOK, Remains
<1>6. CASE Clear(p)
  BY <1>1, <1>2, <1>6 DEF Clear, Goto, Truthful, TypeOK
<1>7. CASE Return(p)
  <2>1. UNCHANGED <<cur, ok, ec>> /\ pc[p] = "return"
    BY <1>7 DEF Return
  <2>2. ok[p] => ec[p] \in {"none", "notempty"} /\ (cur[p] \notin Late => ~Remains(cur[p])')
    BY <2>1, StaysGone DEF Truthful
  <2>3. \/ ok[p] /\ pc'[p] = "next" /\ UNCHANGED result
        \/ ok[p] /\ stack'[p] = <<>> /\ pc'[p] = "idle"
        \/ ec[p] = "notempty" /\ pc'[p] = "find" /\ UNCHANGED result
        \/ pc'[p] = "idle" /\ result'[p] # "ok"
    BY <1>7 DEF Return, Succeeds, Enters, Goto, Ends, TypeOK
  <2>4. ok[p] /\ stack'[p] = <<>> => cur[p] = call[p].node
    <3> SUFFICES ASSUME ok[p], stack'[p] = <<>>, stack[p] # <<>> PROVE cur[p] = call[p].node
      BY <2>1 DEF Placed
    <3>1. stack'[p] = IF AtFolder(p) THEN SubSeq(stack[p], 1, Len(stack[p]) - 1) ELSE stack[p]
      BY <1>7 DEF Return, Pop, Succeeds, TypeOK
    <3>2. AtFolder(p) /\ SubSeq(stack[p], 1, Len(stack[p]) - 1) = <<>>
      BY <3>1
    <3>3. Chain(stack[p], call[p].node)
      BY DEF Placed
    <3>4. stack[p][Len(stack[p])].dir = call[p].node
      BY <3>2, <3>3, ChainPop
    <3>5. QED
      BY <3>2, <3>4 DEF AtFolder
  <2>5. QED
    BY <1>1, <1>2, <2>1, <2>2, <2>3, <2>4 DEF Truthful, Remains
<1>8. CASE Find(p)
  <2>1. ec[p] \in {"none", "notempty"} /\ UNCHANGED <<result, cur>>
    BY <1>8 DEF Find, Truthful
  <2>2. \/ pc' = [pc EXCEPT ![p] = "next"] /\ UNCHANGED ec
        \/ pc' = [pc EXCEPT ![p] = "return"] /\ ok' = [ok EXCEPT ![p] = FALSE]
    BY <1>8 DEF Find, Returns, Goto
  <2>3. QED
    BY <1>1, <1>2, <2>1, <2>2 DEF Truthful, TypeOK
<1>9. CASE NextEntry(p)
  <2>1. ec[p] \in {"none", "notempty"} /\ UNCHANGED <<result, ec>>
    BY <1>9 DEF NextEntry, Truthful
  <2>2. pc'[p] \in {"find", "open"}
    BY <1>9 DEF NextEntry, Goto, TypeOK
  <2>3. QED
    BY <1>1, <1>2, <2>1, <2>2 DEF Truthful
<1>10. QED
  BY <1>3, <1>4, <1>5, <1>6, <1>7, <1>8, <1>9 DEF Step

\* Every step keeps the claims true, when each call has its own error_code.
LEMMA TInvKept ==
  ASSUME Targets \cap Late = {}
  PROVE  IInv /\ TInv /\ [Next]_vars => TInv'
<1> SUFFICES ASSUME IInv, TInv, [Next]_vars, setting'.fresh, NEW q \in Worker PROVE Truthful(q)'
  BY DEF TInv
<1>1. setting' = setting
  BY DEF Next, Step, Open, Reopen, Dispose, Clear, Return, Find, NextEntry, Call, Others, Use, Unuse, Create, vars, fs
<1>2. TypeOK /\ Truthful(q) /\ setting.fresh /\ call[q].node \in Targets
  BY <1>1 DEF IInv, TInv, TypeOK
<1>3. /\ ~Remains(call[q].node) => call[q].node \notin exists' \ pending'
      /\ cur[q] \notin Late /\ ~Remains(cur[q]) => cur[q] \notin exists' \ pending'
  BY <1>2, StaysGone DEF Remains
<1>4. ASSUME UNCHANGED <<pc, ok, ec, cur, call, result>> PROVE Truthful(q)'
  BY <1>2, <1>3, <1>4 DEF Truthful, Remains
<1>5. ASSUME NEW p \in setting.workers, Step(p) PROVE Truthful(q)'
  <2>1. p \in Worker /\ Placed(p) /\ Truthful(p)
    BY <1>2, SettingFacts DEF IInv, TInv, TypeOK
  <2>2. CASE p = q
    BY <1>2, <1>5, <2>1, <2>2, StepTruthful
  <2>3. CASE p # q
    <3>1. /\ pc'[q] = pc[q] /\ cur'[q] = cur[q] /\ call'[q] = call[q]
          /\ ok'[q] = ok[q] /\ ec'[q] = ec[q] /\ result'[q] = result[q]
      BY <1>2, <1>5, <2>1, <2>3, StepFrame
    <3>2. QED
      BY <1>2, <1>3, <3>1 DEF Truthful, Remains
  <2>4. QED
    BY <2>2, <2>3
<1>6. ASSUME NEW p \in setting.workers, NEW n \in Targets, NEW folders \in BOOLEAN, Call(p, n, folders)
      PROVE  Truthful(q)'
  <2>1. p \in Worker
    BY <1>2, SettingFacts DEF TypeOK
  <2>2. CASE p = q
    BY <1>2, <1>6, <2>1, <2>2 DEF Call, Goto, Truthful, TypeOK
  <2>3. CASE p # q
    <3>1. /\ pc'[q] = pc[q] /\ cur'[q] = cur[q] /\ call'[q] = call[q]
          /\ ok'[q] = ok[q] /\ ec'[q] = ec[q] /\ result'[q] = result[q]
      BY <1>2, <1>6, <2>1, <2>3 DEF Call, Goto, TypeOK
    <3>2. QED
      BY <1>2, <1>3, <3>1 DEF Truthful, Remains
  <2>4. QED
    BY <2>2, <2>3
<1>7. CASE Others
  BY <1>4, <1>7 DEF Others, Use, Unuse, Create
<1>8. CASE UNCHANGED vars
  BY <1>4, <1>8 DEF vars
<1>9. QED
  BY <1>5, <1>6, <1>7, <1>8 DEF Next

\* OkMeansGone, when no one creates the paths that callers delete: whatever
\* the interleaving, a call with an error_code of its own that returned true
\* has left its path deleted, or marked until its last handle is closed.
THEOREM DeletedIsGone ==
  ASSUME Targets \cap Late = {}
  PROVE  Spec => []OkMeansGone
<1>1. Init => TInv
  BY DEF Init, TInv, Truthful
<1>2. TInv => OkMeansGone
  BY DEF TInv, Truthful, OkMeansGone, Remains
<1>3. IInv /\ TInv /\ [Next]_vars => TInv'
  BY TInvKept
<1>4. QED
  BY <1>1, <1>2, <1>3, IInvInit, IInvKept, PTL DEF Spec

-----------------------------------------------------------------------------
\* Every step of a worker leaves its handle as its place says, and the others' alone.
LEMMA StepHolding ==
  ASSUME TypeOK, NEW p \in Worker, Holding(p), Step(p)
  PROVE  Holding(p)' /\ \A q \in Worker \ {p} : open'[q] = open[q]
<1>1. CASE Open(p)
  <2>1. pc[p] = "open" /\ ~open[p]
    BY <1>1 DEF Open, Holding
  <2>2. \/ pc' = [pc EXCEPT ![p] = "dispose"] /\ open' = [open EXCEPT ![p] = TRUE]
        \/ (\E l \in {"return", "reopen"} : pc' = [pc EXCEPT ![p] = l]) /\ UNCHANGED open
    BY <1>1, Zenon DEF Open, Opened, Returns, Goto
  <2>3. QED
    BY <2>1, <2>2 DEF Holding, TypeOK
<1>2. CASE Reopen(p)
  <2>1. pc[p] = "reopen" /\ ~open[p]
    BY <1>2 DEF Reopen, Holding
  <2>2. \/ pc' = [pc EXCEPT ![p] = "dispose"] /\ open' = [open EXCEPT ![p] = TRUE]
        \/ pc' = [pc EXCEPT ![p] = "return"] /\ UNCHANGED open
    BY <1>2, Zenon DEF Reopen, Opened, Returns, Goto
  <2>3. QED
    BY <2>1, <2>2 DEF Holding, TypeOK
<1>3. CASE Dispose(p)
  <2>1. pc[p] = "dispose" /\ open[p] /\ UNCHANGED open
    BY <1>3 DEF Dispose, Holding
  <2>2. UNCHANGED pc \/ \E l \in {"return", "clear"} : pc' = [pc EXCEPT ![p] = l]
    BY <1>3 DEF Dispose, Returns, Goto
  <2>3. QED
    BY <2>1, <2>2 DEF Holding, TypeOK
<1>4. CASE Clear(p)
  BY <1>4 DEF Clear, Goto, Holding, TypeOK
<1>5. CASE Return(p)
  <2>1. open' = [open EXCEPT ![p] = FALSE]
    BY <1>5 DEF Return, Close
  <2>2. \E l \in {"idle", "find", "next"} : pc' = [pc EXCEPT ![p] = l]
    BY <1>5 DEF Return, Ends, Goto
  <2>3. QED
    BY <2>1, <2>2 DEF Holding, TypeOK
<1>6. CASE Find(p)
  <2>1. pc[p] = "find" /\ ~open[p] /\ UNCHANGED open
    BY <1>6 DEF Find, Holding
  <2>2. \E l \in {"return", "next"} : pc' = [pc EXCEPT ![p] = l]
    BY <1>6 DEF Find, Returns, Goto
  <2>3. QED
    BY <2>1, <2>2 DEF Holding, TypeOK
<1>7. CASE NextEntry(p)
  <2>1. pc[p] = "next" /\ ~open[p] /\ UNCHANGED open
    BY <1>7 DEF NextEntry, Holding
  <2>2. \E l \in {"open", "find"} : pc' = [pc EXCEPT ![p] = l]
    BY <1>7 DEF NextEntry, Goto
  <2>3. QED
    BY <2>1, <2>2 DEF Holding, TypeOK
<1>8. QED
  BY <1>1, <1>2, <1>3, <1>4, <1>5, <1>6, <1>7 DEF Step

\* No Finder is given back but by Return.
LEMMA StepFinders ==
  ASSUME TypeOK, NEW p \in Worker, Placed(p), Step(p), ~Return(p), NEW i \in DOMAIN stack[p]
  PROVE  i \in DOMAIN stack'[p] /\ stack'[p][i].dir = stack[p][i].dir
<1>1. stack[p] \in Seq(Finder)
  BY DEF TypeOK
<1>2. CASE UNCHANGED stack
  BY <1>2
<1>3. CASE Find(p) /\ stack' # stack
  <2> DEFINE f == [dir |-> cur[p], left |-> Listing(cur[p])]
  <2>1. stack'[p] = Append(stack[p], f)
    BY <1>3 DEF Find, TypeOK
  <2> HIDE DEF f
  <2>2. \A k \in 1 .. Len(stack[p]) : k \in 1 .. Len(Append(stack[p], f)) /\ Append(stack[p], f)[k] = stack[p][k]
    BY <1>1
  <2>3. i \in 1 .. Len(stack[p]) /\ DOMAIN Append(stack[p], f) = 1 .. Len(Append(stack[p], f))
    BY <1>1
  <2>4. QED
    BY <2>1, <2>2, <2>3
<1>4. CASE NextEntry(p) /\ stack' # stack
  <2> DEFINE g(n) == [stack[p][Len(stack[p])] EXCEPT !.left = stack[p][Len(stack[p])].left \ {n}]
  <2>1. PICK n : stack' = [stack EXCEPT ![p] = [stack[p] EXCEPT ![Len(stack[p])] = g(n)]]
    BY <1>4 DEF NextEntry
  <2>2. stack[p] # <<>>
    BY <1>4 DEF NextEntry, Placed
  <2>3. stack[p][Len(stack[p])] \in Finder
    BY <2>2, ChainPop DEF Placed
  <2>4. g(n).dir = stack[p][Len(stack[p])].dir
    BY <2>3 DEF Finder
  <2> HIDE DEF g
  <2>5. stack'[p] = [stack[p] EXCEPT ![Len(stack[p])] = g(n)]
    BY <2>1 DEF TypeOK
  <2>6. QED
    BY <1>1, <2>4, <2>5
<1>5. QED
  BY <1>2, <1>3, <1>4 DEF Step, Open, Reopen, Dispose, Clear

\* Whoever holds a node goes on to, in any step of p but Return.
LEMMA StepHandles ==
  ASSUME TypeOK, NEW p \in Worker, Placed(p), Holding(p), Step(p), ~Return(p),
         NEW n, HandlesOn(n, open, stack, other)
  PROVE  HandlesOn(n, open, stack, other)'
<1>1. /\ Holding(p)' /\ other' = other
      /\ \A q \in Worker \ {p} : open'[q] = open[q] /\ cur'[q] = cur[q] /\ stack'[q] = stack[q]
  BY StepHolding, StepFrame DEF Step, Open, Reopen, Dispose, Clear, Find, NextEntry, fs
<1>2. open[p] => open'[p] /\ cur'[p] = cur[p]
  <2>1. CASE NextEntry(p)
    BY <2>1 DEF NextEntry, Holding
  <2>2. CASE Find(p) \/ Dispose(p) \/ Clear(p)
    BY <2>2 DEF Find, Dispose, Clear
  <2>3. CASE Open(p) \/ Reopen(p)
    BY <2>3 DEF Open, Reopen, Holding
  <2>4. QED
    BY <2>1, <2>2, <2>3 DEF Step
<1>3. CASE other[n] # "no"
  BY <1>1, <1>3 DEF HandlesOn
<1>4. ASSUME NEW q \in Worker, open[q], cur[q] = n PROVE HandlesOn(n, open, stack, other)'
  BY <1>1, <1>2, <1>4 DEF HandlesOn
<1>5. ASSUME NEW q \in Worker, NEW i \in DOMAIN stack[q], stack[q][i].dir = n
      PROVE  HandlesOn(n, open, stack, other)'
  <2>1. i \in DOMAIN stack'[q] /\ stack'[q][i].dir = n
    BY <1>1, <1>5, StepFinders
  <2>2. QED
    BY <2>1 DEF HandlesOn
<1>6. QED
  BY <1>3, <1>4, <1>5 DEF HandlesOn

\* What is marked stays held in every step of a worker.
LEMMA StepHeld ==
  ASSUME TypeOK, NEW p \in Worker, Placed(p), Holding(p), Step(p),
         \A m \in pending : HandlesOn(m, open, stack, other)
  PROVE  (\A m \in pending : HandlesOn(m, open, stack, other))'
<1>1. CASE Return(p)
  <2>1. pending' = pending \ {n \in pending : ~HandlesOn(n, open', stack', other)
                                              \/ (open[p] /\ ok[p] /\ AsksPosix(try[p]) /\ n = cur[p])}
    BY <1>1 DEF Return, Vanish
  <2>2. UNCHANGED <<cur, other>>
    BY <1>1 DEF Return
  <2>3. ASSUME NEW m \in pending' PROVE HandlesOn(m, open', stack', other)
    BY <2>1, <2>3
  <2>4. QED
    BY <2>2, <2>3 DEF HandlesOn
<1>2. CASE Dispose(p)
  <2>1. open[p] /\ pending' \subseteq pending \cup {cur[p]}
    BY <1>2 DEF Dispose, Holding
  <2>2. HandlesOn(cur[p], open, stack, other)
    BY <2>1 DEF HandlesOn
  <2>3. ~Return(p)
    BY <1>2 DEF Dispose, Return
  <2>4. QED
    BY <2>1, <2>2, <2>3, StepHandles
<1>3. CASE ~Return(p) /\ UNCHANGED pending
  BY <1>3, StepHandles
<1>4. QED
  BY <1>1, <1>2, <1>3 DEF Step, Open, Reopen, Clear, Find, NextEntry, Return, fs

\* Every step keeps what is marked held.
LEMMA HInvKept == IInv /\ HInv /\ [Next]_vars => HInv'
<1> SUFFICES ASSUME IInv, HInv, [Next]_vars PROVE HInv'
  OBVIOUS
<1>1. ASSUME NEW p \in setting.workers, Step(p) PROVE HInv'
  <2>1. p \in Worker /\ TypeOK /\ Placed(p) /\ Holding(p)
    BY SettingFacts DEF IInv, HInv, TypeOK
  <2>2. (\A m \in pending : HandlesOn(m, open, stack, other))'
    BY <1>1, <2>1, StepHeld DEF HInv
  <2>3. ASSUME NEW q \in Worker PROVE Holding(q)'
    <3>1. CASE p = q
      BY <1>1, <2>1, <3>1, StepHolding
    <3>2. CASE p # q
      <4>1. pc'[q] = pc[q] /\ open'[q] = open[q]
        BY <1>1, <2>1, <3>2, StepHolding, StepFrame
      <4>2. QED
        BY <4>1 DEF HInv, Holding
    <3>3. QED
      BY <3>1, <3>2
  <2>4. QED
    BY <2>2, <2>3 DEF HInv
<1>2. ASSUME NEW p \in setting.workers, NEW n \in Targets, NEW folders \in BOOLEAN, Call(p, n, folders)
      PROVE  HInv'
  <2>1. p \in Worker /\ pc[p] = "idle" /\ ~open[p] /\ UNCHANGED <<fs, open, stack>>
    BY <1>2, SettingFacts DEF IInv, HInv, Holding, TypeOK, Call
  <2>2. \A q \in Worker : (q # p => pc'[q] = pc[q] /\ cur'[q] = cur[q]) /\ (q = p => pc'[q] = "open")
    BY <1>2, <2>1 DEF Call, Goto, IInv, TypeOK
  <2>3. ASSUME NEW q \in Worker PROVE Holding(q)'
    BY <2>1, <2>2 DEF Holding, HInv
  <2>4. ASSUME NEW m \in pending' PROVE HandlesOn(m, open, stack, other)'
    <3>1. HandlesOn(m, open, stack, other)
      BY <2>1, <2>4 DEF HInv, fs
    <3>2. QED
      BY <2>1, <2>2, <3>1 DEF HandlesOn, fs
  <2>5. QED
    BY <2>3, <2>4 DEF HInv
<1>3. CASE Others
  <2>1. UNCHANGED <<pc, cur, open, stack>>
    BY <1>3 DEF Others, Use, Unuse, Create
  <2>2. ASSUME NEW m \in pending' PROVE HandlesOn(m, open, stack, other')
    <3>1. ASSUME NEW n, Unuse(n) PROVE HandlesOn(m, open, stack, other')
      BY <2>2, <3>1 DEF Unuse, Vanish
    <3>2. ASSUME NEW n, NEW how \in {"shares", "locks"}, Use(n, how) PROVE HandlesOn(m, open, stack, other')
      <4>1. m \in pending /\ other[n] = "no" /\ n \in Node
        BY <2>2, <3>2 DEF Use, IInv, TypeOK
      <4>2. other[m] # "no" => other'[m] = other[m]
        BY <3>2, <4>1 DEF Use, IInv, TypeOK
      <4>3. QED
        BY <4>1, <4>2 DEF HInv, HandlesOn
    <3>3. ASSUME NEW n, Create(n) PROVE HandlesOn(m, open, stack, other')
      BY <2>2, <3>3 DEF Create, HInv
    <3>4. QED
      BY <1>3, <3>1, <3>2, <3>3 DEF Others
  <2>3. QED
    BY <2>1, <2>2 DEF HInv, HandlesOn, Holding
<1>4. CASE UNCHANGED vars
  BY <1>4 DEF vars, fs, HInv, Holding, HandlesOn
<1>5. QED
  BY <1>1, <1>2, <1>3, <1>4 DEF Next

\* However calls interleave and fail, no handle and no Finder is forgotten: what was
\* marked for deletion has vanished when no call runs and no one else has it open.
THEOREM NothingForgotten == Spec => []MarkedIsGone
<1>1. Init => HInv
  BY DEF Init, HInv, Holding
<1>2. IInv /\ HInv => MarkedIsGone
  <2> SUFFICES ASSUME IInv, HInv, \A p \in Worker : pc[p] = "idle", \A n \in Node : other[n] = "no",
                      NEW m \in pending
               PROVE  FALSE
    BY DEF MarkedIsGone
  <2>1. HandlesOn(m, open, stack, other) /\ m \in Node
    BY DEF HInv, IInv, TypeOK
  <2>2. \A p \in Worker : ~open[p] /\ stack[p] = <<>>
    BY DEF HInv, Holding, IInv, Placed
  <2>3. DOMAIN <<>> = {}
    OBVIOUS
  <2>4. QED
    BY <2>1, <2>2, <2>3 DEF HandlesOn
<1>3. QED
  BY <1>1, <1>2, HInvKept, IInvInit, IInvKept, PTL DEF Spec

-----------------------------------------------------------------------------
\* What is in folder d, of what is there.
Within(d, there) == {n \in there : Parent[n] = d}

\* Finders, outermost first: their folders are there, what is left of each is in
\* it, and all else that is in it is the next folder.
Nested(s, there) ==
  /\ \A i \in 1 .. Len(s) : s[i].dir \in there /\ s[i].left \subseteq Within(s[i].dir, there)
  /\ \A i \in 1 .. Len(s) - 1 :
       /\ Parent[s[i + 1].dir] = s[i].dir /\ s[i + 1].dir \notin s[i].left
       /\ Within(s[i].dir, there) \subseteq s[i].left \cup {s[i + 1].dir}

\* n is all that is taken of the innermost folder and still there, or n is that
\* folder, which is empty.
AtEntry(n, s, there) ==
  /\ Parent[n] = s[Len(s)].dir /\ n \notin s[Len(s)].left
  /\ Within(s[Len(s)].dir, there) \subseteq s[Len(s)].left \cup {n}
AtEnd(n, s, there) == n = s[Len(s)].dir /\ Within(n, there) = {}

\* Where such a worker is, with no path but its own marked; and it has come back
\* without success only for a path that is not there or from ForceDeleteFile for
\* a folder that is not empty.
Deep(p) ==
  IF pc[p] = "next" THEN Within(stack[p][Len(stack[p])].dir, exists) \subseteq stack[p][Len(stack[p])].left
  ELSE /\ cur[p] \in exists
       /\ \/ AtEntry(cur[p], stack[p], exists) /\ (pc[p] = "find" <=> cur[p] \in Dirs)
          \/ AtEnd(cur[p], stack[p], exists) /\ pc[p] # "find"
Alone(p) ==
  /\ Nested(stack[p], exists) /\ (stack[p] # <<>> => Deep(p))
  /\ pc[p] # "reopen"
  /\ pc[p] # "idle" /\ (pc[p] = "return" => ok[p]) => ec[p] \in {"none", "notempty"}
  /\ pc[p] \in {"dispose", "clear", "find"} => cur[p] \in exists
  /\ pc[p] = "dispose" /\ try[p] \in {2, 4} => cur[p] \notin readonly
  /\ pc[p] = "return" /\ ok[p] =>
       open[p] /\ cur[p] \in exists /\ Within(cur[p], exists) = {} /\ pending = {cur[p]}
  /\ pc[p] = "return" /\ ~ok[p] => stack[p] = <<>> /\ (ec[p] = "notempty" <=> cur[p] \in exists)
  /\ ~(pc[p] = "return" /\ ok[p]) => pending = {}
  /\ result[p] # "none" => pc[p] = "idle"
  /\ result[p] = "failed" => call[p].node \notin exists \/ (ec[p] = "notempty" /\ ~call[p].folders)

AInv ==
  Undisturbed =>
    /\ late = {} /\ \A n \in Node : other[n] = "no"
    /\ \A p \in Worker : IF p \in setting.workers THEN Alone(p) ELSE pc[p] = "idle" /\ result[p] = "none"

-----------------------------------------------------------------------------
\* No two Finders are of one folder, as no folder is in itself.
LEMMA FoldersDiffer ==
  ASSUME NEW s \in Seq(Finder), NEW there, Nested(s, there),
         NEW i \in 1 .. Len(s), NEW j \in 1 .. Len(s), i < j
  PROVE  s[i].dir # s[j].dir
<1> SUFFICES ASSUME s[i].dir = s[j].dir PROVE FALSE
  OBVIOUS
<1> DEFINE S == {s[k].dir : k \in i + 1 .. j}
<1>1. Len(s) \in Nat /\ i \in Nat /\ j \in Nat
  BY LenProperties
<1>2. ASSUME NEW k \in i + 1 .. j
      PROVE  k \in 1 .. Len(s) /\ k - 1 \in 1 .. Len(s) - 1 /\ k - 1 + 1 = k /\ (k = i + 1 => k - 1 = i)
             /\ (k # i + 1 => k - 1 \in i + 1 .. j)
  BY <1>1
<1>3. S \in SUBSET Node
  <2>1. ASSUME NEW k \in i + 1 .. j PROVE s[k].dir \in Node
    <3>1. s[k] \in Finder
      BY <1>2, ElementOfSeq
    <3>2. QED
      BY <3>1, TreeAssumption DEF Finder
  <2>2. QED
    BY <2>1
<1>4. s[j].dir \in S
  BY <1>1
<1>5. PICK n \in S : Parent[n] \notin S
  BY <1>3, <1>4, AcyclicAssumption
<1>6. PICK k \in i + 1 .. j : n = s[k].dir
  BY <1>5
<1>7. Parent[n] = s[k - 1].dir
  BY <1>2, <1>6 DEF Nested
<1>8. CASE k = i + 1
  BY <1>2, <1>4, <1>5, <1>7, <1>8
<1>9. CASE k # i + 1
  <2>1. s[k - 1].dir \in S
    BY <1>2, <1>9
  <2>2. QED
    BY <1>5, <1>7, <2>1
<1>10. QED
  BY <1>8, <1>9

\* A sequence without its last element.
LEMMA FrontOf ==
  ASSUME NEW s \in Seq(Finder), Len(s) # 0
  PROVE  LET u == SubSeq(s, 1, Len(s) - 1)
         IN  u \in Seq(Finder) /\ Len(u) = Len(s) - 1 /\ \A i \in 1 .. Len(s) - 1 : u[i] = s[i]
<1> DEFINE u == SubSeq(s, 1, Len(s) - 1)
<1>1. Len(s) \in Nat
  BY LenProperties
<1>2. \A i \in 1 .. Len(s) - 1 : s[i] \in Finder /\ i \in 1 .. Len(s)
  BY <1>1, ElementOfSeq
<1>3. 1 \in Int /\ Len(s) - 1 \in Int
  BY <1>1
<1>4. /\ u \in Seq(Finder)
      /\ Len(u) = IF 1 <= Len(s) - 1 THEN Len(s) - 1 - 1 + 1 ELSE 0
      /\ \A i \in 1 .. Len(s) - 1 - 1 + 1 : u[i] = s[1 + i - 1]
  BY <1>2, <1>3, SubSeqProperties
<1> HIDE DEF u
<1>5. Len(s) - 1 - 1 + 1 = Len(s) - 1 /\ (IF 1 <= Len(s) - 1 THEN Len(s) - 1 - 1 + 1 ELSE 0) = Len(s) - 1
  <2>1. \A k \in Nat \ {0} : k - 1 - 1 + 1 = k - 1 /\ (~ 1 <= k - 1 => k - 1 = 0)
    OBVIOUS
  <2>2. QED
    BY <1>1, <2>1, Zenon
<1>6. \A i \in 1 .. Len(s) - 1 : 1 + i - 1 = i
  OBVIOUS
<1>7. Len(u) = Len(s) - 1
  BY <1>4, <1>5, Zenon
<1>8. \A i \in 1 .. Len(s) - 1 : u[i] = s[i]
  BY <1>4, <1>5, <1>6, Zenon
<1>9. QED
  BY <1>4, <1>7, <1>8 DEF u

\* What is deleted is none of the folders and not left in one.
LEMMA NestedWithout ==
  ASSUME NEW s, NEW there, Nested(s, there), NEW n,
         \A i \in 1 .. Len(s) : s[i].dir # n /\ n \notin s[i].left
  PROVE  Nested(s, there \ {n})
BY DEF Nested, Within

\* The innermost Finder is given back, or goes on to the next entry, when n is deleted.
LEMMA NestedAscend ==
  ASSUME NEW s \in Seq(Finder), s # <<>>, NEW there, Nested(s, there), NEW n \in Node,
         (AtEntry(n, s, there) /\ n \notin Dirs) \/ AtEnd(n, s, there),
         NEW t, t = IF n = s[Len(s)].dir THEN SubSeq(s, 1, Len(s) - 1) ELSE s
  PROVE  /\ \A i \in 1 .. Len(t) : t[i].dir # n
         /\ Nested(t, there \ {n})
         /\ t # <<>> => Within(t[Len(t)].dir, there \ {n}) \subseteq t[Len(t)].left
<1>1. Len(s) \in Nat /\ Len(s) \in 1 .. Len(s) /\ Len(s) # 0
  BY LenProperties, EmptySeq
<1>2. \A i \in 1 .. Len(s) : s[i] \in Finder /\ s[i].dir \in Dirs /\ s[i].left \subseteq Within(s[i].dir, there)
  <2>1. \A i \in 1 .. Len(s) : s[i] \in Finder
    BY ElementOfSeq
  <2>2. QED
    BY <2>1 DEF Finder, Nested
<1>3. \A i \in 1 .. Len(s) - 1 : i \in 1 .. Len(s) /\ i + 1 \in 1 .. Len(s) /\ i < Len(s) /\ (i + 1 # Len(s) => i + 1 < Len(s))
  BY <1>1
<1>4. CASE AtEntry(n, s, there) /\ n \notin Dirs
  <2>1. t = s
    BY <1>1, <1>2, <1>4
  <2>2. ASSUME NEW i \in 1 .. Len(s) PROVE s[i].dir # n /\ n \notin s[i].left
    <3>1. CASE i = Len(s)
      BY <1>2, <1>4, <3>1 DEF AtEntry
    <3>2. CASE i # Len(s)
      <4>1. i < Len(s)
        BY <1>1, <3>2
      <4>2. s[i].dir # s[Len(s)].dir
        BY <1>1, <4>1, FoldersDiffer
      <4>3. QED
        BY <1>2, <1>4, <4>2 DEF AtEntry, Within
    <3>3. QED
      BY <3>1, <3>2
  <2>3. Within(s[Len(s)].dir, there \ {n}) \subseteq s[Len(s)].left
    BY <1>4 DEF AtEntry, Within
  <2>4. QED
    BY <2>1, <2>2, <2>3, NestedWithout
<1>5. CASE AtEnd(n, s, there)
  <2> DEFINE u == SubSeq(s, 1, Len(s) - 1)
  <2>1. u \in Seq(Finder) /\ Len(u) = Len(s) - 1 /\ \A i \in 1 .. Len(s) - 1 : u[i] = s[i]
    BY <1>1, <1>2, FrontOf
  <2>2. t = u /\ n = s[Len(s)].dir
    BY <1>5 DEF AtEnd
  <2> HIDE DEF u
  <2>3. Nested(u, there)
    <3>1. \A i \in 1 .. Len(u) - 1 : i \in 1 .. Len(s) - 1 /\ i + 1 \in 1 .. Len(s) - 1
      BY <1>1, <2>1
    <3>2. QED
      BY <1>3, <2>1, <3>1 DEF Nested
  <2>4. ASSUME NEW i \in 1 .. Len(u) PROVE u[i].dir # n /\ n \notin u[i].left
    <3>1. i \in 1 .. Len(s) - 1 /\ i \in 1 .. Len(s) /\ i < Len(s) /\ u[i] = s[i]
      BY <1>3, <2>1
    <3>2. s[i].dir # n
      BY <1>1, <2>2, <3>1, FoldersDiffer
    <3>3. n \notin s[i].left
      <4>1. CASE i + 1 = Len(s)
        BY <2>2, <3>1, <4>1 DEF Nested
      <4>2. CASE i + 1 # Len(s)
        <5> DEFINE k == Len(s) - 1
        <5>1. k \in 1 .. Len(s) - 1 /\ k + 1 = Len(s) /\ i < k /\ k \in 1 .. Len(s)
          BY <1>1, <3>1, <4>2
        <5> HIDE DEF k
        <5>2. Parent[n] = s[k].dir
          BY <2>2, <5>1 DEF Nested
        <5>3. s[i].dir # s[k].dir
          BY <3>1, <5>1, FoldersDiffer
        <5>4. QED
          BY <1>2, <3>1, <5>2, <5>3 DEF Within
      <4>3. QED
        BY <4>1, <4>2
    <3>4. QED
      BY <3>1, <3>2, <3>3
  <2>5. u # <<>> => Within(u[Len(u)].dir, there \ {n}) \subseteq u[Len(u)].left
    <3> SUFFICES ASSUME u # <<>> PROVE Within(u[Len(u)].dir, there \ {n}) \subseteq u[Len(u)].left
      OBVIOUS
    <3>1. Len(u) \in 1 .. Len(s) - 1 /\ Len(u) + 1 = Len(s) /\ u[Len(u)] = s[Len(u)]
      BY <1>1, <2>1, EmptySeq
    <3>2. Within(s[Len(u)].dir, there) \subseteq s[Len(u)].left \cup {n}
      BY <2>2, <3>1 DEF Nested
    <3>3. QED
      BY <3>1, <3>2 DEF Within
  <2>6. QED
    BY <2>2, <2>3, <2>4, <2>5, NestedWithout
<1>6. QED
  BY <1>4, <1>5

\* Into a folder, of which all is left.
LEMMA NestedPush ==
  ASSUME NEW s \in Seq(Finder), NEW there, Nested(s, there), NEW n \in there \cap Dirs, there \subseteq Node,
         s # <<>> => AtEntry(n, s, there),
         NEW f, f = [dir |-> n, left |-> Within(n, there)],
         NEW t, t = Append(s, f)
  PROVE  Nested(t, there) /\ Within(t[Len(t)].dir, there) \subseteq t[Len(t)].left
<1>1. f \in Finder /\ f.dir = n /\ f.left = Within(n, there)
  BY DEF Finder, Within
<1>2. /\ Len(s) \in Nat /\ Len(t) = Len(s) + 1 /\ t[Len(s) + 1] = f
      /\ \A i \in 1 .. Len(s) : t[i] = s[i]
  BY <1>1, AppendProperties, LenProperties
<1>3. ASSUME NEW i \in 1 .. Len(t) PROVE t[i].dir \in there /\ t[i].left \subseteq Within(t[i].dir, there)
  <2>1. CASE i = Len(s) + 1
    BY <1>1, <1>2, <2>1
  <2>2. CASE i # Len(s) + 1
    <3>1. i \in 1 .. Len(s)
      BY <1>2, <2>2
    <3>2. QED
      BY <1>2, <3>1 DEF Nested
  <2>3. QED
    BY <2>1, <2>2
<1>4. ASSUME NEW i \in 1 .. Len(t) - 1
      PROVE  /\ Parent[t[i + 1].dir] = t[i].dir /\ t[i + 1].dir \notin t[i].left
             /\ Within(t[i].dir, there) \subseteq t[i].left \cup {t[i + 1].dir}
  <2>1. i \in 1 .. Len(s) /\ t[i] = s[i]
    BY <1>2
  <2>2. CASE i = Len(s)
    <3>1. s # <<>>
      BY <2>1, EmptySeq
    <3>2. AtEntry(n, s, there) /\ t[i + 1].dir = n
      BY <1>1, <1>2, <2>2, <3>1
    <3>3. QED
      BY <2>1, <2>2, <3>2 DEF AtEntry
  <2>3. CASE i # Len(s)
    <3>1. i \in 1 .. Len(s) - 1 /\ i + 1 \in 1 .. Len(s)
      BY <1>2, <2>1, <2>3
    <3>2. QED
      BY <1>2, <2>1, <3>1 DEF Nested
  <2>4. QED
    BY <2>2, <2>3
<1>5. QED
  BY <1>1, <1>2, <1>3, <1>4 DEF Nested

\* The next entry is taken.
LEMMA NestedTake ==
  ASSUME NEW s \in Seq(Finder), s # <<>>, NEW there, Nested(s, there), NEW n \in s[Len(s)].left,
         Within(s[Len(s)].dir, there) \subseteq s[Len(s)].left,
         NEW f, f = [s[Len(s)] EXCEPT !.left = s[Len(s)].left \ {n}],
         NEW t, t = [s EXCEPT ![Len(s)] = f]
  PROVE  Nested(t, there) /\ n \in there /\ AtEntry(n, t, there)
<1>1. Len(s) \in Nat /\ Len(s) \in 1 .. Len(s) /\ s[Len(s)] \in Finder
  BY LenProperties, EmptySeq, ElementOfSeq
<1>2. f \in Finder /\ f.dir = s[Len(s)].dir /\ f.left = s[Len(s)].left \ {n}
  BY <1>1 DEF Finder
<1>3. Len(t) = Len(s) /\ \A i \in 1 .. Len(s) : t[i] = IF i = Len(s) THEN f ELSE s[i]
  BY <1>1, <1>2, ExceptSeq
<1>4. \A i \in 1 .. Len(s) : t[i].dir = s[i].dir /\ t[i].left \subseteq s[i].left
  BY <1>2, <1>3
<1>5. \A i \in 1 .. Len(s) - 1 : t[i] = s[i] /\ i \in 1 .. Len(s) /\ i + 1 \in 1 .. Len(s)
  BY <1>1, <1>3
<1>6. Nested(t, there)
  <2>1. \A i \in 1 .. Len(t) : t[i].dir \in there /\ t[i].left \subseteq Within(t[i].dir, there)
    BY <1>3, <1>4 DEF Nested
  <2>2. ASSUME NEW i \in 1 .. Len(t) - 1
        PROVE  /\ Parent[t[i + 1].dir] = t[i].dir /\ t[i + 1].dir \notin t[i].left
               /\ Within(t[i].dir, there) \subseteq t[i].left \cup {t[i + 1].dir}
    <3>1. i \in 1 .. Len(s) - 1
      BY <1>3
    <3>2. QED
      BY <1>4, <1>5, <3>1 DEF Nested
  <2>3. QED
    BY <2>1, <2>2 DEF Nested
<1>7. n \in Within(s[Len(s)].dir, there)
  BY <1>1 DEF Nested
<1>8. t[Len(t)] = f
  BY <1>1, <1>3
<1>9. QED
  BY <1>2, <1>6, <1>7, <1>8 DEF AtEntry, Within

\* Worker p, and what it may rely on when nothing disturbs it.
Solo(p) ==
  /\ TypeOK /\ Placed(p) /\ Holding(p) /\ Alone(p)
  /\ setting.fresh /\ setting.denied = {} /\ \A n \in Node : other[n] = "no"
  /\ \A q \in Worker \ {p} : ~open[q] /\ stack[q] = <<>>

\* What is not a folder has nothing in it.
LEMMA OnlyFoldersHold ==
  ASSUME NEW n \in Node, n \notin Dirs, NEW there, there \subseteq Node
  PROVE  Within(n, there) = {}
BY TreeAssumption DEF Within

\* Before it is about to return success, it has marked nothing and its last call has
\* not ended, and its Finders are as its place says.
LEMMA SoloFacts ==
  ASSUME NEW p \in Worker, Solo(p), pc[p] # "idle"
  PROVE  /\ cur[p] \in Node /\ stack[p] \in Seq(Finder) /\ exists \subseteq Node /\ result[p] = "none"
         /\ ~(pc[p] = "return" /\ ok[p]) => pending = {}
         /\ (pc[p] = "return" => ok[p]) => ec[p] \in {"none", "notempty"}
         /\ Nested(stack[p], exists) /\ (stack[p] # <<>> => Deep(p))
BY DEF Solo, TypeOK, Alone

\* The path is there and can be opened, or the file is not in a folder that it read.
LEMMA OpenAlone ==
  ASSUME NEW p \in Worker, Solo(p), Open(p)
  PROVE  Alone(p)'
<1>1. /\ pc[p] = "open" /\ UNCHANGED <<exists, pending, readonly, cur, call, stack, result>>
      /\ ec[p] \in {"none", "notempty"} /\ pending = {} /\ setting.denied = {} /\ other[cur[p]] = "no"
  BY SoloFacts DEF Open, fs, Solo, Alone
<1>2. OpenError(cur[p], TRUE) = "none" <=> cur[p] \in exists
  BY <1>1 DEF OpenError
<1>3. OpenError(cur[p], TRUE) # "notempty"
  BY ErrorsTyped
<1>4. CASE cur[p] \in exists
  <2>1. pc'[p] = "dispose" /\ try'[p] = 1 /\ ec' = ec
    BY <1>2, <1>4 DEF Open, Opened, Goto, Solo, TypeOK
  <2>2. stack[p] # <<>> => Deep(p)'
    BY <1>1, <2>1, SoloFacts DEF Deep
  <2>3. QED
    BY <1>1, <1>4, <2>1, <2>2, SoloFacts DEF Alone
<1>5. CASE cur[p] \notin exists
  <2>1. pc'[p] = "return" /\ ok'[p] = FALSE /\ ec'[p] # "notempty"
    <3>1. Returns(p, FALSE, OpenError(cur[p], TRUE))
      BY <1>1, <1>2, <1>5 DEF Open
    <3>2. QED
      BY <1>3, <3>1 DEF Returns, Goto, Solo, TypeOK
  <2>2. stack[p] = <<>>
    BY <1>1, <1>5, SoloFacts DEF Deep
  <2>3. QED
    BY <1>1, <1>5, <2>1, <2>2, SoloFacts DEF Alone, Nested
<1>6. QED
  BY <1>4, <1>5

\* The deletion is refused for an attribute not yet cleared, for a class that the file
\* system does not know, or to ForceDeleteFile for a folder that is not empty.
LEMMA DisposeAlone ==
  ASSUME NEW p \in Worker, Solo(p), Dispose(p)
  PROVE  Alone(p)'
<1>1. /\ pc[p] = "dispose" /\ UNCHANGED <<exists, readonly, cur, call, stack, open, result>>
      /\ pending = {} /\ cur[p] \in exists /\ cur[p] \in Node /\ open[p]
      /\ (try[p] \in {2, 4} => cur[p] \notin readonly) /\ ec[p] \in {"none", "notempty"}
  BY SoloFacts DEF Dispose, Solo, Alone, Holding
<1>2. Within(cur[p], exists) = Children(cur[p])
  BY DEF Within, Children
<1>3. stack[p] # <<>> => Children(cur[p]) = {}
  <2>1. exists \subseteq Node /\ (stack[p] # <<>> => cur[p] \notin Dirs \/ Within(cur[p], exists) = {})
    BY <1>1, SoloFacts DEF Deep, AtEnd
  <2>2. QED
    BY <1>1, <1>2, <2>1, OnlyFoldersHold
<1>4. try[p] \in 1 .. 4
  BY DEF Solo, TypeOK
<1>5. PICK answer \in Answers(cur[p], try[p]) :
        \/ answer = "none" /\ Returns(p, TRUE, answer) /\ pending' = pending \cup ({cur[p]} \cap exists)
        \/ /\ answer # "none" /\ After(try[p], answer) = "fallback"
           /\ try' = [try EXCEPT ![p] = 3] /\ UNCHANGED <<pc, ok, ec, pending>>
        \/ answer # "none" /\ After(try[p], answer) = "clear" /\ Goto(p, "clear") /\ UNCHANGED <<ec, pending>>
        \/ answer # "none" /\ After(try[p], answer) = "fails" /\ Returns(p, FALSE, answer) /\ UNCHANGED pending
  BY Zenon DEF Dispose
<1>6. \/ answer = "unsupported" /\ AsksPosix(try[p])
      \/ answer = "denied" /\ try[p] \in {1, 3}
      \/ answer = "notempty" /\ Children(cur[p]) # {}
      \/ answer = "none" /\ Children(cur[p]) = {}
  BY <1>1, <1>4, <1>5 DEF Answers
<1>7. stack[p] # <<>> => (pc'[p] \notin {"next", "find"} => Deep(p)')
  BY <1>1, SoloFacts DEF Deep
<1>8. CASE answer = "unsupported" /\ AsksPosix(try[p])
  <2>1. try'[p] = 3 /\ pc'[p] = "dispose" /\ pending' = {} /\ ec' = ec
    BY <1>1, <1>5, <1>8 DEF After, Solo, TypeOK
  <2>2. QED
    BY <1>1, <1>7, <2>1, SoloFacts DEF Alone
<1>9. CASE answer = "denied" /\ try[p] \in {1, 3}
  <2>1. pc'[p] = "clear" /\ pending' = {} /\ ec' = ec
    BY <1>1, <1>5, <1>9 DEF After, Goto, Solo, TypeOK
  <2>2. QED
    BY <1>1, <1>7, <2>1, SoloFacts DEF Alone
<1>10. CASE answer = "notempty" /\ Children(cur[p]) # {}
  <2>1. pc'[p] = "return" /\ ok'[p] = FALSE /\ ec'[p] = "notempty" /\ pending' = {}
    BY <1>1, <1>5, <1>10 DEF After, Returns, Goto, Solo, TypeOK
  <2>2. QED
    BY <1>1, <1>3, <1>7, <1>10, <2>1, SoloFacts DEF Alone
<1>11. CASE answer = "none" /\ Children(cur[p]) = {}
  <2>1. pc'[p] = "return" /\ ok'[p] = TRUE /\ pending' = {cur[p]} /\ ec' = ec
    BY <1>1, <1>5, <1>11 DEF Returns, Goto, Solo, TypeOK
  <2>2. QED
    BY <1>1, <1>2, <1>7, <1>11, <2>1, SoloFacts DEF Alone, Within
<1>12. QED
  BY <1>6, <1>8, <1>9, <1>10, <1>11

\* The attribute is cleared before the second attempt of a class.
LEMMA ClearAlone ==
  ASSUME NEW p \in Worker, Solo(p), Clear(p)
  PROVE  Alone(p)'
<1>1. /\ pc[p] = "clear" /\ pc'[p] = "dispose" /\ UNCHANGED <<exists, pending, cur, call, stack, open, ec, result>>
      /\ cur[p] \notin readonly' /\ cur[p] \in exists
  BY DEF Clear, Goto, Solo, Alone, TypeOK
<1>2. stack[p] # <<>> => Deep(p)'
  BY <1>1, SoloFacts DEF Deep
<1>3. QED
  BY <1>1, <1>2, SoloFacts DEF Alone

\* What was marked goes with the handle, as no Finder is of it and no one else has it open.
LEMMA ReturnAlone ==
  ASSUME NEW p \in Worker, Solo(p), Return(p)
  PROVE  Alone(p)'
<1>1. /\ pc[p] = "return" /\ UNCHANGED <<cur, call, ok, ec>>
      /\ open'[p] = FALSE /\ stack'[p] = Pop(p)[p]
      /\ \A q \in Worker \ {p} : open'[q] = FALSE /\ stack'[q] = <<>>
  BY DEF Return, Close, Pop, Solo, TypeOK
<1>2. /\ exists' = exists \ {n \in pending : \/ ~HandlesOn(n, open', stack', other)
                                             \/ open[p] /\ ok[p] /\ AsksPosix(try[p]) /\ n = cur[p]}
      /\ pending' = pending \ {n \in pending : \/ ~HandlesOn(n, open', stack', other)
                                               \/ open[p] /\ ok[p] /\ AsksPosix(try[p]) /\ n = cur[p]}
  BY DEF Return, Vanish
<1>3. CASE ok[p]
  <2> DEFINE s == stack[p]
             t == IF cur[p] = s[Len(s)].dir THEN SubSeq(s, 1, Len(s) - 1) ELSE s
  <2>1. stack'[p] = IF s = <<>> THEN <<>> ELSE t
    BY <1>1, <1>3 DEF Pop, Succeeds, AtFolder, Solo, TypeOK
  <2>2. cur[p] \in exists /\ Within(cur[p], exists) = {} /\ pending = {cur[p]}
    BY <1>1, <1>3 DEF Solo, Alone
  <2>3. /\ \A i \in 1 .. Len(stack'[p]) : stack'[p][i].dir # cur[p]
        /\ Nested(stack'[p], exists \ {cur[p]})
        /\ stack'[p] # <<>> => Within(stack'[p][Len(stack'[p])].dir, exists \ {cur[p]}) \subseteq stack'[p][Len(stack'[p])].left
    <3>1. CASE s = <<>>
      BY <2>1, <3>1 DEF Nested
    <3>2. CASE s # <<>>
      <4>1. (AtEntry(cur[p], s, exists) /\ cur[p] \notin Dirs) \/ AtEnd(cur[p], s, exists)
        BY <1>1, <3>2, SoloFacts DEF Deep
      <4>2. s \in Seq(Finder) /\ Nested(s, exists) /\ cur[p] \in Node
        BY <1>1, SoloFacts
      <4> HIDE DEF s
      <4>3. QED
        BY <2>1, <3>2, <4>1, <4>2, NestedAscend
    <3>3. QED
      BY <3>1, <3>2
  <2> HIDE DEF t
  <2>4. ~HandlesOn(cur[p], open', stack', other)
    <3>1. other[cur[p]] = "no"
      BY <1>1, SoloFacts DEF Solo
    <3>2. \A q \in Worker : ~open'[q]
      BY <1>1
    <3>3. stack'[p] \in Seq(Finder)
      BY StepStack DEF Solo, Step
    <3>4. \A i \in DOMAIN stack'[p] : stack'[p][i].dir # cur[p]
      BY <2>3, <3>3
    <3>5. DOMAIN <<>> = {}
      OBVIOUS
    <3>6. QED
      BY <1>1, <3>1, <3>2, <3>4, <3>5 DEF HandlesOn
  <2>5. exists' = exists \ {cur[p]} /\ pending' = {}
    BY <1>2, <2>2, <2>4
  <2>6. \/ stack'[p] # <<>> /\ pc'[p] = "next" /\ result'[p] = "none"
        \/ stack'[p] = <<>> /\ pc'[p] = "idle" /\ result'[p] = "ok"
    <3>1. \/ stack'[p] # <<>> /\ pc' = [pc EXCEPT ![p] = "next"] /\ UNCHANGED result
          \/ /\ stack'[p] = <<>> /\ pc' = [pc EXCEPT ![p] = "idle"] /\ result' = [result EXCEPT ![p] = "ok"]
      BY <1>3, Zenon DEF Return, Goto, Ends, Succeeds
    <3>2. result[p] = "none"
      BY <1>1, SoloFacts
    <3>3. QED
      BY <3>1, <3>2 DEF Solo, TypeOK
  <2>7. ec'[p] \in {"none", "notempty"}
    BY <1>1, <1>3, SoloFacts
  <2>8. QED
    BY <2>3, <2>5, <2>6, <2>7 DEF Alone, Deep
<1>4. CASE ~ok[p]
  <2>1. /\ stack[p] = <<>> /\ stack'[p] = <<>> /\ pending = {} /\ cur[p] = call[p].node
        /\ ec[p] = "notempty" <=> cur[p] \in exists
    BY <1>1, <1>4, SoloFacts DEF Pop, Succeeds, Solo, Alone, Placed, TypeOK
  <2>2. exists' = exists /\ pending' = {}
    BY <1>2, <2>1
  <2>3. \/ ec[p] = "notempty" /\ pc'[p] = "find" /\ result'[p] = "none"
        \/ ~(call[p].folders /\ ec[p] = "notempty") /\ pc'[p] = "idle" /\ result'[p] = "failed"
    <3>1. \/ Enters(p) /\ pc' = [pc EXCEPT ![p] = "find"] /\ UNCHANGED result
          \/ ~Enters(p) /\ pc' = [pc EXCEPT ![p] = "idle"] /\ result' = [result EXCEPT ![p] = "failed"]
      BY <1>4, Zenon DEF Return, Goto, Ends, Succeeds
    <3>2. result[p] = "none" /\ (Enters(p) <=> call[p].folders /\ ec[p] = "notempty")
      BY <1>1, <2>1, SoloFacts DEF Enters
    <3>3. QED
      BY <3>1, <3>2 DEF Solo, TypeOK
  <2>4. Nested(<<>>, exists)
    BY DEF Nested
  <2>5. call[p].folders \in BOOLEAN
    BY DEF Solo, TypeOK
  <2>6. QED
    BY <1>1, <2>1, <2>2, <2>3, <2>4, <2>5 DEF Alone
<1>5. QED
  BY <1>3, <1>4

\* A folder that is not empty is read.
LEMMA FindAlone ==
  ASSUME NEW p \in Worker, Solo(p), Find(p)
  PROVE  Alone(p)'
<1>1. /\ pc[p] = "find" /\ UNCHANGED <<exists, pending, readonly, cur, call, result>>
      /\ pending = {} /\ cur[p] \in exists /\ cur[p] \in Dirs /\ ec[p] \in {"none", "notempty"}
  BY SoloFacts DEF Find, fs, Solo, Alone, Placed
<1> DEFINE f == [dir |-> cur[p], left |-> Listing(cur[p])]
<1>2. pc'[p] = "next" /\ stack'[p] = Append(stack[p], f) /\ ec' = ec
  BY <1>1 DEF Find, Goto, Solo, TypeOK
<1>3. Listing(cur[p]) = Within(cur[p], exists)
  BY <1>1, TreeAssumption DEF Listing, Children, Within
<1>4. stack[p] # <<>> => AtEntry(cur[p], stack[p], exists)
  BY <1>1, SoloFacts DEF Deep
<1>5. f = [dir |-> cur[p], left |-> Within(cur[p], exists)]
  BY <1>3
<1> HIDE DEF f
<1>6. Nested(stack'[p], exists) /\ Within(stack'[p][Len(stack'[p])].dir, exists) \subseteq stack'[p][Len(stack'[p])].left
  BY <1>1, <1>2, <1>4, <1>5, SoloFacts, NestedPush
<1>7. QED
  BY <1>1, <1>2, <1>6, SoloFacts DEF Alone, Deep

\* The next entry is taken, or the folder is empty and its turn has come.
LEMMA NextAlone ==
  ASSUME NEW p \in Worker, Solo(p), NextEntry(p)
  PROVE  Alone(p)'
<1> DEFINE s == stack[p]
           top == s[Len(s)]
<1>1. /\ pc[p] = "next" /\ UNCHANGED <<exists, pending, readonly, call, ec, result>> /\ pending = {}
      /\ s # <<>> /\ s \in Seq(Finder) /\ exists \subseteq Node
      /\ Nested(s, exists) /\ Within(top.dir, exists) \subseteq top.left
  BY SoloFacts DEF NextEntry, fs, Solo, Placed, Deep
<1>2. Len(s) \in 1 .. Len(s)
  BY <1>1, LenProperties, EmptySeq
<1>3. ASSUME NEW n \in top.left, pc'[p] = IF n \in Dirs THEN "find" ELSE "open", cur'[p] = n,
             stack' = [stack EXCEPT ![p][Len(stack[p])].left = @ \ {n}]
      PROVE  Alone(p)'
  <2> DEFINE f == [top EXCEPT !.left = top.left \ {n}]
             t == [s EXCEPT ![Len(s)] = f]
  <2>1. stack'[p] = t
    BY <1>3 DEF Solo, TypeOK
  <2> HIDE DEF s
  <2>2. Nested(t, exists) /\ n \in exists /\ AtEntry(n, t, exists)
    BY <1>1, <1>3, NestedTake
  <2> HIDE DEF t
  <2>3. QED
    BY <1>1, <1>3, <2>1, <2>2, SoloFacts DEF Alone, Deep
<1>4. ASSUME top.left = {}, pc'[p] = "open", cur'[p] = top.dir, UNCHANGED stack
      PROVE  Alone(p)'
  <2>1. AtEnd(top.dir, s, exists) /\ top.dir \in exists
    BY <1>1, <1>2, <1>4 DEF AtEnd, Nested
  <2>2. QED
    BY <1>1, <1>4, <2>1, SoloFacts DEF Alone, Deep
<1>5. QED
  BY <1>3, <1>4 DEF NextEntry, Goto, Recurses, Solo, TypeOK

\* Every step keeps what a worker that nothing disturbs relies on.
LEMMA AInvKept == IInv /\ HInv /\ AInv /\ [Next]_vars => AInv'
<1> SUFFICES ASSUME IInv, HInv, AInv, [Next]_vars, Undisturbed'
             PROVE  /\ late' = {} /\ \A n \in Node : other'[n] = "no"
                    /\ \A q \in Worker : IF q \in setting'.workers THEN Alone(q)'
                                         ELSE pc'[q] = "idle" /\ result'[q] = "none"
  BY DEF AInv
<1>1. setting' = setting
  BY DEF Next, Step, Open, Reopen, Dispose, Clear, Return, Find, NextEntry, Call, Others, Use, Unuse, Create, vars, fs
<1>2. Undisturbed
  BY <1>1 DEF Undisturbed
<1>3. /\ setting.fresh /\ setting.denied = {} /\ setting.used = {} /\ late = {} /\ \A n \in Node : other[n] = "no"
      /\ \A p, q \in setting.workers : p = q
      /\ \A q \in Worker : IF q \in setting.workers THEN Alone(q) ELSE pc[q] = "idle" /\ result[q] = "none"
  BY <1>2 DEF AInv, Undisturbed
<1>4. ~Others
  BY <1>3 DEF Others
<1>5. UNCHANGED <<late, other>>
  BY <1>4 DEF Next, Step, Open, Reopen, Dispose, Clear, Return, Find, NextEntry, Call, vars, fs
<1>6. ASSUME NEW p \in setting.workers
      PROVE  p \in Worker /\ Solo(p) /\ \A q \in Worker \ {p} : pc[q] = "idle" /\ result[q] = "none"
  <2>1. p \in Worker
    BY SettingFacts DEF IInv, TypeOK
  <2>2. \A q \in Worker \ {p} : pc[q] = "idle" /\ result[q] = "none"
    BY <1>3
  <2>3. \A q \in Worker \ {p} : ~open[q] /\ stack[q] = <<>>
    BY <2>2 DEF HInv, Holding, IInv, Placed
  <2>4. QED
    BY <1>3, <2>1, <2>2, <2>3 DEF Solo, IInv, HInv
<1>7. ASSUME NEW p \in setting.workers, Alone(p)',
             \A q \in Worker \ {p} : pc'[q] = pc[q] /\ result'[q] = result[q]
      PROVE  \A q \in Worker : IF q \in setting'.workers THEN Alone(q)'
                               ELSE pc'[q] = "idle" /\ result'[q] = "none"
  BY <1>1, <1>3, <1>6, <1>7
<1>8. ASSUME NEW p \in setting.workers, Step(p)
      PROVE  Alone(p)' /\ \A q \in Worker \ {p} : pc'[q] = pc[q] /\ result'[q] = result[q]
  <2>1. p \in Worker /\ Solo(p)
    BY <1>6
  <2>2. ~Reopen(p)
    BY <2>1 DEF Reopen, Solo, Alone
  <2>3. Alone(p)'
    BY <1>8, <2>1, <2>2, OpenAlone, DisposeAlone, ClearAlone, ReturnAlone, FindAlone, NextAlone DEF Step
  <2>4. QED
    BY <1>8, <2>1, <2>3, StepFrame DEF Solo
<1>9. ASSUME NEW p \in setting.workers, NEW n \in Targets, NEW folders \in BOOLEAN, Call(p, n, folders)
      PROVE  Alone(p)' /\ \A q \in Worker \ {p} : pc'[q] = pc[q] /\ result'[q] = result[q]
  <2>1. p \in Worker /\ Solo(p)
    BY <1>6
  <2>2. pc[p] = "idle" /\ pc'[p] = "open" /\ result'[p] = "none" /\ ec'[p] = "none" /\ UNCHANGED <<fs, stack>>
    BY <1>9, <2>1 DEF Call, Goto, Solo, TypeOK
  <2>3. stack[p] = <<>> /\ pending = {}
    BY <2>1, <2>2 DEF Solo, Placed, Alone
  <2>4. Alone(p)'
    BY <2>2, <2>3 DEF Alone, Nested, fs
  <2>5. QED
    BY <1>9, <2>1, <2>4 DEF Call, Goto, Solo, TypeOK
<1>10. CASE UNCHANGED vars
  <2>1. ASSUME NEW q \in Worker, Alone(q) PROVE Alone(q)'
    BY <1>10, <2>1 DEF vars, fs, Alone, Deep
  <2>2. QED
    BY <1>1, <1>3, <1>5, <1>10, <2>1 DEF vars
<1>11. QED
  BY <1>3, <1>4, <1>5, <1>7, <1>8, <1>9, <1>10 DEF Next

\* AloneDeletes, for any tree, any depth, any attributes and either kind of file
\* system.
THEOREM AloneSucceeds == Spec => []AloneDeletes
<1>1. Init => HInv
  BY DEF Init, HInv, Holding
<1>2. Init => AInv
  <2> SUFFICES ASSUME Init, Undisturbed PROVE late = {} /\ \A q \in Worker : Alone(q)
    BY DEF Init, AInv
  <2>1. Nested(<<>>, exists)
    BY DEF Nested
  <2>2. QED
    BY <2>1 DEF Init, Undisturbed, Alone
<1>3. IInv /\ AInv => AloneDeletes
  <2> SUFFICES ASSUME IInv, AInv, Undisturbed, NEW q \in Worker, result[q] = "failed", call[q].node \in exists
               PROVE  ec[q] = "notempty" /\ ~call[q].folders
    BY DEF AloneDeletes
  <2>1. q \in setting.workers /\ Alone(q)
    BY DEF AInv
  <2>2. QED
    BY <2>1 DEF Alone
<1>4. QED
  BY <1>1, <1>2, <1>3, IInvInit, IInvKept, HInvKept, AInvKept, PTL DEF Spec
=============================================================================
