--------------------------- MODULE WinQueryProofs ---------------------------
(***************************************************************************)
(* WinQuery implements ValueQuery, for any values, lengths and size of the *)
(* first buffer.  What makes it true is that a call which was told a size  *)
(* finds it enough unless the value has changed (Measured), and that only  *)
(* LookupEnv and pe::Lookup return without looking (AskedBy).  The empty   *)
(* path of RealPathEx is a step of its own, Blank.                         *)
(***************************************************************************)
EXTENDS WinQuery, TLAPS

\* The queries that make a call.
AskedBy(call) ==
  CASE call = "GetEnvironmentVariable" -> {"LookupEnv"}
    [] call = "ExpandEnvironmentStrings" -> {"WindowsExpandEnv"}
    [] call \in {"GetFileVersionInfoSize", "GetFileVersionInfo"} -> {"Lookup"}
    [] call = "DeviceIoControl" -> {"RealPathEx"}
    [] call = "GetModuleFileName" -> {"Executable", "ExecutableFinalPath"}
    [] OTHER -> Queries \ {"LookupEnv"}
Origin == at # "none" => query \in AskedBy(at)

Measured ==
  ~changed => /\ at = "GetEnvironmentVariable" /\ again => value # Missing /\ Fits
              /\ at = "GetFileVersionInfo" => Length[value] <= size

IInv == TypeOK /\ Origin /\ Measured

\* The answers are in their type.
LEMMA Answers ==
  /\ Failure \in [ok : BOOLEAN, text : Values \union {Garbage, Argument}]
  /\ NotYet \in [ok : BOOLEAN, text : Values \union {Garbage, Argument}]
  /\ \A t \in Values \union {Garbage, Argument} :
       Answer(t) \in [ok : BOOLEAN, text : Values \union {Garbage, Argument}]
BY ValuesAssumption DEF Failure, NotYet, Answer

LEMMA CallsAre ==
  Calls = {"GetEnvironmentVariable", "ExpandEnvironmentStrings", "GetFullPathName", "CreateFile",
           "DeviceIoControl", "GetFileVersionInfoSize", "GetModuleFileName",
           "GetFinalPathNameByHandle", "GetFileVersionInfo"}
<1>1. FirstCall["LookupEnv"] = "GetEnvironmentVariable" BY DEF FirstCall, Queries
<1>2. FirstCall["WindowsExpandEnv"] = "ExpandEnvironmentStrings" BY DEF FirstCall, Queries
<1>3. FirstCall["FullPath"] = "GetFullPathName" BY DEF FirstCall, Queries
<1>4. FirstCall["RealPath"] = "CreateFile" BY DEF FirstCall, Queries
<1>5. FirstCall["RealPathEx"] = "DeviceIoControl" BY DEF FirstCall, Queries
<1>6. FirstCall["Lookup"] = "GetFileVersionInfoSize" BY DEF FirstCall, Queries
<1>7. FirstCall["Executable"] = "GetModuleFileName" BY DEF FirstCall, Queries
<1>8. FirstCall["ExecutableFinalPath"] = "GetModuleFileName" BY DEF FirstCall, Queries
<1>9. QED BY <1>1, <1>2, <1>3, <1>4, <1>5, <1>6, <1>7, <1>8 DEF Calls, Queries

LEMMA Starts ==
  ASSUME NEW q \in Queries
  PROVE  FirstCall[q] \in Calls /\ FirstCall[q] # "none" /\ q \in AskedBy(FirstCall[q])
         /\ FirstCall[q] # "GetFileVersionInfo"
BY DEF FirstCall, Queries, Calls, AskedBy

\* What a call finds is a value, or Missing for a variable.
LEMMA Sources ==
  ASSUME NEW call
  PROVE  /\ Source(call) \subseteq Values \union {Missing}
         /\ call # "GetEnvironmentVariable" => Source(call) \subseteq Values
         /\ Missing \notin Values
BY ValuesAssumption DEF Source

\* A step of the system's kind, each by itself.
LEMMA ReturnKeeps ==
  ASSUME IInv, NEW r \in [ok : BOOLEAN, text : Values \union {Garbage, Argument}], at # "none", Return(r)
  PROVE  IInv'
<1>1. TypeOK'
  BY Sources DEF IInv, TypeOK, Return
<1>2. QED BY <1>1 DEF IInv, Origin, Measured, Return

LEMMA GoOnKeeps ==
  ASSUME IInv, NEW call \in Calls, NEW n \in Nat, at # "none", GoOn(call, n), query \in AskedBy(call)
  PROVE  IInv'
<1>1. call # "none" BY CallsAre
<1>2. TypeOK' BY <1>1 DEF IInv, TypeOK, GoOn
<1>3. QED BY <1>1, <1>2 DEF IInv, Origin, Measured, GoOn

LEMMA RetryKeeps ==
  ASSUME IInv, NEW n \in Nat, at \notin {"none", "GetEnvironmentVariable", "GetFileVersionInfo"}, Retry(n)
  PROVE  IInv'
BY DEF IInv, TypeOK, Origin, Measured, Retry

-----------------------------------------------------------------------------

LEMMA InitHolds == Init => IInv
BY ValuesAssumption, InitialAssumption, Answers DEF Init, IInv, TypeOK, Origin, Measured

LEMMA StepKeeps == IInv /\ [Next]_vars => IInv'
<1> SUFFICES ASSUME IInv, [Next]_vars PROVE IInv'
    OBVIOUS
<1> USE DEF IInv
<1>0. \A v \in Values : Length[v] \in Nat /\ Length[v] + 1 \in Nat /\ Length[v] < Length[v] + 1
      BY ValuesAssumption
<1>1. ASSUME NEW q \in Queries, Start(q) PROVE IInv'
  <2>1. TypeOK' BY <1>1, Starts, Answers, InitialAssumption, "none" \notin Queries DEF TypeOK, Start, Queries
  <2>2. QED BY <1>1, <2>1, Starts DEF Start, Origin, Measured
<1>2. CASE Change
  BY <1>2 DEF Change, TypeOK, Origin, Measured
<1>3. CASE SystemFails
  BY <1>3, ReturnKeeps, Answers DEF SystemFails
<1>17. CASE FallbackFails
  BY <1>17, ReturnKeeps, Answers, ValuesAssumption DEF FallbackFails, FallsBack
<1>4. CASE GetEnvironmentVariable
  <2>1. CASE Return(Failure) BY <1>4, <2>1, ReturnKeeps, Answers DEF GetEnvironmentVariable
  <2>2. CASE value # Missing /\ Return(Answer(value))
    <3>1. value \in Values BY <1>4, <2>2 DEF GetEnvironmentVariable, TypeOK, Source
    <3>2. QED BY <1>4, <2>2, <3>1, ReturnKeeps, Answers DEF GetEnvironmentVariable
  <2>3. CASE value # Missing /\ RetryOnce(Needed)
    <3>1. value \in Values BY <1>4, <2>3 DEF GetEnvironmentVariable, TypeOK, Source
    <3>2. QED BY <1>0, <1>4, <2>3, <3>1
          DEF GetEnvironmentVariable, TypeOK, Origin, Measured, RetryOnce, Needed, Fits
  <2>4. QED BY <1>4, <2>1, <2>2, <2>3 DEF GetEnvironmentVariable
<1>5. CASE GetEnvironmentVariableAgain
  <2>1. value = Missing \/ value \in Values BY <1>5 DEF GetEnvironmentVariableAgain, TypeOK, Source
  <2>2. PICK t \in Values \union {Garbage, Argument} : Return(Answer(t))
        BY <1>5, <2>1, ValuesAssumption DEF GetEnvironmentVariableAgain
  <2>3. QED BY <1>5, <2>2, ReturnKeeps, Answers DEF GetEnvironmentVariableAgain
<1>6. CASE ExpandEnvironmentStrings
  <2>1. value \in Values BY <1>6 DEF ExpandEnvironmentStrings, TypeOK, Source
  <2>2. CASE RetryOnce(Needed)
    BY <1>0, <1>6, <2>1, <2>2 DEF ExpandEnvironmentStrings, TypeOK, Origin, Measured, RetryOnce, Needed
  <2>3. CASE \E t \in Values \union {Garbage, Argument} : Return(Answer(t))
    BY <1>6, <2>3, ReturnKeeps, Answers DEF ExpandEnvironmentStrings
  <2>4. QED BY <1>6, <2>1, <2>2, <2>3 DEF ExpandEnvironmentStrings
<1>7. CASE ExpandEnvironmentStringsAgain
  <2>1. value \in Values BY <1>7 DEF ExpandEnvironmentStringsAgain, TypeOK, Source
  <2>2. QED BY <1>7, <2>1, ReturnKeeps, Answers DEF ExpandEnvironmentStringsAgain
<1>8. CASE GetFullPathName
  <2>1. value \in Values BY <1>8 DEF GetFullPathName, TypeOK, Source
  <2>2. QED BY <1>0, <1>8, <2>1, ReturnKeeps, RetryKeeps, Answers DEF GetFullPathName, Needed
<1>9. CASE CreateFile
  <2>1. query \in AskedBy("GetFinalPathNameByHandle")
        BY <1>9 DEF CreateFile, Origin, AskedBy
  <2>2. QED BY <1>9, <2>1, GoOnKeeps, InitialAssumption, CallsAre DEF CreateFile
<1>10. CASE GetFinalPathNameByHandle
  <2>1. value \in Values BY <1>10 DEF GetFinalPathNameByHandle, TypeOK, Source
  <2>2. CASE Return(Answer(value)) BY <1>10, <2>1, <2>2, ReturnKeeps, Answers DEF GetFinalPathNameByHandle
  <2>3. CASE Retry(Needed) BY <1>0, <1>10, <2>1, <2>3, RetryKeeps DEF GetFinalPathNameByHandle, Needed
  <2>4. CASE kind' = "NT" /\ value' \in Source(at) /\ changed' = TRUE
             /\ UNCHANGED <<query, at, again, size, result>>
    BY <1>10, <2>4 DEF GetFinalPathNameByHandle, TypeOK, Origin, Measured
  <2>5. QED BY <1>10, <2>2, <2>3, <2>4 DEF GetFinalPathNameByHandle
<1>11. CASE GetModuleFileName
  <2>1. value \in Values BY <1>11 DEF GetModuleFileName, TypeOK, Source
  <2>2. CASE Return(Answer(value)) BY <1>11, <2>1, <2>2, ReturnKeeps, Answers DEF GetModuleFileName
  <2>3. CASE query = "ExecutableFinalPath" /\ GoOn("CreateFile", size)
    <3>1. query \in AskedBy("CreateFile") BY <2>3 DEF AskedBy, Queries
    <3>2. QED BY <1>11, <2>3, <3>1, GoOnKeeps, CallsAre DEF GetModuleFileName, TypeOK
  <2>4. CASE Retry(size) BY <1>11, <2>4, RetryKeeps DEF GetModuleFileName, TypeOK
  <2>5. QED BY <1>11, <2>2, <2>3, <2>4 DEF GetModuleFileName
<1>12. CASE DeviceIoControl
  <2>1. value \in Values /\ query = "RealPathEx"
        BY <1>12 DEF DeviceIoControl, TypeOK, Source, Origin, AskedBy
  <2>2. query \in AskedBy("GetFullPathName") /\ query \in AskedBy("CreateFile")
        BY <2>1 DEF AskedBy, Queries
  <2>3. CASE \E call \in {"GetFullPathName", "CreateFile"}, n \in Nat : GoOn(call, n)
        BY <1>12, <2>2, <2>3, GoOnKeeps, CallsAre DEF DeviceIoControl
  <2>4. CASE \E t \in Values \union {Garbage, Argument} : Return(Answer(t))
        BY <1>12, <2>4, ReturnKeeps, Answers DEF DeviceIoControl
  <2>5. QED BY <1>12, <2>1, <2>3, <2>4, InitialAssumption, ValuesAssumption DEF DeviceIoControl, TypeOK
<1>13. CASE GetFileVersionInfoSize
  <2>1. value \in Values BY <1>13 DEF GetFileVersionInfoSize, TypeOK, Source
  <2>2. query \in AskedBy("GetFileVersionInfo")
        BY <1>13 DEF GetFileVersionInfoSize, Origin, AskedBy
  <2>3. TypeOK' BY <1>0, <1>13, <2>1, CallsAre DEF GetFileVersionInfoSize, TypeOK, Source
  <2>4. QED BY <1>0, <1>13, <2>1, <2>2, <2>3 DEF GetFileVersionInfoSize, Origin, Measured
<1>14. CASE GetFileVersionInfo
  <2>1. value \in Values BY <1>14 DEF GetFileVersionInfo, TypeOK, Source
  <2>2. QED BY <1>14, <2>1, ReturnKeeps, Answers DEF GetFileVersionInfo
<1>15. CASE UNCHANGED vars
  BY <1>15 DEF vars, TypeOK, Origin, Measured, Fits
<1>16. QED BY <1>1, <1>2, <1>3, <1>17, <1>4, <1>5, <1>6, <1>7, <1>8, <1>9, <1>10, <1>11, <1>12, <1>13,
             <1>14, <1>15 DEF Next, Step

LEMMA InvariantHolds == Spec => []IInv
<1>1. QED BY InitHolds, StepKeeps, PTL DEF Spec

\* Every variable keeps its type: in particular no query returns the mark of a
\* missing variable as text, and no loop loses the size of its buffer.
THEOREM TypeCorrect == Spec => []TypeOK
<1>1. IInv => TypeOK BY DEF IInv
<1>2. QED BY InvariantHolds, <1>1, PTL

-----------------------------------------------------------------------------
(* The refinement.                                                         *)

\* What a return is in the abstract specification.
LEMMA GivesValue ==
  ASSUME query # "none", value \in Values, Return(Answer(value))
  PROVE  Reading!Give
BY DEF Return, Answer, Reading!Give, Reading!Returns

LEMMA Fails ==
  ASSUME query # "none", query = "LookupEnv" => value = Missing, Return(Failure)
  PROVE  Reading!Fail
BY DEF Return, Failure, Reading!Fail, Reading!Returns, Reading!Failure

LEMMA Echoes ==
  ASSUME query \in {"WindowsExpandEnv", "RealPathEx"}, Return(Answer(Argument))
  PROVE  Reading!Echo
BY DEF Return, Answer, Reading!Echo, Reading!Returns

LEMMA Spoils ==
  ASSUME query \in {"LookupEnv", "Lookup"}, changed, NEW t \in {Empty, Garbage}, Return(Answer(t))
  PROVE  Reading!Spoil
BY DEF Return, Answer, Reading!Spoil, Reading!Returns, Reading!Spoilable

LEMMA Blanks ==
  ASSUME query = "RealPathEx", Return(Answer(Empty))
  PROVE  Reading!Blank
BY DEF Return, Answer, Reading!Blank, Reading!Returns

LEMMA Moves ==
  ASSUME query # "none", NEW call, GoOn(call, size')
  PROVE  Reading!Change
BY Sources DEF GoOn, Reading!Change, Reading!Readable

LEMMA StepRefines == IInv /\ [Next]_vars => [Reading!Next]_(Reading!vars)
<1> SUFFICES ASSUME IInv, [Next]_vars PROVE [Reading!Next]_(Reading!vars)
    OBVIOUS
<1> USE DEF IInv
<1>a. at # "none" => query # "none" BY DEF TypeOK
<1>b. (Reading!Ask \/ Reading!Change \/ Reading!Give \/ Reading!Fail \/ Reading!Echo \/ Reading!Spoil
     \/ Reading!Blank)
      => [Reading!Next]_(Reading!vars)
      BY DEF Reading!Next
<1>c. (UNCHANGED <<query, value, changed, result>>) => [Reading!Next]_(Reading!vars)
      BY DEF Reading!vars
<1>d. at \in {"ExpandEnvironmentStrings", "GetFullPathName", "CreateFile", "GetFinalPathNameByHandle",
             "GetModuleFileName", "DeviceIoControl", "GetFileVersionInfoSize", "GetFileVersionInfo"}
      => value \in Values /\ query # "LookupEnv" /\ query # "none"
      BY <1>a DEF TypeOK, Source, Origin, AskedBy
<1>1. ASSUME NEW q \in Queries, Start(q) PROVE Reading!Ask
  BY <1>1, Sources, "none" \notin Queries
     DEF Start, Queries, NotYet, Reading!Ask, Reading!Readable, Reading!NotYet
<1>2. CASE Change
  BY <1>2, <1>a, <1>b, Sources DEF Change, Reading!Change, Reading!Readable
<1>3. CASE SystemFails
  BY <1>3, <1>b, <1>d, Fails, CallsAre DEF SystemFails, TypeOK
<1>17. CASE FallbackFails
  BY <1>17, <1>b, Blanks DEF FallbackFails, FallsBack
<1>4. CASE GetEnvironmentVariable
  <2>1. CASE value = Missing /\ Return(Failure)
        BY <1>4, <2>1, <1>a, <1>b, Fails DEF GetEnvironmentVariable
  <2>2. CASE value # Missing /\ Return(Answer(value))
    <3>1. value \in Values BY <1>4, <2>2 DEF GetEnvironmentVariable, TypeOK, Source
    <3>2. QED BY <1>4, <2>2, <3>1, <1>a, <1>b, GivesValue DEF GetEnvironmentVariable
  <2>3. CASE RetryOnce(Needed) BY <2>3, <1>c DEF RetryOnce
  <2>4. QED BY <1>4, <2>1, <2>2, <2>3 DEF GetEnvironmentVariable
<1>5. CASE GetEnvironmentVariableAgain
  <2>1. query = "LookupEnv" BY <1>5 DEF GetEnvironmentVariableAgain, Origin, AskedBy
  <2>2. CASE value # Missing /\ Return(Answer(value))
    <3>1. value \in Values BY <1>5, <2>2 DEF GetEnvironmentVariableAgain, TypeOK, Source
    <3>2. QED BY <1>5, <2>2, <3>1, <1>a, <1>b, GivesValue DEF GetEnvironmentVariableAgain
  <2>3. CASE value = Missing /\ Return(Answer(Empty))
    <3>1. changed BY <1>5, <2>3 DEF GetEnvironmentVariableAgain, Measured, TypeOK
    <3>2. QED BY <2>1, <2>3, <3>1, <1>b, Spoils
  <2>4. CASE ~Fits /\ Return(Answer(Garbage))
    <3>1. changed BY <1>5, <2>4 DEF GetEnvironmentVariableAgain, Measured, TypeOK
    <3>2. QED BY <2>1, <2>4, <3>1, <1>b, Spoils
  <2>5. QED BY <1>5, <2>2, <2>3, <2>4 DEF GetEnvironmentVariableAgain
<1>6. CASE ExpandEnvironmentStrings
  <2>1. query = "WindowsExpandEnv" BY <1>6 DEF ExpandEnvironmentStrings, Origin, AskedBy
  <2>2. CASE Return(Answer(Argument)) BY <2>1, <2>2, <1>b, Echoes
  <2>3. CASE Return(Answer(value)) BY <1>6, <2>3, <1>b, <1>d, GivesValue DEF ExpandEnvironmentStrings
  <2>4. CASE RetryOnce(Needed) BY <2>4, <1>c DEF RetryOnce
  <2>5. QED BY <1>6, <2>2, <2>3, <2>4 DEF ExpandEnvironmentStrings
<1>7. CASE ExpandEnvironmentStringsAgain
  BY <1>7, <1>b, <1>d, GivesValue, Fails DEF ExpandEnvironmentStringsAgain
<1>8. CASE GetFullPathName
  <2>1. CASE Return(Answer(value)) BY <1>8, <2>1, <1>b, <1>d, GivesValue DEF GetFullPathName
  <2>2. CASE Retry(Needed) BY <2>2, <1>c DEF Retry
  <2>3. QED BY <1>8, <2>1, <2>2 DEF GetFullPathName
<1>9. CASE CreateFile
  <2>1. GoOn("GetFinalPathNameByHandle", size') BY <1>9 DEF CreateFile, GoOn
  <2>2. QED BY <1>9, <2>1, <1>a, <1>b, Moves DEF CreateFile
<1>10. CASE GetFinalPathNameByHandle
  <2>1. CASE Return(Answer(value)) BY <1>10, <2>1, <1>b, <1>d, GivesValue DEF GetFinalPathNameByHandle
  <2>2. CASE Retry(Needed) BY <2>2, <1>c DEF Retry
  <2>3. CASE value' \in Source(at) /\ changed' = TRUE /\ UNCHANGED <<query, result>>
    BY <1>10, <2>3, <1>b, <1>d, Sources DEF GetFinalPathNameByHandle, Reading!Change, Reading!Readable
  <2>4. QED BY <1>10, <2>1, <2>2, <2>3 DEF GetFinalPathNameByHandle
<1>11. CASE GetModuleFileName
  <2>1. CASE Return(Answer(value)) BY <1>11, <2>1, <1>b, <1>d, GivesValue DEF GetModuleFileName
  <2>2. CASE GoOn("CreateFile", size)
    <3>1. GoOn("CreateFile", size') BY <2>2 DEF GoOn
    <3>2. QED BY <1>11, <3>1, <1>a, <1>b, Moves DEF GetModuleFileName
  <2>3. CASE Retry(size) BY <2>3, <1>c DEF Retry
  <2>4. QED BY <1>11, <2>1, <2>2, <2>3 DEF GetModuleFileName
<1>12. CASE DeviceIoControl
  <2>1. query = "RealPathEx" BY <1>12 DEF DeviceIoControl, Origin, AskedBy
  <2>2. CASE Return(Answer(value)) BY <1>12, <2>2, <1>b, <1>d, GivesValue DEF DeviceIoControl
  <2>3. CASE Return(Answer(Argument)) BY <2>1, <2>3, <1>b, Echoes
  <2>6. CASE Return(Answer(Empty)) BY <2>1, <2>6, <1>b, Blanks
  <2>4. CASE \E call \in Calls, n \in Nat : GoOn(call, n)
    <3>1. PICK call \in Calls, n \in Nat : GoOn(call, n) BY <2>4
    <3>2. GoOn(call, size') BY <3>1 DEF GoOn
    <3>3. QED BY <1>12, <3>2, <1>a, <1>b, Moves DEF DeviceIoControl
  <2>5. QED BY <1>12, <2>2, <2>3, <2>4, <2>6, InitialAssumption, CallsAre DEF DeviceIoControl, TypeOK
<1>13. CASE GetFileVersionInfoSize
  BY <1>13, <1>c DEF GetFileVersionInfoSize
<1>14. CASE GetFileVersionInfo
  <2>1. query = "Lookup" BY <1>14 DEF GetFileVersionInfo, Origin, AskedBy
  <2>2. CASE Return(Answer(value)) BY <1>14, <2>2, <1>b, <1>d, GivesValue DEF GetFileVersionInfo
  <2>3. CASE Length[value] > size /\ Return(Answer(Garbage))
    <3>1. Length[value] \in Nat BY <1>14, <1>d, ValuesAssumption DEF GetFileVersionInfo
    <3>2. changed BY <1>14, <2>3, <3>1 DEF GetFileVersionInfo, Measured, TypeOK
    <3>3. QED BY <2>1, <2>3, <3>2, <1>b, Spoils
  <2>4. QED BY <1>14, <2>2, <2>3 DEF GetFileVersionInfo
<1>15. CASE UNCHANGED vars
  BY <1>15, <1>c DEF vars
<1>16. QED BY <1>b, <1>1, <1>2, <1>3, <1>17, <1>4, <1>5, <1>6, <1>7, <1>8, <1>9, <1>10, <1>11, <1>12, <1>13,
             <1>14, <1>15 DEF Next, Step

\* Every query is one read of its value between its call and its return, or
\* fails; a buffer that was too short is returned by LookupEnv and pe::Lookup
\* only, and only if the value changed after they had asked for its length, and a
\* path that is empty by RealPathEx only.
THEOREM QueriesReadOnce == Spec => ImplementsValueQuery
<1>1. Init => Reading!Init
  BY DEF Init, NotYet, Reading!Init, Reading!NotYet, Reading!Readable
<1>2. QED
  BY <1>1, InvariantHolds, StepRefines, PTL DEF Spec, ImplementsValueQuery, Reading!Spec
=============================================================================
