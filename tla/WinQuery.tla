------------------------------ MODULE WinQuery ------------------------------
(***************************************************************************)
(* The queries of the system that first learn how long an answer is and    *)
(* then get it: LookupEnv (include/bela/env.hpp), WindowsExpandEnv         *)
(* (src/belawin/env.cc), FullPath (path.cc), RealPath, RealPathEx,         *)
(* Executable and ExecutableFinalPath (realpath.cc), and the version of a  *)
(* file, pe::Lookup (pe/version.cc).  Other threads and processes change   *)
(* the variable, the current directory, the name of the open file or the   *)
(* file itself between two calls.  Queries share nothing with each other,  *)
(* so one caller stands for all.                                           *)
(*                                                                         *)
(* A text is a model value with a length; a buffer is its size.  "at" is   *)
(* the call the query makes next.                                          *)
(***************************************************************************)
EXTENDS Naturals

CONSTANTS Values, Empty, Missing, Garbage, Argument,
          Length,   \* of each value, in characters
          Initial   \* of the first buffer: 256, MAX_PATH, or the argument's and 256

ASSUME ValuesAssumption ==
  /\ Empty \in Values /\ {Missing, Garbage, Argument} \intersect Values = {}
  /\ Missing # Garbage /\ Missing # Argument /\ Garbage # Argument
  /\ Length \in [Values -> Nat] /\ \A v \in Values : Length[v] = 0 <=> v = Empty
ASSUME InitialAssumption == Initial \in Nat \ {0}

VARIABLES query,    \* the function called, or "none"
          at,       \* the system call it makes next
          value,    \* what that call would read now
          again,    \* the second call of LookupEnv or WindowsExpandEnv
          kind,     \* VOLUME_NAME_DOS or VOLUME_NAME_NT
          size,     \* buffer.size()
          changed,  \* history: value has changed since the call
          result    \* what the last query returned
vars == <<query, at, value, again, kind, size, changed, result>>

Queries == {"LookupEnv", "WindowsExpandEnv", "FullPath", "RealPath", "RealPathEx",
            "Executable", "ExecutableFinalPath", "Lookup"}
FirstCall ==
  [q \in Queries |->
     CASE q = "LookupEnv" -> "GetEnvironmentVariable"
       [] q = "WindowsExpandEnv" -> "ExpandEnvironmentStrings"
       [] q = "FullPath" -> "GetFullPathName"
       [] q = "RealPath" -> "CreateFile"
       [] q = "RealPathEx" -> "DeviceIoControl"
       [] q = "Lookup" -> "GetFileVersionInfoSize"
       [] OTHER -> "GetModuleFileName"]
Calls == {FirstCall[q] : q \in Queries} \union {"GetFinalPathNameByHandle", "GetFileVersionInfo"}

\* What a call may find: a variable may be missing or empty, an expansion
\* empty, a path or a file's version neither.
Source(call) == CASE call = "GetEnvironmentVariable" -> Values \union {Missing}
                  [] call = "ExpandEnvironmentStrings" -> Values
                  [] OTHER -> Values \ {Empty}

\* The system writes a text with its terminator and returns its length, or, if
\* the buffer is too short, returns what it would need and writes anything.
Fits == Length[value] < size
Needed == Length[value] + 1

Failure == [ok |-> FALSE, text |-> Empty]
NotYet == [ok |-> FALSE, text |-> Garbage]
Answer(t) == [ok |-> TRUE, text |-> t]

TypeOK ==
  /\ query \in Queries \union {"none"}
  /\ at \in Calls \union {"none"}
  /\ query = "none" <=> at = "none"
  /\ value \in IF at = "none" THEN Values \union {Missing} ELSE Source(at)
  /\ again \in BOOLEAN /\ changed \in BOOLEAN
  /\ kind \in {"DOS", "NT"}
  /\ size \in Nat
  /\ result \in [ok : BOOLEAN, text : Values \union {Garbage, Argument}]

Init ==
  /\ query = "none" /\ at = "none"
  /\ value \in Values \union {Missing}
  /\ again = FALSE /\ changed = FALSE /\ kind = "DOS" /\ size = Initial
  /\ result = NotYet

-----------------------------------------------------------------------------
(* The caller, and the others.                                             *)

Start(q) ==
  /\ query = "none"
  /\ query' = q /\ at' = FirstCall[q]
  /\ value' \in Source(FirstCall[q])
  /\ size' = Initial /\ again' = FALSE /\ kind' = "DOS" /\ changed' = FALSE
  /\ result' = NotYet

\* The path of the running program stays as it is.
Change ==
  /\ at \notin {"none", "GetModuleFileName"}
  /\ value' \in Source(at) \ {value} /\ changed' = TRUE
  /\ UNCHANGED <<query, at, again, kind, size, result>>

Return(r) ==
  /\ query' = "none" /\ at' = "none" /\ result' = r
  /\ UNCHANGED <<value, again, kind, size, changed>>

\* The same call with a buffer of n.
Retry(n) ==
  /\ size' = n
  /\ UNCHANGED <<query, at, value, again, kind, changed, result>>

RetryOnce(n) ==
  /\ size' = n /\ again' = TRUE
  /\ UNCHANGED <<query, at, value, kind, changed, result>>

\* Another call, about something else, with a buffer of n.
GoOn(call, n) ==
  /\ at' = call /\ size' = n
  /\ value' \in Source(call) /\ changed' = TRUE
  /\ UNCHANGED <<query, again, kind, result>>

\* RealPathEx makes an optional of whatever FullPath returns.
FallsBack == query = "RealPathEx" /\ at = "GetFullPathName"

\* Any call may fail, but for a variable that is there.
SystemFails == at \notin {"none", "GetEnvironmentVariable"} /\ ~FallsBack /\ Return(Failure)

\* FullPath says with an empty text that it failed, and that text is the answer.
FallbackFails == FallsBack /\ Return(Answer(Empty))

-----------------------------------------------------------------------------
(* LookupEnv: a length of 0 stands for a missing variable and an empty one. *)

GetEnvironmentVariable ==
  /\ at = "GetEnvironmentVariable" /\ ~again
  /\ \/ value = Missing /\ Return(Failure)
     \/ value # Missing /\ Fits /\ Return(Answer(value))
     \/ value # Missing /\ ~Fits /\ RetryOnce(Needed)

\* The second call's length shortens the buffer, and nothing else is made of it.
GetEnvironmentVariableAgain ==
  /\ at = "GetEnvironmentVariable" /\ again
  /\ \/ value = Missing /\ Return(Answer(Empty))
     \/ value # Missing /\ Fits /\ Return(Answer(value))
     \/ value # Missing /\ ~Fits /\ Return(Answer(Garbage))

-----------------------------------------------------------------------------
(* WindowsExpandEnv: without two percent signs nothing is asked; a second  *)
(* answer that is too long counts as none.                                 *)

ExpandEnvironmentStrings ==
  /\ at = "ExpandEnvironmentStrings" /\ ~again
  /\ \/ Return(Answer(Argument))
     \/ Fits /\ Return(Answer(value))
     \/ ~Fits /\ RetryOnce(Needed)

\* Slip: the second length is not compared with the buffer.
ExpandEnvironmentStringsTrusting ==
  /\ at = "ExpandEnvironmentStrings" /\ again
  /\ Return(Answer(IF Fits THEN value ELSE Garbage))

ExpandEnvironmentStringsAgain ==
  /\ at = "ExpandEnvironmentStrings" /\ again
  /\ \/ Fits /\ Return(Answer(value))
     \/ ~Fits /\ Return(Failure)

-----------------------------------------------------------------------------
(* The loops.                                                              *)

\* Slip: the buffer is given the length it has.
GetFullPathNameSameSize ==
  /\ at = "GetFullPathName"
  /\ \/ Fits /\ Return(Answer(value))
     \/ ~Fits /\ Retry(size)

GetFullPathName ==
  /\ at = "GetFullPathName"
  /\ \/ Fits /\ Return(Answer(value))
     \/ ~Fits /\ Retry(Needed)

\* RealPath opens the file; its handle is closed whatever happens then.
CreateFile ==
  /\ at = "CreateFile"
  /\ GoOn("GetFinalPathNameByHandle", Initial)

\* A volume without a drive letter has its name in the NT namespace only.
GetFinalPathNameByHandle ==
  /\ at = "GetFinalPathNameByHandle"
  /\ \/ /\ kind = "DOS" /\ kind' = "NT"
        /\ value' \in Source(at) /\ changed' = TRUE
        /\ UNCHANGED <<query, at, again, size, result>>
     \/ Fits /\ Return(Answer(value))
     \/ ~Fits /\ Retry(Needed)

\* A path that is cut has the length of the buffer, which is resized to that.
GetModuleFileName ==
  /\ at = "GetModuleFileName"
  /\ \/ Fits /\ query = "Executable" /\ Return(Answer(value))
     \/ Fits /\ query = "ExecutableFinalPath" /\ GoOn("CreateFile", size)
     \/ ~Fits /\ Retry(size)

-----------------------------------------------------------------------------
(* RealPathEx reads a reparse point into a buffer that is always enough;   *)
(* what it goes on with depends on the kind of reparse point.              *)

DeviceIoControl ==
  /\ at = "DeviceIoControl"
  /\ \/ GoOn("GetFullPathName", Initial)       \* not a reparse point
     \/ GoOn("CreateFile", size)               \* a symbolic link
     \/ Return(Answer(value))                  \* a target that is decoded here
     \/ Return(Answer(Empty))                  \* an app link of one or two strings has none
     \/ Return(Answer(Argument))               \* any other kind

(* The version: the buffer is exactly what was asked for, and a longer     *)
(* block is cut without an error.                                          *)

GetFileVersionInfoSize ==
  /\ at = "GetFileVersionInfoSize"
  /\ at' = "GetFileVersionInfo" /\ size' = Length[value]
  /\ UNCHANGED <<query, value, again, kind, changed, result>>

GetFileVersionInfo ==
  /\ at = "GetFileVersionInfo"
  /\ \/ Length[value] <= size /\ Return(Answer(value))
     \/ Length[value] > size /\ Return(Answer(Garbage))

Step ==
  \/ GetEnvironmentVariable \/ GetEnvironmentVariableAgain
  \/ ExpandEnvironmentStrings \/ ExpandEnvironmentStringsAgain
  \/ GetFullPathName \/ CreateFile \/ GetFinalPathNameByHandle \/ GetModuleFileName
  \/ DeviceIoControl \/ GetFileVersionInfoSize \/ GetFileVersionInfo

Next == (\E q \in Queries : Start(q)) \/ Change \/ SystemFails \/ FallbackFails \/ Step

Spec == Init /\ [][Next]_vars /\ WF_vars(Step)

-----------------------------------------------------------------------------
(* Whatever changes while it runs, every query returns, but for one of a   *)
(* program whose path does not fit the first buffer.                       *)
TooLong == at = "GetModuleFileName" /\ ~Fits
EveryQueryReturns == (query # "none") ~> (query = "none" \/ TooLong)

(* Each query is one read of its value: no buffer that was too short is    *)
(* returned.  Excepted are LookupEnv and pe::Lookup with a value that      *)
(* changes, and the empty path that RealPathEx may return as a success.    *)
Reading == INSTANCE ValueQuery WITH asking <- query
ImplementsValueQuery == Reading!Spec
=============================================================================
