----------------------------- MODULE ValueQuery -----------------------------
(***************************************************************************)
(* What a query of the system promises its caller: the answer is one read  *)
(* of the value asked for, at one moment between the call and its return.  *)
(* LookupEnv and pe::Lookup break it if the value changed after the call   *)
(* (changed): they have told the system the size of an older value and do  *)
(* not look at whether it was enough.  RealPathEx breaks it with an empty  *)
(* path, which no file has: a caller has to test for it.                   *)
(***************************************************************************)
CONSTANTS Values,    \* what can be asked for, Empty among them
          Empty,     \* the empty string
          Missing,   \* no such variable
          Garbage,   \* a buffer that does not hold one value
          Argument   \* the text the caller passed
VARIABLES asking,    \* the query running, or "none"
          value,     \* what it asks for, which others change
          changed,   \* has it changed since the call
          result     \* what the last query returned
vars == <<asking, value, changed, result>>

Spoilable == {"LookupEnv", "Lookup"}
Readable == Values \union {Missing}
Failure == [ok |-> FALSE, text |-> Empty]
NotYet == [ok |-> FALSE, text |-> Garbage]

Init == asking = "none" /\ value \in Readable /\ changed = FALSE /\ result = NotYet

Ask == /\ asking = "none" /\ asking' # "none" /\ value' \in Readable
       /\ changed' = FALSE /\ result' = NotYet

Change == /\ asking # "none" /\ value' \in Readable /\ changed' = TRUE
          /\ UNCHANGED <<asking, result>>

Returns(r) == asking' = "none" /\ result' = r /\ UNCHANGED <<value, changed>>

\* One read, of what is there now.
Give == asking # "none" /\ value \in Values /\ Returns([ok |-> TRUE, text |-> value])
\* LookupEnv fails if there is no such variable, the others if the system does.
Fail == /\ asking # "none" /\ (asking = "LookupEnv" => value = Missing)
        /\ Returns(Failure)
\* Nothing had to be read.
Echo == /\ asking \in {"WindowsExpandEnv", "RealPathEx"}
        /\ Returns([ok |-> TRUE, text |-> Argument])
\* The size asked with is not that of the value there now.
Spoil == /\ asking \in Spoilable /\ changed
         /\ \E t \in {Empty, Garbage} : Returns([ok |-> TRUE, text |-> t])

\* A success without a path: the fallback failed, or the link has no target.
Blank == asking = "RealPathEx" /\ Returns([ok |-> TRUE, text |-> Empty])

Next == Ask \/ Change \/ Give \/ Fail \/ Echo \/ Spoil \/ Blank

Spec == Init /\ [][Next]_vars
=============================================================================
