----------------------------- MODULE AtomicFile -----------------------------
(***************************************************************************)
(* What bela::io promises of one file: AtomicWriteText is one indivisible  *)
(* update of the file's text, and ReadFile returns a text the file held.   *)
(* A write whose caller is told "false", and a write whose process dies    *)
(* before it committed, leave the file as it was.  AtomicWrite implements  *)
(* this specification when every writer has a process of its own.          *)
(***************************************************************************)
CONSTANTS
  Writers,   \* callers of AtomicWriteText
  Readers,   \* callers of ReadFile
  Texts,     \* the texts that are written
  NoText     \* the file does not exist, or nothing was read

VARIABLES
  value,     \* the text of the file
  call,      \* call[c]: where the call of c is, or how it ended
  arg,       \* arg[w]: the text w writes
  seen       \* seen[r]: the text r reads

avars == <<value, call, arg, seen>>

Clients == Writers \cup Readers

Ended == {"idle", "true", "false"}

AInit ==
  /\ value \in Texts \cup {NoText}
  /\ call = [c \in Clients |-> "idle"]
  /\ arg = [w \in Writers |-> NoText]
  /\ seen = [r \in Readers |-> NoText]

InvokeWrite(w) ==
  /\ call[w] \in Ended
  /\ \E t \in Texts : arg' = [arg EXCEPT ![w] = t]
  /\ call' = [call EXCEPT ![w] = "pending"]
  /\ UNCHANGED <<value, seen>>

Commit(w) ==
  /\ call[w] = "pending"
  /\ value' = arg[w]
  /\ call' = [call EXCEPT ![w] = "true"]
  /\ UNCHANGED <<arg, seen>>

Abort(w) ==
  /\ call[w] = "pending"
  /\ call' = [call EXCEPT ![w] = "false"]
  /\ UNCHANGED <<value, arg, seen>>

InvokeRead(r) ==
  /\ call[r] \in Ended
  /\ call' = [call EXCEPT ![r] = "pending"]
  /\ seen' = [seen EXCEPT ![r] = NoText]
  /\ UNCHANGED <<value, arg>>

Sample(r) ==
  /\ call[r] = "pending"
  /\ value # NoText
  /\ call' = [call EXCEPT ![r] = "sampled"]
  /\ seen' = [seen EXCEPT ![r] = value]
  /\ UNCHANGED <<value, arg>>

EndRead(r) ==
  /\ call[r] = "sampled"
  /\ call' = [call EXCEPT ![r] = "true"]
  /\ UNCHANGED <<value, arg, seen>>

AbortRead(r) ==
  /\ call[r] \in {"pending", "sampled"}
  /\ call' = [call EXCEPT ![r] = "false"]
  /\ seen' = [seen EXCEPT ![r] = NoText]
  /\ UNCHANGED <<value, arg>>

\* A process dies with all its threads: their calls end without an effect.
Die(C) ==
  /\ call' = [c \in Clients |-> IF c \in C THEN "idle" ELSE call[c]]
  /\ seen' = [r \in Readers |-> IF r \in C THEN NoText ELSE seen[r]]
  /\ UNCHANGED <<value, arg>>

ANext ==
  \/ \E w \in Writers : InvokeWrite(w) \/ Commit(w) \/ Abort(w)
  \/ \E r \in Readers : InvokeRead(r) \/ Sample(r) \/ EndRead(r) \/ AbortRead(r)
  \/ \E C \in SUBSET Clients : Die(C)

ASpec == AInit /\ [][ANext]_avars
=============================================================================
