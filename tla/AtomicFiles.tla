---------------------------- MODULE AtomicFiles -----------------------------
(***************************************************************************)
(* What the operator may count on of snapshot files: a name holds no file  *)
(* or one complete snapshot, a capture that succeeds puts its snapshot     *)
(* under its name at one instant, and one that does not changes nothing.   *)
(***************************************************************************)
CONSTANTS Writers, Names, Target, Others, Nothing

VARIABLES
  holds,  \* what each name holds
  ended   \* how each capture ended, if it did

filesVars == <<holds, ended>>

FilesInit ==
  /\ holds \in [Names -> Others \cup {Nothing}]
  /\ ended = [w \in Writers |-> "running"]

Publish(w) ==
  /\ ended[w] = "running"
  /\ holds' = [holds EXCEPT ![Target[w]] = w]
  /\ ended' = [ended EXCEPT ![w] = "succeeded"]

GiveUp(w) ==
  /\ ended[w] = "running"
  /\ ended' = [ended EXCEPT ![w] = "failed"]
  /\ UNCHANGED holds

(* The operator files a snapshot under another name.                       *)
Rename(from, to) ==
  /\ from # to
  /\ holds[from] # Nothing
  /\ holds' = [holds EXCEPT ![to] = holds[from], ![from] = Nothing]
  /\ UNCHANGED ended

FilesNext ==
  \/ \E w \in Writers : Publish(w) \/ GiveUp(w)
  \/ \E from, to \in Names : Rename(from, to)

FilesSpec == FilesInit /\ [][FilesNext]_filesVars
=============================================================================
