----------------------------- MODULE RecordStream -----------------------------
(***************************************************************************)
(* What a run of aq that prints records promises, whatever its threads do: *)
(* every record it prints is a match, no match is printed twice, never     *)
(* more than the limit, and when it ends by itself on sound input it has   *)
(* printed every match, or as many as the limit allows.  Only unsound      *)
(* input may make it stop early or abort.                                  *)
(***************************************************************************)
EXTENDS Naturals, Sequences, FiniteSets

VARIABLES matches,      \* the records of the input that pass the filter
          bound,        \* how many of them may be printed
          sound,        \* the input has no fault
          printed,      \* the records printed so far
          state         \* "running", "exited" or "aborted"

vars == <<matches, bound, sound, printed, state>>

PrintedSet == {printed[i] : i \in 1..Len(printed)}

Init ==
    /\ printed = <<>>
    /\ state = "running"

Emit(d) ==
    /\ state = "running"
    /\ d \in matches \ PrintedSet
    /\ Len(printed) < bound
    /\ printed' = Append(printed, d)
    /\ UNCHANGED <<matches, bound, sound, state>>

Exit ==
    /\ state = "running"
    /\ sound => PrintedSet = matches \/ Len(printed) = bound
    /\ state' = "exited"
    /\ UNCHANGED <<matches, bound, sound, printed>>

Abort ==
    /\ state = "running"
    /\ ~sound
    /\ state' = "aborted"
    /\ UNCHANGED <<matches, bound, sound, printed>>

Next == Exit \/ Abort \/ \E d \in matches : Emit(d)

Spec == Init /\ [][Next]_vars
==============================================================================
