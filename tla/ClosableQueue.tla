---------------------------- MODULE ClosableQueue ----------------------------
(***************************************************************************)
(* What util::conqurrent_queue promises to the threads that share it: a    *)
(* FIFO queue that can be closed once.  Values come out in the order they  *)
(* went in, a closed queue accepts nothing more, and a reader is told      *)
(* "no more" only after everything that was accepted has been handed out.  *)
(* Waiting is not visible here: a call that blocks simply has not happened *)
(* yet.  ConcurrentQueue.tla is the monitor that implements this.          *)
(***************************************************************************)
EXTENDS Sequences

CONSTANTS Producers,    \* threads that push
          Consumers,    \* threads that pop
          Values,       \* what is pushed
          None          \* "no value"

VARIABLES items,        \* accepted and not yet handed out, oldest first
          closed,       \* done() has been called
          ret           \* ret[t]: what the latest call of t returned

vars == <<items, closed, ret>>

Threads == Producers \cup Consumers

\* The bool a call returns, and the value a successful pop stores through its
\* reference argument.
Result(ok, val) == [ok |-> ok, val |-> val]

Init ==
    /\ items = <<>>
    /\ closed = FALSE
    /\ ret = [t \in Threads |-> Result(TRUE, None)]

\* push accepts v: true.
Push(t, v) ==
    /\ ~closed
    /\ items' = Append(items, v)
    /\ ret' = [ret EXCEPT ![t] = Result(TRUE, None)]
    /\ UNCHANGED closed

\* push on a closed queue drops the value: false.
PushRefused(t) ==
    /\ closed
    /\ ret' = [ret EXCEPT ![t] = Result(FALSE, None)]
    /\ UNCHANGED <<items, closed>>

\* pop hands out the oldest value: true.
Pop(t) ==
    /\ items # <<>>
    /\ items' = Tail(items)
    /\ ret' = [ret EXCEPT ![t] = Result(TRUE, Head(items))]
    /\ UNCHANGED closed

\* pop on a closed and drained queue: false.
PopEnd(t) ==
    /\ closed
    /\ items = <<>>
    /\ ret' = [ret EXCEPT ![t] = Result(FALSE, None)]
    /\ UNCHANGED <<items, closed>>

Close ==
    /\ closed' = TRUE
    /\ UNCHANGED <<items, ret>>

Next ==
    \/ \E t \in Producers : PushRefused(t) \/ \E v \in Values : Push(t, v)
    \/ \E t \in Consumers : Pop(t) \/ PopEnd(t)
    \/ Close

Spec == Init /\ [][Next]_vars
==============================================================================
