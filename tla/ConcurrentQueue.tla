--------------------------- MODULE ConcurrentQueue ---------------------------
(***************************************************************************)
(* util::conqurrent_queue (src/avroq/util/concurrentqueue.hpp): a          *)
(* std::queue, one mutex, two condition variables and a flag.              *)
(*                                                                         *)
(* One action is one critical section, from the acquisition of the mutex   *)
(* to the wait that releases it or to the return.  A thread that waits is  *)
(* in the wait set of its condition variable; a notification takes it out  *)
(* of the set, and it goes on when it gets the mutex back, which may be    *)
(* after any number of calls of the others.  A condition variable may also *)
(* wake a thread spuriously.                                               *)
(*                                                                         *)
(* The two waits of the code differ: pop waits in a `while', push in an    *)
(* `if', so a producer that was woken pushes without a second look at the  *)
(* size.                                                                   *)
(*                                                                         *)
(* A definition marked "Variant" is the definition after it with a bug; it *)
(* is no part of the model, and shows that a property sees such a bug.     *)
(***************************************************************************)
EXTENDS Naturals, Sequences, FiniteSets

CONSTANTS Producers,    \* threads that call push
          Consumers,    \* threads that call pop
          Values,       \* what is pushed
          None,         \* "no value": the argument of a thread outside push
          SIZE,         \* the template parameter
          MaxSpurious   \* bound of the model: spurious wakeups in a behaviour

ASSUME ThreadsAssumption ==
    /\ IsFiniteSet(Producers)
    /\ IsFiniteSet(Consumers)
    /\ Producers \cap Consumers = {}

ASSUME SizeAssumption == SIZE \in Nat /\ MaxSpurious \in Nat

Threads == Producers \cup Consumers

VARIABLES queue,        \* the std::queue
          is_done,      \* done() was called
          full,         \* wait set of `full': producers that wait for room
          empty,        \* wait set of `empty': consumers that wait for values
          pc,           \* "idle", or the call the thread has begun to wait in
          arg,          \* the argument of a waiting push
          ret,          \* what the latest call of the thread returned
          spurious      \* spurious wakeups so far

vars == <<queue, is_done, full, empty, pc, arg, ret, spurious>>

Result(ok, val) == [ok |-> ok, val |-> val]

TypeOK ==
    /\ queue \in Seq(Values)
    /\ is_done \in BOOLEAN
    /\ full \subseteq {t \in Producers : pc[t] = "push"}
    /\ empty \subseteq {t \in Consumers : pc[t] = "pop"}
    /\ pc \in [Threads -> {"idle", "push", "pop"}]
    /\ \A t \in Threads : pc[t] = "push" => t \in Producers /\ arg[t] \in Values
    /\ \A t \in Threads : pc[t] = "pop" => t \in Consumers
    /\ arg \in [Threads -> Values \cup {None}]
    /\ ret \in [Threads -> [ok : BOOLEAN, val : Values \cup {None}]]
    /\ spurious \in 0..MaxSpurious

\* Threads that were taken out of a wait set and have not got the mutex yet.
WokenProducers == {t \in Producers : pc[t] = "push"} \ full
WokenConsumers == {t \in Consumers : pc[t] = "pop"} \ empty

Init ==
    /\ queue = <<>>
    /\ is_done = FALSE
    /\ full = {}
    /\ empty = {}
    /\ pc = [t \in Threads |-> "idle"]
    /\ arg = [t \in Threads |-> None]
    /\ ret = [t \in Threads |-> Result(TRUE, None)]
    /\ spurious = 0

-----------------------------------------------------------------------------
\* notify_one: the wait sets it may leave behind.
NotifyOne(waiting) ==
    IF waiting = {} THEN {{}} ELSE {waiting \ {t} : t \in waiting}

Return(t, ok, val) ==
    /\ pc' = [pc EXCEPT ![t] = "idle"]
    /\ arg' = [arg EXCEPT ![t] = None]
    /\ ret' = [ret EXCEPT ![t] = Result(ok, val)]

\* Variant: waits for the wrong condition.
PushWaitOnEmpty(t, v) ==
    /\ pc[t] = "idle"
    /\ Len(queue) > SIZE
    /\ ~is_done
    /\ empty' = empty \cup {t}
    /\ pc' = [pc EXCEPT ![t] = "push"]
    /\ arg' = [arg EXCEPT ![t] = v]
    /\ UNCHANGED <<queue, is_done, full, ret, spurious>>

\* push, when the queue is over its size: wait for room.
PushWait(t, v) ==
    /\ pc[t] = "idle"
    /\ Len(queue) > SIZE
    /\ ~is_done
    /\ full' = full \cup {t}
    /\ pc' = [pc EXCEPT ![t] = "push"]
    /\ arg' = [arg EXCEPT ![t] = v]
    /\ UNCHANGED <<queue, is_done, empty, ret, spurious>>

\* Variant: notifies a consumer before the value is in the queue, and only if
\* there is another one.
PushRestLate(t, v) ==
    \/ /\ is_done
       /\ Return(t, FALSE, None)
       /\ UNCHANGED <<queue, is_done, full, empty, spurious>>
    \/ /\ ~is_done
       /\ queue' = Append(queue, v)
       /\ IF queue = <<>> THEN UNCHANGED empty ELSE empty' \in NotifyOne(empty)
       /\ Return(t, TRUE, None)
       /\ UNCHANGED <<is_done, full, spurious>>

\* Variant: a stack.
PushRestFront(t, v) ==
    \/ /\ is_done
       /\ Return(t, FALSE, None)
       /\ UNCHANGED <<queue, is_done, full, empty, spurious>>
    \/ /\ ~is_done
       /\ queue' = <<v>> \o queue
       /\ empty' \in NotifyOne(empty)
       /\ Return(t, TRUE, None)
       /\ UNCHANGED <<is_done, full, spurious>>

\* The rest of push, after the `if' that may wait.
PushRest(t, v) ==
    \/ /\ is_done
       /\ Return(t, FALSE, None)
       /\ UNCHANGED <<queue, is_done, full, empty, spurious>>
    \/ /\ ~is_done
       /\ queue' = Append(queue, v)
       /\ empty' \in NotifyOne(empty)
       /\ Return(t, TRUE, None)
       /\ UNCHANGED <<is_done, full, spurious>>

\* push without a wait.
PushNow(t, v) ==
    /\ pc[t] = "idle"
    /\ Len(queue) <= SIZE \/ is_done
    /\ PushRest(t, v)

\* A woken producer goes on; it does not look at the size again.
PushResume(t) ==
    /\ pc[t] = "push"
    /\ t \notin full
    /\ PushRest(t, arg[t])

\* A consumer that holds the mutex: it has just called pop, or was woken.
InPop(t) == pc[t] = "idle" \/ (pc[t] = "pop" /\ t \notin empty)

\* pop: nothing there, wait (again).
PopWait(t) ==
    /\ InPop(t)
    /\ queue = <<>>
    /\ ~is_done
    /\ empty' = empty \cup {t}
    /\ pc' = [pc EXCEPT ![t] = "pop"]
    /\ UNCHANGED <<queue, is_done, full, arg, ret, spurious>>

\* Variant: tells a producer only when the queue is half empty (the condition
\* that is commented out in the code, lines 57-59).
PopValueHalf(t) ==
    /\ InPop(t)
    /\ queue # <<>>
    /\ queue' = Tail(queue)
    /\ IF Len(queue) - 1 < SIZE \div 2 THEN full' \in NotifyOne(full)
                                       ELSE UNCHANGED full
    /\ Return(t, TRUE, Head(queue))
    /\ UNCHANGED <<is_done, empty, spurious>>

\* Variant: tells all the producers, each of which takes the place for its own.
PopValueAll(t) ==
    /\ InPop(t)
    /\ queue # <<>>
    /\ queue' = Tail(queue)
    /\ full' = {}
    /\ Return(t, TRUE, Head(queue))
    /\ UNCHANGED <<is_done, empty, spurious>>

\* pop: take the front, tell one producer.
PopValue(t) ==
    /\ InPop(t)
    /\ queue # <<>>
    /\ queue' = Tail(queue)
    /\ full' \in NotifyOne(full)
    /\ Return(t, TRUE, Head(queue))
    /\ UNCHANGED <<is_done, empty, spurious>>

\* Variant: does not look whether the queue is empty.
PopEndEarly(t) ==
    /\ InPop(t)
    /\ is_done
    /\ Return(t, FALSE, None)
    /\ UNCHANGED <<queue, is_done, full, empty, spurious>>

\* pop: empty and done.
PopEnd(t) ==
    /\ InPop(t)
    /\ queue = <<>>
    /\ is_done
    /\ Return(t, FALSE, None)
    /\ UNCHANGED <<queue, is_done, full, empty, spurious>>

\* Variant: forgets the producers.
DoneConsumersOnly(t) ==
    /\ pc[t] = "idle"
    /\ is_done' = TRUE
    /\ empty' = {}
    /\ UNCHANGED <<queue, full, pc, arg, ret, spurious>>

\* done: any thread may close the queue, any number of times.
Done(t) ==
    /\ pc[t] = "idle"
    /\ is_done' = TRUE
    /\ full' = {}
    /\ empty' = {}
    /\ UNCHANGED <<queue, pc, arg, ret, spurious>>

\* std::condition_variable::wait may return without a notification.
SpuriousWakeup(t) ==
    /\ spurious < MaxSpurious
    /\ t \in full \cup empty
    /\ full' = full \ {t}
    /\ empty' = empty \ {t}
    /\ spurious' = spurious + 1
    /\ UNCHANGED <<queue, is_done, pc, arg, ret>>

-----------------------------------------------------------------------------
Push(t) == PushResume(t) \/ \E v \in Values : PushWait(t, v) \/ PushNow(t, v)
Pop(t)  == PopWait(t) \/ PopValue(t) \/ PopEnd(t)

Next ==
    \/ \E t \in Producers : Push(t)
    \/ \E t \in Consumers : Pop(t)
    \/ \E t \in Threads : Done(t) \/ SpuriousWakeup(t)

Spec == Init /\ [][Next]_vars

\* Once a thread has begun to wait and is woken, it gets the mutex sooner or
\* later.  Nobody has to begin a call.
Fairness ==
    /\ \A t \in Producers : WF_vars(PushResume(t))
    /\ \A t \in Consumers : WF_vars(pc[t] = "pop" /\ Pop(t))

FairSpec == Spec /\ Fairness

-----------------------------------------------------------------------------
(* Safety *)

\* A closed queue has nobody left in a wait set: done() wakes them all, and
\* nobody begins to wait after it (concurrentqueue.hpp:21, 42, 64-71).
DoneWakesEverybody == is_done => full = {} /\ empty = {}

\* notify_one after every push is enough: while a consumer sleeps, each queued
\* value has a consumer that is already awake for it (lines 30, 42-44).
NoLostConsumerWakeup ==
    empty # {} => Len(queue) <= Cardinality(WokenConsumers)

\* notify_one after every pop is enough: while a producer sleeps, each free
\* place has a producer that is already awake for it (lines 21-23, 58).
NoLostProducerWakeup ==
    full # {} => SIZE + 1 <= Len(queue) + Cardinality(WokenProducers)

\* The queue is bounded although push tests the size with an `if': at most one
\* element more for every producer, and one for every spurious wakeup
\* (lines 21-28).
Capacity == Len(queue) <= SIZE + Cardinality(Producers) + spurious

\* What holds it up: a woken producer has its place reserved.
Reservation ==
    ~is_done => Len(queue) + Cardinality(WokenProducers)
                    <= SIZE + Cardinality(Producers) + spurious

\* The monitor is a closable FIFO queue.
Abstract == INSTANCE ClosableQueue WITH items <- queue, closed <- is_done
AbstractSpec == Abstract!Spec

(* Liveness *)

\* done() lets every waiting thread out of its call (lines 64-71).
DoneReleases ==
    \A t \in Threads : (is_done /\ pc[t] # "idle") ~> (pc[t] = "idle")

\* A queued value does not stay while all the consumers wait for one.
ConsumersProgress ==
    (queue # <<>> /\ \A t \in Consumers : pc[t] = "pop")
        ~> (\E t \in Consumers : pc[t] = "idle")

\* Room in the queue does not stay unused while all the producers wait for it.
ProducersProgress ==
    (Len(queue) <= SIZE /\ \A t \in Producers : pc[t] = "push")
        ~> (\E t \in Producers : pc[t] = "idle")
==============================================================================
