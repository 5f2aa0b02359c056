------------------------ MODULE ConcurrentQueueProofs ------------------------
(***************************************************************************)
(* The queue for every number of threads and every size: its invariants,   *)
(* and that it implements ClosableQueue.                                   *)
(***************************************************************************)
EXTENDS ConcurrentQueue, FiniteSetTheorems, SequenceTheorems, TLAPS

USE ThreadsAssumption, SizeAssumption

\* What notify_one leaves behind: the set itself when nobody waits, otherwise
\* the set without one of its members.
LEMMA NotifyOneEffect ==
    ASSUME NEW W, NEW R \in NotifyOne(W)
    PROVE  \/ W = {} /\ R = {}
           \/ \E w \in W : R = W \ {w}
BY DEF NotifyOne

\* A finite set that gains a new member, loses a member, or loses none.
LEMMA CardinalityStep ==
    ASSUME NEW S, IsFiniteSet(S), NEW x
    PROVE  /\ Cardinality(S) \in Nat
           /\ x \notin S => Cardinality(S \cup {x}) = Cardinality(S) + 1
           /\ x \in S => Cardinality(S \ {x}) = Cardinality(S) - 1
           /\ IsFiniteSet(S \cup {x})
           /\ IsFiniteSet(S \ {x})
<1>1. Cardinality(S) \in Nat  BY FS_CardinalityType
<1>2. IsFiniteSet(S \cup {x}) /\ Cardinality(S \cup {x}) =
        IF x \in S THEN Cardinality(S) ELSE Cardinality(S) + 1
  BY FS_AddElement
<1>3. IsFiniteSet(S \ {x}) /\ Cardinality(S \ {x}) =
        IF x \in S THEN Cardinality(S) - 1 ELSE Cardinality(S)
  BY FS_RemoveElement
<1>. QED  BY <1>1, <1>2, <1>3

-----------------------------------------------------------------------------
(* Type correctness *)

LEMMA TypeInit == Init => TypeOK
<1>. SUFFICES ASSUME Init PROVE TypeOK
  OBVIOUS
<1>1. queue \in Seq(Values) /\ is_done \in BOOLEAN
  BY EmptySeq DEF Init
<1>2. pc \in [Threads -> {"idle", "push", "pop"}]
  BY DEF Init
<1>3. \A t \in Threads : pc[t] = "idle"
  BY DEF Init
<1>4. arg \in [Threads -> Values \cup {None}]
  BY DEF Init
<1>5. ret \in [Threads -> [ok : BOOLEAN, val : Values \cup {None}]]
  BY DEF Init, Result
<1>6. full = {} /\ empty = {} /\ spurious \in 0..MaxSpurious
  BY DEF Init
<1>. QED  BY <1>1, <1>2, <1>3, <1>4, <1>5, <1>6 DEF TypeOK

LEMMA TypeReturn ==
    ASSUME TypeOK, NEW t \in Threads, NEW ok \in BOOLEAN,
           NEW val \in Values \cup {None}, Return(t, ok, val)
    PROVE  /\ pc' \in [Threads -> {"idle", "push", "pop"}]
           /\ arg' \in [Threads -> Values \cup {None}]
           /\ ret' \in [Threads -> [ok : BOOLEAN, val : Values \cup {None}]]
           /\ pc'[t] = "idle"
           /\ \A u \in Threads \ {t} : pc'[u] = pc[u] /\ arg'[u] = arg[u]
BY DEF TypeOK, Return, Result

LEMMA TypePushRest ==
    ASSUME TypeOK, NEW t \in Producers, NEW v \in Values, t \notin full,
           PushRest(t, v)
    PROVE  TypeOK'
<1>. t \in Threads  BY DEF Threads
<1>1. CASE is_done /\ Return(t, FALSE, None)
           /\ UNCHANGED <<queue, is_done, full, empty, spurious>>
  <2>1. /\ pc' \in [Threads -> {"idle", "push", "pop"}]
        /\ arg' \in [Threads -> Values \cup {None}]
        /\ ret' \in [Threads -> [ok : BOOLEAN, val : Values \cup {None}]]
        /\ pc'[t] = "idle"
        /\ \A u \in Threads \ {t} : pc'[u] = pc[u] /\ arg'[u] = arg[u]
    BY <1>1, TypeReturn
  <2>2. t \notin empty  BY DEF TypeOK, Threads
  <2>3. UNCHANGED <<queue, is_done, full, empty, spurious>>  BY <1>1
  <2>. QED  BY <2>1, <2>2, <2>3 DEF TypeOK, Threads
<1>2. CASE /\ ~is_done
           /\ queue' = Append(queue, v)
           /\ empty' \in NotifyOne(empty)
           /\ Return(t, TRUE, None)
           /\ UNCHANGED <<is_done, full, spurious>>
  <2>1. empty' \subseteq empty  BY <1>2, NotifyOneEffect
  <2>2. queue' \in Seq(Values)  BY <1>2, AppendProperties DEF TypeOK
  <2>3. /\ pc' \in [Threads -> {"idle", "push", "pop"}]
        /\ arg' \in [Threads -> Values \cup {None}]
        /\ ret' \in [Threads -> [ok : BOOLEAN, val : Values \cup {None}]]
        /\ pc'[t] = "idle"
        /\ \A u \in Threads \ {t} : pc'[u] = pc[u] /\ arg'[u] = arg[u]
    BY <1>2, TypeReturn
  <2>4. t \notin empty  BY DEF TypeOK, Threads
  <2>5. UNCHANGED <<is_done, full, spurious>>  BY <1>2
  <2>. QED  BY <2>1, <2>2, <2>3, <2>4, <2>5 DEF TypeOK, Threads
<1>. QED  BY <1>1, <1>2 DEF PushRest

LEMMA TypeNext == TypeOK /\ [Next]_vars => TypeOK'
<1>. SUFFICES ASSUME TypeOK, [Next]_vars PROVE TypeOK'
  OBVIOUS
<1>1. ASSUME NEW t \in Producers, NEW v \in Values, PushWait(t, v)
      PROVE  TypeOK'
  BY <1>1 DEF PushWait, TypeOK, Threads
<1>2. ASSUME NEW t \in Producers, NEW v \in Values, PushNow(t, v)
      PROVE  TypeOK'
  <2>. t \notin full  BY <1>2 DEF PushNow, TypeOK
  <2>. QED  BY <1>2, TypePushRest DEF PushNow
<1>3. ASSUME NEW t \in Producers, PushResume(t)
      PROVE  TypeOK'
  <2>. arg[t] \in Values  BY <1>3 DEF PushResume, TypeOK, Threads
  <2>. QED  BY <1>3, TypePushRest DEF PushResume
<1>4. ASSUME NEW t \in Consumers, PopWait(t)
      PROVE  TypeOK'
  BY <1>4 DEF PopWait, InPop, TypeOK, Threads
<1>5. ASSUME NEW t \in Consumers, PopValue(t)
      PROVE  TypeOK'
  <2>. t \in Threads  BY DEF Threads
  <2>1. full' \subseteq full  BY <1>5, NotifyOneEffect DEF PopValue
  <2>2. Head(queue) \in Values /\ queue' \in Seq(Values)
    BY <1>5, HeadTailProperties DEF PopValue, TypeOK
  <2>3. t \notin empty  BY <1>5 DEF PopValue, InPop, TypeOK
  <2>. QED  BY <1>5, <2>1, <2>2, <2>3, TypeReturn DEF PopValue, TypeOK, Threads
<1>6. ASSUME NEW t \in Consumers, PopEnd(t)
      PROVE  TypeOK'
  <2>. t \in Threads  BY DEF Threads
  <2>3. t \notin empty  BY <1>6 DEF PopEnd, InPop, TypeOK
  <2>. QED  BY <1>6, <2>3, TypeReturn DEF PopEnd, TypeOK, Threads
<1>7. ASSUME NEW t \in Threads, Done(t)
      PROVE  TypeOK'
  BY <1>7 DEF Done, TypeOK
<1>8. ASSUME NEW t \in Threads, SpuriousWakeup(t)
      PROVE  TypeOK'
  BY <1>8 DEF SpuriousWakeup, TypeOK
<1>9. CASE UNCHANGED vars
  BY <1>9 DEF vars, TypeOK
<1>. QED
  BY <1>1, <1>2, <1>3, <1>4, <1>5, <1>6, <1>7, <1>8, <1>9 DEF Next, Push, Pop

\* Every variable of the queue has its type, in particular only a thread that
\* is inside push or pop is in the wait set of that call.
THEOREM TypeCorrect == Spec => []TypeOK
<1>. QED  BY TypeInit, TypeNext, PTL DEF Spec

-----------------------------------------------------------------------------
(* The counting invariants *)

LEMMA WokenFinite ==
    /\ IsFiniteSet(WokenProducers) /\ IsFiniteSet(WokenConsumers)
    /\ Cardinality(WokenProducers) \in Nat
    /\ Cardinality(WokenConsumers) \in Nat
    /\ Cardinality(Producers) \in Nat
    /\ Cardinality(WokenProducers) <= Cardinality(Producers)
    /\ \A t \in Producers :
         t \notin WokenProducers =>
            Cardinality(WokenProducers) + 1 <= Cardinality(Producers)
<1>1. WokenProducers \subseteq Producers /\ WokenConsumers \subseteq Consumers
  BY DEF WokenProducers, WokenConsumers
<1>2. IsFiniteSet(WokenProducers) /\ IsFiniteSet(WokenConsumers)
        /\ Cardinality(WokenProducers) <= Cardinality(Producers)
  BY <1>1, FS_Subset
<1>3. ASSUME NEW t \in Producers, t \notin WokenProducers
      PROVE  Cardinality(WokenProducers) + 1 <= Cardinality(Producers)
  <2>1. WokenProducers \subseteq Producers \ {t}  BY <1>1, <1>3
  <2>2. IsFiniteSet(Producers \ {t})
          /\ Cardinality(Producers \ {t}) = Cardinality(Producers) - 1
    BY <1>3, CardinalityStep
  <2>3. Cardinality(WokenProducers) <= Cardinality(Producers \ {t})
    BY <2>1, <2>2, FS_Subset
  <2>. QED
    BY <1>2, <2>2, <2>3, FS_CardinalityType
<1>. QED  BY <1>2, <1>3, FS_CardinalityType

\* The inductive invariant: with Reservation, which counts the producers that
\* are woken but have not pushed yet as if they had, the four properties hold
\* one another up.
IInv ==
    /\ TypeOK
    /\ DoneWakesEverybody
    /\ NoLostConsumerWakeup
    /\ NoLostProducerWakeup
    /\ Reservation
    /\ Capacity

LEMMA IInvInit == Init => IInv
<1>. SUFFICES ASSUME Init PROVE IInv
  OBVIOUS
<1>1. WokenProducers = {}
  BY DEF Init, WokenProducers, Threads
<1>2. Cardinality(WokenProducers) = 0
  BY <1>1, FS_EmptySet
<1>3. full = {} /\ empty = {} /\ Len(queue) = 0 /\ spurious = 0
  BY DEF Init
<1>. QED
  BY <1>2, <1>3, TypeInit, FS_CardinalityType
  DEF IInv, DoneWakesEverybody, NoLostConsumerWakeup, NoLostProducerWakeup,
      Reservation, Capacity

\* A step that leaves a closed queue with nobody waiting, and no longer than it
\* was, has nothing left to break.
LEMMA ClosedStep ==
    ASSUME IInv, TypeOK', is_done', full' = {}, empty' = {},
           Len(queue') <= Len(queue), spurious' = spurious
    PROVE  IInv'
<1>. Len(queue) \in Nat /\ Len(queue') \in Nat /\ spurious \in Nat
  BY DEF IInv, TypeOK
<1>. QED
  BY WokenFinite
  DEF IInv, DoneWakesEverybody, NoLostConsumerWakeup, NoLostProducerWakeup,
      Reservation, Capacity

\* The accepting end of push, by a thread t that either had its place reserved
\* or found room.
LEMMA AcceptStep ==
    ASSUME IInv, TypeOK', NEW t \in Producers, NEW v \in Values, ~is_done,
           t \in WokenProducers \/ (pc[t] = "idle" /\ Len(queue) <= SIZE),
           queue' = Append(queue, v),
           empty' \in NotifyOne(empty),
           pc' = [pc EXCEPT ![t] = "idle"],
           UNCHANGED <<is_done, full, spurious>>
    PROVE  IInv'
<1>. DEFINE W == Cardinality(WokenProducers)
            C == Cardinality(WokenConsumers)
<1>. t \in Threads  BY DEF Threads
<1>1. Len(queue) \in Nat /\ Len(queue') = Len(queue) + 1 /\ spurious \in Nat
  BY AppendProperties DEF IInv, TypeOK
<1>2. WokenProducers' = WokenProducers \ {t}
  BY DEF WokenProducers, IInv, TypeOK, Threads
<1>3. ASSUME t \in WokenProducers
      PROVE  Reservation' /\ Capacity' /\ NoLostProducerWakeup'
  <2>1. W \in Nat /\ W' = W - 1 /\ W - 1 \in Nat
    BY <1>2, <1>3, WokenFinite, CardinalityStep
  <2>. HIDE DEF W
  <2>2. Cardinality(Producers) \in Nat /\ SIZE \in Nat
    BY WokenFinite
  <2>3. Len(queue) + W <= SIZE + Cardinality(Producers) + spurious
    BY DEF IInv, Reservation, W
  <2>4. Len(queue') + W' <= SIZE + Cardinality(Producers) + spurious'
    BY <1>1, <2>1, <2>2, <2>3
  <2>5. Reservation' /\ Capacity'
    BY <1>1, <2>1, <2>2, <2>4 DEF Reservation, Capacity, W
  <2>6. NoLostProducerWakeup'
    BY <1>1, <2>1 DEF IInv, NoLostProducerWakeup, W
  <2>. QED  BY <2>5, <2>6
<1>4. ASSUME t \notin WokenProducers
      PROVE  Reservation' /\ Capacity' /\ NoLostProducerWakeup'
  <2>1. W' = W  BY <1>2, <1>4
  <2>2. W + 1 <= Cardinality(Producers) /\ W \in Nat
          /\ Cardinality(Producers) \in Nat
    BY <1>4, WokenFinite
  <2>. HIDE DEF W
  <2>3. Len(queue) <= SIZE  BY <1>4
  <2>4. Reservation' /\ Capacity'
    BY <1>1, <2>1, <2>2, <2>3 DEF IInv, Reservation, Capacity, W
  <2>5. NoLostProducerWakeup'
    BY <1>1, <2>1, <2>2 DEF IInv, NoLostProducerWakeup, W
  <2>. QED  BY <2>4, <2>5
<1>5. NoLostConsumerWakeup'
  <2>1. CASE empty = {} /\ empty' = {}
    BY <2>1 DEF NoLostConsumerWakeup
  <2>2. ASSUME NEW c \in empty, empty' = empty \ {c}
        PROVE  NoLostConsumerWakeup'
    <3>1. c \in Consumers /\ c \in Threads /\ pc[c] = "pop"
            /\ c \notin WokenConsumers
      BY <2>2 DEF IInv, TypeOK, Threads, WokenConsumers
    <3>2. WokenConsumers' = WokenConsumers \cup {c}
      BY <2>2, <3>1 DEF WokenConsumers, IInv, TypeOK, Threads
    <3>3. C \in Nat /\ C' = C + 1
      BY <3>1, <3>2, WokenFinite, CardinalityStep
    <3>. HIDE DEF C
    <3>4. Len(queue) <= C
      BY <2>2 DEF IInv, NoLostConsumerWakeup, C
    <3>. QED  BY <1>1, <3>3, <3>4 DEF NoLostConsumerWakeup, C
  <2>. QED  BY <2>1, <2>2, NotifyOneEffect
<1>6. DoneWakesEverybody'  BY DEF DoneWakesEverybody
<1>. QED  BY <1>3, <1>4, <1>5, <1>6 DEF IInv

LEMMA PushRestStep ==
    ASSUME IInv, TypeOK', NEW t \in Producers, NEW v \in Values,
           t \in WokenProducers \/ (pc[t] = "idle" /\ (Len(queue) <= SIZE \/ is_done)),
           PushRest(t, v)
    PROVE  IInv'
<1>1. CASE is_done
  <2>. UNCHANGED <<queue, is_done, full, empty, spurious>>
    BY <1>1 DEF PushRest
  <2>. full = {} /\ empty = {}  BY <1>1 DEF IInv, DoneWakesEverybody
  <2>. Len(queue') <= Len(queue)  BY DEF IInv, TypeOK
  <2>. QED  BY <1>1, ClosedStep
<1>2. CASE ~is_done
  <2>. /\ queue' = Append(queue, v)
       /\ empty' \in NotifyOne(empty)
       /\ pc' = [pc EXCEPT ![t] = "idle"]
       /\ UNCHANGED <<is_done, full, spurious>>
    BY <1>2 DEF PushRest, Return
  <2>. QED  BY <1>2, AcceptStep
<1>. QED  BY <1>1, <1>2

LEMMA PushWaitStep ==
    ASSUME IInv, TypeOK', NEW t \in Producers, NEW v \in Values, PushWait(t, v)
    PROVE  IInv'
<1>. t \in Threads /\ t \notin Consumers  BY DEF Threads
<1>1. WokenProducers' = WokenProducers
  BY DEF PushWait, WokenProducers, IInv, TypeOK, Threads
<1>2. WokenConsumers' = WokenConsumers
  BY DEF PushWait, WokenConsumers, IInv, TypeOK, Threads
<1>3. UNCHANGED <<queue, is_done, empty, spurious>> /\ ~is_done
        /\ Len(queue) > SIZE /\ Len(queue) \in Nat
  BY DEF PushWait, IInv, TypeOK
<1>4. NoLostProducerWakeup'
  BY <1>1, <1>3, WokenFinite DEF NoLostProducerWakeup
<1>. QED
  BY <1>1, <1>2, <1>3, <1>4
  DEF IInv, DoneWakesEverybody, NoLostConsumerWakeup, Reservation, Capacity

LEMMA PopWaitStep ==
    ASSUME IInv, TypeOK', NEW t \in Consumers, PopWait(t)
    PROVE  IInv'
<1>. t \in Threads /\ t \notin Producers  BY DEF Threads
<1>1. WokenProducers' = WokenProducers
  BY DEF PopWait, InPop, WokenProducers, IInv, TypeOK, Threads
<1>2. UNCHANGED <<queue, is_done, full, spurious>> /\ ~is_done
        /\ Len(queue) = 0
  BY DEF PopWait, IInv, TypeOK
<1>3. (Cardinality(WokenConsumers) \in Nat)'
  <2>1. WokenConsumers' \subseteq Consumers  BY DEF WokenConsumers
  <2>. QED  BY <2>1, FS_Subset, FS_CardinalityType
<1>4. NoLostConsumerWakeup'
  BY <1>2, <1>3 DEF NoLostConsumerWakeup
<1>. QED
  BY <1>1, <1>2, <1>4
  DEF IInv, DoneWakesEverybody, NoLostProducerWakeup, Reservation, Capacity

LEMMA PopValueStep ==
    ASSUME IInv, TypeOK', NEW t \in Consumers, PopValue(t)
    PROVE  IInv'
<1>. DEFINE W == Cardinality(WokenProducers)
            C == Cardinality(WokenConsumers)
<1>. t \in Threads /\ t \notin Producers  BY DEF Threads
<1>1. CASE is_done
  <2>1. UNCHANGED <<is_done, empty, spurious>> /\ full = {} /\ empty = {}
    BY <1>1 DEF PopValue, IInv, DoneWakesEverybody
  <2>2. full' = {}  BY <2>1, NotifyOneEffect DEF PopValue
  <2>3. Len(queue') <= Len(queue)
    BY HeadTailProperties DEF PopValue, IInv, TypeOK
  <2>. QED  BY <1>1, <2>1, <2>2, <2>3, ClosedStep
<1>2. CASE ~is_done
  <2>1. Len(queue) \in Nat /\ Len(queue') = Len(queue) - 1 /\ Len(queue') \in Nat
          /\ spurious \in Nat
    BY HeadTailProperties DEF PopValue, IInv, TypeOK
  <2>2. UNCHANGED <<is_done, empty, spurious>>
          /\ pc' = [pc EXCEPT ![t] = "idle"]
          /\ (pc[t] = "idle" \/ (pc[t] = "pop" /\ t \notin empty))
    BY DEF PopValue, Return, InPop
  <2>3. NoLostConsumerWakeup'
    <3>1. WokenConsumers' = WokenConsumers \ {t}
      BY <2>2 DEF WokenConsumers, IInv, TypeOK, Threads
    <3>2. C \in Nat /\ C' >= C - 1
      <4>1. CASE t \in WokenConsumers
        BY <3>1, <4>1, WokenFinite, CardinalityStep
      <4>2. CASE t \notin WokenConsumers
        <5>1. C' = C  BY <3>1, <4>2
        <5>2. C \in Nat  BY WokenFinite
        <5>. HIDE DEF C
        <5>. QED  BY <5>1, <5>2
      <4>. QED  BY <4>1, <4>2
    <3>3. C' \in Nat
      BY <3>1, WokenFinite, CardinalityStep
    <3>. HIDE DEF C
    <3>4. empty # {} => Len(queue) <= C
      BY DEF IInv, NoLostConsumerWakeup, C
    <3>5. empty' # {} => Len(queue') <= C'
      BY <2>1, <2>2, <3>2, <3>3, <3>4
    <3>. QED  BY <3>5 DEF NoLostConsumerWakeup, C
  <2>4. \/ full = {} /\ full' = {} /\ W' = W
        \/ full # {} /\ W' = W + 1
    <3>1. CASE full = {} /\ full' = {}
      <4>. WokenProducers' = WokenProducers
        BY <2>2, <3>1 DEF WokenProducers, IInv, TypeOK, Threads
      <4>. QED  BY <3>1
    <3>2. ASSUME NEW p \in full, full' = full \ {p}
          PROVE  W' = W + 1
      <4>1. p \in Producers /\ p \in Threads /\ pc[p] = "push"
              /\ p \notin WokenProducers
        BY <3>2 DEF IInv, TypeOK, Threads, WokenProducers
      <4>2. WokenProducers' = WokenProducers \cup {p}
        BY <2>2, <3>2, <4>1 DEF WokenProducers, IInv, TypeOK, Threads
      <4>. QED  BY <4>1, <4>2, WokenFinite, CardinalityStep
    <3>. QED  BY <3>1, <3>2, NotifyOneEffect DEF PopValue
  <2>5. W \in Nat /\ Cardinality(Producers) \in Nat  BY WokenFinite
  <2>. HIDE DEF W
  <2>6. NoLostProducerWakeup'
    BY <2>1, <2>4, <2>5 DEF IInv, NoLostProducerWakeup, W
  <2>7. Reservation' /\ Capacity'
    <3>1. Len(queue) + W <= SIZE + Cardinality(Producers) + spurious
      BY <1>2 DEF IInv, Reservation, W
    <3>2. Len(queue') + W' <= SIZE + Cardinality(Producers) + spurious'
            /\ Len(queue') <= SIZE + Cardinality(Producers) + spurious'
      BY <2>1, <2>2, <2>4, <2>5, <3>1
    <3>. QED  BY <3>2 DEF Reservation, Capacity, W
  <2>8. DoneWakesEverybody'
    BY <1>2, <2>2 DEF DoneWakesEverybody
  <2>. QED  BY <2>3, <2>6, <2>7, <2>8 DEF IInv
<1>. QED  BY <1>1, <1>2

LEMMA SpuriousStep ==
    ASSUME IInv, TypeOK', NEW t \in Threads, SpuriousWakeup(t)
    PROVE  IInv'
<1>. DEFINE W == Cardinality(WokenProducers)
            C == Cardinality(WokenConsumers)
<1>1. /\ UNCHANGED <<queue, is_done, pc>>
      /\ spurious' = spurious + 1 /\ spurious \in Nat /\ Len(queue) \in Nat
      /\ full' = full \ {t} /\ empty' = empty \ {t}
      /\ ~is_done
  BY DEF SpuriousWakeup, IInv, TypeOK, DoneWakesEverybody
<1>2. W \in Nat /\ C \in Nat /\ Cardinality(Producers) \in Nat
  BY WokenFinite
<1>3. CASE t \in full
  <2>1. t \in Producers /\ pc[t] = "push" /\ t \notin Consumers
          /\ t \notin WokenProducers
    BY <1>3 DEF IInv, TypeOK, WokenProducers
  <2>2. WokenProducers' = WokenProducers \cup {t}
    BY <1>1, <2>1 DEF WokenProducers
  <2>3. WokenConsumers' = WokenConsumers /\ empty' = empty
    BY <1>1, <2>1 DEF WokenConsumers, IInv, TypeOK
  <2>4. W' = W + 1 /\ C' = C
    BY <2>1, <2>2, <2>3, WokenFinite, CardinalityStep
  <2>. HIDE DEF W, C
  <2>5. NoLostProducerWakeup'
    BY <1>1, <1>2, <1>3, <2>4 DEF IInv, NoLostProducerWakeup, W
  <2>6. NoLostConsumerWakeup'
    BY <1>1, <2>3, <2>4 DEF IInv, NoLostConsumerWakeup, C
  <2>7. Reservation' /\ Capacity'
    BY <1>1, <1>2, <2>4 DEF IInv, Reservation, Capacity, W
  <2>. QED  BY <1>1, <2>5, <2>6, <2>7 DEF IInv, DoneWakesEverybody
<1>4. CASE t \in empty
  <2>1. t \in Consumers /\ pc[t] = "pop" /\ t \notin Producers
          /\ t \notin WokenConsumers
    BY <1>4 DEF IInv, TypeOK, WokenConsumers
  <2>2. WokenConsumers' = WokenConsumers \cup {t}
    BY <1>1, <2>1 DEF WokenConsumers
  <2>3. WokenProducers' = WokenProducers /\ full' = full
    BY <1>1, <2>1 DEF WokenProducers, IInv, TypeOK
  <2>4. C' = C + 1 /\ W' = W
    BY <2>1, <2>2, <2>3, WokenFinite, CardinalityStep
  <2>. HIDE DEF W, C
  <2>5. NoLostProducerWakeup'
    BY <1>1, <2>3, <2>4 DEF IInv, NoLostProducerWakeup, W
  <2>6. NoLostConsumerWakeup'
    BY <1>1, <1>2, <1>4, <2>4 DEF IInv, NoLostConsumerWakeup, C
  <2>7. Reservation' /\ Capacity'
    BY <1>1, <1>2, <2>4 DEF IInv, Reservation, Capacity, W
  <2>. QED  BY <1>1, <2>5, <2>6, <2>7 DEF IInv, DoneWakesEverybody
<1>. QED  BY <1>3, <1>4 DEF SpuriousWakeup

LEMMA IInvNext == IInv /\ [Next]_vars => IInv'
<1>. SUFFICES ASSUME IInv, [Next]_vars PROVE IInv'
  OBVIOUS
<1>0. TypeOK'  BY TypeNext DEF IInv
<1>1. ASSUME NEW t \in Producers, NEW v \in Values, PushWait(t, v)
      PROVE  IInv'
  BY <1>0, <1>1, PushWaitStep
<1>2. ASSUME NEW t \in Producers, NEW v \in Values, PushNow(t, v)
      PROVE  IInv'
  BY <1>0, <1>2, PushRestStep DEF PushNow
<1>3. ASSUME NEW t \in Producers, PushResume(t)
      PROVE  IInv'
  <2>1. arg[t] \in Values /\ t \in WokenProducers
    BY <1>3 DEF PushResume, IInv, TypeOK, Threads, WokenProducers
  <2>. QED  BY <1>0, <1>3, <2>1, PushRestStep DEF PushResume
<1>4. ASSUME NEW t \in Consumers, PopWait(t)
      PROVE  IInv'
  BY <1>0, <1>4, PopWaitStep
<1>5. ASSUME NEW t \in Consumers, PopValue(t)
      PROVE  IInv'
  BY <1>0, <1>5, PopValueStep
<1>6. ASSUME NEW t \in Consumers, PopEnd(t)
      PROVE  IInv'
  <2>1. /\ UNCHANGED <<queue, is_done, full, empty, spurious>>
        /\ is_done /\ full = {} /\ empty = {} /\ Len(queue') <= Len(queue)
    BY <1>6 DEF PopEnd, IInv, TypeOK, DoneWakesEverybody
  <2>. QED  BY <1>0, <2>1, ClosedStep
<1>7. ASSUME NEW t \in Threads, Done(t)
      PROVE  IInv'
  <2>1. /\ UNCHANGED <<queue, spurious>> /\ is_done'
        /\ full' = {} /\ empty' = {} /\ Len(queue') <= Len(queue)
    BY <1>7 DEF Done, IInv, TypeOK
  <2>. QED  BY <1>0, <2>1, ClosedStep
<1>8. ASSUME NEW t \in Threads, SpuriousWakeup(t)
      PROVE  IInv'
  BY <1>0, <1>8, SpuriousStep
<1>9. CASE UNCHANGED vars
  BY <1>9
  DEF vars, IInv, TypeOK, DoneWakesEverybody, NoLostConsumerWakeup,
      NoLostProducerWakeup, Reservation, Capacity, WokenProducers,
      WokenConsumers
<1>. QED
  BY <1>1, <1>2, <1>3, <1>4, <1>5, <1>6, <1>7, <1>8, <1>9 DEF Next, Push, Pop

LEMMA Invariance == Spec => []IInv
<1>. QED  BY IInvInit, IInvNext, PTL DEF Spec

\* After done() nobody is left in a wait set, for any number of threads.
THEOREM DoneWakes == Spec => []DoneWakesEverybody
<1>1. IInv => DoneWakesEverybody  BY DEF IInv
<1>. QED  BY <1>1, Invariance, PTL

\* notify_one after a push is enough: no value waits for a consumer that sleeps
\* on, for any number of producers and consumers and any size.
THEOREM NoLostWakeup == Spec => []NoLostConsumerWakeup
<1>1. IInv => NoLostConsumerWakeup  BY DEF IInv
<1>. QED  BY <1>1, Invariance, PTL

\* notify_one after a pop is enough: no free place waits for a producer that
\* sleeps on.
THEOREM NoLostRoom == Spec => []NoLostProducerWakeup
<1>1. IInv => NoLostProducerWakeup  BY DEF IInv
<1>. QED  BY <1>1, Invariance, PTL

\* A producer that was woken has a place kept for it: the values queued and those
\* that woken producers will queue without another look at the size fit together.
THEOREM Reserved == Spec => []Reservation
<1>1. IInv => Reservation  BY DEF IInv
<1>. QED  BY <1>1, Invariance, PTL

\* The queue never holds more than SIZE elements, one for every producer and
\* one for every spurious wakeup.
THEOREM Bounded == Spec => []Capacity
<1>1. IInv => Capacity  BY DEF IInv
<1>. QED  BY <1>1, Invariance, PTL

-----------------------------------------------------------------------------
(* Refinement *)

LEMMA RefinesInit == Init => Abstract!Init
BY DEF Init, Abstract!Init, Threads, Abstract!Threads, Result, Abstract!Result

LEMMA RefinesPushRest ==
    ASSUME NEW t \in Producers, NEW v \in Values, PushRest(t, v)
    PROVE  Abstract!Next
<1>1. CASE is_done
  <2>. Abstract!PushRefused(t)
    BY <1>1
    DEF PushRest, Return, Result, Abstract!PushRefused, Abstract!Result
  <2>. QED  BY DEF Abstract!Next
<1>2. CASE ~is_done
  <2>. Abstract!Push(t, v)
    BY <1>2 DEF PushRest, Return, Result, Abstract!Push, Abstract!Result
  <2>. QED  BY DEF Abstract!Next
<1>. QED  BY <1>1, <1>2

LEMMA RefinesNext == TypeOK /\ [Next]_vars => [Abstract!Next]_(Abstract!vars)
<1>. SUFFICES ASSUME TypeOK, [Next]_vars
              PROVE  Abstract!Next \/ UNCHANGED Abstract!vars
  OBVIOUS
<1>1. ASSUME NEW t \in Producers, NEW v \in Values, PushWait(t, v)
      PROVE  UNCHANGED Abstract!vars
  BY <1>1 DEF PushWait, Abstract!vars
<1>2. ASSUME NEW t \in Producers, NEW v \in Values, PushNow(t, v)
      PROVE  Abstract!Next
  BY <1>2, RefinesPushRest DEF PushNow
<1>3. ASSUME NEW t \in Producers, PushResume(t)
      PROVE  Abstract!Next
  <2>. arg[t] \in Values  BY <1>3 DEF PushResume, TypeOK, Threads
  <2>. QED  BY <1>3, RefinesPushRest DEF PushResume
<1>4. ASSUME NEW t \in Consumers, PopWait(t)
      PROVE  UNCHANGED Abstract!vars
  BY <1>4 DEF PopWait, Abstract!vars
<1>5. ASSUME NEW t \in Consumers, PopValue(t)
      PROVE  Abstract!Next
  <2>. Abstract!Pop(t)
    BY <1>5 DEF PopValue, Return, Result, Abstract!Pop, Abstract!Result
  <2>. QED  BY DEF Abstract!Next
<1>6. ASSUME NEW t \in Consumers, PopEnd(t)
      PROVE  Abstract!Next
  <2>. Abstract!PopEnd(t)
    BY <1>6 DEF PopEnd, Return, Result, Abstract!PopEnd, Abstract!Result
  <2>. QED  BY DEF Abstract!Next
<1>7. ASSUME NEW t \in Threads, Done(t)
      PROVE  Abstract!Next
  BY <1>7 DEF Done, Abstract!Close, Abstract!Next
<1>8. ASSUME NEW t \in Threads, SpuriousWakeup(t)
      PROVE  UNCHANGED Abstract!vars
  BY <1>8 DEF SpuriousWakeup, Abstract!vars
<1>9. CASE UNCHANGED vars
  BY <1>9 DEF vars, Abstract!vars
<1>. QED
  BY <1>1, <1>2, <1>3, <1>4, <1>5, <1>6, <1>7, <1>8, <1>9 DEF Next, Push, Pop

\* The monitor implements the closable FIFO queue: what a thread sees of it is
\* what ClosableQueue allows, whoever waits and whoever is woken.
THEOREM Refines == Spec => AbstractSpec
<1>. QED
  BY RefinesInit, RefinesNext, TypeCorrect, PTL
  DEF Spec, AbstractSpec, Abstract!Spec
==============================================================================
