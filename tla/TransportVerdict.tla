-------------------------- MODULE TransportVerdict --------------------------
(***************************************************************************)
(* The verdict COMPLETE of the shutdown summary is sound: the totals are   *)
(* read one slot at a time while producers may still be running, and equal *)
(* totals still mean that no event was missed.                             *)
(***************************************************************************)
EXTENDS TransportProofs, FiniteSetTheorems

USE SizeAssumption DEF SlotIndex, NoSlot, At, Context

(***************************************************************************)
(* What a step does to the events of a slot.                               *)
(***************************************************************************)

\* No event moves; a loss may be counted.
NoneMoves(s) ==
    /\ delivered'[s] = delivered[s]
    /\ thread_contexts'[s].queue = thread_contexts[s].queue
    /\ thread_contexts'[s].dropped
         \in {thread_contexts[s].dropped, thread_contexts[s].dropped + 1}

\* An event with the next number joins the queue.
OneJoins(s) ==
    /\ delivered'[s] = delivered[s]
    /\ \E e \in EventType :
          /\ thread_contexts'[s].queue = Append(thread_contexts[s].queue, e)
          /\ e.sequence = Finished(s)
    /\ thread_contexts'[s].dropped = thread_contexts[s].dropped

LEMMA SameMoves ==
    ASSUME NEW s \in SlotIndex, UNCHANGED delivered,
           thread_contexts'[s] = thread_contexts[s]
    PROVE  NoneMoves(s)
  BY DEF NoneMoves

LEMMA PushJoins ==
    ASSUME IndInv, NEW t \in Thread, Push(t), NEW s \in SlotIndex,
           s = thread[t].tls_context
    PROVE  OneJoins(s)
<1>1. /\ TypeOK /\ ThreadsInPlace /\ SingleProducer /\ StampCurrent /\ Accounted(s)
  BY IndInvParts
<1>2. UNCHANGED delivered
  BY DEF Push
<1> DEFINE e == [what |-> thread[t].what, sequence |-> thread[t].sequence]
           n == thread_contexts[s].next_thread_sequence
<1>3. /\ thread[t].pc = "push" /\ e \in EventType
      /\ thread_contexts'[s].queue = Append(thread_contexts[s].queue, e)
      /\ thread_contexts'[s].dropped = thread_contexts[s].dropped
  BY <1>1, PushEffect
<1>4. e.sequence = n - 1
  <2>1. thread[t].sequence = n - 1
    BY <1>1, <1>3 DEF StampCurrent
  <2> QED
    BY <2>1
<1>5. n = Finished(s) + 1
  <2>1. InFlight(s) = 1
    <3>1. s # NoSlot /\ thread[t].pc # "drop"
      BY <1>3
    <3>2. Producing(s, "push") = 1
      BY <1>1, <1>3, <3>1, ProducingHere
    <3>3. Producing(s, "drop") = 0
      BY <1>1, <1>3, <3>1, ProducingHere
    <3> QED
      BY <3>2, <3>3 DEF InFlight
  <2> QED
    BY <1>1, <2>1 DEF Accounted
<1>6. Finished(s) \in Nat
  BY <1>1, CountsType
<1> HIDE DEF n, e
<1>7. e.sequence = Finished(s)
  BY <1>4, <1>5, <1>6
<1> QED
  BY <1>2, <1>3, <1>7 DEF OneJoins

LEMMA ThreadMoves ==
    ASSUME IndInv, NEW t \in Thread, Emit(t) \/ ThreadExit(t) \/ InEmit(t),
           NEW s \in SlotIndex
    PROVE  NoneMoves(s) \/ (Push(t) /\ OneJoins(s))
<1>1. TypeOK /\ ThreadsInPlace /\ SingleProducer /\ SlotsInPlace
  BY IndInvParts
<1>2. UNCHANGED delivered
  BY ThreadFrames DEF ThreadFrame
<1>3. CASE Registration(t)
  BY <1>2, <1>3, RegistrationFrames, SameMoves
<1>4. CASE PushFull(t)
  <2>1. UNCHANGED thread_contexts
    BY <1>4 DEF PushFull, contextVars
  <2> QED
    BY <1>2, <2>1, SameMoves
<1>5. CASE Activate(t)
  <2>1. /\ OnlyContext(thread[t].tls_context) /\ thread[t].tls_context \in SlotIndex
        /\ thread[t].pc = "activate"
        /\ thread_contexts'[thread[t].tls_context]
             = [FreshContext EXCEPT !.active = TRUE]
    BY <1>1, <1>5, ActivateEffect
  <2>2. CASE s # thread[t].tls_context
    BY <1>2, <2>1, <2>2, SameMoves DEF OnlyContext
  <2>3. CASE s = thread[t].tls_context
    <3>1. thread_contexts[s] = FreshContext
      BY <1>1, <2>1, <2>3 DEF SlotsInPlace, Untouched
    <3> QED
      BY <1>2, <2>1, <2>3, <3>1, RegisteredContext DEF NoneMoves
  <2> QED
    BY <2>2, <2>3
<1>6. CASE Stamp(t)
  <2>1. CASE s # thread[t].tls_context
    BY <1>1, <1>2, <1>6, <2>1, StampEffect, SameMoves DEF OnlyContext
  <2>2. CASE s = thread[t].tls_context
    BY <1>1, <1>2, <1>6, <2>2, StampEffect DEF NoneMoves
  <2> QED
    BY <2>1, <2>2
<1>7. CASE Push(t)
  <2>1. CASE s # thread[t].tls_context
    BY <1>1, <1>2, <1>7, <2>1, PushEffect, SameMoves DEF OnlyContext
  <2> QED
    BY <1>7, <2>1, PushJoins
<1>8. CASE Drop(t)
  <2>1. CASE s # thread[t].tls_context
    BY <1>1, <1>2, <1>8, <2>1, DropEffect, SameMoves DEF OnlyContext
  <2>2. CASE s = thread[t].tls_context
    BY <1>1, <1>2, <1>8, <2>2, DropEffect DEF NoneMoves
  <2> QED
    BY <2>1, <2>2
<1> QED
  BY <1>3, <1>4, <1>5, <1>6, <1>7, <1>8, ThreadCases

(***************************************************************************)
(* The numbers of a slot's events.                                         *)
(***************************************************************************)

\* NumbersInOrder for one slot.
InOrder(s) ==
    /\ \A p \in 1 .. Len(delivered[s]) :
          delivered[s][p].sequence \in p - 1 .. p - 1 + thread_contexts[s].dropped
    /\ \A p \in 1 .. Len(thread_contexts[s].queue) :
          thread_contexts[s].queue[p].sequence
            \in Len(delivered[s]) + p - 1
                  .. Len(delivered[s]) + p - 1 + thread_contexts[s].dropped

LEMMA NoneMovesOrder ==
    ASSUME TypeOK, NEW s \in SlotIndex, NoneMoves(s), InOrder(s)
    PROVE  InOrder(s)' /\ Finished(s)' >= Finished(s)
<1> DEFINE l == Len(delivered[s])
           q == thread_contexts[s].queue
           k == Len(q)
           d == thread_contexts[s].dropped
           e == thread_contexts'[s].dropped
<1>1. l \in Nat /\ k \in Nat /\ d \in Nat /\ e \in Nat /\ e >= d
  <2>1. l \in Nat /\ k \in Nat /\ d \in Nat
    BY ContextNumbers
  <2>2. e \in {d, d + 1}
    BY DEF NoneMoves
  <2> HIDE DEF l, k, d, e
  <2> QED
    BY <2>1, <2>2
<1>2. /\ \A p \in 1 .. l : delivered[s][p].sequence \in p - 1 .. p - 1 + d
      /\ \A p \in 1 .. k : q[p].sequence \in l + p - 1 .. l + p - 1 + d
  BY DEF InOrder
<1>3. delivered'[s] = delivered[s] /\ thread_contexts'[s].queue = q
  BY DEF NoneMoves
<1>4. Finished(s) = l + k + d /\ Finished(s)' = l + k + e
  BY <1>3 DEF Finished
<1>5. InOrder(s)' <=>
        /\ \A p \in 1 .. l : delivered[s][p].sequence \in p - 1 .. p - 1 + e
        /\ \A p \in 1 .. k : q[p].sequence \in l + p - 1 .. l + p - 1 + e
  BY <1>3 DEF InOrder
<1> HIDE DEF l, q, k, d, e
<1>6. \A p \in 1 .. l : delivered[s][p].sequence \in p - 1 .. p - 1 + e
  BY <1>1, <1>2
<1>7. \A p \in 1 .. k : q[p].sequence \in l + p - 1 .. l + p - 1 + e
  BY <1>1, <1>2
<1> QED
  BY <1>1, <1>4, <1>5, <1>6, <1>7

LEMMA OneJoinsOrder ==
    ASSUME TypeOK, NEW s \in SlotIndex, OneJoins(s), InOrder(s)
    PROVE  InOrder(s)' /\ Finished(s)' >= Finished(s)
<1> DEFINE l == Len(delivered[s])
           q == thread_contexts[s].queue
           k == Len(q)
           d == thread_contexts[s].dropped
<1>1. l \in Nat /\ k \in Nat /\ d \in Nat /\ q \in Seq(EventType)
  BY ContextNumbers
<1>2. /\ \A p \in 1 .. l : delivered[s][p].sequence \in p - 1 .. p - 1 + d
      /\ \A p \in 1 .. k : q[p].sequence \in l + p - 1 .. l + p - 1 + d
  BY DEF InOrder
<1>3. PICK e \in EventType : thread_contexts'[s].queue = Append(q, e)
                             /\ e.sequence = Finished(s)
  BY DEF OneJoins
<1> DEFINE r == Append(q, e)
<1>4. delivered'[s] = delivered[s] /\ thread_contexts'[s].dropped = d
      /\ thread_contexts'[s].queue = r
  BY <1>3 DEF OneJoins
<1>5. Len(r) = k + 1 /\ r[k + 1] = e /\ \A p \in 1 .. k : r[p] = q[p]
  BY <1>1, AppendProperties
<1>6. Finished(s) = l + k + d /\ Finished(s)' = l + Len(r) + d
  BY <1>4 DEF Finished
<1>7. InOrder(s)' <=>
        /\ \A p \in 1 .. l : delivered[s][p].sequence \in p - 1 .. p - 1 + d
        /\ \A p \in 1 .. Len(r) : r[p].sequence \in l + p - 1 .. l + p - 1 + d
  BY <1>4 DEF InOrder
<1> HIDE DEF l, q, k, d, r
<1>8. ASSUME NEW p \in 1 .. Len(r) PROVE r[p].sequence \in l + p - 1 .. l + p - 1 + d
  <2>1. p \in 1 .. k \/ p = k + 1
    BY <1>1, <1>5
  <2>2. CASE p \in 1 .. k
    BY <1>2, <1>5, <2>2
  <2>3. CASE p = k + 1
    <3>1. r[p].sequence = l + k + d
      BY <1>3, <1>5, <1>6, <2>3
    <3> QED
      BY <1>1, <2>3, <3>1
  <2> QED
    BY <2>1, <2>2, <2>3
<1> QED
  BY <1>1, <1>2, <1>5, <1>6, <1>7, <1>8

LEMMA DrainPopOrder ==
    ASSUME TypeOK, DrainPop, NEW s \in SlotIndex, InOrder(s)
    PROVE  InOrder(s)' /\ Finished(s)' = Finished(s)
<1>1. CASE s # consumer.i
  <2>1. delivered'[s] = delivered[s] /\ thread_contexts'[s] = thread_contexts[s]
    BY <1>1, DrainPopEffect DEF OnlyContext
  <2> QED
    BY <2>1 DEF InOrder, Finished
<1>2. CASE s = consumer.i
  <2> DEFINE v == delivered[s]
             l == Len(v)
             q == thread_contexts[s].queue
             k == Len(q)
             d == thread_contexts[s].dropped
             w == Append(v, Head(q))
             r == Tail(q)
  <2>1. /\ l \in Nat /\ k \in Nat /\ d \in Nat /\ q \in Seq(EventType)
        /\ v \in Seq(EventType)
    BY ContextNumbers
  <2>2. q # <<>> /\ delivered'[s] = w /\ thread_contexts'[s].queue = r
        /\ thread_contexts'[s].dropped = d
    BY <1>2, DrainPopEffect
  <2>3. /\ \A p \in 1 .. l : v[p].sequence \in p - 1 .. p - 1 + d
        /\ \A p \in 1 .. k : q[p].sequence \in l + p - 1 .. l + p - 1 + d
    BY DEF InOrder
  <2>4. InOrder(s)' <=>
          /\ \A p \in 1 .. Len(w) : w[p].sequence \in p - 1 .. p - 1 + d
          /\ \A p \in 1 .. Len(r) : r[p].sequence \in Len(w) + p - 1 .. Len(w) + p - 1 + d
    BY <2>2 DEF InOrder
  <2>5. Head(q) = q[1] /\ Head(q) \in EventType /\ Len(r) = k - 1 /\ k > 0
        /\ \A p \in 1 .. k - 1 : r[p] = q[p + 1]
    BY <2>1, <2>2
  <2>6. Len(w) = l + 1 /\ w[l + 1] = Head(q) /\ \A p \in 1 .. l : w[p] = v[p]
    BY <2>1, <2>5, AppendProperties
  <2>7. Finished(s) = l + k + d /\ Finished(s)' = Len(w) + Len(r) + d
    BY <2>2 DEF Finished
  <2> HIDE DEF v, l, q, k, d, w, r
  <2>8. ASSUME NEW p \in 1 .. Len(w) PROVE w[p].sequence \in p - 1 .. p - 1 + d
    <3>1. CASE p \in 1 .. l
      BY <2>3, <2>6, <3>1
    <3>2. CASE p = l + 1
      <4>1. 1 \in 1 .. k
        BY <2>1, <2>5
      <4>2. w[p].sequence \in l + 1 - 1 .. l + 1 - 1 + d
        BY <2>3, <2>5, <2>6, <3>2, <4>1
      <4> QED
        BY <2>1, <3>2, <4>2
    <3> QED
      BY <2>1, <2>6, <3>1, <3>2
  <2>9. ASSUME NEW p \in 1 .. Len(r)
        PROVE  r[p].sequence \in Len(w) + p - 1 .. Len(w) + p - 1 + d
    <3>1. p + 1 \in 1 .. k /\ r[p] = q[p + 1]
      BY <2>1, <2>5
    <3>2. r[p].sequence \in l + (p + 1) - 1 .. l + (p + 1) - 1 + d
      BY <2>3, <3>1
    <3>3. p \in Int
      BY <2>1, <2>5
    <3> QED
      BY <2>1, <2>6, <3>2, <3>3
  <2> QED
    BY <2>1, <2>4, <2>5, <2>6, <2>7, <2>8, <2>9
<1> QED
  BY <1>1, <1>2

(***************************************************************************)
(* The summary.                                                            *)
(***************************************************************************)

LEMMA VerdictInvParts ==
    VerdictInv <=> /\ \A s \in SlotIndex : InOrder(s)
                   /\ StopBehind /\ SummaryFresh /\ SummarySound /\ VerdictInPlace
  BY DEF VerdictInv, NumbersInOrder, InOrder

\* Nothing the summary goes by changes.
SummarySame ==
    /\ UNCHANGED <<main, atStop, consumer, delivered>>
    /\ \A s \in SlotIndex : thread_contexts'[s].consumed = thread_contexts[s].consumed

LEMMA SummaryKept ==
    ASSUME TypeOK, SummaryInPlace, SummaryFresh, SummarySound, VerdictInPlace, SummarySame
    PROVE  SummaryFresh' /\ SummarySound' /\ VerdictInPlace'
<1>1. SummaryFresh' /\ VerdictInPlace'
  BY DEF SummaryFresh, VerdictInPlace, SummarySame
<1>2. main.pc = "consumed" => main.i \in SlotIndex
  <2>1. main \in MainType
    BY DEF TypeOK
  <2>2. main.i \in 0 .. MaxThreads /\ main.count \in 0 .. MaxThreads
    BY <2>1 DEF MainType
  <2> QED
    BY <2>2 DEF SummaryInPlace
<1>3. /\ \A g : TotalsOver(g)' <=> TotalsOver(g)
      /\ \A s : (Covered(s)' <=> Covered(s)) /\ (Gapless(s)' <=> Gapless(s))
  BY DEF TotalsOver, Covered, Gapless, SummarySame
<1>4. SummarySound'
  <2> SUFFICES ASSUME main'.pc \in {"generated", "consumed", "stopped"}
               PROVE  /\ consumer'.pc = "done"
                      /\ main'.i <= main'.count
                      /\ \A s \in SlotIndex : s >= main'.count =>
                            delivered'[s] = <<>> /\ Covered(s)'
                      /\ main'.dropped = 0 => \A s \in 0 .. main'.i - 1 : Gapless(s)'
                      /\ main'.pc # "consumed" => TotalsOver(main.generated)'
                      /\ main'.pc = "consumed" =>
                            \E g \in 0 .. main'.generated :
                               /\ g >= thread_contexts'[main'.i].consumed
                               /\ g >= atStop'.events[main'.i]
                               /\ TotalsOver(main.generated - g)'
    BY DEF SummarySound
  <2>1. main' = main /\ atStop' = atStop /\ consumer' = consumer /\ delivered' = delivered
    BY DEF SummarySame
  <2>2. main.pc = "consumed" =>
          thread_contexts'[main.i].consumed = thread_contexts[main.i].consumed
    BY <1>2 DEF SummarySame
  <2>3. \A g : TotalsOver(main.generated - g)' <=> TotalsOver(main.generated - g)
    BY <2>1 DEF TotalsOver, Covered, Gapless
  <2>4. TotalsOver(main.generated)' <=> TotalsOver(main.generated)
    BY <2>1 DEF TotalsOver, Covered, Gapless
  <2> QED
    BY <1>3, <2>1, <2>2, <2>3, <2>4 DEF SummarySound
<1> QED
  BY <1>1, <1>4

LEMMA ThreadKeepsVerdict ==
    ASSUME IndInv, VerdictInv, NEW t \in Thread, Emit(t) \/ ThreadExit(t) \/ InEmit(t)
    PROVE  VerdictInv'
<1>1. /\ TypeOK /\ SummaryInPlace
      /\ \A s \in SlotIndex : InOrder(s) /\ Accounted(s)
      /\ StopBehind /\ SummaryFresh /\ SummarySound /\ VerdictInPlace
  BY IndInvParts, VerdictInvParts
<1>2. ThreadFrame
  BY ThreadFrames
<1>3. IndInv'
  BY ThreadKeepsInv
<1>4. ASSUME NEW s \in SlotIndex PROVE InOrder(s)' /\ Finished(s)' >= Finished(s)
  BY <1>1, ThreadMoves, NoneMovesOrder, OneJoinsOrder
<1>5. StopBehind'
  <2>1. ASSUME NEW s \in SlotIndex PROVE atStop'.events[s] <= Finished(s)'
    <3>1. /\ Finished(s) \in Nat /\ Finished(s)' >= Finished(s)
          /\ atStop.events[s] <= Finished(s)
      BY <1>1, <1>4, CountsType, IndInvParts DEF StopBehind
    <3>2. Finished(s)' \in Nat
      <4>1. TypeOK' /\ ThreadsInPlace'
        BY <1>3 DEF IndInv
      <4>2. (thread_contexts[s].queue)' \in Seq(EventType) /\ (delivered[s])' \in Seq(EventType)
            /\ (thread_contexts[s].dropped)' \in Nat
        <5>1. thread_contexts'[s] \in ContextType /\ delivered'[s] \in Seq(EventType)
          BY <4>1 DEF TypeOK
        <5> QED
          BY <5>1 DEF ContextType
      <4>3. Len(thread_contexts'[s].queue) \in Nat
        BY <4>2
      <4>4. Len(delivered'[s]) \in Nat
        BY <4>2
      <4>5. \A a, b, c \in Nat : a + b + c \in Nat
        OBVIOUS
      <4> QED
        BY <4>2, <4>3, <4>4, <4>5 DEF Finished
    <3>3. atStop' = atStop /\ atStop.events[s] \in Nat
      BY <1>1, <1>2 DEF ThreadFrame, TypeOK
    <3> QED
      BY <3>1, <3>2, <3>3
  <2> QED
    BY <2>1 DEF StopBehind
<1>6. SummarySame
  <2>1. ASSUME NEW s \in SlotIndex
        PROVE  thread_contexts'[s].consumed = thread_contexts[s].consumed
    <3>1. thread_contexts[s].consumed = Len(delivered[s])
      BY <1>1 DEF Accounted
    <3>2. thread_contexts'[s].consumed = Len(delivered'[s])
      BY <1>3 DEF IndInv, Accounting
    <3> QED
      BY <1>2, <3>1, <3>2 DEF ThreadFrame
  <2> QED
    BY <1>2, <2>1 DEF SummarySame, ThreadFrame
<1>7. SummaryFresh' /\ SummarySound' /\ VerdictInPlace'
  BY <1>1, <1>6, SummaryKept
<1> QED
  BY <1>4, <1>5, <1>7 DEF VerdictInv, NumbersInOrder, InOrder

\* The consumer is over before the summary starts.
LEMMA ConsumerKeepsVerdict ==
    ASSUME IndInv, VerdictInv, ConsumerStep
    PROVE  VerdictInv'
<1>1. /\ TypeOK /\ SummaryInPlace
      /\ \A s \in SlotIndex : InOrder(s)
      /\ StopBehind /\ SummaryFresh /\ SummarySound /\ VerdictInPlace
  BY IndInvParts, VerdictInvParts
<1>2. ConsumerFrame /\ (~DrainPop => UNCHANGED <<thread_contexts, delivered>>)
  BY ConsumerFrames
<1>3. ASSUME NEW s \in SlotIndex PROVE InOrder(s)' /\ Finished(s)' = Finished(s)
  <2>1. CASE DrainPop
    BY <1>1, <2>1, DrainPopOrder
  <2>2. CASE ~DrainPop
    BY <1>1, <1>2, <2>2 DEF InOrder, Finished
  <2> QED
    BY <2>1, <2>2
<1>4. StopBehind'
  BY <1>1, <1>2, <1>3 DEF StopBehind, ConsumerFrame
<1>5. SummaryFresh' /\ VerdictInPlace'
  BY <1>1, <1>2 DEF ConsumerFrame, SummaryFresh, VerdictInPlace
<1>6. SummarySound'
  <2>1. consumer.pc # "done"
    BY DEF ConsumerStep, ScanBegin, DrainPop, DrainNext, ScanEnd
  <2>2. main' = main
    BY <1>2 DEF ConsumerFrame
  <2> QED
    BY <1>1, <2>1, <2>2 DEF SummarySound
<1> QED
  BY <1>3, <1>4, <1>5, <1>6 DEF VerdictInv, NumbersInOrder, InOrder

LEMMA MainNumbers ==
    ASSUME TypeOK
    PROVE  /\ main.i \in 0 .. MaxThreads /\ main.count \in 0 .. MaxThreads
           /\ main.generated \in Nat /\ main.consumed \in Nat /\ main.dropped \in Nat
           /\ \A s \in SlotIndex : atStop.events[s] \in Nat
<1>1. main \in MainType /\ \A s \in SlotIndex : atStop.events[s] \in Nat
  BY DEF TypeOK
<1> QED
  BY <1>1 DEF MainType

\* A slot that nobody registered in has nothing to miss.
LEMMA UntouchedCovered ==
    ASSUME TypeOK, StopBehind, NEW s \in SlotIndex, Untouched(s)
    PROVE  delivered[s] = <<>> /\ Covered(s) /\ Gapless(s)
<1>1. delivered[s] = <<>> /\ thread_contexts[s].queue = <<>>
      /\ thread_contexts[s].dropped = 0
  BY RegisteredContext DEF Untouched
<1>2. Len(delivered[s]) = 0 /\ Len(thread_contexts[s].queue) = 0
  BY <1>1
<1>3. Finished(s) = 0
  BY <1>1, <1>2 DEF Finished
<1>4. atStop.events[s] <= 0
  BY <1>3 DEF StopBehind
<1> QED
  BY <1>1, <1>2, <1>4, MainNumbers DEF Covered, Gapless

\* The summary starts: no slot beyond those it will go through was ever used.
LEMMA JoinSound ==
    ASSUME IndInv, VerdictInv, Join
    PROVE  SummarySound'
<1>1. TypeOK /\ SlotsInPlace /\ StopBehind /\ SummaryFresh
  BY IndInvParts, VerdictInvParts
<1>2. /\ main'.pc = "generated" /\ consumer.pc = "done" /\ main'.count = next_thread_slot
      /\ main'.i = 0 /\ main'.generated = 0 /\ main'.consumed = 0
  BY <1>1, JoinEffect DEF SummaryFresh
<1>3. UNCHANGED <<delivered, atStop, consumer>>
  BY DEF Join, contextVars
<1>4. ASSUME NEW s \in SlotIndex, s >= next_thread_slot
      PROVE  delivered'[s] = <<>> /\ Covered(s)'
  <2>1. Untouched(s)
    BY <1>1, <1>4 DEF SlotsInPlace
  <2> QED
    BY <1>1, <1>3, <2>1, UntouchedCovered DEF Covered
<1>5. next_thread_slot \in 0 .. MaxThreads
  BY <1>1 DEF TypeOK
<1>6. TotalsOver(main.generated)'
  BY <1>2 DEF TotalsOver
<1>7. \A s \in 0 .. main'.i - 1 : Gapless(s)'
  BY <1>2
<1> QED
  BY <1>2, <1>3, <1>4, <1>5, <1>6, <1>7 DEF SummarySound

\* A slot's generated events, read before its consumed ones, cover both the latter and
\* what had been emitted when stop was called.
LEMMA SumGeneratedSound ==
    ASSUME IndInv, VerdictInv, SumGenerated
    PROVE  SummarySound'
<1>1. /\ TypeOK /\ SlotsInPlace /\ StopBehind /\ SummarySound
      /\ \A s \in SlotIndex : Accounted(s)
  BY IndInvParts, VerdictInvParts
<1>2. UNCHANGED <<delivered, atStop, consumer, thread_contexts>>
  BY DEF SumGenerated, contextVars
<1>3. /\ main.pc = "generated" /\ main.i \in SlotIndex /\ main.i < main.count
      /\ main'.count = main.count /\ main'.consumed = main.consumed
      /\ main'.dropped = main.dropped
  BY <1>1, SumGeneratedEffect
<1>4. /\ consumer.pc = "done"
      /\ \A s \in SlotIndex : s >= main.count => delivered[s] = <<>> /\ Covered(s)
      /\ main.dropped = 0 => \A s \in 0 .. main.i - 1 : Gapless(s)
      /\ main.generated >= main.consumed
      /\ main.generated = main.consumed => \A s \in 0 .. main.i - 1 : Covered(s)
  BY <1>1, <1>3 DEF SummarySound, TotalsOver
<1>5. \A s : (Covered(s)' <=> Covered(s)) /\ (Gapless(s)' <=> Gapless(s))
  BY <1>2 DEF Covered, Gapless
<1>6. /\ main.i \in Nat /\ main.count \in Nat /\ main.generated \in Nat
      /\ main.consumed \in Nat /\ atStop.events[main.i] \in Nat
  BY <1>1, <1>3, MainNumbers
<1>7. CASE thread_contexts[main.i].active
  <2> DEFINE g == thread_contexts[main.i].generated
  <2>1. main'.pc = "consumed" /\ main'.i = main.i /\ main'.generated = main.generated + g
    BY <1>1, <1>7, SumGeneratedEffect
  <2>2. g \in Nat /\ g >= thread_contexts[main.i].consumed /\ g >= atStop.events[main.i]
    <3> DEFINE s == main.i
               l == Len(delivered[s])
               k == Len(thread_contexts[s].queue)
               d == thread_contexts[s].dropped
    <3>1. g \in Nat /\ l \in Nat /\ k \in Nat /\ d \in Nat
      BY <1>1, <1>3, ContextNumbers
    <3>2. g = Finished(s) + InFlight(s) /\ thread_contexts[s].consumed = l
      BY <1>1, <1>3 DEF Accounted
    <3>3. InFlight(s) \in Nat
      <4>1. Producing(s, "push") \in {0, 1} /\ Producing(s, "drop") \in {0, 1}
        BY DEF Producing
      <4> QED
        BY <4>1 DEF InFlight
    <3>4. Finished(s) = l + k + d
      BY DEF Finished
    <3>5. atStop.events[s] <= Finished(s)
      BY <1>1, <1>3 DEF StopBehind
    <3> DEFINE f == Finished(s)
               m == InFlight(s)
    <3>6. g = f + m /\ f = l + k + d /\ atStop.events[s] <= f /\ m \in Nat
      BY <3>2, <3>3, <3>4, <3>5
    <3> HIDE DEF l, k, d, f, m, g
    <3>7. g >= l /\ g >= atStop.events[s]
      BY <1>6, <3>1, <3>6
    <3> QED
      BY <3>1, <3>2, <3>7
  <2> HIDE DEF g
  <2>3. main'.generated - g = main.generated /\ g \in 0 .. main'.generated
    BY <1>6, <2>1, <2>2
  <2>4. \E h \in 0 .. main'.generated :
          /\ h >= thread_contexts'[main'.i].consumed
          /\ h >= atStop'.events[main'.i]
          /\ TotalsOver(main.generated - h)'
    <3>1. \A h \in Int : h = g => TotalsOver(main.generated - h)'
      BY <1>3, <1>4, <1>5, <2>1, <2>3 DEF TotalsOver
    <3> QED
      BY <1>2, <2>1, <2>2, <2>3, <3>1
  <2>5. /\ main'.i <= main'.count /\ consumer'.pc = "done"
        /\ \A s \in SlotIndex : s >= main'.count => delivered'[s] = <<>> /\ Covered(s)'
        /\ main'.dropped = 0 => \A s \in 0 .. main'.i - 1 : Gapless(s)'
    BY <1>2, <1>3, <1>4, <1>5, <1>6, <2>1
  <2> QED
    BY <2>1, <2>4, <2>5 DEF SummarySound
<1>8. CASE ~thread_contexts[main.i].active
  <2>1. main'.pc = "generated" /\ main'.i = main.i + 1 /\ main'.generated = main.generated
    BY <1>1, <1>8, SumGeneratedEffect
  <2>2. Covered(main.i) /\ Gapless(main.i)
    BY <1>1, <1>3, <1>8, UntouchedCovered DEF SlotsInPlace
  <2>3. main'.i <= main'.count /\ 0 .. main'.i - 1 = (0 .. main.i - 1) \cup {main.i}
    BY <1>3, <1>6, <2>1
  <2>4. TotalsOver(main.generated)'
    BY <1>3, <1>4, <1>5, <2>1, <2>2, <2>3 DEF TotalsOver
  <2>5. main'.dropped = 0 => \A s \in 0 .. main'.i - 1 : Gapless(s)'
    BY <1>3, <1>4, <1>5, <2>2, <2>3
  <2> QED
    BY <1>2, <1>3, <1>4, <1>5, <2>1, <2>3, <2>4, <2>5 DEF SummarySound
<1> QED
  BY <1>7, <1>8

\* A slot's consumed events enter the total: it stays below that of the generated ones,
\* and equals it only if the slot is not behind.
LEMMA SumConsumedSound ==
    ASSUME IndInv, VerdictInv, SumConsumed
    PROVE  SummarySound'
<1>1. /\ TypeOK /\ SummaryInPlace /\ SummarySound
      /\ \A s \in SlotIndex : Accounted(s) /\ InOrder(s)
  BY IndInvParts, VerdictInvParts
<1>2. UNCHANGED <<delivered, atStop, consumer>>
  BY DEF SumConsumed, contextVars
<1>3. /\ main.pc = "consumed" /\ main'.pc = "generated"
      /\ main.i \in SlotIndex /\ main.i < main.count /\ main'.i = main.i + 1
      /\ main'.count = main.count /\ main'.generated = main.generated
      /\ main'.consumed = main.consumed + thread_contexts[main.i].consumed
      /\ main'.dropped = main.dropped + thread_contexts[main.i].dropped
  BY <1>1, SumConsumedEffect
<1> DEFINE c == thread_contexts[main.i].consumed
           d == thread_contexts[main.i].dropped
<1>4. /\ consumer.pc = "done"
      /\ \A s \in SlotIndex : s >= main.count => delivered[s] = <<>> /\ Covered(s)
      /\ main.dropped = 0 => \A s \in 0 .. main.i - 1 : Gapless(s)
      /\ \E g \in 0 .. main.generated :
            g >= c /\ g >= atStop.events[main.i] /\ TotalsOver(main.generated - g)
  BY <1>1, <1>3 DEF SummarySound
<1>5. PICK g \in 0 .. main.generated :
         /\ g >= c /\ g >= atStop.events[main.i]
         /\ main.generated - g >= main.consumed
         /\ main.generated - g = main.consumed => \A s \in 0 .. main.i - 1 : Covered(s)
  BY <1>4 DEF TotalsOver
<1>6. \A s : (Covered(s)' <=> Covered(s)) /\ (Gapless(s)' <=> Gapless(s))
  BY <1>2 DEF Covered, Gapless
<1>7. /\ main.i \in Nat /\ main.count \in Nat /\ main.generated \in Nat
      /\ main.consumed \in Nat /\ main.dropped \in Nat /\ atStop.events[main.i] \in Nat
      /\ c \in Nat /\ d \in Nat
  BY <1>1, <1>3, MainNumbers, ContextNumbers
<1>8. main'.i <= main'.count /\ 0 .. main'.i - 1 = (0 .. main.i - 1) \cup {main.i}
  BY <1>3, <1>7
<1>9. c = Len(delivered[main.i])
  BY <1>1, <1>3 DEF Accounted
<1>10. d = 0 => Gapless(main.i)
  <2> SUFFICES ASSUME d = 0, NEW p \in 1 .. Len(delivered[main.i])
               PROVE  delivered[main.i][p].sequence = p - 1
    BY DEF Gapless
  <2>1. delivered[main.i][p].sequence \in p - 1 .. p - 1 + 0
    BY <1>1, <1>3 DEF InOrder
  <2>2. p \in Int
    OBVIOUS
  <2> QED
    BY <2>1, <2>2
<1>11. main'.dropped = 0 => \A s \in 0 .. main'.i - 1 : Gapless(s)'
  <2>1. main'.dropped = 0 => main.dropped = 0 /\ d = 0
    <3> HIDE DEF d
    <3>1. main'.dropped = main.dropped + d
      BY <1>3 DEF d
    <3> QED
      BY <1>7, <3>1
  <2> QED
    BY <1>4, <1>6, <1>8, <1>10, <2>1
<1>12. TotalsOver(main.generated)'
  <2>1. main'.consumed = main.consumed + c
    BY <1>3
  <2> HIDE DEF c
  <2>2. main.generated >= main.consumed + c
    BY <1>5, <1>7
  <2>3. main.generated = main.consumed + c =>
          main.generated - g = main.consumed /\ c >= atStop.events[main.i]
    BY <1>5, <1>7
  <2>4. main.generated = main.consumed + c =>
          \A s \in 0 .. main'.i - 1 : Covered(s)
    BY <1>5, <1>8, <1>9, <2>3 DEF Covered
  <2> QED
    BY <1>3, <1>6, <2>1, <2>2, <2>4 DEF TotalsOver
<1> QED
  BY <1>2, <1>3, <1>4, <1>6, <1>8, <1>11, <1>12 DEF SummarySound

LEMMA VerdictSound ==
    ASSUME IndInv, VerdictInv, Verdict
    PROVE  SummarySound' /\ VerdictInPlace'
<1>1. TypeOK /\ SummarySound
  BY IndInvParts, VerdictInvParts
<1>2. UNCHANGED <<delivered, atStop, consumer>>
  BY DEF Verdict, contextVars
<1>3. /\ main.pc = "generated" /\ main'.pc = "stopped"
      /\ main.i = main.count /\ main'.i = main.i /\ main'.count = main.count
      /\ main'.generated = main.generated /\ main'.consumed = main.consumed
      /\ main'.dropped = main.dropped
      /\ main'.verdict = "COMPLETE" =>
           main.generated = main.consumed + main.dropped /\ main.dropped = 0
  BY <1>1, VerdictEffect
<1>4. main.consumed \in Nat
  BY <1>1, MainNumbers
<1>5. VerdictInPlace'
  BY <1>3, <1>4 DEF VerdictInPlace
<1>6. \A s : (Covered(s)' <=> Covered(s)) /\ (Gapless(s)' <=> Gapless(s))
  BY <1>2 DEF Covered, Gapless
<1>7. TotalsOver(main.generated) => TotalsOver(main.generated)'
  BY <1>3, <1>6 DEF TotalsOver
<1>8. SummarySound'
  BY <1>1, <1>2, <1>3, <1>6, <1>7 DEF SummarySound
<1> QED
  BY <1>5, <1>8

LEMMA LibraryKeepsVerdict ==
    ASSUME IndInv, VerdictInv, LibraryInit \/ LibraryDestroy
    PROVE  VerdictInv'
<1>1. /\ TypeOK /\ ThreadsInPlace /\ SummaryInPlace
      /\ \A s \in SlotIndex : InOrder(s)
      /\ StopBehind /\ SummaryFresh /\ SummarySound /\ VerdictInPlace
  BY IndInvParts, VerdictInvParts
<1>2. UNCHANGED <<thread_contexts, delivered>> /\ (~StopAccept => UNCHANGED atStop)
  BY LibraryFrames
<1>3. ASSUME NEW s \in SlotIndex PROVE InOrder(s)' /\ Finished(s)' = Finished(s)
  BY <1>1, <1>2 DEF InOrder, Finished
<1>4. StopBehind'
  <2>1. CASE StopAccept
    <3>1. \A s \in SlotIndex : atStop'.events[s] = Finished(s)
      BY <2>1 DEF StopAccept
    <3>2. \A s \in SlotIndex : Finished(s) \in Nat
      BY <1>1, CountsType
    <3> QED
      BY <1>3, <3>1, <3>2 DEF StopBehind
  <2>2. CASE ~StopAccept
    BY <1>1, <1>2, <1>3, <2>2 DEF StopBehind
  <2> QED
    BY <2>1, <2>2
<1>5. CASE Join \/ SumGenerated \/ SumConsumed \/ Verdict
  <2>1. SummarySound'
    BY <1>5, JoinSound, SumGeneratedSound, SumConsumedSound, VerdictSound
  <2>2. main'.pc \in {"generated", "consumed", "stopped"}
        /\ (~Verdict => main.pc # "stopped" /\ main'.verdict = main.verdict)
    BY <1>1, <1>5, JoinEffect, SumGeneratedEffect, SumConsumedEffect, VerdictEffect
  <2>3. VerdictInPlace'
    BY <1>1, <2>2, VerdictSound DEF VerdictInPlace
  <2>4. SummaryFresh'
    BY <2>2 DEF SummaryFresh
  <2> QED
    BY <1>3, <1>4, <2>1, <2>3, <2>4 DEF VerdictInv, NumbersInOrder, InOrder
<1>6. CASE ~(Join \/ SumGenerated \/ SumConsumed \/ Verdict)
  <2>1. /\ main.pc \in {"start", "running", "stopping"}
        /\ main'.pc \in {"failed", "running", "stopping", "joining"}
        /\ main'.verdict = main.verdict
        /\ main'.count = main.count /\ main'.i = main.i
        /\ main'.generated = main.generated /\ main'.consumed = main.consumed
        /\ main'.dropped = main.dropped
    BY <1>1, <1>6, LibraryMoves
  <2>2. SummaryFresh' /\ SummarySound' /\ VerdictInPlace'
    BY <1>1, <2>1 DEF SummaryFresh, SummarySound, VerdictInPlace
  <2> QED
    BY <1>3, <1>4, <2>2 DEF VerdictInv, NumbersInOrder, InOrder
<1> QED
  BY <1>5, <1>6

LEMMA VerdictInit == Init => VerdictInv
<1> SUFFICES ASSUME Init PROVE VerdictInv
  OBVIOUS
<1>1. \A s \in SlotIndex : delivered[s] = <<>> /\ thread_contexts[s].queue = <<>>
                           /\ thread_contexts[s].dropped = 0 /\ atStop.events[s] = 0
  BY RegisteredContext DEF Init
<1>2. \A s \in SlotIndex : Len(delivered[s]) = 0 /\ Len(thread_contexts[s].queue) = 0
  BY <1>1
<1>3. NumbersInOrder
  BY <1>2 DEF NumbersInOrder
<1>5. StopBehind
  <2>1. \A s \in SlotIndex : Finished(s) = 0 + 0 + 0
    BY <1>1, <1>2 DEF Finished
  <2> QED
    BY <1>1, <2>1 DEF StopBehind
<1>4. SummaryFresh /\ SummarySound /\ VerdictInPlace
  BY DEF Init, SummaryFresh, SummarySound, VerdictInPlace
<1> QED
  BY <1>3, <1>4, <1>5 DEF VerdictInv

LEMMA VerdictNext == IndInv /\ VerdictInv /\ [Next]_vars => VerdictInv'
<1> SUFFICES ASSUME IndInv, VerdictInv, [Next]_vars PROVE VerdictInv'
  OBVIOUS
<1>1. CASE UNCHANGED vars
  BY <1>1 DEF vars, VerdictInv, NumbersInOrder, StopBehind, Finished, SummaryFresh,
              SummarySound, TotalsOver, Covered, Gapless, VerdictInPlace
<1> QED
  BY <1>1, ThreadKeepsVerdict, ConsumerKeepsVerdict, LibraryKeepsVerdict DEF Next

\* The summary is right about every slot when it says COMPLETE.
LEMMA CompleteMeans ==
    ASSUME IndInv, VerdictInv, main.verdict = "COMPLETE"
    PROVE  \A s \in SlotIndex : Covered(s) /\ Gapless(s)
<1> SUFFICES ASSUME NEW s \in SlotIndex
             PROVE  Covered(s) /\ Gapless(s)
  OBVIOUS
<1>1. /\ main.i = main.count
      /\ \A q \in SlotIndex : q >= main.count => delivered[q] = <<>> /\ Covered(q)
      /\ \A q \in 0 .. main.i - 1 : Covered(q) /\ Gapless(q)
  BY VerdictInvParts DEF VerdictInPlace, SummarySound, TotalsOver
<1>2. main.count \in Nat
  BY IndInvParts, MainNumbers
<1>3. CASE s < main.count
  BY <1>1, <1>2, <1>3
<1>4. CASE s >= main.count
  <2>1. Len(delivered[s]) = 0
    <3>1. delivered[s] = <<>>
      BY <1>1, <1>4
    <3> QED
      BY <3>1
  <2> QED
    BY <1>1, <1>4, <2>1 DEF Gapless
<1> QED
  BY <1>2, <1>3, <1>4

\* print_transport_summary: whatever producers are doing while it reads the counters,
\* COMPLETE means that the verifier has processed, without a gap, every event whose
\* emission had finished when monitor_runtime_stop was called.
THEOREM CompleteIsSound == Spec => []CompleteVerdictSound
<1>1. IndInv /\ VerdictInv => CompleteVerdictSound
  BY CompleteMeans DEF CompleteVerdictSound, Covered
<1> QED
  BY <1>1, Invariance, VerdictInit, VerdictNext, PTL DEF Spec

(***************************************************************************)
(* The verdict COMPLETE misses no call: calls and events are counted by    *)
(* sets of pairs that only grow, one element at a time.                    *)
(***************************************************************************)

LEMMA InPairs ==
    ASSUME NEW F
    PROVE  \A c : c \in Pairs(F) <=> \E x \in DOMAIN F : \E y \in F[x] : c = <<x, y>>
  BY DEF Pairs

LEMMA PairsFinite ==
    ASSUME NEW F, IsFiniteSet(DOMAIN F), \A x \in DOMAIN F : IsFiniteSet(F[x])
    PROVE  IsFiniteSet(Pairs(F))
<1> DEFINE S == DOMAIN F
           T == {{x} \X F[x] : x \in S}
           f == [x \in S |-> {x} \X F[x]]
<1>1. f \in Surjection(S, T)
  <2>1. f \in [S -> T]
    OBVIOUS
  <2>2. \A y \in T : \E x \in S : f[x] = y
    OBVIOUS
  <2> HIDE DEF f, T, S
  <2> QED
    BY <2>1, <2>2 DEF Surjection
<1>2. IsFiniteSet(T)
  <2> HIDE DEF f, T
  <2> QED
    BY <1>1, FS_Surjection
<1>3. \A U \in T : IsFiniteSet(U)
  <2>1. ASSUME NEW x \in S PROVE IsFiniteSet({x} \X F[x])
    <3>1. IsFiniteSet({x}) /\ IsFiniteSet(F[x])
      BY FS_Singleton
    <3> QED
      BY <3>1, FS_Product
  <2> QED
    BY <2>1
<1> HIDE DEF T
<1>4. IsFiniteSet(UNION T)
  BY <1>2, <1>3, FS_UNION
<1> QED
  BY <1>4 DEF Pairs, T

LEMMA SmallerSet ==
    ASSUME NEW B, IsFiniteSet(B), NEW A \in SUBSET B
    PROVE  /\ Cardinality(A) \in Nat /\ Cardinality(B) \in Nat
           /\ Cardinality(A) <= Cardinality(B)
           /\ \A x \in B \ A : Cardinality(A) + 1 <= Cardinality(B)
<1>1. IsFiniteSet(A) /\ Cardinality(A) <= Cardinality(B)
      /\ (Cardinality(A) = Cardinality(B) => A = B)
  BY FS_Subset
<1>2. Cardinality(A) \in Nat /\ Cardinality(B) \in Nat
  BY <1>1, FS_CardinalityType
<1>3. ASSUME NEW x \in B \ A PROVE Cardinality(A) # Cardinality(B)
  BY <1>1, <1>3
<1> QED
  BY <1>1, <1>2, <1>3

LEMMA PairsWithin ==
    ASSUME NEW F, NEW G, DOMAIN G = DOMAIN F, \A x \in DOMAIN F : F[x] \subseteq G[x]
    PROVE  Pairs(F) \in SUBSET Pairs(G)
  BY InPairs

LEMMA PairsOneMore ==
    ASSUME NEW F, NEW G, DOMAIN G = DOMAIN F, \A x \in DOMAIN F : F[x] \subseteq G[x],
           IsFiniteSet(Pairs(G)), NEW x \in DOMAIN F, NEW y \in G[x], y \notin F[x]
    PROVE  Cardinality(Pairs(F)) + 1 <= Cardinality(Pairs(G))
<1>1. <<x, y>> \in Pairs(G) /\ <<x, y>> \notin Pairs(F)
  BY InPairs
<1> QED
  BY <1>1, PairsWithin, SmallerSet

LEMMA PairsAdd ==
    ASSUME NEW F, NEW G, DOMAIN G = DOMAIN F, NEW x \in DOMAIN F, NEW y,
           G[x] \subseteq F[x] \cup {y}, \A z \in DOMAIN F \ {x} : G[z] = F[z],
           IsFiniteSet(Pairs(F))
    PROVE  /\ IsFiniteSet(Pairs(G))
           /\ Cardinality(Pairs(G)) <= Cardinality(Pairs(F)) + 1
<1> DEFINE B == Pairs(F) \cup {<<x, y>>}
<1>1. Pairs(G) \in SUBSET B
  BY InPairs
<1>2. IsFiniteSet(B) /\ Cardinality(B) \in {Cardinality(Pairs(F)), Cardinality(Pairs(F)) + 1}
  BY FS_AddElement
<1>3. Cardinality(Pairs(F)) \in Nat
  BY FS_CardinalityType
<1> HIDE DEF B
<1>4. IsFiniteSet(Pairs(G)) /\ Cardinality(Pairs(G)) <= Cardinality(B)
      /\ Cardinality(Pairs(G)) \in Nat
  BY <1>1, <1>2, FS_Subset, FS_CardinalityType
<1> QED
  BY <1>2, <1>3, <1>4

\* What a thread's step does to the count of its returned calls: one that returns
\* leaves its event in the queue, or is counted as a loss.
LEMMA ReturnOfThread ==
    ASSUME IndInv, NEW t \in Thread, Emit(t) \/ ThreadExit(t) \/ InEmit(t)
    PROVE  /\ \A u \in Thread \ {t} : Returned(u)' = Returned(u)
           /\ unregistered_events' \in {unregistered_events, unregistered_events + 1}
           /\ \/ Returned(t)' = Returned(t)
              \/ /\ Returned(t)' = Returned(t) + 1
                 /\ \/ unregistered_events' = unregistered_events + 1
                    \/ Push(t) /\ thread[t].what = "event"
                    \/ Drop(t)
<1>1. TypeOK /\ ThreadsInPlace
  BY IndInvParts
<1>2. OnlyThread(t)
  BY <1>1, ContextOfThread
<1>3. \A u \in Thread \ {t} : Returned(u)' = Returned(u)
  BY <1>2 DEF OnlyThread, Returned
<1>4. thread[t].emits \in Nat /\ unregistered_events \in Nat
  <2>1. thread[t] \in ThreadType /\ unregistered_events \in Nat
    BY <1>1 DEF TypeOK
  <2> QED
    BY <2>1 DEF ThreadType
<1>5. /\ Returned(t) = IF thread[t].pc = "idle" \/ thread[t].what = "exit"
                        THEN thread[t].emits ELSE thread[t].emits - 1
      /\ Returned(t)' = IF thread'[t].pc = "idle" \/ thread'[t].what = "exit"
                        THEN thread'[t].emits ELSE thread'[t].emits - 1
  BY DEF Returned
<1>6. thread[t].pc \in {"claim", "activate", "setspecific"} => thread[t].what = "event"
  BY <1>1 DEF ThreadsInPlace
<1>7. ~Emit(t) /\ ~ClaimFails(t) => unregistered_events' = unregistered_events
  BY DEF InEmit, Claim, ClaimRetry, Activate, SetSpecific, Stamp, PushFull, Push, Drop,
         ThreadExit, failureVars
<1>8. CASE Emit(t)
  <2>1. /\ thread[t].pc = "idle" /\ thread'[t].emits = thread[t].emits + 1
        /\ thread'[t].what = "event"
        /\ \/ thread'[t].pc \in {"stamp", "claim"}
           \/ thread'[t].pc = "idle" /\ unregistered_events' = unregistered_events + 1
        /\ unregistered_events' \in {unregistered_events, unregistered_events + 1}
    BY <1>1, <1>8, EmitEffect
  <2> QED
    BY <1>3, <1>4, <1>5, <2>1
<1>9. CASE ClaimFails(t)
  <2>1. /\ thread[t].pc = "claim" /\ thread'[t].pc = "idle"
        /\ thread'[t].emits = thread[t].emits
        /\ unregistered_events' = unregistered_events + 1
    BY <1>1, <1>9, ClaimFailsEffect DEF SameRegistration
  <2> QED
    BY <1>3, <1>4, <1>5, <1>6, <2>1
<1>10. CASE Claim(t) \/ ClaimRetry(t)
  <2>1. /\ thread[t].pc = "claim" /\ thread'[t].pc \in {"claim", "activate"}
        /\ thread'[t].what = thread[t].what /\ thread'[t].emits = thread[t].emits
        /\ unregistered_events' = unregistered_events
    BY <1>1, <1>10, ClaimEffect, ClaimRetryEffect DEF Claim, ClaimRetry, failureVars
  <2> QED
    BY <1>3, <1>5, <1>6, <2>1
<1>11. CASE Activate(t) \/ Stamp(t) \/ PushFull(t)
  <2>1. /\ thread[t].pc \in {"activate", "stamp", "push"}
        /\ thread'[t].pc \in {"setspecific", "push", "drop"}
        /\ thread'[t].what = thread[t].what /\ thread'[t].emits = thread[t].emits
        /\ unregistered_events' = unregistered_events
    BY <1>1, <1>11, ActivateEffect, StampEffect, PushFullEffect
       DEF Activate, Stamp, PushFull, failureVars, SameRegistration
  <2> QED
    BY <1>3, <1>5, <2>1
<1>12. CASE SetSpecific(t)
  <2>1. /\ thread[t].pc = "setspecific" /\ thread'[t].pc = "stamp"
        /\ thread'[t].what = "start" /\ thread'[t].emits = thread[t].emits
        /\ unregistered_events' = unregistered_events
    BY <1>1, <1>12, SetSpecificEffect DEF SetSpecific
  <2> QED
    BY <1>3, <1>5, <1>6, <2>1
<1>13. CASE ThreadExit(t)
  <2>1. /\ thread[t].pc = "idle" /\ thread'[t].emits = thread[t].emits
        /\ thread'[t].pc = "idle" \/ thread'[t].what = "exit"
    BY <1>1, <1>13, ThreadExitEffect
  <2>2. unregistered_events' = unregistered_events
    BY <1>13 DEF ThreadExit, failureVars
  <2> QED
    BY <1>3, <1>5, <2>1, <2>2
<1>14. CASE Push(t) \/ Drop(t)
  <2>1. thread[t].pc \in {"push", "drop"} /\ EmissionOver(t)
    BY <1>1, <1>14, PushEffect, DropEffect
  <2>2. unregistered_events' = unregistered_events
    BY <1>14 DEF Push, Drop, failureVars
  <2>3. /\ thread'[t].emits = thread[t].emits
        /\ \/ /\ thread'[t].pc = "stamp" /\ thread'[t].what = "event"
              /\ thread[t].what = "start"
           \/ thread'[t].pc = "idle" /\ thread[t].what = "event"
           \/ thread'[t].pc = "idle" /\ thread[t].what = "exit"
    BY <2>1 DEF EmissionOver
  <2>4. CASE thread[t].what = "event"
    <3>1. Returned(t)' = thread[t].emits /\ Returned(t) = thread[t].emits - 1
      BY <1>5, <2>1, <2>3, <2>4
    <3> QED
      BY <1>3, <1>4, <1>14, <2>2, <2>4, <3>1
  <2>5. CASE thread[t].what # "event"
    BY <1>3, <1>5, <2>1, <2>2, <2>3, <2>5
  <2> QED
    BY <2>4, <2>5
<1> QED
  BY <1>8, <1>9, <1>10, <1>11, <1>12, <1>13, <1>14 DEF InEmit

(***************************************************************************)
(* The places of the calls in the stream of a slot.                        *)
(***************************************************************************)

LEMMA PlacesType ==
    ASSUME TypeOK, NEW s \in SlotIndex
    PROVE  /\ IsFiniteSet(CallPlaces(s))
           /\ \A i \in CallPlaces(s) :
                 /\ i \in Nat
                 /\ i <= Len(delivered[s]) + Len(thread_contexts[s].queue)
                 /\ i <= Len(delivered[s]) => i \in DeliveredCalls(s)
<1> DEFINE v == delivered[s]
           q == thread_contexts[s].queue
<1>1. /\ Len(v) \in Nat /\ Len(q) \in Nat
      /\ DOMAIN v = 1 .. Len(v) /\ DOMAIN q = 1 .. Len(q)
  BY ContextNumbers
<1>2. CallPlaces(s) = {i \in DOMAIN v : v[i].what = "event"}
                        \cup {Len(v) + i : i \in {j \in DOMAIN q : q[j].what = "event"}}
  BY DEF CallPlaces, DeliveredCalls
<1>3. DeliveredCalls(s) = {i \in DOMAIN v : v[i].what = "event"}
  BY DEF DeliveredCalls
<1>4. PICK l \in Nat, k \in Nat : l = Len(v) /\ k = Len(q)
  BY <1>1
<1> HIDE DEF v, q
<1>5. \A i \in CallPlaces(s) :
         \/ i \in 1 .. l /\ i \in DeliveredCalls(s)
         \/ \E j \in 1 .. k : i = l + j
  BY <1>1, <1>2, <1>3, <1>4
<1>6. \A i \in CallPlaces(s) :
         i \in 1 .. l + k /\ (i <= l => i \in DeliveredCalls(s))
  BY <1>5
<1>7. IsFiniteSet(1 .. l + k)
  BY FS_Interval
<1>8. IsFiniteSet(CallPlaces(s))
  BY <1>6, <1>7, FS_Subset
<1>9. \A i \in CallPlaces(s) : i \in Nat /\ i <= l + k
  BY <1>6
<1>10. l = Len(delivered[s]) /\ k = Len(thread_contexts[s].queue)
  BY <1>4 DEF v, q
<1> QED
  BY <1>6, <1>8, <1>9, <1>10

\* Draining moves no call, and loses none.
LEMMA DrainPlaces ==
    ASSUME TypeOK, DrainPop, NEW s \in SlotIndex
    PROVE  CallPlaces(s)' = CallPlaces(s)
<1>1. CASE s # consumer.i
  <2>1. delivered'[s] = delivered[s] /\ thread_contexts'[s] = thread_contexts[s]
    BY <1>1, DrainPopEffect DEF OnlyContext
  <2> QED
    BY <2>1 DEF CallPlaces, DeliveredCalls
<1>2. CASE s = consumer.i
  <2> DEFINE v == delivered[s]
             q == thread_contexts[s].queue
             w == Append(v, Head(q))
             r == Tail(q)
  <2>1. /\ Len(v) \in Nat /\ Len(q) \in Nat /\ q \in Seq(EventType)
        /\ v \in Seq(EventType)
    BY ContextNumbers
  <2>2. q # <<>> /\ delivered'[s] = w /\ thread_contexts'[s].queue = r
    BY <1>2, DrainPopEffect
  <2>3. /\ CallPlaces(s) =
             {i \in DOMAIN v : v[i].what = "event"}
               \cup {Len(v) + i : i \in {j \in DOMAIN q : q[j].what = "event"}}
        /\ CallPlaces(s)' =
             {i \in DOMAIN w : w[i].what = "event"}
               \cup {Len(w) + i : i \in {j \in DOMAIN r : r[j].what = "event"}}
    BY <2>2 DEF CallPlaces, DeliveredCalls
  <2>4. Head(q) = q[1] /\ Head(q) \in EventType /\ Len(r) = Len(q) - 1 /\ Len(q) > 0
        /\ (\A p \in 1 .. Len(q) - 1 : r[p] = q[p + 1])
        /\ r \in Seq(EventType)
    BY <2>1, <2>2
  <2>5. Len(w) = Len(v) + 1 /\ w[Len(v) + 1] = Head(q) /\ (\A p \in 1 .. Len(v) : w[p] = v[p])
        /\ w \in Seq(EventType)
    BY <2>1, <2>4, AppendProperties
  <2>6. /\ DOMAIN v = 1 .. Len(v) /\ DOMAIN q = 1 .. Len(q)
        /\ DOMAIN w = 1 .. Len(w) /\ DOMAIN r = 1 .. Len(r)
    BY <2>1, <2>4, <2>5, LenProperties
  <2>7. PICK l \in Nat, k \in Nat : l = Len(v) /\ k = Len(q)
    BY <2>1
  <2>8. Len(w) = l + 1 /\ Len(r) = k - 1 /\ k > 0 /\ w[l + 1] = q[1]
        /\ (\A p \in 1 .. k - 1 : r[p] = q[p + 1]) /\ \A p \in 1 .. l : w[p] = v[p]
    BY <2>4, <2>5, <2>7
  <2> HIDE DEF v, q, w, r
  <2>9. \A i : i \in CallPlaces(s) <=>
            \/ i \in 1 .. l /\ v[i].what = "event"
            \/ \E j \in 1 .. k : i = l + j /\ q[j].what = "event"
    BY <2>3, <2>6, <2>7
  <2>10. \A i : i \in CallPlaces(s)' <=>
            \/ i \in 1 .. l + 1 /\ w[i].what = "event"
            \/ \E j \in 1 .. k - 1 : i = l + 1 + j /\ r[j].what = "event"
    <3>1. DOMAIN w = 1 .. l + 1 /\ DOMAIN r = 1 .. k - 1 /\ Len(w) = l + 1
      BY <2>6, <2>8
    <3>2. CallPlaces(s)' =
             {i \in 1 .. l + 1 : w[i].what = "event"}
               \cup {l + 1 + i : i \in {j \in 1 .. k - 1 : r[j].what = "event"}}
      BY <2>3, <3>1
    <3> QED
      BY <3>2
  <2>11. ASSUME NEW i, i \in CallPlaces(s) PROVE i \in CallPlaces(s)'
    <3>1. CASE i \in 1 .. l /\ v[i].what = "event"
      BY <2>8, <2>10, <3>1
    <3>2. CASE \E j \in 1 .. k : i = l + j /\ q[j].what = "event"
      <4>1. PICK j \in 1 .. k : i = l + j /\ q[j].what = "event"
        BY <3>2
      <4>2. CASE j = 1
        BY <2>8, <2>10, <4>1, <4>2
      <4>3. CASE j # 1
        <5>1. PICK h \in 1 .. k - 1 : j = h + 1
          <6>1. j - 1 \in 1 .. k - 1 /\ j = (j - 1) + 1
            BY <4>1, <4>3
          <6> QED
            BY <6>1
        <5>2. r[h].what = "event" /\ i = l + 1 + h
          BY <2>8, <4>1, <5>1
        <5> QED
          BY <2>10, <5>1, <5>2
      <4> QED
        BY <4>2, <4>3
    <3> QED
      BY <2>9, <2>11, <3>1, <3>2
  <2>12. ASSUME NEW i, i \in CallPlaces(s)' PROVE i \in CallPlaces(s)
    <3>1. CASE i \in 1 .. l + 1 /\ w[i].what = "event"
      <4>1. CASE i \in 1 .. l
        BY <2>8, <2>9, <3>1, <4>1
      <4>2. CASE i = l + 1
        <5>1. q[1].what = "event" /\ 1 \in 1 .. k
          BY <2>8, <3>1, <4>2
        <5> QED
          BY <2>9, <4>2, <5>1
      <4> QED
        BY <3>1, <4>1, <4>2
    <3>2. CASE \E j \in 1 .. k - 1 : i = l + 1 + j /\ r[j].what = "event"
      <4>1. PICK j \in 1 .. k - 1 : i = l + 1 + j /\ r[j].what = "event"
        BY <3>2
      <4>2. PICK h \in 1 .. k : h = j + 1
        <5>1. j + 1 \in 1 .. k
          OBVIOUS
        <5> QED
          BY <5>1
      <4>3. i = l + h /\ q[h].what = "event"
        BY <2>8, <4>1, <4>2
      <4> QED
        BY <2>9, <4>2, <4>3
    <3> QED
      BY <2>10, <2>12, <3>1, <3>2
  <2> QED
    BY <2>11, <2>12
<1> QED
  BY <1>1, <1>2

\* A pushed event of the application takes a new place.
LEMMA PushPlaces ==
    ASSUME IndInv, NEW t \in Thread, Push(t), NEW s \in SlotIndex
    PROVE  /\ CallPlaces(s) \subseteq CallPlaces(s)'
           /\ s = thread[t].tls_context /\ thread[t].what = "event"
                => \E i \in CallPlaces(s)' : i \notin CallPlaces(s)
<1>1. TypeOK /\ ThreadsInPlace
  BY IndInvParts
<1>2. UNCHANGED delivered
  BY DEF Push
<1>3. CASE s # thread[t].tls_context
  <2>1. thread_contexts'[s] = thread_contexts[s]
    BY <1>1, <1>3, PushEffect DEF OnlyContext
  <2> QED
    BY <1>2, <1>3, <2>1 DEF CallPlaces, DeliveredCalls
<1>4. CASE s = thread[t].tls_context
  <2> DEFINE e == [what |-> thread[t].what, sequence |-> thread[t].sequence]
             v == delivered[s]
             q == thread_contexts[s].queue
             r == Append(q, e)
  <2>1. e \in EventType /\ thread_contexts'[s].queue = r /\ q \in Seq(EventType)
        /\ Len(q) \in Nat /\ Len(v) \in Nat
    BY <1>1, <1>4, PushEffect, ContextNumbers
  <2>2. /\ CallPlaces(s) =
             DeliveredCalls(s)
               \cup {Len(v) + i : i \in {j \in DOMAIN q : q[j].what = "event"}}
        /\ CallPlaces(s)' =
             DeliveredCalls(s)
               \cup {Len(v) + i : i \in {j \in DOMAIN r : r[j].what = "event"}}
    BY <1>2, <2>1 DEF CallPlaces, DeliveredCalls
  <2>3. /\ Len(r) = Len(q) + 1 /\ r[Len(q) + 1] = e /\ (\A p \in 1 .. Len(q) : r[p] = q[p])
        /\ r \in Seq(EventType)
    BY <2>1, AppendProperties
  <2>4. DOMAIN q = 1 .. Len(q) /\ DOMAIN r = 1 .. Len(r) /\ e.what = thread[t].what
    BY <2>1, <2>3, LenProperties
  <2>5. PICK l \in Nat, k \in Nat : l = Len(v) /\ k = Len(q)
    BY <2>1
  <2>6. \A i \in CallPlaces(s) : i \in Nat /\ i <= l + k
    BY <1>1, <2>5, PlacesType
  <2> HIDE DEF v, q, r, e
  <2>7. CallPlaces(s) \subseteq CallPlaces(s)'
    BY <2>2, <2>3, <2>4, <2>5
  <2>8. thread[t].what = "event" => l + (k + 1) \in CallPlaces(s)'
    <3>1. thread[t].what = "event" => k + 1 \in {j \in DOMAIN r : r[j].what = "event"}
      BY <2>3, <2>4, <2>5
    <3> QED
      BY <2>2, <2>5, <3>1
  <2>9. l + (k + 1) \notin CallPlaces(s)
    <3>1. ~(l + (k + 1) <= l + k)
      OBVIOUS
    <3> QED
      BY <2>6, <3>1
  <2> QED
    BY <2>7, <2>8, <2>9
<1> QED
  BY <1>3, <1>4

LEMMA PlacesFinite ==
    ASSUME NEW v \in Seq(EventType), NEW q \in Seq(EventType)
    PROVE  IsFiniteSet({i \in DOMAIN v : v[i].what = "event"}
                         \cup {Len(v) + i : i \in {j \in DOMAIN q : q[j].what = "event"}})
<1>1. PICK l \in Nat, k \in Nat : l = Len(v) /\ k = Len(q)
  BY LenProperties
<1>2. DOMAIN v = 1 .. l /\ DOMAIN q = 1 .. k
  BY <1>1, LenProperties
<1> DEFINE S == {i \in 1 .. l : v[i].what = "event"}
           T == {l + i : i \in {j \in 1 .. k : q[j].what = "event"}}
<1>3. S \cup T \in SUBSET (1 .. l + k)
  OBVIOUS
<1> HIDE DEF S, T
<1>4. IsFiniteSet(1 .. l + k)
  BY FS_Interval
<1>5. IsFiniteSet(S \cup T)
  BY <1>3, <1>4, FS_Subset
<1> QED
  BY <1>1, <1>2, <1>5 DEF S, T

LEMMA SlotsFinite == IsFiniteSet(SlotIndex)
<1>1. 0 \in Int /\ MaxThreads - 1 \in Int
  OBVIOUS
<1> QED
  BY <1>1, FS_Interval

LEMMA LossesFinite ==
    ASSUME NEW d \in [SlotIndex -> Nat]
    PROVE  IsFiniteSet(Losses(d))
<1> DEFINE F == [s \in SlotIndex |-> 1 .. d[s]]
<1>1. \A s \in DOMAIN F : IsFiniteSet(F[s])
  <2>1. ASSUME NEW s \in SlotIndex PROVE IsFiniteSet(1 .. d[s])
    <3>1. 1 \in Int /\ d[s] \in Int
      OBVIOUS
    <3> QED
      BY <3>1, FS_Interval
  <2> QED
    BY <2>1
<1>2. DOMAIN F = SlotIndex
  OBVIOUS
<1> HIDE DEF F
<1>3. IsFiniteSet(Pairs(F))
  BY <1>1, <1>2, SlotsFinite, PairsFinite
<1> QED
  BY <1>3 DEF Losses, F

LEMMA FamilyFinite ==
    ASSUME NEW F, DOMAIN F = SlotIndex, \A s \in SlotIndex : IsFiniteSet(F[s])
    PROVE  IsFiniteSet(Pairs(F))
  BY SlotsFinite, PairsFinite

LEMMA TakenFinite ==
    ASSUME TypeOK
    PROVE  IsFiniteSet(CallsTaken)
<1> DEFINE F == [s \in SlotIndex |-> CallPlaces(s)]
<1>1. DOMAIN F = SlotIndex /\ \A s \in SlotIndex : IsFiniteSet(F[s])
  BY PlacesType
<1> HIDE DEF F
<1>2. IsFiniteSet(Pairs(F))
  BY <1>1, FamilyFinite
<1> QED
  BY <1>2 DEF CallsTaken, F

LEMMA TakenFiniteAfter ==
    ASSUME TypeOK'
    PROVE  IsFiniteSet(CallsTaken')
<1> DEFINE F == [s \in SlotIndex |-> CallPlaces(s)']
<1>1. ASSUME NEW s \in SlotIndex PROVE IsFiniteSet(CallPlaces(s)')
  <2>1. thread_contexts'[s] \in ContextType /\ delivered'[s] \in Seq(EventType)
    BY DEF TypeOK
  <2>2. PICK v \in Seq(EventType), q \in Seq(EventType) :
           v = delivered'[s] /\ q = thread_contexts'[s].queue
    BY <2>1 DEF ContextType
  <2>3. CallPlaces(s)' =
           {i \in DOMAIN v : v[i].what = "event"}
             \cup {Len(v) + i : i \in {j \in DOMAIN q : q[j].what = "event"}}
    BY <2>2 DEF CallPlaces, DeliveredCalls
  <2> QED
    BY <2>3, PlacesFinite
<1>2. DOMAIN F = SlotIndex /\ \A s \in SlotIndex : IsFiniteSet(F[s])
  BY <1>1
<1>3. CallsTaken' = Pairs(F)
  BY DEF CallsTaken, Pairs
<1> HIDE DEF F
<1> QED
  BY <1>2, <1>3, FamilyFinite

(***************************************************************************)
(* The account of the calls.                                               *)
(***************************************************************************)

LEMMA DroppedType ==
    ASSUME TypeOK
    PROVE  [s \in SlotIndex |-> thread_contexts[s].dropped] \in [SlotIndex -> Nat]
  BY ContextNumbers

LEMMA SlotsGrow ==
    ASSUME IndInv, NEW t \in Thread, Emit(t) \/ ThreadExit(t) \/ InEmit(t),
           NEW s \in SlotIndex
    PROVE  /\ thread_contexts'[s].dropped >= thread_contexts[s].dropped
           /\ thread_contexts'[s].dropped \in Nat
           /\ CallPlaces(s) \subseteq CallPlaces(s)'
<1>1. thread_contexts[s].dropped \in Nat
  BY IndInvParts, ContextNumbers
<1>2. CASE NoneMoves(s)
  BY <1>1, <1>2 DEF NoneMoves, CallPlaces, DeliveredCalls
<1>3. CASE Push(t) /\ OneJoins(s)
  BY <1>1, <1>3, PushPlaces DEF OneJoins
<1> QED
  BY <1>2, <1>3, ThreadMoves

LEMMA LossesGrow ==
    ASSUME NEW d \in [SlotIndex -> Nat], NEW e \in [SlotIndex -> Nat],
           \A s \in SlotIndex : d[s] <= e[s]
    PROVE  /\ Cardinality(Losses(d)) \in Nat /\ Cardinality(Losses(e)) \in Nat
           /\ Cardinality(Losses(d)) <= Cardinality(Losses(e))
           /\ \A s \in SlotIndex :
                 d[s] < e[s] => Cardinality(Losses(d)) + 1 <= Cardinality(Losses(e))
<1> DEFINE F == [s \in SlotIndex |-> 1 .. d[s]]
           G == [s \in SlotIndex |-> 1 .. e[s]]
<1>1. Losses(d) = Pairs(F) /\ Losses(e) = Pairs(G)
  BY DEF Losses
<1>2. IsFiniteSet(Pairs(G))
  BY <1>1, LossesFinite
<1>3. /\ DOMAIN F = SlotIndex /\ DOMAIN G = SlotIndex
      /\ \A s \in SlotIndex : F[s] \subseteq G[s]
      /\ \A s \in SlotIndex : d[s] < e[s] => e[s] \in G[s] /\ e[s] \notin F[s]
  OBVIOUS
<1> HIDE DEF F, G
<1>4. Pairs(F) \in SUBSET Pairs(G)
  BY <1>3, PairsWithin
<1>5. ASSUME NEW s \in SlotIndex, d[s] < e[s]
      PROVE  Cardinality(Pairs(F)) + 1 <= Cardinality(Pairs(G))
  BY <1>2, <1>3, <1>5, PairsOneMore
<1> QED
  BY <1>1, <1>2, <1>4, <1>5, SmallerSet

LEMMA TakenGrows ==
    ASSUME IndInv, NEW t \in Thread, Emit(t) \/ ThreadExit(t) \/ InEmit(t)
    PROVE  /\ Cardinality(CallsTaken) \in Nat /\ Cardinality(CallsTaken') \in Nat
           /\ CallsTaken \in SUBSET CallsTaken'
           /\ Cardinality(CallsTaken) <= Cardinality(CallsTaken')
           /\ Push(t) /\ thread[t].what = "event"
                => Cardinality(CallsTaken) + 1 <= Cardinality(CallsTaken')
<1>1. TypeOK /\ ThreadsInPlace
  BY IndInvParts
<1>2. TypeOK'
  BY ThreadKeepsInv DEF IndInv
<1> DEFINE F == [s \in SlotIndex |-> CallPlaces(s)]
           G == [s \in SlotIndex |-> CallPlaces(s)']
<1>3. CallsTaken = Pairs(F) /\ CallsTaken' = Pairs(G)
  BY DEF CallsTaken, Pairs
<1>4. IsFiniteSet(Pairs(G))
  BY <1>2, <1>3, TakenFiniteAfter
<1>5. /\ DOMAIN F = SlotIndex /\ DOMAIN G = SlotIndex
      /\ \A s \in SlotIndex : F[s] \subseteq G[s]
  BY SlotsGrow
<1>6. ASSUME Push(t), thread[t].what = "event"
      PROVE  \E s \in SlotIndex : \E i \in G[s] : i \notin F[s]
  <2>1. thread[t].tls_context \in SlotIndex
    BY <1>1, <1>6, PushEffect
  <2> QED
    BY <1>6, <2>1, PushPlaces
<1> HIDE DEF F, G
<1>7. Pairs(F) \in SUBSET Pairs(G)
  BY <1>5, PairsWithin
<1>8. ASSUME Push(t), thread[t].what = "event"
      PROVE  Cardinality(Pairs(F)) + 1 <= Cardinality(Pairs(G))
  BY <1>4, <1>5, <1>6, <1>8, PairsOneMore
<1> QED
  BY <1>3, <1>4, <1>7, <1>8, SmallerSet

LEMMA ReturnsGrow ==
    ASSUME IndInv, IsFiniteSet(CallsReturned), NEW t \in Thread,
           Emit(t) \/ ThreadExit(t) \/ InEmit(t)
    PROVE  /\ IsFiniteSet(CallsReturned')
           /\ Cardinality(CallsReturned) \in Nat /\ Cardinality(CallsReturned') \in Nat
           /\ Returned(t)' = Returned(t)
                => Cardinality(CallsReturned') = Cardinality(CallsReturned)
           /\ Cardinality(CallsReturned') <= Cardinality(CallsReturned) + 1
<1> DEFINE F == [u \in Thread |-> 1 .. Returned(u)]
           G == [u \in Thread |-> 1 .. Returned(u)']
<1>1. CallsReturned = Pairs(F) /\ CallsReturned' = Pairs(G)
  BY DEF CallsReturned, Pairs
<1>2. Returned(t) \in Nat
  BY IndInvParts, CountsType
<1>3. /\ DOMAIN F = Thread /\ DOMAIN G = Thread
      /\ G[t] \subseteq F[t] \cup {Returned(t) + 1}
      /\ \A u \in Thread \ {t} : G[u] = F[u]
      /\ Returned(t)' = Returned(t) => G = F
  BY <1>2, ReturnOfThread
<1> HIDE DEF F, G
<1>4. /\ IsFiniteSet(Pairs(G))
      /\ Cardinality(Pairs(G)) <= Cardinality(Pairs(F)) + 1
  BY <1>1, <1>3, PairsAdd
<1> QED
  BY <1>1, <1>3, <1>4, FS_CardinalityType

LEMMA ThreadKeepsAccount ==
    ASSUME IndInv, CallsAccounted, NEW t \in Thread, Emit(t) \/ ThreadExit(t) \/ InEmit(t)
    PROVE  CallsAccounted'
<1> DEFINE d == [s \in SlotIndex |-> thread_contexts[s].dropped]
           e == [s \in SlotIndex |-> thread_contexts'[s].dropped]
<1>1. TypeOK /\ ThreadsInPlace /\ unregistered_events \in Nat
  BY IndInvParts DEF TypeOK
<1>2. d \in [SlotIndex -> Nat] /\ e \in [SlotIndex -> Nat]
      /\ \A s \in SlotIndex : d[s] <= e[s]
  BY <1>1, ContextNumbers, SlotsGrow
<1>3. Drop(t) => \E s \in SlotIndex : d[s] < e[s]
  <2> SUFFICES ASSUME Drop(t) PROVE \E s \in SlotIndex : d[s] < e[s]
    OBVIOUS
  <2>1. PICK s \in SlotIndex : s = thread[t].tls_context
    BY <1>1, DropEffect
  <2>2. d[s] \in Nat /\ e[s] = d[s] + 1
    BY <1>1, <2>1, DropEffect, ContextNumbers
  <2> QED
    BY <2>2
<1>4. CallsAccounted' <=>
        /\ IsFiniteSet(CallsReturned')
        /\ Cardinality(CallsReturned')
             <= unregistered_events' + Cardinality(Losses(e)) + Cardinality(CallsTaken')
  BY DEF CallsAccounted, Losses, Pairs
<1>5. /\ IsFiniteSet(CallsReturned)
      /\ Cardinality(CallsReturned)
           <= unregistered_events + Cardinality(Losses(d)) + Cardinality(CallsTaken)
  BY DEF CallsAccounted
<1> HIDE DEF d, e
<1>6. /\ Cardinality(Losses(d)) \in Nat /\ Cardinality(Losses(e)) \in Nat
      /\ Cardinality(Losses(d)) <= Cardinality(Losses(e))
      /\ Drop(t) => Cardinality(Losses(d)) + 1 <= Cardinality(Losses(e))
  BY <1>2, <1>3, LossesGrow
<1> QED
  BY <1>1, <1>4, <1>5, <1>6, TakenGrows, ReturnsGrow, ReturnOfThread

(***************************************************************************)
(* The account at the stop.                                                *)
(***************************************************************************)

StoppedCalls == Pairs([t \in Thread |-> 1 .. atStop.calls[t]])
EarlyCalls == {c \in CallsTaken : c[2] <= atStop.events[c[1]]}

LEMMA StopParts ==
    ASSUME NEW d, NEW u
    PROVE  StopAccounted(d, u) <=>
             /\ u <= unregistered_events
             /\ main.verdict = "COMPLETE" => u = 0
             /\ \A s \in SlotIndex : /\ d[s] <= thread_contexts[s].dropped
                                     /\ d[s] <= atStop.events[s]
             /\ main.dropped = 0 => \A s \in 0 .. main.i - 1 : d[s] = 0
             /\ IsFiniteSet(StoppedCalls)
             /\ Cardinality(StoppedCalls)
                  <= u + Cardinality(Losses(d)) + Cardinality(EarlyCalls)
  BY DEF StopAccounted, StoppedCalls, EarlyCalls

LEMMA StopPartsAfter ==
    ASSUME NEW d, NEW u
    PROVE  StopAccounted(d, u)' <=>
             /\ u <= unregistered_events'
             /\ main'.verdict = "COMPLETE" => u = 0
             /\ \A s \in SlotIndex : /\ d[s] <= thread_contexts'[s].dropped
                                     /\ d[s] <= atStop'.events[s]
             /\ main'.dropped = 0 => \A s \in 0 .. main'.i - 1 : d[s] = 0
             /\ IsFiniteSet(StoppedCalls')
             /\ Cardinality(StoppedCalls')
                  <= u + Cardinality(Losses(d)) + Cardinality(EarlyCalls')
  BY DEF StopAccounted, StoppedCalls, EarlyCalls, Losses, Pairs

\* What was known at the stop stays true as the counters grow.
LEMMA ThreadKeepsStop ==
    ASSUME IndInv, NEW t \in Thread, Emit(t) \/ ThreadExit(t) \/ InEmit(t),
           NEW d \in [SlotIndex -> Nat], NEW u \in Nat, StopAccounted(d, u)
    PROVE  StopAccounted(d, u)'
<1>1. main' = main /\ atStop' = atStop
  BY ThreadFrames DEF ThreadFrame
<1>2. unregistered_events \in Nat
  BY IndInvParts DEF TypeOK
<1>3. u <= unregistered_events'
  BY <1>2, ReturnOfThread, StopParts
<1>4. ASSUME NEW s \in SlotIndex
      PROVE  d[s] <= thread_contexts'[s].dropped /\ d[s] <= atStop'.events[s]
  <2>1. /\ thread_contexts'[s].dropped >= thread_contexts[s].dropped
        /\ thread_contexts'[s].dropped \in Nat /\ thread_contexts[s].dropped \in Nat
    BY IndInvParts, SlotsGrow, ContextNumbers
  <2>2. /\ d[s] <= thread_contexts[s].dropped /\ d[s] <= atStop.events[s]
        /\ d[s] \in Nat
    BY StopParts
  <2> QED
    BY <1>1, <2>1, <2>2
<1>5. StoppedCalls' = StoppedCalls
  BY <1>1 DEF StoppedCalls, Pairs
<1>6. Cardinality(EarlyCalls) <= Cardinality(EarlyCalls')
      /\ Cardinality(EarlyCalls) \in Nat /\ Cardinality(EarlyCalls') \in Nat
  <2>1. IsFiniteSet(CallsTaken')
    BY TakenFiniteAfter, ThreadKeepsInv DEF IndInv
  <2> DEFINE k == atStop.events
  <2>2. /\ EarlyCalls = {c \in CallsTaken : c[2] <= k[c[1]]}
        /\ EarlyCalls' = {c \in CallsTaken' : c[2] <= k[c[1]]}
    BY <1>1 DEF EarlyCalls
  <2> HIDE DEF k
  <2>4. CallsTaken \in SUBSET CallsTaken'
    BY TakenGrows
  <2>5. EarlyCalls \in SUBSET EarlyCalls' /\ EarlyCalls' \in SUBSET CallsTaken'
    BY <2>2, <2>4
  <2>3. IsFiniteSet(EarlyCalls')
    BY <2>1, <2>5, FS_Subset
  <2> QED
    BY <2>3, <2>5, SmallerSet
<1>7. Cardinality(Losses(d)) \in Nat
  BY LossesFinite, FS_CardinalityType
<1>8. /\ IsFiniteSet(StoppedCalls)
      /\ Cardinality(StoppedCalls) <= u + Cardinality(Losses(d)) + Cardinality(EarlyCalls)
  BY StopParts
<1>9. Cardinality(StoppedCalls) \in Nat
  BY <1>8, FS_CardinalityType
<1>10. Cardinality(StoppedCalls) <= u + Cardinality(Losses(d)) + Cardinality(EarlyCalls')
  BY <1>6, <1>7, <1>8, <1>9
<1> QED
  BY <1>1, <1>3, <1>4, <1>5, <1>8, <1>10, StopParts, StopPartsAfter

\* Neither the consumer nor the main thread touches a call or a loss.
CallsSame ==
    /\ CallsReturned' = CallsReturned
    /\ CallsTaken' = CallsTaken
    /\ unregistered_events' = unregistered_events
    /\ \A s \in SlotIndex : thread_contexts'[s].dropped = thread_contexts[s].dropped

LEMMA AccountSame ==
    ASSUME CallsAccounted, CallsSame
    PROVE  CallsAccounted'
<1> DEFINE d == [s \in SlotIndex |-> thread_contexts[s].dropped]
<1>1. d = [s \in SlotIndex |-> thread_contexts'[s].dropped]
  BY DEF CallsSame
<1>2. /\ CallsReturned' = CallsReturned /\ CallsTaken' = CallsTaken
      /\ unregistered_events' = unregistered_events
  BY DEF CallsSame
<1>3. CallsAccounted' <=>
        /\ IsFiniteSet(CallsReturned')
        /\ Cardinality(CallsReturned')
             <= unregistered_events' + Cardinality(Losses(d)) + Cardinality(CallsTaken')
  BY <1>1 DEF CallsAccounted, Losses, Pairs
<1>4. /\ IsFiniteSet(CallsReturned)
      /\ Cardinality(CallsReturned)
           <= unregistered_events + Cardinality(Losses(d)) + Cardinality(CallsTaken)
  BY DEF CallsAccounted
<1> QED
  BY <1>2, <1>3, <1>4

LEMMA ConsumerCallsSame ==
    ASSUME IndInv, ConsumerStep
    PROVE  CallsSame /\ UNCHANGED <<main, atStop>>
<1>1. TypeOK
  BY IndInvParts
<1>2. ConsumerFrame /\ (~DrainPop => UNCHANGED <<thread_contexts, delivered>>)
  BY ConsumerFrames
<1>3. ASSUME NEW s \in SlotIndex
      PROVE  /\ CallPlaces(s)' = CallPlaces(s)
             /\ thread_contexts'[s].dropped = thread_contexts[s].dropped
  <2>1. CASE DrainPop
    BY <1>1, <2>1, DrainPlaces, DrainPopEffect DEF OnlyContext
  <2>2. CASE ~DrainPop
    BY <1>2, <2>2 DEF CallPlaces, DeliveredCalls
  <2> QED
    BY <2>1, <2>2
<1>4. CallsTaken' = CallsTaken
  BY <1>3 DEF CallsTaken, Pairs
<1>5. CallsReturned' = CallsReturned
  BY <1>2 DEF ConsumerFrame, CallsReturned, Pairs, Returned
<1> QED
  BY <1>2, <1>3, <1>4, <1>5 DEF CallsSame, ConsumerFrame

LEMMA LibraryCallsSame ==
    ASSUME LibraryInit \/ LibraryDestroy
    PROVE  CallsSame
  BY LibraryFrames DEF CallsSame, CallsReturned, CallsTaken, Pairs, Returned, CallPlaces,
                       DeliveredCalls

\* The summary goes on, with the counters at the stop still below its totals.
LEMMA SummaryKeepsStop ==
    ASSUME CallsSame, atStop' = atStop,
           NEW d, NEW u, StopAccounted(d, u),
           main'.verdict = "COMPLETE" => u = 0,
           main'.dropped = 0 => \A s \in 0 .. main'.i - 1 : d[s] = 0
    PROVE  StopAccounted(d, u)'
<1>1. StoppedCalls' = StoppedCalls /\ EarlyCalls' = EarlyCalls
  BY DEF CallsSame, StoppedCalls, EarlyCalls, Pairs
<1>2. unregistered_events' = unregistered_events
      /\ \A s \in SlotIndex : thread_contexts'[s].dropped = thread_contexts[s].dropped
  BY DEF CallsSame
<1> QED
  BY <1>1, <1>2, StopParts, StopPartsAfter

LEMMA LibraryKeepsStop ==
    ASSUME IndInv, VerdictInv, LibraryInit \/ LibraryDestroy, ~StopAccept,
           NEW d \in [SlotIndex -> Nat], NEW u \in Nat, StopAccounted(d, u)
    PROVE  StopAccounted(d, u)'
<1>1. TypeOK /\ SummaryInPlace /\ SlotsInPlace
  BY IndInvParts
<1>2. CallsSame /\ atStop' = atStop
  BY LibraryCallsSame, LibraryFrames
<1>3. /\ u <= unregistered_events
      /\ main.verdict = "COMPLETE" => u = 0
      /\ \A s \in SlotIndex : d[s] <= thread_contexts[s].dropped
      /\ main.dropped = 0 => \A s \in 0 .. main.i - 1 : d[s] = 0
  BY StopParts
<1>4. \A s \in SlotIndex : thread_contexts[s].dropped = 0 => d[s] = 0
  BY <1>3
<1>5. main.i \in Nat /\ main.dropped \in Nat
  BY <1>1, MainNumbers
<1>6. CASE SumGenerated
  <2>1. /\ main.i \in SlotIndex /\ main'.dropped = main.dropped
        /\ main'.verdict = main.verdict
        /\ \/ main'.i = main.i
           \/ main'.i = main.i + 1 /\ ~thread_contexts[main.i].active
    BY <1>1, <1>6, SumGeneratedEffect
  <2>2. ~thread_contexts[main.i].active => d[main.i] = 0
    <3>1. ~thread_contexts[main.i].active => thread_contexts[main.i].dropped = 0
      BY <1>1, <2>1, RegisteredContext DEF SlotsInPlace, Untouched
    <3> QED
      BY <1>4, <2>1, <3>1
  <2>3. main'.dropped = 0 => \A s \in 0 .. main'.i - 1 : d[s] = 0
    BY <1>3, <1>5, <2>1, <2>2
  <2> QED
    BY <1>2, <1>3, <2>1, <2>3, SummaryKeepsStop
<1>7. CASE SumConsumed
  <2>1. /\ main.i \in SlotIndex /\ main'.i = main.i + 1 /\ main'.verdict = main.verdict
        /\ main'.dropped = main.dropped + thread_contexts[main.i].dropped
    BY <1>1, <1>7, SumConsumedEffect
  <2>2. PICK n \in Nat : n = thread_contexts[main.i].dropped
    BY <1>1, <2>1, ContextNumbers
  <2>3. main'.dropped = 0 => main.dropped = 0 /\ n = 0
    BY <1>5, <2>1, <2>2
  <2>4. main'.dropped = 0 => \A s \in 0 .. main'.i - 1 : d[s] = 0
    BY <1>3, <1>4, <1>5, <2>1, <2>2, <2>3
  <2> QED
    BY <1>2, <1>3, <2>1, <2>4, SummaryKeepsStop
<1>8. CASE Verdict
  <2>1. /\ main'.i = main.i /\ main'.dropped = main.dropped
        /\ main'.verdict = "COMPLETE" => unregistered_events = 0
    BY <1>1, <1>8, VerdictEffect
  <2>2. main'.verdict = "COMPLETE" => u = 0
    BY <1>3, <2>1
  <2> QED
    BY <1>2, <1>3, <2>1, <2>2, SummaryKeepsStop
<1>9. CASE ~(SumGenerated \/ SumConsumed \/ Verdict)
  <2>1. main'.i = main.i /\ main'.dropped = main.dropped /\ main'.verdict = main.verdict
    BY <1>1, <1>9, LibraryMoves, JoinEffect
  <2> QED
    BY <1>2, <1>3, <2>1, SummaryKeepsStop
<1> QED
  BY <1>6, <1>7, <1>8, <1>9

\* At the stop itself.
LEMMA StopAcceptAccounts ==
    ASSUME IndInv, VerdictInv, CallsAccounted, StopAccept
    PROVE  \E d \in [SlotIndex -> Nat], u \in Nat : StopAccounted(d, u)'
<1>1. TypeOK /\ ThreadsInPlace /\ SummaryFresh /\ VerdictInPlace /\ main \in MainType
      /\ unregistered_events \in Nat
  BY IndInvParts, VerdictInvParts DEF TypeOK
<1> DEFINE e == [s \in SlotIndex |-> thread_contexts[s].dropped]
<1>2. PICK d \in [SlotIndex -> Nat] : d = e
  BY <1>1, DroppedType
<1>3. PICK u \in Nat : u = unregistered_events
  BY <1>1
<1>4. CallsSame
  BY LibraryCallsSame DEF LibraryDestroy
<1>5. /\ main.pc = "running" /\ main' = [main EXCEPT !.pc = "stopping"]
      /\ atStop' = [events |-> [s \in SlotIndex |-> Finished(s)],
                    calls |-> [t \in Thread |-> Returned(t)]]
  BY DEF StopAccept
<1>6. main'.i = main.i /\ main'.verdict = main.verdict
  BY <1>1, <1>5, MainMoves
<1>7. main'.verdict # "COMPLETE" /\ main'.i = 0
  BY <1>1, <1>5, <1>6 DEF SummaryFresh, VerdictInPlace
<1>8. StoppedCalls' = CallsReturned
  BY <1>5 DEF StoppedCalls, CallsReturned, Pairs
<1>9. ASSUME NEW s \in SlotIndex
      PROVE  /\ d[s] = thread_contexts[s].dropped /\ d[s] <= atStop'.events[s]
             /\ \A i \in CallPlaces(s) : i <= atStop'.events[s]
  <2>1. PICK l \in Nat, k \in Nat :
           l = Len(delivered[s]) /\ k = Len(thread_contexts[s].queue)
    BY <1>1, ContextNumbers
  <2>2. d[s] = thread_contexts[s].dropped /\ d[s] \in Nat
    BY <1>2
  <2>3. atStop'.events[s] = l + k + d[s]
    BY <1>5, <2>1, <2>2 DEF Finished
  <2>4. \A i \in CallPlaces(s) : i \in Nat /\ i <= l + k
    BY <1>1, <2>1, PlacesType
  <2> QED
    BY <2>1, <2>2, <2>3, <2>4
<1>10. EarlyCalls' = CallsTaken
  <2>1. \A c \in CallsTaken : \E s \in SlotIndex : \E i \in CallPlaces(s) : c = <<s, i>>
    BY DEF CallsTaken, Pairs
  <2>2. \A c \in CallsTaken : c[2] <= atStop'.events[c[1]]
    BY <1>9, <2>1
  <2> QED
    BY <1>4, <2>2 DEF CallsSame, EarlyCalls
<1>11. /\ IsFiniteSet(CallsReturned)
       /\ Cardinality(CallsReturned)
            <= u + Cardinality(Losses(d)) + Cardinality(CallsTaken)
  BY <1>2, <1>3 DEF CallsAccounted
<1>12. u <= unregistered_events'
       /\ \A s \in SlotIndex : d[s] <= thread_contexts'[s].dropped
  BY <1>3, <1>4, <1>9 DEF CallsSame
<1>13. StopAccounted(d, u)'
  BY <1>7, <1>8, <1>9, <1>10, <1>11, <1>12, StopPartsAfter
<1> QED
  BY <1>13

LEMMA CallsInit == Init => CallsInv
<1> SUFFICES ASSUME Init PROVE CallsInv
  OBVIOUS
<1>1. \A s \in SlotIndex : delivered[s] = <<>> /\ thread_contexts[s].queue = <<>>
                           /\ thread_contexts[s].dropped = 0 /\ atStop.events[s] = 0
  BY RegisteredContext DEF Init
<1>2. \A t \in Thread : Returned(t) = 0 /\ atStop.calls[t] = 0
  BY DEF Init, Returned
<1>3. CallsReturned = {} /\ StoppedCalls = {}
  BY <1>2 DEF CallsReturned, StoppedCalls, Pairs
<1>4. CallsTaken = {}
  BY <1>1 DEF CallsTaken, Pairs, CallPlaces, DeliveredCalls
<1>5. EarlyCalls = {}
  BY <1>4 DEF EarlyCalls
<1>6. unregistered_events = 0 /\ main.verdict = "none" /\ main.i = 0
  BY DEF Init
<1> DEFINE d == [s \in SlotIndex |-> 0]
<1>7. Losses(d) = {} /\ d \in [SlotIndex -> Nat]
      /\ [s \in SlotIndex |-> thread_contexts[s].dropped] = d
  BY <1>1 DEF Losses, Pairs
<1>8. \A s \in SlotIndex : d[s] = 0
  OBVIOUS
<1> HIDE DEF d
<1>9. CallsAccounted
  <2>1. IsFiniteSet({}) /\ Cardinality({}) = 0
    BY FS_EmptySet
  <2>2. CallsAccounted <=>
          /\ IsFiniteSet(CallsReturned)
          /\ Cardinality(CallsReturned)
               <= unregistered_events + Cardinality(Losses(d)) + Cardinality(CallsTaken)
    BY <1>7 DEF CallsAccounted
  <2> QED
    BY <1>3, <1>4, <1>6, <1>7, <2>1, <2>2
<1>10. StopAccounted(d, 0)
  BY <1>1, <1>3, <1>5, <1>6, <1>7, <1>8, FS_EmptySet, StopParts
<1> QED
  BY <1>7, <1>9, <1>10 DEF CallsInv

LEMMA CallsNext == IndInv /\ VerdictInv /\ CallsInv /\ [Next]_vars => CallsInv'
<1> SUFFICES ASSUME IndInv, VerdictInv, CallsInv, [Next]_vars PROVE CallsInv'
  OBVIOUS
<1>1. CallsAccounted
  BY DEF CallsInv
<1>2. PICK d \in [SlotIndex -> Nat], u \in Nat : StopAccounted(d, u)
  BY DEF CallsInv
<1>3. CASE UNCHANGED vars
  <2>1. CallsSame /\ main' = main /\ atStop' = atStop
    BY <1>3 DEF vars, CallsSame, CallsReturned, CallsTaken, Pairs, Returned, CallPlaces,
                DeliveredCalls
  <2>2. StopAccounted(d, u)'
    BY <1>2, <2>1, StopParts, SummaryKeepsStop
  <2> QED
    BY <1>1, <2>1, <2>2, AccountSame DEF CallsInv
<1>4. CASE \E t \in Thread : Emit(t) \/ ThreadExit(t) \/ InEmit(t)
  BY <1>1, <1>2, <1>4, ThreadKeepsAccount, ThreadKeepsStop DEF CallsInv
<1>5. CASE ConsumerStep
  <2>1. CallsSame /\ main' = main /\ atStop' = atStop
    BY <1>5, ConsumerCallsSame
  <2>2. StopAccounted(d, u)'
    BY <1>2, <2>1, StopParts, SummaryKeepsStop
  <2> QED
    BY <1>1, <2>1, <2>2, AccountSame DEF CallsInv
<1>6. CASE LibraryInit \/ LibraryDestroy
  <2>1. CallsAccounted'
    BY <1>1, <1>6, LibraryCallsSame, AccountSame
  <2>2. \E e \in [SlotIndex -> Nat], v \in Nat : StopAccounted(e, v)'
    BY <1>1, <1>2, <1>6, LibraryKeepsStop, StopAcceptAccounts
  <2> QED
    BY <2>1, <2>2 DEF CallsInv
<1> QED
  BY <1>3, <1>4, <1>5, <1>6 DEF Next

\* print_transport_summary: COMPLETE means that the verifier has processed as many
\* events of the application as calls of monitor_runtime_emit had returned when
\* monitor_runtime_stop was called, calls of threads without a slot included.
THEOREM NoCallMissed == Spec => []CompleteMissesNoCall
<1>1. IndInv /\ VerdictInv /\ CallsInv => CompleteMissesNoCall
  <2> SUFFICES ASSUME IndInv, VerdictInv, CallsInv, main.verdict = "COMPLETE"
               PROVE  Cardinality(StoppedCalls)
                        <= Cardinality(Pairs([s \in SlotIndex |-> DeliveredCalls(s)]))
    BY DEF CompleteMissesNoCall, StoppedCalls
  <2> DEFINE D == Pairs([s \in SlotIndex |-> DeliveredCalls(s)])
  <2>1. PICK d \in [SlotIndex -> Nat], u \in Nat : StopAccounted(d, u)
    BY DEF CallsInv
  <2>2. /\ u = 0
        /\ \A s \in SlotIndex : d[s] <= atStop.events[s]
        /\ main.dropped = 0 => \A s \in 0 .. main.i - 1 : d[s] = 0
        /\ Cardinality(StoppedCalls)
             <= u + Cardinality(Losses(d)) + Cardinality(EarlyCalls)
    BY <2>1, StopParts
  <2>3. /\ main.dropped = 0 /\ main.i = main.count
        /\ \A s \in SlotIndex : s >= main.count => delivered[s] = <<>>
    BY VerdictInvParts DEF VerdictInPlace, SummarySound
  <2>4. TypeOK /\ main.i \in Nat
    BY IndInvParts, MainNumbers
  <2>5. ASSUME NEW s \in SlotIndex
        PROVE  atStop.events[s] <= Len(delivered[s]) /\ d[s] = 0
    <3>1. Len(delivered[s]) \in Nat /\ atStop.events[s] \in Nat /\ d[s] \in Nat
      BY <2>4, ContextNumbers, MainNumbers
    <3>2. atStop.events[s] <= Len(delivered[s])
      BY <3>1, CompleteMeans DEF Covered
    <3>3. CASE s < main.count
      BY <2>2, <2>3, <2>4, <3>2, <3>3
    <3>4. CASE ~(s < main.count)
      <4>1. delivered[s] = <<>>
        BY <2>3, <2>4, <3>4
      <4>2. Len(delivered[s]) = 0
        BY <4>1
      <4> QED
        BY <2>2, <3>1, <3>2, <4>2
    <3> QED
      BY <3>3, <3>4
  <2>6. Losses(d) = {}
    BY <2>5 DEF Losses, Pairs
  <2>7. \A c \in CallsTaken : \E s \in SlotIndex : \E i \in CallPlaces(s) : c = <<s, i>>
    BY DEF CallsTaken, Pairs
  <2>8. \A s \in SlotIndex : \A i \in DeliveredCalls(s) : <<s, i>> \in D
    BY DEF Pairs
  <2>9. ASSUME NEW s \in SlotIndex, NEW i \in CallPlaces(s), i <= atStop.events[s]
        PROVE  i \in DeliveredCalls(s)
    <3>1. Len(delivered[s]) \in Nat /\ atStop.events[s] \in Nat /\ i \in Nat
      BY <2>4, ContextNumbers, MainNumbers, PlacesType
    <3>2. i <= Len(delivered[s])
      BY <2>5, <2>9, <3>1
    <3> QED
      BY <2>4, <3>2, PlacesType
  <2>10. D \in SUBSET CallsTaken
    BY DEF CallsTaken, Pairs, CallPlaces
  <2> HIDE DEF D
  <2>11. EarlyCalls \in SUBSET D
    BY <2>7, <2>8, <2>9 DEF EarlyCalls
  <2>12. IsFiniteSet(D)
    BY <2>4, <2>10, TakenFinite, FS_Subset
  <2>13. Cardinality(EarlyCalls) <= Cardinality(D) /\ Cardinality(EarlyCalls) \in Nat
         /\ Cardinality(D) \in Nat
    BY <2>11, <2>12, SmallerSet
  <2>14. Cardinality(StoppedCalls) <= Cardinality(EarlyCalls)
    BY <2>2, <2>6, <2>13, FS_EmptySet
  <2>15. Cardinality(StoppedCalls) \in Nat
    BY <2>1, StopParts, FS_CardinalityType
  <2>16. Cardinality(StoppedCalls) <= Cardinality(D)
    BY <2>13, <2>14, <2>15
  <2> QED
    BY <2>16 DEF D
<1> QED
  BY <1>1, Invariance, VerdictInit, VerdictNext, CallsInit, CallsNext, PTL DEF Spec
=============================================================================
