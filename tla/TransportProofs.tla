-------------------------- MODULE TransportProofs --------------------------
(***************************************************************************)
(* The transport is safe for every set of threads, every number of slots   *)
(* and every queue capacity, and implements LossyStreams.                  *)
(***************************************************************************)
EXTENDS Transport, SequenceTheorems, TLAPS

USE SizeAssumption DEF SlotIndex, NoSlot, At, Context, Finish, SlotLeft

(***************************************************************************)
(* What each action of a thread does, field by field.                      *)
(***************************************************************************)

\* The record of one thread changes, and to this extent.
OnlyThread(t) ==
    /\ thread' \in [Thread -> ThreadType]
    /\ \A u \in Thread \ {t} : thread'[u] = thread[u]

OnlyContext(s) ==
    /\ thread_contexts' \in [SlotIndex -> ContextType]
    /\ \A q \in SlotIndex \ {s} : thread_contexts'[q] = thread_contexts[q]

SameRegistration(t) ==
    /\ thread'[t].tls_context = thread[t].tls_context
    /\ thread'[t].key = thread[t].key
    /\ thread'[t].expected = thread[t].expected
    /\ thread'[t].emits = thread[t].emits

LEMMA ThreadUpdate ==
    ASSUME thread \in [Thread -> ThreadType], NEW t \in Thread, NEW r \in ThreadType,
           thread' = [thread EXCEPT ![t] = r]
    PROVE  OnlyThread(t) /\ thread'[t] = r
  BY DEF OnlyThread

LEMMA ContextUpdate ==
    ASSUME thread_contexts \in [SlotIndex -> ContextType], NEW s \in SlotIndex,
           NEW c \in ContextType, thread_contexts' = [thread_contexts EXCEPT ![s] = c]
    PROVE  OnlyContext(s) /\ thread_contexts'[s] = c
  BY DEF OnlyContext

LEMMA EmitRecord ==
    ASSUME NEW r \in ThreadType, NEW n \in Nat
    PROVE  LET c == [r EXCEPT !.emits = n, !.what = "event"] IN
           /\ c \in ThreadType
           /\ c.emits = n /\ c.what = "event" /\ c.pc = r.pc
           /\ c.tls_context = r.tls_context /\ c.key = r.key
           /\ c.expected = r.expected /\ c.sequence = r.sequence
  BY DEF ThreadType, ThreadPc

LEMMA EmitEffect ==
    ASSUME TypeOK, NEW t \in Thread, Emit(t)
    PROVE  /\ OnlyThread(t)
           /\ thread[t].pc = "idle"
           /\ thread'[t].emits = thread[t].emits + 1 /\ thread'[t].emits > 0
           /\ thread'[t].what = "event"
           /\ thread'[t].tls_context = thread[t].tls_context
           /\ thread'[t].key = thread[t].key
           /\ thread'[t].expected \in {thread[t].expected, next_thread_slot}
           /\ \/ thread'[t].pc = "stamp" /\ thread[t].tls_context # NoSlot
              \/ thread'[t].pc = "claim" /\ thread[t].tls_context = NoSlot
              \/ /\ thread'[t].pc = "idle"
                 /\ unregistered_events' = unregistered_events + 1
           /\ unregistered_events' \in {unregistered_events, unregistered_events + 1}
           /\ unregistered_events' \in Nat
<1>1. thread \in [Thread -> ThreadType] /\ next_thread_slot \in 0 .. MaxThreads
      /\ unregistered_events \in Nat
  BY DEF TypeOK
<1>2. thread[t] \in ThreadType /\ thread[t].emits + 1 \in Nat /\ thread[t].emits + 1 > 0
  BY <1>1 DEF ThreadType
<1> DEFINE called == [thread[t] EXCEPT !.emits = thread[t].emits + 1, !.what = "event"]
           claiming == [called EXCEPT !.pc = "claim", !.expected = next_thread_slot]
           stamping == [called EXCEPT !.pc = "stamp"]
<1>3. /\ called \in ThreadType /\ called.what = "event"
      /\ called.emits = thread[t].emits + 1 /\ called.emits > 0
      /\ called.pc = thread[t].pc /\ called.tls_context = thread[t].tls_context
      /\ called.key = thread[t].key /\ called.expected = thread[t].expected
  BY <1>2, EmitRecord
<1>5. /\ thread[t].pc = "idle"
      /\ unregistered_events' \in {unregistered_events, unregistered_events + 1}
      /\ unregistered_events' \in Nat
      /\ \/ thread[t].tls_context # NoSlot /\ thread' = [thread EXCEPT ![t] = stamping]
         \/ thread[t].tls_context = NoSlot /\ thread' = [thread EXCEPT ![t] = claiming]
         \/ /\ thread' = [thread EXCEPT ![t] = called]
            /\ unregistered_events' = unregistered_events + 1
  BY <1>1 DEF Emit
<1> HIDE DEF called
<1>4. /\ claiming \in ThreadType /\ claiming.emits = called.emits /\ claiming.what = "event"
      /\ claiming.pc = "claim" /\ claiming.tls_context = thread[t].tls_context
      /\ claiming.key = thread[t].key /\ claiming.expected = next_thread_slot
  BY <1>1, <1>3 DEF ThreadType, ThreadPc
<1>6. /\ stamping \in ThreadType /\ stamping.emits = called.emits /\ stamping.what = "event"
      /\ stamping.pc = "stamp" /\ stamping.tls_context = thread[t].tls_context
      /\ stamping.key = thread[t].key /\ stamping.expected = thread[t].expected
  BY <1>1, <1>3 DEF ThreadType, ThreadPc
<1> HIDE DEF claiming, stamping
<1> QED
  BY <1>1, <1>3, <1>4, <1>5, <1>6, ThreadUpdate

LEMMA ClaimFailsEffect ==
    ASSUME TypeOK, NEW t \in Thread, ClaimFails(t)
    PROVE  /\ OnlyThread(t) /\ SameRegistration(t)
           /\ thread[t].pc = "claim" /\ thread'[t].pc = "idle"
           /\ unregistered_events' = unregistered_events + 1
           /\ unregistered_events' \in Nat
<1>1. thread \in [Thread -> ThreadType] /\ unregistered_events \in Nat
  BY DEF TypeOK
<1> DEFINE r == [thread[t] EXCEPT !.pc = "idle", !.tls_registration_failed = TRUE]
<1>2. /\ r \in ThreadType /\ r.pc = "idle" /\ r.tls_context = thread[t].tls_context
      /\ r.key = thread[t].key /\ r.expected = thread[t].expected
      /\ r.emits = thread[t].emits
  BY <1>1 DEF ThreadType, ThreadPc
<1>3. thread' = [thread EXCEPT ![t] = r] /\ thread[t].pc = "claim"
      /\ unregistered_events' = unregistered_events + 1
      /\ unregistered_events' \in Nat
  BY <1>1 DEF ClaimFails
<1> HIDE DEF r
<1> QED
  BY <1>1, <1>2, <1>3, ThreadUpdate DEF SameRegistration

LEMMA ClaimEffect ==
    ASSUME TypeOK, NEW t \in Thread, Claim(t)
    PROVE  /\ OnlyThread(t)
           /\ thread[t].pc = "claim" /\ thread'[t].pc = "activate"
           /\ next_thread_slot < MaxThreads
           /\ next_thread_slot' = next_thread_slot + 1
           /\ thread'[t].tls_context = next_thread_slot
           /\ thread'[t].expected = next_thread_slot
           /\ thread'[t].what = thread[t].what
           /\ thread'[t].key = thread[t].key
           /\ thread'[t].emits = thread[t].emits
<1>1. thread \in [Thread -> ThreadType] /\ next_thread_slot \in 0 .. MaxThreads
  BY DEF TypeOK
<1>2. thread[t].pc = "claim" /\ thread[t].expected = next_thread_slot
      /\ next_thread_slot < MaxThreads /\ next_thread_slot' = next_thread_slot + 1
  BY <1>1 DEF Claim
<1> DEFINE r == [thread[t] EXCEPT !.pc = "activate", !.tls_context = thread[t].expected]
<1>3. thread' = [thread EXCEPT ![t] = r]
  BY <1>1 DEF Claim
<1>5. thread[t] \in ThreadType /\ thread[t].expected \in SlotIndex \cup {NoSlot}
  BY <1>1, <1>2
<1>4. /\ r \in ThreadType /\ r.pc = "activate" /\ r.tls_context = thread[t].expected
      /\ r.key = thread[t].key /\ r.expected = thread[t].expected
      /\ r.emits = thread[t].emits /\ r.what = thread[t].what
  BY <1>5 DEF ThreadType, ThreadPc
<1> HIDE DEF r
<1> QED
  BY <1>1, <1>2, <1>3, <1>4, ThreadUpdate

LEMMA ClaimRetryEffect ==
    ASSUME TypeOK, NEW t \in Thread, ClaimRetry(t)
    PROVE  /\ OnlyThread(t)
           /\ thread[t].pc = "claim" /\ thread'[t].pc = "claim"
           /\ thread'[t].tls_context = thread[t].tls_context
           /\ thread'[t].expected = next_thread_slot
           /\ thread'[t].what = thread[t].what
           /\ thread'[t].key = thread[t].key
           /\ thread'[t].emits = thread[t].emits
<1>1. thread \in [Thread -> ThreadType] /\ next_thread_slot \in 0 .. MaxThreads
  BY DEF TypeOK
<1> DEFINE r == [thread[t] EXCEPT !.expected = next_thread_slot]
<1>3. thread' = [thread EXCEPT ![t] = r] /\ thread[t].pc = "claim"
  BY <1>1 DEF ClaimRetry
<1>4. /\ r \in ThreadType /\ r.pc = thread[t].pc /\ r.tls_context = thread[t].tls_context
      /\ r.key = thread[t].key /\ r.expected = next_thread_slot
      /\ r.emits = thread[t].emits /\ r.what = thread[t].what
  BY <1>1 DEF ThreadType, ThreadPc
<1> HIDE DEF r
<1> QED
  BY <1>1, <1>3, <1>4, ThreadUpdate

LEMMA SetSpecificEffect ==
    ASSUME TypeOK, NEW t \in Thread, SetSpecific(t)
    PROVE  /\ OnlyThread(t)
           /\ thread[t].pc = "setspecific" /\ thread'[t].pc = "stamp"
           /\ thread'[t].tls_context = thread[t].tls_context
           /\ thread'[t].expected = thread[t].expected
           /\ thread'[t].what = "start"
           /\ thread'[t].key \in {thread[t].key, thread[t].tls_context}
           /\ thread'[t].emits = thread[t].emits
           /\ lifecycle_registration_failures' \in Nat
<1>1. thread \in [Thread -> ThreadType] /\ lifecycle_registration_failures \in Nat
  BY DEF TypeOK
<1> DEFINE k == [thread[t] EXCEPT !.key = thread[t].tls_context,
                                  !.what = "start", !.pc = "stamp"]
           r == [thread[t] EXCEPT !.what = "start", !.pc = "stamp"]
<1>2. thread[t].pc = "setspecific" /\ lifecycle_registration_failures' \in Nat
      /\ (thread' = [thread EXCEPT ![t] = k] \/ thread' = [thread EXCEPT ![t] = r])
  BY <1>1 DEF SetSpecific
<1>3. /\ r \in ThreadType /\ r.pc = "stamp" /\ r.tls_context = thread[t].tls_context
      /\ r.key = thread[t].key /\ r.expected = thread[t].expected
      /\ r.emits = thread[t].emits /\ r.what = "start"
  BY <1>1 DEF ThreadType, ThreadPc
<1>4. /\ k \in ThreadType /\ k.pc = "stamp" /\ k.tls_context = thread[t].tls_context
      /\ k.key = thread[t].tls_context /\ k.expected = thread[t].expected
      /\ k.emits = thread[t].emits /\ k.what = "start"
  BY <1>1 DEF ThreadType, ThreadPc
<1> HIDE DEF r, k
<1> QED
  BY <1>1, <1>2, <1>3, <1>4, ThreadUpdate

LEMMA ThreadExitEffect ==
    ASSUME TypeOK, NEW t \in Thread, ThreadExit(t)
    PROVE  /\ OnlyThread(t)
           /\ thread[t].pc = "idle" /\ thread[t].key # NoSlot
           /\ thread'[t].key = NoSlot
           /\ thread'[t].expected = thread[t].expected
           /\ thread'[t].emits = thread[t].emits
           /\ \/ /\ thread'[t].pc = "stamp" /\ thread'[t].what = "exit"
                 /\ thread'[t].tls_context = thread[t].tls_context
              \/ /\ thread'[t].pc = "idle" /\ thread'[t].tls_context = NoSlot
<1>1. thread \in [Thread -> ThreadType]
  BY DEF TypeOK
<1> DEFINE x == [thread[t] EXCEPT !.key = NoSlot, !.what = "exit", !.pc = "stamp"]
           r == [thread[t] EXCEPT !.key = NoSlot, !.tls_context = NoSlot]
<1>2. thread[t].pc = "idle" /\ thread[t].key # NoSlot
      /\ (thread' = [thread EXCEPT ![t] = x] \/ thread' = [thread EXCEPT ![t] = r])
  BY <1>1 DEF ThreadExit
<1>3. /\ r \in ThreadType /\ r.pc = thread[t].pc /\ r.tls_context = NoSlot
      /\ r.key = NoSlot /\ r.expected = thread[t].expected /\ r.emits = thread[t].emits
  BY <1>1 DEF ThreadType, ThreadPc
<1>4. /\ x \in ThreadType /\ x.pc = "stamp" /\ x.tls_context = thread[t].tls_context
      /\ x.key = NoSlot /\ x.expected = thread[t].expected
      /\ x.emits = thread[t].emits /\ x.what = "exit"
  BY <1>1 DEF ThreadType, ThreadPc
<1> HIDE DEF r, x
<1> QED
  BY <1>1, <1>2, <1>3, <1>4, ThreadUpdate

LEMMA AfterEmitRecord ==
    ASSUME thread \in [Thread -> ThreadType], NEW t \in Thread
    PROVE  LET r == AfterEmit(t) IN
           /\ r \in ThreadType
           /\ r.key = thread[t].key /\ r.expected = thread[t].expected
           /\ r.emits = thread[t].emits
           /\ \/ /\ r.pc = "stamp" /\ r.what = "event" /\ thread[t].what = "start"
                 /\ r.tls_context = thread[t].tls_context
              \/ /\ r.pc = "idle" /\ r.tls_context = thread[t].tls_context
                 /\ thread[t].what = "event"
              \/ r.pc = "idle" /\ r.tls_context = NoSlot /\ thread[t].what = "exit"
<1>1. thread[t] \in ThreadType
  OBVIOUS
<1> DEFINE a == [thread[t] EXCEPT !.pc = "stamp", !.what = "event"]
           b == [thread[t] EXCEPT !.pc = "idle"]
           c == [b EXCEPT !.tls_context = NoSlot]
<1>2. /\ a \in ThreadType /\ a.pc = "stamp" /\ a.what = "event" /\ a.key = thread[t].key
      /\ a.expected = thread[t].expected /\ a.emits = thread[t].emits
      /\ a.tls_context = thread[t].tls_context
  BY <1>1 DEF ThreadType, ThreadPc
<1>3. /\ b \in ThreadType /\ b.pc = "idle" /\ b.key = thread[t].key
      /\ b.expected = thread[t].expected /\ b.emits = thread[t].emits
      /\ b.tls_context = thread[t].tls_context
  BY <1>1 DEF ThreadType, ThreadPc
<1>4. \/ thread[t].what = "start" /\ AfterEmit(t) = a
      \/ thread[t].what = "event" /\ AfterEmit(t) = b
      \/ thread[t].what = "exit" /\ AfterEmit(t) = c
  <2>1. thread[t].what \in {"start", "event", "exit"}
    BY <1>1 DEF ThreadType
  <2> QED
    BY <2>1 DEF AfterEmit
<1> HIDE DEF b
<1>5. /\ c \in ThreadType /\ c.pc = "idle" /\ c.key = thread[t].key
      /\ c.expected = thread[t].expected /\ c.emits = thread[t].emits
      /\ c.tls_context = NoSlot
  BY <1>3 DEF ThreadType, ThreadPc
<1> HIDE DEF a, c
<1> QED
  BY <1>2, <1>3, <1>4, <1>5

\* The context of a thread that is past its claim is one of the slots.
LEMMA HasContext ==
    ASSUME TypeOK, ThreadsInPlace, NEW t \in Thread,
           thread[t].pc \notin {"idle", "claim"}
    PROVE  thread[t].tls_context \in SlotIndex
<1>1. thread[t] \in ThreadType /\ thread[t].tls_context # NoSlot
  BY DEF TypeOK, ThreadsInPlace
<1> QED
  BY <1>1 DEF ThreadType

\* A registered context differs from a fresh one only in being active.
LEMMA RegisteredContext ==
    LET c == [FreshContext EXCEPT !.active = TRUE] IN
    /\ FreshContext \in ContextType /\ c \in ContextType
    /\ c.active = TRUE /\ c.queue = <<>> /\ c.generated = 0
    /\ c.dropped = 0 /\ c.next_thread_sequence = 0 /\ c.consumed = 0
    /\ FreshContext.queue = <<>> /\ FreshContext.generated = 0
    /\ FreshContext.dropped = 0 /\ FreshContext.next_thread_sequence = 0
    /\ FreshContext.consumed = 0 /\ FreshContext.active = FALSE
<1>1. /\ FreshContext \in ContextType
      /\ FreshContext.queue = <<>> /\ FreshContext.generated = 0
      /\ FreshContext.dropped = 0 /\ FreshContext.next_thread_sequence = 0
      /\ FreshContext.consumed = 0 /\ FreshContext.active = FALSE
  <2>1. <<>> \in Seq(EventType)
    OBVIOUS
  <2> QED
    BY <2>1 DEF FreshContext, ContextType
<1> QED
  BY <1>1 DEF ContextType

LEMMA ActivateEffect ==
    ASSUME TypeOK, ThreadsInPlace, NEW t \in Thread, Activate(t)
    PROVE  LET s == thread[t].tls_context IN
           /\ s \in SlotIndex
           /\ OnlyThread(t) /\ SameRegistration(t)
           /\ thread[t].pc = "activate" /\ thread'[t].pc = "setspecific"
           /\ thread'[t].what = thread[t].what
           /\ OnlyContext(s)
           /\ thread_contexts'[s] = [FreshContext EXCEPT !.active = TRUE]
<1>1. thread \in [Thread -> ThreadType] /\ thread_contexts \in [SlotIndex -> ContextType]
  BY DEF TypeOK
<1> DEFINE r == [thread[t] EXCEPT !.pc = "setspecific"]
           c == [FreshContext EXCEPT !.active = TRUE]
<1>2. thread[t].pc = "activate" /\ thread' = [thread EXCEPT ![t] = r]
  BY <1>1 DEF Activate
<1>3. thread[t].tls_context \in SlotIndex
  BY <1>2, HasContext
<1>4. thread_contexts' = [thread_contexts EXCEPT ![thread[t].tls_context] = c]
  BY DEF Activate
<1>5. /\ r \in ThreadType /\ r.pc = "setspecific" /\ r.tls_context = thread[t].tls_context
      /\ r.key = thread[t].key /\ r.expected = thread[t].expected
      /\ r.emits = thread[t].emits /\ r.what = thread[t].what
  BY <1>1 DEF ThreadType, ThreadPc
<1>6. c \in ContextType
  BY RegisteredContext
<1> HIDE DEF r, c
<1>7. OnlyThread(t) /\ thread'[t] = r
  BY <1>1, <1>2, <1>5, ThreadUpdate
<1>8. OnlyContext(thread[t].tls_context) /\ thread_contexts'[thread[t].tls_context] = c
  BY <1>1, <1>3, <1>4, <1>6, ContextUpdate
<1> QED
  BY <1>2, <1>3, <1>5, <1>7, <1>8 DEF SameRegistration, c

LEMMA StampRecord ==
    ASSUME NEW c \in ContextType
    PROVE  LET d == [c EXCEPT !.next_thread_sequence = @ + 1, !.generated = @ + 1] IN
           /\ d \in ContextType
           /\ d.next_thread_sequence = c.next_thread_sequence + 1
           /\ d.generated = c.generated + 1
           /\ d.active = c.active /\ d.queue = c.queue
           /\ d.dropped = c.dropped /\ d.consumed = c.consumed
<1>1. c.next_thread_sequence + 1 \in Nat /\ c.generated + 1 \in Nat
  BY DEF ContextType
<1> DEFINE m == c.next_thread_sequence + 1
           n == c.generated + 1
           d == [c EXCEPT !.next_thread_sequence = m, !.generated = n]
<1>2. d = [c EXCEPT !.next_thread_sequence = @ + 1, !.generated = @ + 1]
  OBVIOUS
<1>3. m \in Nat /\ n \in Nat
  BY <1>1
<1> HIDE DEF m, n
<1>4. /\ d \in ContextType
      /\ d.next_thread_sequence = m /\ d.generated = n
      /\ d.active = c.active /\ d.queue = c.queue
      /\ d.dropped = c.dropped /\ d.consumed = c.consumed
  BY <1>3 DEF ContextType
<1> HIDE DEF d
<1> QED
  BY <1>2, <1>4 DEF m, n

LEMMA StampEffect ==
    ASSUME TypeOK, ThreadsInPlace, NEW t \in Thread, Stamp(t)
    PROVE  LET s == thread[t].tls_context
               c == thread_contexts[s]
               d == thread_contexts'[s] IN
           /\ s \in SlotIndex
           /\ OnlyThread(t) /\ SameRegistration(t)
           /\ thread[t].pc = "stamp" /\ thread'[t].pc = "push"
           /\ thread'[t].what = thread[t].what
           /\ thread'[t].sequence = c.next_thread_sequence
           /\ OnlyContext(s)
           /\ d.next_thread_sequence = c.next_thread_sequence + 1
           /\ d.generated = c.generated + 1
           /\ d.active = c.active /\ d.queue = c.queue
           /\ d.dropped = c.dropped /\ d.consumed = c.consumed
<1>1. thread \in [Thread -> ThreadType] /\ thread_contexts \in [SlotIndex -> ContextType]
  BY DEF TypeOK
<1> DEFINE s == thread[t].tls_context
           c == thread_contexts[s]
           r == [thread[t] EXCEPT !.pc = "push", !.sequence = c.next_thread_sequence]
           d == [c EXCEPT !.next_thread_sequence = @ + 1, !.generated = @ + 1]
<1>2. /\ thread[t].pc = "stamp"
      /\ thread' = [thread EXCEPT ![t] = r]
      /\ thread_contexts' = [thread_contexts EXCEPT ![s] = d]
  <2>1. thread[t].pc = "stamp"
    BY DEF Stamp
  <2>2. thread' = [thread EXCEPT ![t] = r]
    BY DEF Stamp
  <2>3. thread_contexts' = [thread_contexts EXCEPT ![s] = d]
    BY DEF Stamp
  <2> QED
    BY <2>1, <2>2, <2>3
<1>3. s \in SlotIndex
  BY <1>2, HasContext
<1>4. c \in ContextType
  BY <1>1, <1>3
<1>5. c.next_thread_sequence \in Nat
  BY <1>4 DEF ContextType
<1>6. /\ r \in ThreadType /\ r.pc = "push" /\ r.tls_context = thread[t].tls_context
      /\ r.key = thread[t].key /\ r.expected = thread[t].expected
      /\ r.emits = thread[t].emits /\ r.what = thread[t].what
      /\ r.sequence = c.next_thread_sequence
  BY <1>1, <1>5 DEF ThreadType, ThreadPc
<1>7. /\ d \in ContextType
      /\ d.next_thread_sequence = c.next_thread_sequence + 1
      /\ d.generated = c.generated + 1
      /\ d.active = c.active /\ d.queue = c.queue
      /\ d.dropped = c.dropped /\ d.consumed = c.consumed
  BY <1>4, StampRecord
<1> HIDE DEF r, c, d, s
<1>8. OnlyThread(t) /\ thread'[t] = r
  BY <1>1, <1>2, <1>6, ThreadUpdate
<1>9. OnlyContext(s) /\ thread_contexts'[s] = d
  BY <1>1, <1>2, <1>3, <1>7, ContextUpdate
<1> QED
  BY <1>2, <1>3, <1>6, <1>7, <1>8, <1>9 DEF SameRegistration, s, c

LEMMA PushFullEffect ==
    ASSUME TypeOK, ThreadsInPlace, NEW t \in Thread, PushFull(t)
    PROVE  /\ thread[t].tls_context \in SlotIndex
           /\ Len(Context(t).queue) >= Capacity
           /\ OnlyThread(t) /\ SameRegistration(t)
           /\ thread[t].pc = "push" /\ thread'[t].pc = "drop"
           /\ thread'[t].what = thread[t].what
<1>1. thread \in [Thread -> ThreadType]
  BY DEF TypeOK
<1> DEFINE r == [thread[t] EXCEPT !.pc = "drop"]
<1>2. thread[t].pc = "push" /\ thread' = [thread EXCEPT ![t] = r]
      /\ Len(Context(t).queue) >= Capacity
  BY DEF PushFull
<1>3. thread[t].tls_context \in SlotIndex
  BY <1>2, HasContext
<1>4. /\ r \in ThreadType /\ r.pc = "drop" /\ r.tls_context = thread[t].tls_context
      /\ r.key = thread[t].key /\ r.expected = thread[t].expected
      /\ r.emits = thread[t].emits /\ r.what = thread[t].what
  BY <1>1 DEF ThreadType, ThreadPc
<1> HIDE DEF r
<1> QED
  BY <1>1, <1>2, <1>3, <1>4, ThreadUpdate DEF SameRegistration

\* What Push and Drop have in common: the emission is over.
EmissionOver(t) ==
    /\ OnlyThread(t)
    /\ thread'[t].key = thread[t].key /\ thread'[t].expected = thread[t].expected
    /\ thread'[t].emits = thread[t].emits
    /\ \/ /\ thread'[t].pc = "stamp" /\ thread'[t].what = "event"
          /\ thread[t].what = "start"
          /\ thread'[t].tls_context = thread[t].tls_context
       \/ /\ thread'[t].pc = "idle" /\ thread'[t].tls_context = thread[t].tls_context
          /\ thread[t].what = "event"
       \/ /\ thread'[t].pc = "idle" /\ thread'[t].tls_context = NoSlot
          /\ thread[t].what = "exit"

LEMMA AfterEmitEffect ==
    ASSUME TypeOK, NEW t \in Thread, thread' = [thread EXCEPT ![t] = AfterEmit(t)]
    PROVE  EmissionOver(t)
<1>1. thread \in [Thread -> ThreadType]
  BY DEF TypeOK
<1> DEFINE r == AfterEmit(t)
<1>2. /\ r \in ThreadType
      /\ r.key = thread[t].key /\ r.expected = thread[t].expected
      /\ r.emits = thread[t].emits
      /\ \/ /\ r.pc = "stamp" /\ r.what = "event" /\ thread[t].what = "start"
            /\ r.tls_context = thread[t].tls_context
         \/ /\ r.pc = "idle" /\ r.tls_context = thread[t].tls_context
            /\ thread[t].what = "event"
         \/ r.pc = "idle" /\ r.tls_context = NoSlot /\ thread[t].what = "exit"
  BY <1>1, AfterEmitRecord
<1> HIDE DEF r
<1>3. OnlyThread(t) /\ thread'[t] = r
  BY <1>1, <1>2, ThreadUpdate DEF r
<1> QED
  BY <1>2, <1>3 DEF EmissionOver

LEMMA PushEffect ==
    ASSUME TypeOK, ThreadsInPlace, NEW t \in Thread, Push(t)
    PROVE  LET s == thread[t].tls_context
               c == thread_contexts[s]
               d == thread_contexts'[s]
               e == [what |-> thread[t].what, sequence |-> thread[t].sequence] IN
           /\ s \in SlotIndex
           /\ Len(c.queue) < Capacity
           /\ thread[t].pc = "push" /\ EmissionOver(t)
           /\ OnlyContext(s) /\ e \in EventType
           /\ d.queue = Append(c.queue, e)
           /\ d.next_thread_sequence = c.next_thread_sequence
           /\ d.generated = c.generated /\ d.active = c.active
           /\ d.dropped = c.dropped /\ d.consumed = c.consumed
<1>1. thread \in [Thread -> ThreadType] /\ thread_contexts \in [SlotIndex -> ContextType]
  BY DEF TypeOK
<1> DEFINE s == thread[t].tls_context
           c == thread_contexts[s]
           e == [what |-> thread[t].what, sequence |-> thread[t].sequence]
           q == Append(c.queue, e)
           d == [c EXCEPT !.queue = q]
<1>2. /\ thread[t].pc = "push" /\ Len(c.queue) < Capacity
      /\ thread' = [thread EXCEPT ![t] = AfterEmit(t)]
      /\ thread_contexts' = [thread_contexts EXCEPT ![s].queue = Append(@, e)]
  BY DEF Push
<1>3. s \in SlotIndex
  BY <1>2, HasContext
<1>4. c \in ContextType
  BY <1>1, <1>3
<1>5. thread_contexts' = [thread_contexts EXCEPT ![s] = d]
  BY <1>2
<1>6. e \in EventType
  BY <1>1 DEF ThreadType, EventType
<1> HIDE DEF e
<1>7. q \in Seq(EventType)
  <2>1. c.queue \in Seq(EventType)
    BY <1>4 DEF ContextType
  <2> QED
    BY <1>6, <2>1
<1> HIDE DEF q, c, s
<1>8. /\ d \in ContextType /\ d.queue = q
      /\ d.next_thread_sequence = c.next_thread_sequence
      /\ d.generated = c.generated /\ d.active = c.active
      /\ d.dropped = c.dropped /\ d.consumed = c.consumed
  BY <1>4, <1>7 DEF ContextType
<1> HIDE DEF d
<1>9. OnlyContext(s) /\ thread_contexts'[s] = d
  BY <1>1, <1>3, <1>5, <1>8, ContextUpdate
<1>10. EmissionOver(t)
  BY <1>2, AfterEmitEffect
<1> QED
  BY <1>2, <1>3, <1>6, <1>8, <1>9, <1>10 DEF s, c, e, q

LEMMA DropEffect ==
    ASSUME TypeOK, ThreadsInPlace, NEW t \in Thread, Drop(t)
    PROVE  LET s == thread[t].tls_context
               c == thread_contexts[s]
               d == thread_contexts'[s] IN
           /\ s \in SlotIndex
           /\ thread[t].pc = "drop" /\ EmissionOver(t)
           /\ OnlyContext(s)
           /\ d.dropped = c.dropped + 1
           /\ d.next_thread_sequence = c.next_thread_sequence
           /\ d.generated = c.generated /\ d.active = c.active
           /\ d.queue = c.queue /\ d.consumed = c.consumed
<1>1. thread \in [Thread -> ThreadType] /\ thread_contexts \in [SlotIndex -> ContextType]
  BY DEF TypeOK
<1> DEFINE s == thread[t].tls_context
           c == thread_contexts[s]
           n == c.dropped + 1
           d == [c EXCEPT !.dropped = n]
<1>2. /\ thread[t].pc = "drop"
      /\ thread' = [thread EXCEPT ![t] = AfterEmit(t)]
      /\ thread_contexts' = [thread_contexts EXCEPT ![s].dropped = @ + 1]
  BY DEF Drop
<1>3. s \in SlotIndex
  BY <1>2, HasContext
<1>4. c \in ContextType
  BY <1>1, <1>3
<1>5. thread_contexts' = [thread_contexts EXCEPT ![s] = d]
  BY <1>2
<1>6. n \in Nat
  BY <1>4 DEF ContextType
<1> HIDE DEF n, c, s
<1>7. /\ d \in ContextType /\ d.dropped = n
      /\ d.next_thread_sequence = c.next_thread_sequence
      /\ d.generated = c.generated /\ d.active = c.active
      /\ d.queue = c.queue /\ d.consumed = c.consumed
  BY <1>4, <1>6 DEF ContextType
<1> HIDE DEF d
<1>8. OnlyContext(s) /\ thread_contexts'[s] = d
  BY <1>1, <1>3, <1>5, <1>7, ContextUpdate
<1>9. EmissionOver(t)
  BY <1>2, AfterEmitEffect
<1> QED
  BY <1>2, <1>3, <1>7, <1>8, <1>9 DEF s, c, n

LEMMA DrainPopEffect ==
    ASSUME TypeOK, DrainPop
    PROVE  LET s == consumer.i
               c == thread_contexts[s]
               d == thread_contexts'[s] IN
           /\ s \in SlotIndex
           /\ consumer.pc = "scan" /\ consumer'.pc = "scan"
           /\ consumer' \in ConsumerType
           /\ c.queue \in Seq(EventType) /\ c.queue # <<>> /\ c.active
           /\ OnlyContext(s)
           /\ d.queue = Tail(c.queue) /\ d.consumed = c.consumed + 1
           /\ d.next_thread_sequence = c.next_thread_sequence
           /\ d.generated = c.generated /\ d.active = c.active
           /\ d.dropped = c.dropped
           /\ delivered' \in [SlotIndex -> Seq(EventType)]
           /\ \A q \in SlotIndex \ {s} : delivered'[q] = delivered[q]
           /\ delivered'[s] = Append(delivered[s], Head(c.queue))
<1>1. /\ thread_contexts \in [SlotIndex -> ContextType] /\ consumer \in ConsumerType
      /\ delivered \in [SlotIndex -> Seq(EventType)]
  BY DEF TypeOK
<1> DEFINE s == consumer.i
           c == thread_contexts[s]
           q == Tail(c.queue)
           n == c.consumed + 1
           d == [c EXCEPT !.queue = q, !.consumed = n]
           b == consumer.batch + 1
<1>2. /\ consumer.pc = "scan" /\ s < consumer.count /\ c.active /\ c.queue # <<>>
      /\ consumer.batch < DrainBatch
  BY DEF DrainPop
<1>3. s \in SlotIndex
  BY <1>1, <1>2 DEF ConsumerType
<1>4. c \in ContextType
  BY <1>1, <1>3
<1>5. thread_contexts' = [thread_contexts EXCEPT ![s] = d]
  BY DEF DrainPop
<1>6. c.queue \in Seq(EventType) /\ c.consumed + 1 \in Nat
  BY <1>4 DEF ContextType
<1>7. q \in Seq(EventType) /\ n \in Nat /\ Head(c.queue) \in EventType
  BY <1>2, <1>6
<1>8. delivered' = [delivered EXCEPT ![s] = Append(@, Head(c.queue))]
  BY DEF DrainPop
<1>9. /\ delivered' \in [SlotIndex -> Seq(EventType)]
      /\ \A p \in SlotIndex \ {s} : delivered'[p] = delivered[p]
      /\ delivered'[s] = Append(delivered[s], Head(c.queue))
  BY <1>1, <1>3, <1>7, <1>8
<1>10. consumer' \in ConsumerType /\ consumer'.pc = "scan"
  <2>1. consumer' = [consumer EXCEPT !.batch = b, !.consumed_any = TRUE]
    BY DEF DrainPop
  <2>2. b \in 0 .. DrainBatch
    BY <1>1, <1>2 DEF ConsumerType
  <2> HIDE DEF b
  <2> QED
    BY <1>1, <1>2, <2>1, <2>2 DEF ConsumerType
<1> HIDE DEF q, n, c, s
<1>11. /\ d \in ContextType /\ d.queue = q /\ d.consumed = n
       /\ d.next_thread_sequence = c.next_thread_sequence
       /\ d.generated = c.generated /\ d.active = c.active /\ d.dropped = c.dropped
  BY <1>4, <1>7 DEF ContextType
<1> HIDE DEF d
<1>12. OnlyContext(s) /\ thread_contexts'[s] = d
  BY <1>1, <1>3, <1>5, <1>11, ContextUpdate
<1> QED
  BY <1>2, <1>3, <1>6, <1>9, <1>10, <1>11, <1>12 DEF s, c, q, n

(***************************************************************************)
(* The type invariant and the places threads and slots are in.             *)
(***************************************************************************)

LEMMA InitType == Init => TypeOK
<1> SUFFICES ASSUME Init PROVE TypeOK
  OBVIOUS
<1>1. thread_contexts \in [SlotIndex -> ContextType]
      /\ \A s \in SlotIndex : Len(thread_contexts[s].queue) <= Capacity
  BY RegisteredContext DEF Init
<1>2. thread \in [Thread -> ThreadType]
  BY DEF Init, ThreadType, ThreadPc
<1>3. consumer \in ConsumerType
  BY DEF Init, ConsumerType
<1>4. main \in MainType
  BY DEF Init, MainType
<1>5. delivered \in [SlotIndex -> Seq(EventType)]
  BY DEF Init
<1>6. atStop \in [events : [SlotIndex -> Nat], calls : [Thread -> Nat]]
  BY DEF Init
<1>7. /\ next_thread_slot \in 0 .. MaxThreads
      /\ unregistered_events \in Nat /\ lifecycle_registration_failures \in Nat
  BY DEF Init
<1>8. /\ accept_events \in BOOLEAN /\ consumer_running \in BOOLEAN
      /\ thread_exit_key_ready \in BOOLEAN
  BY Zenon DEF Init
<1> QED
  BY <1>1, <1>2, <1>3, <1>4, <1>5, <1>6, <1>7, <1>8 DEF TypeOK

LEMMA ScanBeginEffect ==
    ASSUME TypeOK, ScanBegin
    PROVE  consumer' \in ConsumerType /\ consumer.pc = "begin" /\ consumer'.pc = "scan"
<1>1. next_thread_slot \in 0 .. MaxThreads
  BY DEF TypeOK
<1>2. consumer.pc = "begin"
      /\ consumer' = [pc |-> "scan", count |-> next_thread_slot, i |-> 0,
                      batch |-> 0, consumed_any |-> FALSE]
  BY DEF ScanBegin
<1>3. 0 \in 0 .. MaxThreads /\ 0 \in 0 .. DrainBatch
  OBVIOUS
<1>4. consumer'.pc = "scan"
  BY <1>2
<1>5. consumer' \in ConsumerType
  BY <1>1, <1>2, <1>3 DEF ConsumerType
<1> QED
  BY <1>2, <1>4, <1>5

LEMMA DrainNextEffect ==
    ASSUME TypeOK, DrainNext
    PROVE  consumer' \in ConsumerType /\ consumer.pc = "scan" /\ consumer'.pc = "scan"
<1>1. consumer \in ConsumerType
  BY DEF TypeOK
<1> DEFINE n == consumer.i + 1
<1>2. /\ consumer.pc = "scan" /\ consumer.i < consumer.count
      /\ consumer' = [consumer EXCEPT !.i = n, !.batch = 0]
  BY DEF DrainNext
<1>3. n \in 0 .. MaxThreads /\ 0 \in 0 .. DrainBatch
  BY <1>1, <1>2 DEF ConsumerType
<1> HIDE DEF n
<1> QED
  BY <1>1, <1>2, <1>3 DEF ConsumerType

LEMMA ScanEndEffect ==
    ASSUME TypeOK, ScanEnd
    PROVE  consumer' \in ConsumerType /\ consumer.pc = "scan"
           /\ consumer'.pc \in {"begin", "done"}
<1>1. consumer \in ConsumerType
  BY DEF TypeOK
<1>2. /\ consumer.pc = "scan"
      /\ \E p \in {"begin", "done"} : consumer' = [consumer EXCEPT !.pc = p]
  BY DEF ScanEnd
<1> QED
  BY <1>1, <1>2 DEF ConsumerType

\* What a step of a thread leaves alone.
ThreadFrame == UNCHANGED <<accept_events, consumer_running, thread_exit_key_ready,
                           consumer, main, delivered, atStop>>

LEMMA ThreadFrames ==
    ASSUME NEW t \in Thread, Emit(t) \/ ThreadExit(t) \/ InEmit(t)
    PROVE  ThreadFrame
  BY DEF Emit, ThreadExit, InEmit, ClaimFails, Claim, ClaimRetry, Activate, SetSpecific,
         Stamp, PushFull, Push, Drop, ThreadFrame, contextVars, failureVars, flagVars,
         mainVars

\* The actions of a thread that touch no context.
Registration(t) == Emit(t) \/ ThreadExit(t) \/ ClaimFails(t) \/ Claim(t)
                     \/ ClaimRetry(t) \/ SetSpecific(t)

LEMMA RegistrationFrames ==
    ASSUME NEW t \in Thread, Registration(t)
    PROVE  UNCHANGED thread_contexts
  BY DEF Registration, Emit, ThreadExit, ClaimFails, Claim, ClaimRetry, SetSpecific,
         contextVars

LEMMA ThreadCases ==
    ASSUME NEW t \in Thread, Emit(t) \/ ThreadExit(t) \/ InEmit(t)
    PROVE  \/ Registration(t) \/ Activate(t) \/ Stamp(t) \/ PushFull(t)
           \/ Push(t) \/ Drop(t)
  BY DEF Registration, InEmit

\* A thread that registers, or leaves, is not in the middle of an emission.
LEMMA RegistrationEffect ==
    ASSUME TypeOK, NEW t \in Thread, Registration(t)
    PROVE  /\ OnlyThread(t)
           /\ thread[t].pc \notin {"push", "drop"}
           /\ thread'[t].pc \notin {"push", "drop"}
           /\ next_thread_slot' \in {next_thread_slot, next_thread_slot + 1}
           /\ next_thread_slot' \in 0 .. MaxThreads
           /\ unregistered_events' \in Nat
           /\ lifecycle_registration_failures' \in Nat
<1>1. /\ next_thread_slot \in 0 .. MaxThreads /\ unregistered_events \in Nat
      /\ lifecycle_registration_failures \in Nat
  BY DEF TypeOK
<1>2. CASE Emit(t)
  <2>1. UNCHANGED <<next_thread_slot, lifecycle_registration_failures>>
    BY <1>2 DEF Emit
  <2> QED
    BY <1>1, <1>2, <2>1, EmitEffect
<1>3. CASE ThreadExit(t)
  <2>1. UNCHANGED <<next_thread_slot, unregistered_events,
                    lifecycle_registration_failures>>
    BY <1>3 DEF ThreadExit, failureVars
  <2> QED
    BY <1>1, <1>3, <2>1, ThreadExitEffect
<1>4. CASE ClaimFails(t)
  <2>1. UNCHANGED <<next_thread_slot, lifecycle_registration_failures>>
    BY <1>4 DEF ClaimFails
  <2> QED
    BY <1>1, <1>4, <2>1, ClaimFailsEffect
<1>5. CASE Claim(t)
  <2>1. UNCHANGED <<unregistered_events, lifecycle_registration_failures>>
    BY <1>5 DEF Claim, failureVars
  <2> QED
    BY <1>1, <1>5, <2>1, ClaimEffect
<1>6. CASE ClaimRetry(t)
  <2>1. UNCHANGED <<next_thread_slot, unregistered_events,
                    lifecycle_registration_failures>>
    BY <1>6 DEF ClaimRetry, failureVars
  <2> QED
    BY <1>1, <1>6, <2>1, ClaimRetryEffect
<1>7. CASE SetSpecific(t)
  <2>1. UNCHANGED <<next_thread_slot, unregistered_events>>
    BY <1>7 DEF SetSpecific
  <2> QED
    BY <1>1, <1>7, <2>1, SetSpecificEffect
<1> QED
  BY <1>2, <1>3, <1>4, <1>5, <1>6, <1>7 DEF Registration

LEMMA EmissionFrames ==
    ASSUME NEW t \in Thread, Activate(t) \/ Stamp(t) \/ PushFull(t) \/ Push(t) \/ Drop(t)
    PROVE  UNCHANGED <<next_thread_slot, unregistered_events,
                       lifecycle_registration_failures>>
  BY DEF Activate, Stamp, PushFull, Push, Drop, failureVars

LEMMA ThreadStepType ==
    ASSUME TypeOK, ThreadsInPlace, NEW t \in Thread,
           Emit(t) \/ ThreadExit(t) \/ InEmit(t)
    PROVE  TypeOK'
<1>1. ThreadFrame
  BY ThreadFrames
<1>2. CASE Registration(t)
  <2>1. UNCHANGED thread_contexts
    BY <1>2, RegistrationFrames
  <2> QED
    BY <1>1, <1>2, <2>1, RegistrationEffect DEF TypeOK, ThreadFrame, OnlyThread
<1> SUFFICES ASSUME Activate(t) \/ Stamp(t) \/ PushFull(t) \/ Push(t) \/ Drop(t)
             PROVE  /\ thread' \in [Thread -> ThreadType]
                    /\ thread_contexts' \in [SlotIndex -> ContextType]
                    /\ \A s \in SlotIndex : Len(thread_contexts'[s].queue) <= Capacity
  <2>1. UNCHANGED <<next_thread_slot, unregistered_events,
                    lifecycle_registration_failures>>
        \/ Registration(t)
    BY ThreadCases, EmissionFrames
  <2> QED
    BY <1>1, <1>2, <2>1, ThreadCases DEF TypeOK, ThreadFrame
<1>3. \A s \in SlotIndex : Len(thread_contexts[s].queue) <= Capacity
  BY DEF TypeOK
<1>4. CASE Activate(t)
  <2>1. Len(thread_contexts'[thread[t].tls_context].queue) <= Capacity
    <3>1. thread_contexts'[thread[t].tls_context].queue = <<>>
      BY <1>4, ActivateEffect, RegisteredContext
    <3> QED
      BY <3>1
  <2> QED
    BY <1>3, <1>4, <2>1, ActivateEffect DEF OnlyThread, OnlyContext
<1>5. CASE Stamp(t)
  BY <1>3, <1>5, StampEffect DEF OnlyThread, OnlyContext
<1>6. CASE PushFull(t)
  <2>1. UNCHANGED thread_contexts
    BY <1>6 DEF PushFull, contextVars
  <2> QED
    BY <1>6, <2>1, PushFullEffect DEF OnlyThread, TypeOK
<1>7. CASE Push(t)
  <2> DEFINE s == thread[t].tls_context
             e == [what |-> thread[t].what, sequence |-> thread[t].sequence]
             q == thread_contexts[s].queue
  <2>1. /\ s \in SlotIndex /\ Len(q) < Capacity /\ e \in EventType
        /\ thread_contexts'[s].queue = Append(q, e)
        /\ OnlyContext(s) /\ OnlyThread(t)
    BY <1>7, PushEffect DEF EmissionOver
  <2>2. q \in Seq(EventType)
    BY <2>1 DEF TypeOK, ContextType
  <2> HIDE DEF e, q
  <2>3. Len(Append(q, e)) <= Capacity
    BY <2>1, <2>2
  <2> QED
    BY <1>3, <2>1, <2>3 DEF OnlyThread, OnlyContext
<1>8. CASE Drop(t)
  BY <1>3, <1>8, DropEffect DEF OnlyThread, OnlyContext, EmissionOver
<1> QED
  BY <1>4, <1>5, <1>6, <1>7, <1>8

(***************************************************************************)
(* Startup and shutdown.                                                   *)
(***************************************************************************)

\* Only where start or stop is changes.
LEMMA MainMoves ==
    ASSUME TypeOK, NEW p \in {"failed", "running", "stopping", "joining"},
           main' = [main EXCEPT !.pc = p]
    PROVE  /\ main' \in MainType /\ main'.pc = p /\ main'.verdict = main.verdict
           /\ main'.count = main.count /\ main'.i = main.i
           /\ main'.generated = main.generated /\ main'.consumed = main.consumed
           /\ main'.dropped = main.dropped
<1>1. main \in MainType
  BY DEF TypeOK
<1> QED
  BY <1>1 DEF MainType

LEMMA JoinEffect ==
    ASSUME TypeOK, Join
    PROVE  /\ main' \in MainType /\ main.pc = "joining" /\ main'.pc = "generated"
           /\ consumer.pc = "done"
           /\ main'.count = next_thread_slot
           /\ main'.i = main.i /\ main'.verdict = main.verdict
           /\ main'.generated = main.generated /\ main'.consumed = main.consumed
           /\ main'.dropped = main.dropped
<1>1. main \in MainType /\ next_thread_slot \in 0 .. MaxThreads
  BY DEF TypeOK
<1>2. /\ main.pc = "joining" /\ consumer.pc = "done"
      /\ main' = [main EXCEPT !.pc = "generated", !.count = next_thread_slot]
  BY DEF Join
<1> QED
  BY <1>1, <1>2 DEF MainType

\* A slot's generated events enter the total, or an inactive slot is skipped.
LEMMA SumGeneratedEffect ==
    ASSUME TypeOK, SumGenerated
    PROVE  /\ main' \in MainType /\ main.pc = "generated" /\ main.i \in SlotIndex
           /\ main.i < main.count
           /\ main'.count = main.count /\ main'.verdict = main.verdict
           /\ main'.consumed = main.consumed /\ main'.dropped = main.dropped
           /\ \/ /\ thread_contexts[main.i].active
                 /\ main'.pc = "consumed" /\ main'.i = main.i
                 /\ main'.generated =
                      main.generated + thread_contexts[main.i].generated
              \/ /\ ~thread_contexts[main.i].active
                 /\ main'.pc = "generated" /\ main'.i = main.i + 1
                 /\ main'.generated = main.generated
<1>1. main \in MainType /\ thread_contexts \in [SlotIndex -> ContextType]
  BY DEF TypeOK
<1>2. main.pc = "generated" /\ main.i < main.count
  BY DEF SumGenerated
<1>3. main.i \in SlotIndex
  BY <1>1, <1>2 DEF MainType
<1> DEFINE n == main.generated + thread_contexts[main.i].generated
           j == main.i + 1
<1>4. n \in Nat
  <2>1. thread_contexts[main.i] \in ContextType
    BY <1>1, <1>3
  <2>2. thread_contexts[main.i].generated \in Nat
    BY <2>1 DEF ContextType
  <2>3. main.generated \in Nat
    BY <1>1 DEF MainType
  <2> QED
    BY <2>2, <2>3
<1>5. j \in 0 .. MaxThreads
  BY <1>3
<1>6. CASE thread_contexts[main.i].active
  <2>1. main' = [main EXCEPT !.pc = "consumed", !.generated = n]
    BY <1>6 DEF SumGenerated
  <2> HIDE DEF n
  <2>2. /\ main' \in MainType /\ main'.count = main.count
        /\ main'.verdict = main.verdict /\ main'.pc = "consumed"
        /\ main'.consumed = main.consumed /\ main'.dropped = main.dropped
        /\ main'.i = main.i /\ main'.generated = n
    BY <1>1, <1>4, <2>1 DEF MainType
  <2> QED
    BY <1>2, <1>3, <1>6, <2>2 DEF n
<1>7. CASE ~thread_contexts[main.i].active
  <2>1. main' = [main EXCEPT !.i = j]
    BY <1>7 DEF SumGenerated
  <2> HIDE DEF j
  <2>2. /\ main' \in MainType /\ main'.count = main.count
        /\ main'.verdict = main.verdict /\ main'.pc = main.pc
        /\ main'.consumed = main.consumed /\ main'.dropped = main.dropped
        /\ main'.i = j /\ main'.generated = main.generated
    BY <1>1, <1>5, <2>1 DEF MainType
  <2> QED
    BY <1>2, <1>3, <1>7, <2>2 DEF j
<1> QED
  BY <1>6, <1>7

LEMMA SumConsumedEffect ==
    ASSUME TypeOK, SummaryInPlace, SumConsumed
    PROVE  /\ main' \in MainType /\ main.pc = "consumed" /\ main'.pc = "generated"
           /\ main.i \in SlotIndex /\ main.i < main.count /\ main'.i = main.i + 1
           /\ main'.count = main.count /\ main'.verdict = main.verdict
           /\ main'.generated = main.generated
           /\ main'.consumed = main.consumed + thread_contexts[main.i].consumed
           /\ main'.dropped = main.dropped + thread_contexts[main.i].dropped
<1>1. main \in MainType /\ thread_contexts \in [SlotIndex -> ContextType]
  BY DEF TypeOK
<1>2. main.pc = "consumed" /\ main.i < main.count
  BY DEF SumConsumed, SummaryInPlace
<1>3. main.i \in SlotIndex
  BY <1>1, <1>2 DEF MainType
<1> DEFINE n == main.consumed + thread_contexts[main.i].consumed
           m == main.dropped + thread_contexts[main.i].dropped
           j == main.i + 1
<1>4. n \in Nat /\ m \in Nat
  <2>1. thread_contexts[main.i] \in ContextType
    BY <1>1, <1>3
  <2>2. thread_contexts[main.i].consumed \in Nat /\ thread_contexts[main.i].dropped \in Nat
    BY <2>1 DEF ContextType
  <2>3. main.consumed \in Nat /\ main.dropped \in Nat
    BY <1>1 DEF MainType
  <2> QED
    BY <2>2, <2>3
<1>5. j \in 0 .. MaxThreads
  BY <1>3
<1>6. main' = [main EXCEPT !.pc = "generated", !.i = j, !.consumed = n, !.dropped = m]
  BY DEF SumConsumed
<1> HIDE DEF n, m, j
<1>7. /\ main' \in MainType /\ main'.pc = "generated" /\ main'.i = j
      /\ main'.count = main.count /\ main'.verdict = main.verdict
      /\ main'.generated = main.generated /\ main'.consumed = n /\ main'.dropped = m
  BY <1>1, <1>4, <1>5, <1>6 DEF MainType
<1> QED
  BY <1>2, <1>3, <1>7 DEF n, m, j

LEMMA VerdictEffect ==
    ASSUME TypeOK, Verdict
    PROVE  /\ main' \in MainType /\ main.pc = "generated" /\ main'.pc = "stopped"
           /\ main.i = main.count /\ main'.i = main.i /\ main'.count = main.count
           /\ main'.generated = main.generated /\ main'.consumed = main.consumed
           /\ main'.dropped = main.dropped
           /\ main'.verdict = "COMPLETE" =>
                /\ main.generated = main.consumed + main.dropped /\ main.dropped = 0
                /\ unregistered_events = 0
<1>1. main \in MainType
  BY DEF TypeOK
<1>2. main.pc = "generated" /\ main.i = main.count
  BY DEF Verdict
<1>3. \/ /\ main.generated = main.consumed + main.dropped /\ main.dropped = 0
         /\ unregistered_events = 0
         /\ main' = [main EXCEPT !.pc = "stopped", !.verdict = "COMPLETE"]
      \/ main' = [main EXCEPT !.pc = "stopped", !.verdict = "DEGRADED"]
  BY DEF Verdict
<1>4. ASSUME NEW v \in {"COMPLETE", "DEGRADED"},
             main' = [main EXCEPT !.pc = "stopped", !.verdict = v]
      PROVE  /\ main' \in MainType /\ main'.pc = "stopped" /\ main'.verdict = v
             /\ main'.i = main.i /\ main'.count = main.count
             /\ main'.generated = main.generated /\ main'.consumed = main.consumed
             /\ main'.dropped = main.dropped
  BY <1>1, <1>4 DEF MainType
<1> QED
  BY <1>2, <1>3, <1>4

\* The emissions of a slot that are over, and the calls that returned, can be counted.
LEMMA CountsType ==
    ASSUME TypeOK, ThreadsInPlace
    PROVE  /\ \A s \in SlotIndex : Finished(s) \in Nat
           /\ \A t \in Thread : Returned(t) \in Nat
<1>1. ASSUME NEW s \in SlotIndex PROVE Finished(s) \in Nat
  <2>1. thread_contexts[s] \in ContextType /\ delivered[s] \in Seq(EventType)
    BY DEF TypeOK
  <2>2. thread_contexts[s].queue \in Seq(EventType) /\ thread_contexts[s].dropped \in Nat
    BY <2>1 DEF ContextType
  <2>3. Len(delivered[s]) \in Nat
    BY <2>1
  <2>4. Len(thread_contexts[s].queue) \in Nat
    BY <2>2
  <2>5. \A a, b, c \in Nat : a + b + c \in Nat
    OBVIOUS
  <2> QED
    BY <2>2, <2>3, <2>4, <2>5 DEF Finished
<1>2. ASSUME NEW t \in Thread PROVE Returned(t) \in Nat
  <2>1. thread[t] \in ThreadType
    BY DEF TypeOK
  <2>2. thread[t].emits \in Nat
    BY <2>1 DEF ThreadType
  <2>3. thread[t].pc # "idle" /\ thread[t].what # "exit" => thread[t].emits > 0
    BY DEF ThreadsInPlace
  <2> QED
    BY <2>2, <2>3 DEF Returned
<1> QED
  BY <1>1, <1>2

\* What a step of the consumer leaves alone.
ConsumerFrame == UNCHANGED <<next_thread_slot, unregistered_events,
                             lifecycle_registration_failures, accept_events,
                             consumer_running, thread_exit_key_ready, thread, main,
                             atStop>>

LEMMA ConsumerFrames ==
    ASSUME ConsumerStep
    PROVE  /\ ConsumerFrame
           /\ ~DrainPop => UNCHANGED <<thread_contexts, delivered>>
  BY DEF ConsumerStep, ScanBegin, DrainPop, DrainNext, ScanEnd, ConsumerFrame,
         contextVars, failureVars, flagVars, mainVars

LEMMA ConsumerStepType ==
    ASSUME TypeOK, ConsumerStep
    PROVE  TypeOK'
<1>1. ConsumerFrame /\ (~DrainPop => UNCHANGED <<thread_contexts, delivered>>)
  BY ConsumerFrames
<1>2. CASE DrainPop
  <2> DEFINE q == thread_contexts[consumer.i].queue
  <2>1. /\ consumer.i \in SlotIndex /\ q \in Seq(EventType) /\ q # <<>>
        /\ thread_contexts'[consumer.i].queue = Tail(q)
        /\ OnlyContext(consumer.i) /\ consumer' \in ConsumerType
        /\ delivered' \in [SlotIndex -> Seq(EventType)]
    BY <1>2, DrainPopEffect
  <2>2. \A s \in SlotIndex : Len(thread_contexts[s].queue) <= Capacity
    BY DEF TypeOK
  <2>3. Len(Tail(q)) <= Capacity
    BY <2>1, <2>2
  <2>4. \A s \in SlotIndex : Len(thread_contexts'[s].queue) <= Capacity
    BY <2>1, <2>2, <2>3 DEF OnlyContext
  <2> QED
    BY <1>1, <2>1, <2>4 DEF TypeOK, ConsumerFrame, OnlyContext
<1>3. CASE ~DrainPop
  <2>1. consumer' \in ConsumerType
    BY <1>3, ScanBeginEffect, DrainNextEffect, ScanEndEffect DEF ConsumerStep
  <2> QED
    BY <1>1, <1>3, <2>1 DEF TypeOK, ConsumerFrame
<1> QED
  BY <1>2, <1>3

LEMMA LibraryFrames ==
    ASSUME LibraryInit \/ LibraryDestroy
    PROVE  /\ UNCHANGED <<thread_contexts, delivered, next_thread_slot,
                          unregistered_events, lifecycle_registration_failures, thread>>
           /\ ~StopAccept => UNCHANGED atStop
           /\ ~Start => UNCHANGED consumer
  BY DEF LibraryInit, LibraryDestroy, ResolveFails, StartKeyFails, StartThreadFails,
         Start, StopAccept, StopStep, StopConsumer, Join, SumGenerated, SumConsumed,
         Verdict, contextVars, failureVars, flagVars

\* A flag is left alone or set to a constant.
LEMMA LibraryFlags ==
    ASSUME LibraryInit \/ LibraryDestroy
    PROVE  /\ accept_events' = accept_events \/ accept_events' = TRUE
                \/ accept_events' = FALSE
           /\ consumer_running' = consumer_running \/ consumer_running' = TRUE
                \/ consumer_running' = FALSE
           /\ thread_exit_key_ready' = thread_exit_key_ready
                \/ thread_exit_key_ready' = TRUE \/ thread_exit_key_ready' = FALSE
  BY Zenon DEF LibraryInit, LibraryDestroy, ResolveFails, StartKeyFails,
         StartThreadFails, Start, StopAccept, StopStep, StopConsumer, Join, SumGenerated,
         SumConsumed, Verdict, flagVars

\* Where start and stop go from where they are.
LEMMA LibraryMoves ==
    ASSUME TypeOK, SummaryInPlace, LibraryInit \/ LibraryDestroy
    PROVE  \/ /\ main.pc \in {"start", "running", "stopping"}
              /\ main'.pc \in {"failed", "running", "stopping", "joining"}
              /\ main' \in MainType /\ main'.verdict = main.verdict
              /\ main'.count = main.count /\ main'.i = main.i
              /\ main'.generated = main.generated /\ main'.consumed = main.consumed
              /\ main'.dropped = main.dropped
           \/ Join \/ SumGenerated \/ SumConsumed \/ Verdict
<1>1. \/ /\ main.pc \in {"start", "running", "stopping"}
         /\ \E p \in {"failed", "running", "stopping", "joining"} :
               main' = [main EXCEPT !.pc = p]
      \/ Join \/ SumGenerated \/ SumConsumed \/ Verdict
  BY DEF LibraryInit, LibraryDestroy, ResolveFails, StartKeyFails, StartThreadFails,
         Start, StopAccept, StopStep, StopConsumer
<1> QED
  BY <1>1, MainMoves

LEMMA LibraryStepType ==
    ASSUME TypeOK, ThreadsInPlace, SummaryInPlace, LibraryInit \/ LibraryDestroy
    PROVE  TypeOK'
<1>1. main' \in MainType
  BY LibraryMoves, JoinEffect, SumGeneratedEffect, SumConsumedEffect, VerdictEffect
<1>2. consumer' \in ConsumerType
  <2>1. consumer \in ConsumerType
    BY DEF TypeOK
  <2>2. CASE Start
    BY <2>1, <2>2 DEF Start, ConsumerType
  <2> QED
    BY <2>1, <2>2, LibraryFrames
<1>3. atStop' \in [events : [SlotIndex -> Nat], calls : [Thread -> Nat]]
  <2>1. CASE StopAccept
    <3>1. atStop' = [events |-> [s \in SlotIndex |-> Finished(s)],
                     calls |-> [t \in Thread |-> Returned(t)]]
      BY <2>1 DEF StopAccept
    <3>2. /\ [s \in SlotIndex |-> Finished(s)] \in [SlotIndex -> Nat]
          /\ [t \in Thread |-> Returned(t)] \in [Thread -> Nat]
      BY CountsType
    <3> QED
      BY <3>1, <3>2
  <2> QED
    BY <2>1, LibraryFrames DEF TypeOK
<1>4. /\ accept_events' \in BOOLEAN /\ consumer_running' \in BOOLEAN
      /\ thread_exit_key_ready' \in BOOLEAN
  BY LibraryFlags DEF TypeOK
<1> QED
  BY <1>1, <1>2, <1>3, <1>4, LibraryFrames DEF TypeOK

(***************************************************************************)
(* Threads and slots stay in place.                                        *)
(***************************************************************************)

LEMMA PlacesOfThread ==
    ASSUME TypeOK, ThreadsInPlace, NEW t \in Thread,
           Emit(t) \/ ThreadExit(t) \/ InEmit(t)
    PROVE  ThreadsInPlace'
<1>1. next_thread_slot \in 0 .. MaxThreads /\ thread[t] \in ThreadType
  BY DEF TypeOK
<1>2. CASE Emit(t)
  <2>1. UNCHANGED next_thread_slot
    BY <1>2 DEF Emit
  <2> QED
    BY <1>1, <1>2, <2>1, EmitEffect DEF OnlyThread, ThreadsInPlace
<1>3. CASE ThreadExit(t)
  <2>1. UNCHANGED next_thread_slot
    BY <1>3 DEF ThreadExit
  <2> QED
    BY <1>1, <1>3, <2>1, ThreadExitEffect DEF OnlyThread, ThreadsInPlace
<1>4. CASE ClaimFails(t)
  <2>1. UNCHANGED next_thread_slot
    BY <1>4 DEF ClaimFails
  <2> QED
    BY <1>1, <1>4, <2>1, ClaimFailsEffect DEF OnlyThread, ThreadsInPlace, SameRegistration
<1>5. CASE Claim(t)
  <2>1. \A u \in Thread : thread[u].expected \in Int /\ thread[u].tls_context \in Int
    <3>1. \A u \in Thread : thread[u] \in ThreadType
      BY DEF TypeOK
    <3> QED
      BY <3>1 DEF ThreadType
  <2> QED
    BY <1>1, <1>5, <2>1, ClaimEffect DEF OnlyThread, ThreadsInPlace
<1>6. CASE ClaimRetry(t)
  <2>1. UNCHANGED next_thread_slot
    BY <1>6 DEF ClaimRetry
  <2> QED
    BY <1>1, <1>6, <2>1, ClaimRetryEffect DEF OnlyThread, ThreadsInPlace
<1>7. CASE SetSpecific(t)
  <2>1. UNCHANGED next_thread_slot
    BY <1>7 DEF SetSpecific
  <2> QED
    BY <1>1, <1>7, <2>1, SetSpecificEffect DEF OnlyThread, ThreadsInPlace
<1>8. CASE Activate(t)
  BY <1>1, <1>8, ActivateEffect, EmissionFrames
     DEF OnlyThread, ThreadsInPlace, SameRegistration
<1>9. CASE Stamp(t)
  BY <1>1, <1>9, StampEffect, EmissionFrames
     DEF OnlyThread, ThreadsInPlace, SameRegistration
<1>10. CASE PushFull(t)
  BY <1>1, <1>10, PushFullEffect, EmissionFrames
     DEF OnlyThread, ThreadsInPlace, SameRegistration
<1>11. CASE Push(t) \/ Drop(t)
  <2>1. EmissionOver(t) /\ thread[t].pc \in {"push", "drop"}
    BY <1>11, PushEffect, DropEffect
  <2>2. UNCHANGED next_thread_slot
    BY <1>11, EmissionFrames
  <2> QED
    BY <1>1, <2>1, <2>2 DEF OnlyThread, ThreadsInPlace, EmissionOver
<1> QED
  BY <1>2, <1>3, <1>4, <1>5, <1>6, <1>7, <1>8, <1>9, <1>10, <1>11 DEF InEmit

\* A thread gets a context only by claiming the next one.
LEMMA ContextOfThread ==
    ASSUME TypeOK, ThreadsInPlace, NEW t \in Thread,
           Emit(t) \/ ThreadExit(t) \/ InEmit(t)
    PROVE  /\ OnlyThread(t)
           /\ \/ thread'[t].tls_context = thread[t].tls_context
              \/ thread'[t].tls_context = NoSlot
              \/ Claim(t) /\ thread'[t].tls_context = next_thread_slot
<1>1. CASE Emit(t)
  BY <1>1, EmitEffect
<1>2. CASE ThreadExit(t)
  BY <1>2, ThreadExitEffect
<1>3. CASE ClaimFails(t)
  BY <1>3, ClaimFailsEffect DEF SameRegistration
<1>4. CASE Claim(t)
  BY <1>4, ClaimEffect
<1>5. CASE ClaimRetry(t)
  BY <1>5, ClaimRetryEffect
<1>6. CASE SetSpecific(t)
  BY <1>6, SetSpecificEffect
<1>7. CASE Activate(t)
  BY <1>7, ActivateEffect DEF SameRegistration
<1>8. CASE Stamp(t)
  BY <1>8, StampEffect DEF SameRegistration
<1>9. CASE PushFull(t)
  BY <1>9, PushFullEffect DEF SameRegistration
<1>10. CASE Push(t) \/ Drop(t)
  BY <1>10, PushEffect, DropEffect DEF EmissionOver
<1> QED
  BY <1>1, <1>2, <1>3, <1>4, <1>5, <1>6, <1>7, <1>8, <1>9, <1>10 DEF InEmit

LEMMA ProducerOfThread ==
    ASSUME TypeOK, ThreadsInPlace, SingleProducer, NEW t \in Thread,
           Emit(t) \/ ThreadExit(t) \/ InEmit(t)
    PROVE  SingleProducer'
<1>1. /\ OnlyThread(t)
      /\ \/ thread'[t].tls_context = thread[t].tls_context
         \/ thread'[t].tls_context = NoSlot
         \/ thread'[t].tls_context = next_thread_slot
  BY ContextOfThread
<1>2. \A u \in Thread : thread[u].tls_context # next_thread_slot
  <2>1. next_thread_slot \in Int
    BY DEF TypeOK
  <2> QED
    BY <2>1 DEF ThreadsInPlace
<1>3. \A u \in Thread \ {t} : thread'[u].tls_context = thread[u].tls_context
  BY <1>1 DEF OnlyThread
<1>4. \A u \in Thread \ {t} :
        thread'[t].tls_context = NoSlot \/ thread'[t].tls_context # thread'[u].tls_context
  BY <1>1, <1>2, <1>3 DEF SingleProducer
<1>5. \A u, v \in Thread \ {t} :
        u # v /\ thread'[u].tls_context # NoSlot
          => thread'[u].tls_context # thread'[v].tls_context
  BY <1>3 DEF SingleProducer
<1> QED
  BY <1>4, <1>5 DEF SingleProducer

LEMMA RegistrationPlaces ==
    ASSUME TypeOK, ThreadsInPlace, NEW t \in Thread, Registration(t)
    PROVE  \/ thread'[t].tls_context = NoSlot
           \/ /\ thread'[t].tls_context = thread[t].tls_context
              /\ thread[t].pc # "activate" /\ thread'[t].pc # "activate"
           \/ /\ thread'[t].tls_context = next_thread_slot
              /\ thread'[t].pc = "activate" /\ next_thread_slot \in SlotIndex
<1>1. CASE Emit(t)
  <2>1. /\ thread'[t].tls_context = thread[t].tls_context /\ thread[t].pc = "idle"
        /\ thread'[t].pc \in {"idle", "claim", "stamp"}
    BY <1>1, EmitEffect
  <2> QED
    BY <2>1
<1>2. CASE ThreadExit(t)
  BY <1>2, ThreadExitEffect
<1>3. CASE ClaimFails(t)
  BY <1>3, ClaimFailsEffect DEF SameRegistration
<1>4. CASE Claim(t)
  <2>1. next_thread_slot \in 0 .. MaxThreads
    BY DEF TypeOK
  <2> QED
    BY <1>4, <2>1, ClaimEffect
<1>5. CASE ClaimRetry(t)
  BY <1>5, ClaimRetryEffect
<1>6. CASE SetSpecific(t)
  BY <1>6, SetSpecificEffect
<1> QED
  BY <1>1, <1>2, <1>3, <1>4, <1>5, <1>6 DEF Registration

\* The context of a thread that emits is one that was filled in.
LEMMA ActiveContext ==
    ASSUME TypeOK, ThreadsInPlace, SlotsInPlace, NEW t \in Thread,
           thread[t].pc \in {"setspecific", "stamp", "push", "drop"}
    PROVE  Context(t).active
  BY HasContext DEF SlotsInPlace

LEMMA SlotsOfThread ==
    ASSUME TypeOK, ThreadsInPlace, SingleProducer, SlotsInPlace, NEW t \in Thread,
           Emit(t) \/ ThreadExit(t) \/ InEmit(t)
    PROVE  SlotsInPlace'
<1>1. UNCHANGED delivered
  BY ThreadFrames DEF ThreadFrame
<1>2. next_thread_slot \in 0 .. MaxThreads
  BY DEF TypeOK
<1>3. OnlyThread(t)
  BY ContextOfThread
<1>4. CASE Registration(t)
  <2>1. UNCHANGED thread_contexts /\ next_thread_slot' >= next_thread_slot
    BY <1>2, <1>4, RegistrationFrames, RegistrationEffect
  <2>2. \A s \in SlotIndex : s >= next_thread_slot' => ~thread_contexts'[s].active
    <3>1. next_thread_slot' \in Int
      BY <1>4, RegistrationEffect
    <3> QED
      BY <1>2, <2>1, <3>1 DEF SlotsInPlace
  <2>3. \A s \in SlotIndex : ~thread_contexts'[s].active => Untouched(s)'
    BY <1>1, <2>1 DEF SlotsInPlace, Untouched
  <2>4. \A u \in Thread : thread'[u].tls_context # NoSlot =>
          (thread_contexts'[thread'[u].tls_context].active <=> thread'[u].pc # "activate")
    <3>1. \A u \in Thread \ {t} : thread'[u].tls_context # NoSlot =>
          (thread_contexts'[thread'[u].tls_context].active <=> thread'[u].pc # "activate")
      BY <1>3, <2>1 DEF SlotsInPlace, OnlyThread
    <3>2. thread'[t].tls_context # NoSlot =>
          (thread_contexts'[thread'[t].tls_context].active <=> thread'[t].pc # "activate")
      BY <1>2, <1>4, <2>1, RegistrationPlaces DEF SlotsInPlace
    <3> QED
      BY <3>1, <3>2
  <2> QED
    BY <2>2, <2>3, <2>4 DEF SlotsInPlace
<1> DEFINE s == thread[t].tls_context
<1>5. ASSUME s \in SlotIndex, s < next_thread_slot, UNCHANGED next_thread_slot,
             OnlyContext(s), thread_contexts'[s].active,
             thread[t].pc = "activate" \/ thread_contexts[s].active,
             thread'[t].tls_context \in {NoSlot, s}, thread'[t].pc # "activate"
      PROVE  SlotsInPlace'
  <2>1. \A q \in SlotIndex : q >= next_thread_slot' => ~thread_contexts'[q].active
    BY <1>2, <1>5 DEF SlotsInPlace, OnlyContext
  <2>2. \A q \in SlotIndex : ~thread_contexts'[q].active => Untouched(q)'
    BY <1>1, <1>5 DEF SlotsInPlace, Untouched, OnlyContext
  <2>3. ASSUME NEW u \in Thread, thread'[u].tls_context # NoSlot
        PROVE  thread_contexts'[thread'[u].tls_context].active <=> thread'[u].pc # "activate"
    <3>1. CASE u = t
      BY <1>5, <2>3, <3>1
    <3>2. CASE u # t
      <4>1. thread'[u] = thread[u] /\ thread[u].tls_context \in SlotIndex
        <5>1. thread'[u] = thread[u] /\ thread[u] \in ThreadType
          BY <1>3, <3>2 DEF OnlyThread, TypeOK
        <5> QED
          BY <2>3, <5>1 DEF ThreadType
      <4>2. thread[u].tls_context # s
        BY <2>3, <3>2, <4>1 DEF SingleProducer
      <4>3. thread_contexts'[thread[u].tls_context] = thread_contexts[thread[u].tls_context]
        BY <1>5, <4>1, <4>2 DEF OnlyContext
      <4> QED
        BY <2>3, <4>1, <4>3 DEF SlotsInPlace
    <3> QED
      BY <3>1, <3>2
  <2> QED
    BY <2>1, <2>2, <2>3 DEF SlotsInPlace
<1>6. CASE Activate(t) \/ Stamp(t) \/ PushFull(t) \/ Push(t) \/ Drop(t)
  <2>1. /\ s \in SlotIndex /\ UNCHANGED next_thread_slot
        /\ thread[t].pc \in {"activate", "stamp", "push", "drop"}
        /\ thread'[t].pc # "activate"
        /\ thread'[t].tls_context \in {NoSlot, s}
    <3>1. CASE Activate(t)
      BY <3>1, EmissionFrames, ActivateEffect DEF SameRegistration
    <3>2. CASE Stamp(t)
      BY <3>2, EmissionFrames, StampEffect DEF SameRegistration
    <3>3. CASE PushFull(t)
      BY <3>3, EmissionFrames, PushFullEffect DEF SameRegistration
    <3>4. CASE Push(t)
      BY <3>4, EmissionFrames, PushEffect DEF EmissionOver
    <3>5. CASE Drop(t)
      BY <3>5, EmissionFrames, DropEffect DEF EmissionOver
    <3> QED
      BY <1>6, <3>1, <3>2, <3>3, <3>4, <3>5
  <2>2. s < next_thread_slot
    BY DEF ThreadsInPlace
  <2>3. thread[t].pc = "activate" \/ thread_contexts[s].active
    BY <2>1, ActiveContext
  <2>4. OnlyContext(s) /\ thread_contexts'[s].active
    <3>1. CASE Activate(t)
      BY <3>1, ActivateEffect, RegisteredContext
    <3>2. CASE Stamp(t)
      BY <3>2, StampEffect, ActiveContext
    <3>3. CASE PushFull(t)
      <4>1. UNCHANGED thread_contexts
        BY <3>3 DEF PushFull, contextVars
      <4> QED
        BY <3>3, <4>1, PushFullEffect, ActiveContext DEF OnlyContext, TypeOK
    <3>4. CASE Push(t)
      BY <3>4, PushEffect, ActiveContext
    <3>5. CASE Drop(t)
      BY <3>5, DropEffect, ActiveContext
    <3> QED
      BY <1>6, <3>1, <3>2, <3>3, <3>4, <3>5
  <2> QED
    BY <1>5, <2>1, <2>2, <2>3, <2>4
<1> QED
  BY <1>4, <1>6, ThreadCases

(***************************************************************************)
(* Every stamp is accounted for.                                           *)
(***************************************************************************)

\* A thread that is not producing before or after its step disturbs no count.
LEMMA ProducingQuiet ==
    ASSUME NEW t \in Thread, OnlyThread(t), NEW s, NEW pc,
           thread[t].pc # pc, thread'[t].pc # pc
    PROVE  Producing(s, pc)' = Producing(s, pc)
  BY DEF OnlyThread, Producing

LEMMA ProducingElsewhere ==
    ASSUME NEW t \in Thread, OnlyThread(t), NEW s, NEW pc,
           thread[t].tls_context # s, thread'[t].tls_context # s
    PROVE  Producing(s, pc)' = Producing(s, pc)
  BY DEF OnlyThread, Producing

\* A slot has one producer, so what that one does is what the slot's count says.
LEMMA ProducingHere ==
    ASSUME SingleProducer, NEW t \in Thread, NEW pc, thread[t].tls_context # NoSlot
    PROVE  Producing(thread[t].tls_context, pc) = IF thread[t].pc = pc THEN 1 ELSE 0
  BY DEF SingleProducer, Producing

LEMMA ProducingAfter ==
    ASSUME SingleProducer, NEW t \in Thread, NEW s, NEW pc, OnlyThread(t),
           thread[t].tls_context = s, s # NoSlot,
           thread'[t].tls_context = s \/ thread'[t].pc # pc
    PROVE  Producing(s, pc)' = IF thread'[t].pc = pc THEN 1 ELSE 0
<1>1. \A u \in Thread \ {t} : thread'[u] = thread[u]
  BY DEF OnlyThread
<1>2. \A u \in Thread \ {t} : thread'[u].tls_context # s
  BY <1>1 DEF SingleProducer
<1> QED
  BY <1>2 DEF Producing

\* The numbers of a context, to be added up.
LEMMA ContextNumbers ==
    ASSUME TypeOK, NEW s \in SlotIndex
    PROVE  /\ thread_contexts[s].generated \in Nat /\ thread_contexts[s].dropped \in Nat
           /\ thread_contexts[s].consumed \in Nat
           /\ thread_contexts[s].next_thread_sequence \in Nat
           /\ thread_contexts[s].queue \in Seq(EventType)
           /\ delivered[s] \in Seq(EventType)
           /\ Len(thread_contexts[s].queue) \in Nat /\ Len(delivered[s]) \in Nat
<1>1. thread_contexts[s] \in ContextType /\ delivered[s] \in Seq(EventType)
  BY DEF TypeOK
<1>2. /\ thread_contexts[s].generated \in Nat /\ thread_contexts[s].dropped \in Nat
      /\ thread_contexts[s].consumed \in Nat
      /\ thread_contexts[s].next_thread_sequence \in Nat
      /\ thread_contexts[s].queue \in Seq(EventType)
  BY <1>1 DEF ContextType
<1>3. Len(thread_contexts[s].queue) \in Nat
  BY <1>2
<1>4. Len(delivered[s]) \in Nat
  BY <1>1
<1> QED
  BY <1>1, <1>2, <1>3, <1>4

\* The equations of one slot.
Accounted(s) ==
    /\ thread_contexts[s].generated = Finished(s) + InFlight(s)
    /\ thread_contexts[s].consumed = Len(delivered[s])
    /\ thread_contexts[s].next_thread_sequence = thread_contexts[s].generated

LEMMA AccountedSame ==
    ASSUME NEW s \in SlotIndex, Accounted(s), UNCHANGED delivered,
           thread_contexts'[s] = thread_contexts[s],
           Producing(s, "push")' = Producing(s, "push"),
           Producing(s, "drop")' = Producing(s, "drop")
    PROVE  Accounted(s)'
  BY DEF Accounted, Finished, InFlight

\* A step of a thread on its own slot.
LEMMA AccountedElsewhere ==
    ASSUME SingleProducer, NEW t \in Thread, OnlyThread(t), UNCHANGED delivered,
           OnlyContext(thread[t].tls_context),
           thread'[t].tls_context \in {NoSlot, thread[t].tls_context},
           NEW s \in SlotIndex, s # thread[t].tls_context, Accounted(s)
    PROVE  Accounted(s)'
<1>1. /\ Producing(s, "push")' = Producing(s, "push")
      /\ Producing(s, "drop")' = Producing(s, "drop")
  BY ProducingElsewhere
<1>2. thread_contexts'[s] = thread_contexts[s]
  BY DEF OnlyContext
<1> QED
  BY <1>1, <1>2, AccountedSame

LEMMA StampAccounted ==
    ASSUME TypeOK, ThreadsInPlace, SingleProducer, NEW t \in Thread, Stamp(t),
           NEW s \in SlotIndex, Accounted(s)
    PROVE  Accounted(s)'
<1>1. UNCHANGED delivered
  BY DEF Stamp
<1>2. /\ OnlyThread(t) /\ OnlyContext(thread[t].tls_context)
      /\ thread'[t].tls_context = thread[t].tls_context
      /\ thread[t].tls_context \in SlotIndex
  BY StampEffect DEF SameRegistration
<1>3. CASE s # thread[t].tls_context
  BY <1>1, <1>2, <1>3, AccountedElsewhere
<1>4. CASE s = thread[t].tls_context
  <2>1. Producing(s, "push") = 0 /\ Producing(s, "drop") = 0
    BY <1>4, <1>2, StampEffect, ProducingHere
  <2>2. Producing(s, "push")' = 1 /\ Producing(s, "drop")' = 0
    BY <1>4, <1>2, StampEffect, ProducingAfter
  <2>3. LET c == thread_contexts[s]
            d == thread_contexts'[s] IN
        /\ d.next_thread_sequence = c.next_thread_sequence + 1
        /\ d.generated = c.generated + 1 /\ d.queue = c.queue
        /\ d.dropped = c.dropped /\ d.consumed = c.consumed
    BY <1>4, StampEffect
  <2>4. InFlight(s) = 0 /\ InFlight(s)' = 1
    BY <2>1, <2>2 DEF InFlight
  <2>5. Finished(s)' = Finished(s)
    BY <1>1, <2>3, ContextNumbers DEF Finished
  <2>6. Finished(s) \in Nat /\ thread_contexts[s].generated \in Nat
    BY CountsType, ContextNumbers
  <2> QED
    BY <1>1, <2>3, <2>4, <2>5, <2>6 DEF Accounted
<1> QED
  BY <1>3, <1>4

LEMMA PushFullAccounted ==
    ASSUME TypeOK, ThreadsInPlace, SingleProducer, NEW t \in Thread, PushFull(t),
           NEW s \in SlotIndex, Accounted(s)
    PROVE  Accounted(s)'
<1>1. UNCHANGED <<delivered, thread_contexts>>
  BY DEF PushFull, contextVars
<1>2. /\ OnlyThread(t) /\ thread'[t].tls_context = thread[t].tls_context
      /\ thread[t].tls_context \in SlotIndex
  BY PushFullEffect DEF SameRegistration
<1>3. CASE s # thread[t].tls_context
  BY <1>1, <1>2, <1>3, ProducingElsewhere, AccountedSame
<1>4. CASE s = thread[t].tls_context
  <2>1. Producing(s, "push") = 1 /\ Producing(s, "drop") = 0
    <3>1. thread[t].pc = "push"
      BY PushFullEffect
    <3> QED
      BY <1>4, <1>2, <3>1, ProducingHere
  <2>2. Producing(s, "push")' = 0 /\ Producing(s, "drop")' = 1
    <3>1. thread'[t].pc = "drop" /\ thread'[t].pc # "push" /\ s # NoSlot
      BY <1>2, <1>4, PushFullEffect
    <3>2. Producing(s, "push")' = IF thread'[t].pc = "push" THEN 1 ELSE 0
      BY <1>4, <1>2, <3>1, ProducingAfter
    <3>3. Producing(s, "drop")' = IF thread'[t].pc = "drop" THEN 1 ELSE 0
      BY <1>4, <1>2, <3>1, ProducingAfter
    <3> QED
      BY <3>1, <3>2, <3>3
  <2>3. InFlight(s)' = InFlight(s)
    BY <2>1, <2>2 DEF InFlight
  <2>4. Finished(s)' = Finished(s)
    BY <1>1 DEF Finished
  <2> QED
    BY <1>1, <2>3, <2>4 DEF Accounted
<1> QED
  BY <1>3, <1>4

LEMMA PushAccounted ==
    ASSUME TypeOK, ThreadsInPlace, SingleProducer, NEW t \in Thread, Push(t),
           NEW s \in SlotIndex, Accounted(s)
    PROVE  Accounted(s)'
<1>1. UNCHANGED delivered
  BY DEF Push
<1>2. /\ OnlyThread(t) /\ OnlyContext(thread[t].tls_context)
      /\ thread'[t].tls_context \in {NoSlot, thread[t].tls_context}
      /\ thread'[t].pc \in {"stamp", "idle"}
      /\ thread[t].tls_context \in SlotIndex
  BY PushEffect DEF EmissionOver
<1>3. CASE s # thread[t].tls_context
  BY <1>1, <1>2, <1>3, AccountedElsewhere
<1>4. CASE s = thread[t].tls_context
  <2>1. Producing(s, "push") = 1 /\ Producing(s, "drop") = 0
    <3>1. thread[t].pc = "push"
      BY PushEffect
    <3> QED
      BY <1>4, <1>2, <3>1, ProducingHere
  <2>2. Producing(s, "push")' = 0 /\ Producing(s, "drop")' = 0
    BY <1>4, <1>2, ProducingAfter
  <2> DEFINE q == thread_contexts[s].queue
             e == [what |-> thread[t].what, sequence |-> thread[t].sequence]
  <2>3. LET c == thread_contexts[s]
            d == thread_contexts'[s] IN
        /\ d.next_thread_sequence = c.next_thread_sequence
        /\ d.generated = c.generated /\ d.queue = Append(q, e) /\ e \in EventType
        /\ d.dropped = c.dropped /\ d.consumed = c.consumed
    BY <1>4, PushEffect
  <2>4. Len(thread_contexts'[s].queue) = Len(q) + 1
    <3>1. q \in Seq(EventType)
      BY ContextNumbers
    <3> HIDE DEF q, e
    <3> QED
      BY <2>3, <3>1
  <2>5. InFlight(s) = 1 /\ InFlight(s)' = 0
    BY <2>1, <2>2 DEF InFlight
  <2>6. Finished(s)' = Finished(s) + 1
    <3> DEFINE l == Len(delivered[s])
               k == Len(thread_contexts[s].queue)
               n == thread_contexts[s].dropped
    <3>1. Finished(s) = l + k + n
      BY DEF Finished
    <3>2. Finished(s)' = l + (k + 1) + n
      BY <1>1, <2>3, <2>4 DEF Finished
    <3>3. l \in Nat /\ k \in Nat /\ n \in Nat
      BY ContextNumbers
    <3> HIDE DEF l, k, n
    <3> QED
      BY <3>1, <3>2, <3>3
  <2>7. Finished(s) \in Nat /\ thread_contexts[s].generated \in Nat
    BY CountsType, ContextNumbers
  <2> QED
    BY <1>1, <2>3, <2>5, <2>6, <2>7 DEF Accounted
<1> QED
  BY <1>3, <1>4

LEMMA DropAccounted ==
    ASSUME TypeOK, ThreadsInPlace, SingleProducer, NEW t \in Thread, Drop(t),
           NEW s \in SlotIndex, Accounted(s)
    PROVE  Accounted(s)'
<1>1. UNCHANGED delivered
  BY DEF Drop
<1>2. /\ OnlyThread(t) /\ OnlyContext(thread[t].tls_context)
      /\ thread'[t].tls_context \in {NoSlot, thread[t].tls_context}
      /\ thread'[t].pc \in {"stamp", "idle"}
      /\ thread[t].tls_context \in SlotIndex
  BY DropEffect DEF EmissionOver
<1>3. CASE s # thread[t].tls_context
  BY <1>1, <1>2, <1>3, AccountedElsewhere
<1>4. CASE s = thread[t].tls_context
  <2>1. Producing(s, "push") = 0 /\ Producing(s, "drop") = 1
    BY <1>4, <1>2, DropEffect, ProducingHere
  <2>2. Producing(s, "push")' = 0 /\ Producing(s, "drop")' = 0
    BY <1>4, <1>2, ProducingAfter
  <2>3. LET c == thread_contexts[s]
            d == thread_contexts'[s] IN
        /\ d.next_thread_sequence = c.next_thread_sequence
        /\ d.generated = c.generated /\ d.queue = c.queue
        /\ d.dropped = c.dropped + 1 /\ d.consumed = c.consumed
    BY <1>4, DropEffect
  <2>4. InFlight(s) = 1 /\ InFlight(s)' = 0
    BY <2>1, <2>2 DEF InFlight
  <2>5. Finished(s)' = Finished(s) + 1
    <3> DEFINE l == Len(delivered[s])
               k == Len(thread_contexts[s].queue)
               n == thread_contexts[s].dropped
    <3>1. Finished(s) = l + k + n
      BY DEF Finished
    <3>2. Finished(s)' = l + k + (n + 1)
      BY <1>1, <2>3 DEF Finished
    <3>3. l \in Nat /\ k \in Nat /\ n \in Nat
      BY ContextNumbers
    <3> HIDE DEF l, k, n
    <3> QED
      BY <3>1, <3>2, <3>3
  <2>6. Finished(s) \in Nat /\ thread_contexts[s].generated \in Nat
    BY CountsType, ContextNumbers
  <2> QED
    BY <1>1, <2>3, <2>4, <2>5, <2>6 DEF Accounted
<1> QED
  BY <1>3, <1>4

LEMMA RegistrationAccounted ==
    ASSUME TypeOK, NEW t \in Thread, Registration(t), UNCHANGED delivered,
           NEW s \in SlotIndex, Accounted(s)
    PROVE  Accounted(s)'
<1>1. UNCHANGED thread_contexts
  BY RegistrationFrames
<1>2. /\ OnlyThread(t)
      /\ thread[t].pc # "push" /\ thread[t].pc # "drop"
      /\ thread'[t].pc # "push" /\ thread'[t].pc # "drop"
  BY RegistrationEffect
<1> QED
  BY <1>1, <1>2, ProducingQuiet, AccountedSame

\* Registration fills in a context that had counted nothing.
LEMMA ActivateAccounted ==
    ASSUME TypeOK, ThreadsInPlace, SlotsInPlace, NEW t \in Thread, Activate(t),
           NEW s \in SlotIndex, Accounted(s)
    PROVE  Accounted(s)'
<1>1. UNCHANGED delivered
  BY DEF Activate
<1>2. /\ OnlyThread(t) /\ OnlyContext(thread[t].tls_context)
      /\ thread[t].pc = "activate" /\ thread'[t].pc = "setspecific"
      /\ thread[t].tls_context \in SlotIndex
      /\ thread_contexts'[thread[t].tls_context] = [FreshContext EXCEPT !.active = TRUE]
  BY ActivateEffect
<1>3. /\ Producing(s, "push")' = Producing(s, "push")
      /\ Producing(s, "drop")' = Producing(s, "drop")
  BY <1>2, ProducingQuiet
<1>4. CASE s # thread[t].tls_context
  BY <1>1, <1>2, <1>3, <1>4, AccountedSame DEF OnlyContext
<1>5. CASE s = thread[t].tls_context
  <2>1. thread_contexts[s] = FreshContext
    BY <1>2, <1>5 DEF SlotsInPlace, Untouched
  <2>2. LET c == thread_contexts[s]
            d == thread_contexts'[s] IN
        /\ d.next_thread_sequence = c.next_thread_sequence
        /\ d.generated = c.generated /\ d.queue = c.queue
        /\ d.dropped = c.dropped /\ d.consumed = c.consumed
    BY <1>2, <1>5, <2>1, RegisteredContext
  <2> QED
    BY <1>1, <1>3, <2>2 DEF Accounted, Finished, InFlight
<1> QED
  BY <1>4, <1>5

\* The consumer takes an event from the queue and counts it.
LEMMA DrainPopAccounted ==
    ASSUME TypeOK, DrainPop, NEW s \in SlotIndex, Accounted(s)
    PROVE  Accounted(s)'
<1>1. UNCHANGED thread
  BY DEF DrainPop
<1>2. InFlight(s)' = InFlight(s)
  BY <1>1 DEF InFlight, Producing
<1>3. CASE s # consumer.i
  BY <1>2, <1>3, DrainPopEffect DEF OnlyContext, Accounted, Finished
<1>4. CASE s = consumer.i
  <2> DEFINE c == thread_contexts[s]
             l == Len(delivered[s])
             k == Len(c.queue)
             n == c.dropped
  <2>1. /\ thread_contexts'[s].generated = c.generated
        /\ thread_contexts'[s].next_thread_sequence = c.next_thread_sequence
        /\ thread_contexts'[s].dropped = c.dropped
        /\ thread_contexts'[s].consumed = c.consumed + 1
        /\ thread_contexts'[s].queue = Tail(c.queue)
        /\ c.queue # <<>> /\ c.queue \in Seq(EventType)
        /\ delivered'[s] = Append(delivered[s], Head(c.queue))
    BY <1>4, DrainPopEffect
  <2>2. delivered[s] \in Seq(EventType)
    BY ContextNumbers
  <2>3. Len(thread_contexts'[s].queue) = k - 1
    BY <2>1
  <2>4. Len(delivered'[s]) = l + 1
    BY <2>1, <2>2
  <2>5. l \in Nat /\ k \in Nat /\ n \in Nat
    BY ContextNumbers
  <2>6. Finished(s) = l + k + n /\ Finished(s)' = (l + 1) + (k - 1) + n
    BY <2>1, <2>3, <2>4 DEF Finished
  <2>7. Accounted(s) => c.consumed = l /\ c.next_thread_sequence = c.generated
                        /\ c.generated = Finished(s) + InFlight(s)
    BY DEF Accounted
  <2> HIDE DEF l, k, n
  <2>8. Finished(s)' = Finished(s)
    BY <2>5, <2>6
  <2> QED
    BY <1>2, <2>1, <2>4, <2>7, <2>8 DEF Accounted
<1> QED
  BY <1>3, <1>4

LEMMA ThreadAccounted ==
    ASSUME TypeOK, ThreadsInPlace, SingleProducer, SlotsInPlace, NEW t \in Thread,
           Emit(t) \/ ThreadExit(t) \/ InEmit(t), NEW s \in SlotIndex, Accounted(s)
    PROVE  Accounted(s)'
<1>1. UNCHANGED delivered
  BY ThreadFrames DEF ThreadFrame
<1> QED
  BY <1>1, ThreadCases, RegistrationAccounted, ActivateAccounted, StampAccounted,
     PushFullAccounted, PushAccounted, DropAccounted

\* The number a thread is to push is its own: nobody else stamps in its context.
StampCurrent == \A t \in Thread :
    At(t, "push") => thread[t].sequence = Context(t).next_thread_sequence - 1

LEMMA StampOfThread ==
    ASSUME TypeOK, ThreadsInPlace, SingleProducer, StampCurrent, NEW t \in Thread,
           Emit(t) \/ ThreadExit(t) \/ InEmit(t)
    PROVE  StampCurrent'
<1>1. OnlyThread(t)
  BY ContextOfThread
<1>2. ASSUME NEW u \in Thread, thread'[u].pc = "push"
      PROVE  thread'[u].sequence =
               thread_contexts'[thread'[u].tls_context].next_thread_sequence - 1
  <2>1. CASE u = t
    <3>1. Stamp(t)
      <4>1. ~Registration(t)
        BY <1>2, <2>1, RegistrationEffect
      <4>2. ~Activate(t) /\ ~PushFull(t)
        BY <1>2, <2>1, ActivateEffect, PushFullEffect
      <4>3. ~Push(t) /\ ~Drop(t)
        BY <1>2, <2>1, PushEffect, DropEffect DEF EmissionOver
      <4> QED
        BY <4>1, <4>2, <4>3, ThreadCases
    <3> DEFINE n == thread_contexts[thread[t].tls_context].next_thread_sequence
    <3>2. /\ thread'[t].tls_context = thread[t].tls_context
          /\ thread'[t].sequence = n
          /\ thread_contexts'[thread[t].tls_context].next_thread_sequence = n + 1
          /\ thread[t].tls_context \in SlotIndex
      BY <3>1, StampEffect DEF SameRegistration
    <3>3. n \in Nat
      BY <3>2, ContextNumbers
    <3> HIDE DEF n
    <3> QED
      BY <2>1, <3>2, <3>3
  <2>2. CASE u # t
    <3>1. thread'[u] = thread[u] /\ thread[u].pc = "push"
      BY <1>1, <1>2, <2>2 DEF OnlyThread
    <3>2. thread[u].tls_context \in SlotIndex
      BY <3>1, HasContext
    <3>3. thread[u].tls_context # thread[t].tls_context
      BY <2>2, <3>2 DEF SingleProducer
    <3>4. thread_contexts'[thread[u].tls_context] = thread_contexts[thread[u].tls_context]
      <4>1. CASE Registration(t)
        BY <4>1, RegistrationFrames
      <4>2. CASE PushFull(t)
        BY <4>2 DEF PushFull, contextVars
      <4>3. CASE Activate(t)
        BY <3>2, <3>3, <4>3, ActivateEffect DEF OnlyContext
      <4>4. CASE Stamp(t)
        BY <3>2, <3>3, <4>4, StampEffect DEF OnlyContext
      <4>5. CASE Push(t)
        BY <3>2, <3>3, <4>5, PushEffect DEF OnlyContext
      <4>6. CASE Drop(t)
        BY <3>2, <3>3, <4>6, DropEffect DEF OnlyContext
      <4> QED
        BY <4>1, <4>2, <4>3, <4>4, <4>5, <4>6, ThreadCases
    <3> QED
      BY <3>1, <3>4 DEF StampCurrent
  <2> QED
    BY <2>1, <2>2
<1> QED
  BY <1>2 DEF StampCurrent

(***************************************************************************)
(* The inductive invariant.                                                *)
(***************************************************************************)

LEMMA IndInvParts ==
    IndInv <=> /\ TypeOK /\ ThreadsInPlace /\ SingleProducer /\ SlotsInPlace
               /\ SummaryInPlace /\ StampCurrent
               /\ \A s \in SlotIndex : Accounted(s)
  BY DEF IndInv, Accounting, SequencesInPlace, Accounted, StampCurrent

LEMMA InitInv == Init => IndInv
<1> SUFFICES ASSUME Init PROVE IndInv
  OBVIOUS
<1>1. TypeOK
  BY InitType
<1>2. \A t \in Thread :
         /\ thread[t].pc = "idle" /\ thread[t].expected = 0
         /\ thread[t].tls_context = NoSlot /\ thread[t].key = NoSlot
  BY DEF Init
<1>3. ThreadsInPlace /\ SingleProducer /\ StampCurrent
  <2>1. next_thread_slot = 0
    BY DEF Init
  <2> QED
    BY <1>2, <2>1 DEF ThreadsInPlace, SingleProducer, StampCurrent
<1>4. \A s \in SlotIndex : thread_contexts[s] = FreshContext /\ delivered[s] = <<>>
  BY DEF Init
<1>5. SlotsInPlace
  BY <1>2, <1>4, RegisteredContext DEF SlotsInPlace, Untouched
<1>6. SummaryInPlace
  BY DEF Init, SummaryInPlace
<1>7. ASSUME NEW s \in SlotIndex PROVE Accounted(s)
  <2>1. Producing(s, "push") = 0 /\ Producing(s, "drop") = 0
    BY <1>2 DEF Producing
  <2>2. Len(delivered[s]) = 0 /\ Len(thread_contexts[s].queue) = 0
    <3>1. delivered[s] = <<>> /\ thread_contexts[s].queue = <<>>
      BY <1>4, RegisteredContext
    <3> QED
      BY <3>1
  <2>3. InFlight(s) = 0 /\ Finished(s) = 0
    BY <1>4, <2>1, <2>2, RegisteredContext DEF InFlight, Finished
  <2> QED
    BY <1>4, <2>2, <2>3, RegisteredContext DEF Accounted
<1> QED
  BY <1>1, <1>3, <1>5, <1>6, <1>7, IndInvParts

LEMMA ThreadKeepsInv ==
    ASSUME IndInv, NEW t \in Thread, Emit(t) \/ ThreadExit(t) \/ InEmit(t)
    PROVE  IndInv'
<1>1. /\ TypeOK /\ ThreadsInPlace /\ SingleProducer /\ SlotsInPlace
      /\ SummaryInPlace /\ StampCurrent /\ \A s \in SlotIndex : Accounted(s)
  BY IndInvParts
<1>2. TypeOK' /\ ThreadsInPlace' /\ SingleProducer' /\ SlotsInPlace' /\ StampCurrent'
  BY <1>1, ThreadStepType, PlacesOfThread, ProducerOfThread, SlotsOfThread, StampOfThread
<1>3. SummaryInPlace'
  BY <1>1, ThreadFrames DEF ThreadFrame, SummaryInPlace
<1>4. ASSUME NEW s \in SlotIndex PROVE Accounted(s)'
  BY <1>1, ThreadAccounted
<1> QED
  BY <1>2, <1>3, <1>4
     DEF IndInv, Accounting, SequencesInPlace, Accounted, StampCurrent

LEMMA ConsumerKeepsInv ==
    ASSUME IndInv, ConsumerStep
    PROVE  IndInv'
<1>1. /\ TypeOK /\ ThreadsInPlace /\ SingleProducer /\ SlotsInPlace
      /\ SummaryInPlace /\ StampCurrent /\ \A s \in SlotIndex : Accounted(s)
  BY IndInvParts
<1>2. ConsumerFrame /\ (~DrainPop => UNCHANGED <<thread_contexts, delivered>>)
  BY ConsumerFrames
<1>3. TypeOK'
  BY <1>1, ConsumerStepType
<1>4. ThreadsInPlace' /\ SingleProducer' /\ SummaryInPlace'
  BY <1>1, <1>2 DEF ConsumerFrame, ThreadsInPlace, SingleProducer, SummaryInPlace
<1>5. CASE ~DrainPop
  <2>1. SlotsInPlace' /\ StampCurrent'
    BY <1>1, <1>2, <1>5 DEF ConsumerFrame, SlotsInPlace, Untouched, StampCurrent
  <2>2. ASSUME NEW s \in SlotIndex PROVE Accounted(s)'
    BY <1>1, <1>2, <1>5
       DEF ConsumerFrame, Accounted, Finished, InFlight, Producing
  <2> QED
    BY <1>3, <1>4, <2>1, <2>2
       DEF IndInv, Accounting, SequencesInPlace, Accounted, StampCurrent
<1>6. CASE DrainPop
  <2>1. UNCHANGED <<thread, next_thread_slot>>
    BY <1>2 DEF ConsumerFrame
  <2>2. /\ consumer.i \in SlotIndex /\ thread_contexts[consumer.i].active
        /\ OnlyContext(consumer.i)
        /\ thread_contexts'[consumer.i].active = thread_contexts[consumer.i].active
        /\ thread_contexts'[consumer.i].next_thread_sequence
             = thread_contexts[consumer.i].next_thread_sequence
        /\ \A q \in SlotIndex \ {consumer.i} : delivered'[q] = delivered[q]
    BY <1>1, <1>6, DrainPopEffect
  <2>3. \A s \in SlotIndex :
          /\ thread_contexts'[s].active = thread_contexts[s].active
          /\ thread_contexts'[s].next_thread_sequence
               = thread_contexts[s].next_thread_sequence
          /\ s # consumer.i => thread_contexts'[s] = thread_contexts[s]
                               /\ delivered'[s] = delivered[s]
    BY <2>2 DEF OnlyContext
  <2>4. \A u \in Thread : thread[u].tls_context # NoSlot => thread[u].tls_context \in SlotIndex
    <3>1. \A u \in Thread : thread[u] \in ThreadType
      BY <1>1 DEF TypeOK
    <3> QED
      BY <3>1 DEF ThreadType
  <2>5. SlotsInPlace'
    <3>1. \A s \in SlotIndex : s >= next_thread_slot' => ~thread_contexts'[s].active
      BY <1>1, <2>1, <2>3 DEF SlotsInPlace
    <3>2. \A s \in SlotIndex : ~thread_contexts'[s].active => Untouched(s)'
      BY <1>1, <2>2, <2>3 DEF SlotsInPlace, Untouched
    <3>3. \A u \in Thread : thread'[u].tls_context # NoSlot =>
            (thread_contexts'[thread'[u].tls_context].active <=> thread'[u].pc # "activate")
      BY <1>1, <2>1, <2>3, <2>4 DEF SlotsInPlace
    <3> QED
      BY <3>1, <3>2, <3>3 DEF SlotsInPlace
  <2>6. StampCurrent'
    <3>1. \A u \in Thread : thread[u].pc = "push" => thread[u].tls_context \in SlotIndex
      BY <1>1, HasContext
    <3> QED
      BY <1>1, <2>1, <2>3, <3>1 DEF StampCurrent
  <2>7. ASSUME NEW s \in SlotIndex PROVE Accounted(s)'
    BY <1>1, <1>6, DrainPopAccounted
  <2> QED
    BY <1>3, <1>4, <2>5, <2>6, <2>7
       DEF IndInv, Accounting, SequencesInPlace, Accounted, StampCurrent
<1> QED
  BY <1>5, <1>6

LEMMA LibraryKeepsInv ==
    ASSUME IndInv, LibraryInit \/ LibraryDestroy
    PROVE  IndInv'
<1>1. /\ TypeOK /\ ThreadsInPlace /\ SingleProducer /\ SlotsInPlace
      /\ SummaryInPlace /\ StampCurrent /\ \A s \in SlotIndex : Accounted(s)
  BY IndInvParts
<1>2. UNCHANGED <<thread_contexts, delivered, next_thread_slot, thread>>
  BY LibraryFrames
<1>3. TypeOK'
  BY <1>1, LibraryStepType
<1>4. ThreadsInPlace' /\ SingleProducer' /\ SlotsInPlace' /\ StampCurrent'
  BY <1>1, <1>2 DEF ThreadsInPlace, SingleProducer, SlotsInPlace, Untouched, StampCurrent
<1>5. SummaryInPlace'
  BY <1>1, LibraryMoves, JoinEffect, SumGeneratedEffect, SumConsumedEffect, VerdictEffect
     DEF SummaryInPlace
<1>6. ASSUME NEW s \in SlotIndex PROVE Accounted(s)'
  BY <1>1, <1>2 DEF Accounted, Finished, InFlight, Producing
<1> QED
  BY <1>3, <1>4, <1>5, <1>6
     DEF IndInv, Accounting, SequencesInPlace, Accounted, StampCurrent

LEMMA StutterKeepsInv ==
    ASSUME IndInv, UNCHANGED vars
    PROVE  IndInv'
  BY DEF vars, IndInv, TypeOK, ThreadsInPlace, SingleProducer, SlotsInPlace, Untouched,
         SummaryInPlace, Accounting, SequencesInPlace, Finished, InFlight, Producing

LEMMA NextInv == IndInv /\ [Next]_vars => IndInv'
  BY ThreadKeepsInv, ConsumerKeepsInv, LibraryKeepsInv, StutterKeepsInv DEF Next

\* The strengthened invariant of the runtime holds in every reachable state.
THEOREM Invariance == Spec => []IndInv
  BY InitInv, NextInv, PTL DEF Spec

\* monitor_runtime.c keeps its contexts, its counters and its threads' states within
\* their types, every queue within SPSC_RING_CAPACITY included.
THEOREM TypeCorrect == Spec => []TypeOK
<1>1. IndInv => TypeOK
  BY DEF IndInv
<1> QED
  BY <1>1, Invariance, PTL

\* claim_thread_slot never lets two threads produce into one context.
THEOREM OneProducer == Spec => []SingleProducer
<1>1. IndInv => SingleProducer
  BY DEF IndInv
<1> QED
  BY <1>1, Invariance, PTL

\* emit_event_to_context and drain_context account for every event they stamp.
THEOREM EveryEventAccounted == Spec => []Accounting
<1>1. IndInv => Accounting
  BY DEF IndInv
<1> QED
  BY <1>1, Invariance, PTL

(***************************************************************************)
(* The contexts of monitor_runtime.c implement the bounded lossy channels  *)
(* of LossyStreams.                                                        *)
(***************************************************************************)

(***************************************************************************)
(* The numbers of a queue of events.                                       *)
(***************************************************************************)

LEMMA NumbersType ==
    ASSUME NEW q \in Seq(EventType)
    PROVE  Numbers(q) \in Seq(Nat) /\ Len(Numbers(q)) = Len(q)
           /\ \A i \in 1 .. Len(q) : Numbers(q)[i] = q[i].sequence
<1>1. DOMAIN q = 1 .. Len(q) /\ Len(q) \in Nat
  OBVIOUS
<1>2. \A i \in 1 .. Len(q) : q[i].sequence \in Nat
  <2>1. \A i \in 1 .. Len(q) : q[i] \in EventType
    OBVIOUS
  <2>2. \A e \in EventType : e.sequence \in Nat
    BY DEF EventType
  <2> QED
    BY <2>1, <2>2
<1>3. Numbers(q) = [i \in 1 .. Len(q) |-> q[i].sequence]
  BY <1>1 DEF Numbers
<1>4. Numbers(q) \in Seq(Nat)
  BY <1>1, <1>2, <1>3
<1> QED
  BY <1>1, <1>3, <1>4

LEMMA NumbersEmpty == Numbers(<<>>) = <<>>
  BY DEF Numbers

LEMMA NumbersAppend ==
    ASSUME NEW q \in Seq(EventType), NEW e \in EventType
    PROVE  Numbers(Append(q, e)) = Append(Numbers(q), e.sequence)
<1> DEFINE n == e.sequence
           r == Append(q, e)
           m == Numbers(q)
           a == Numbers(r)
           b == Append(m, n)
<1>1. n \in Nat
  BY DEF EventType
<1>2. m \in Seq(Nat) /\ Len(m) = Len(q) /\ \A i \in 1 .. Len(q) : m[i] = q[i].sequence
  BY NumbersType
<1>3. /\ r \in Seq(EventType) /\ Len(r) = Len(q) + 1 /\ r[Len(q) + 1] = e
      /\ \A i \in 1 .. Len(q) : r[i] = q[i]
  BY AppendProperties
<1>4. a \in Seq(Nat) /\ Len(a) = Len(r) /\ \A i \in 1 .. Len(r) : a[i] = r[i].sequence
  BY <1>3, NumbersType
<1>5. /\ b \in Seq(Nat) /\ Len(b) = Len(m) + 1 /\ b[Len(m) + 1] = n
      /\ \A i \in 1 .. Len(m) : b[i] = m[i]
  <2> HIDE DEF m, n
  <2> QED
    BY <1>1, <1>2, AppendProperties
<1>6. Len(q) \in Nat
  OBVIOUS
<1> HIDE DEF a, b, r, m
<1>7. ASSUME NEW i \in 1 .. Len(a) PROVE a[i] = b[i]
  <2>1. a[i] = r[i].sequence /\ (i \in 1 .. Len(q) \/ i = Len(q) + 1)
    BY <1>3, <1>4, <1>6
  <2>2. CASE i \in 1 .. Len(q)
    BY <1>2, <1>3, <1>5, <2>1, <2>2
  <2>3. CASE i = Len(q) + 1
    BY <1>2, <1>3, <1>5, <2>1, <2>3
  <2> QED
    BY <2>1, <2>2, <2>3
<1>8. a = b
  BY <1>2, <1>3, <1>4, <1>5, <1>7, SeqEqual
<1> QED
  BY <1>8 DEF a, b, r, m

LEMMA NumbersTail ==
    ASSUME NEW q \in Seq(EventType), q # <<>>
    PROVE  Numbers(Tail(q)) = Tail(Numbers(q)) /\ Head(Numbers(q)) = Head(q).sequence
           /\ Numbers(q) # <<>>
<1> DEFINE a == Numbers(Tail(q))
           b == Tail(Numbers(q))
<1>0. Len(q) \in Nat /\ Len(q) > 0 /\ Tail(q) \in Seq(EventType) /\ Len(Tail(q)) = Len(q) - 1
  OBVIOUS
<1>6. Numbers(q) \in Seq(Nat) /\ Len(Numbers(q)) = Len(q) /\ Numbers(q) # <<>>
  BY NumbersType, <1>0
<1>1. a \in Seq(Nat) /\ Len(a) = Len(q) - 1
  BY NumbersType, <1>0
<1>2. b \in Seq(Nat) /\ Len(b) = Len(q) - 1
  BY <1>6, <1>0
<1>3. ASSUME NEW i \in 1 .. Len(q) - 1 PROVE a[i] = b[i]
  <2>1. a[i] = Tail(q)[i].sequence
    BY NumbersType, <1>0
  <2>2. b[i] = Numbers(q)[i + 1]
    BY <1>6, <1>0
  <2>3. Tail(q)[i] = q[i+1] /\ i + 1 \in 1 .. Len(q)
    BY <1>0
  <2> QED BY <2>1, <2>2, <2>3, NumbersType
<1>4. Head(Numbers(q)) = Head(q).sequence
  BY <1>0, <1>6, NumbersType
<1> HIDE DEF a, b
<1>5. a = b
  BY <1>1, <1>2, <1>3, SeqEqual
<1> QED
  BY <1>4, <1>5, <1>6 DEF a, b
(***************************************************************************)
(* The channels, one slot at a time.                                       *)
(***************************************************************************)

NextOf(s) == thread_contexts[s].next_thread_sequence - Producing(s, "push")
PendingOf(s) == Numbers(thread_contexts[s].queue)
DeliveredOf(s) == Numbers(delivered[s])
LostOf(s) == thread_contexts[s].dropped + Producing(s, "drop")

\* Nothing happens on this channel.
Still(s) == /\ NextOf(s)' = NextOf(s) /\ PendingOf(s)' = PendingOf(s)
            /\ DeliveredOf(s)' = DeliveredOf(s) /\ LostOf(s)' = LostOf(s)

LEMMA StutterMaps ==
    ASSUME \A s \in SlotIndex : Still(s)
    PROVE  UNCHANGED Streams!vars
<1>1. /\ [s \in SlotIndex |-> NextOf(s)]' = [s \in SlotIndex |-> NextOf(s)]
      /\ [s \in SlotIndex |-> PendingOf(s)]' = [s \in SlotIndex |-> PendingOf(s)]
      /\ [s \in SlotIndex |-> DeliveredOf(s)]' = [s \in SlotIndex |-> DeliveredOf(s)]
      /\ [s \in SlotIndex |-> LostOf(s)]' = [s \in SlotIndex |-> LostOf(s)]
  BY DEF Still
<1> QED
  BY <1>1 DEF Streams!vars, NextOf, PendingOf, DeliveredOf, LostOf

\* One channel accepts an event, the others are still.
LEMMA AcceptMaps ==
    ASSUME NEW s \in SlotIndex, \A q \in SlotIndex \ {s} : Still(q),
           Len(PendingOf(s)) < Capacity, NextOf(s)' = NextOf(s) + 1,
           PendingOf(s)' = Append(PendingOf(s), NextOf(s)),
           DeliveredOf(s)' = DeliveredOf(s), LostOf(s)' = LostOf(s)
    PROVE  Streams!Accept(s)
<1> DEFINE n == [q \in SlotIndex |-> NextOf(q)]
           p == [q \in SlotIndex |-> PendingOf(q)]
           d == [q \in SlotIndex |-> DeliveredOf(q)]
           l == [q \in SlotIndex |-> LostOf(q)]
<1>1. /\ Len(p[s]) < Capacity
      /\ n' = [n EXCEPT ![s] = @ + 1]
      /\ p' = [p EXCEPT ![s] = Append(@, n[s])]
      /\ UNCHANGED <<d, l>>
  BY DEF Still
<1> QED
  BY <1>1 DEF Streams!Accept, NextOf, PendingOf, DeliveredOf, LostOf

LEMMA LoseMaps ==
    ASSUME NEW s \in SlotIndex, \A q \in SlotIndex \ {s} : Still(q),
           Len(PendingOf(s)) = Capacity, NextOf(s)' = NextOf(s) + 1,
           LostOf(s)' = LostOf(s) + 1,
           DeliveredOf(s)' = DeliveredOf(s), PendingOf(s)' = PendingOf(s)
    PROVE  Streams!Lose(s)
<1> DEFINE n == [q \in SlotIndex |-> NextOf(q)]
           p == [q \in SlotIndex |-> PendingOf(q)]
           d == [q \in SlotIndex |-> DeliveredOf(q)]
           l == [q \in SlotIndex |-> LostOf(q)]
<1>1. /\ Len(p[s]) = Capacity
      /\ n' = [n EXCEPT ![s] = @ + 1]
      /\ l' = [l EXCEPT ![s] = @ + 1]
      /\ UNCHANGED <<p, d>>
  BY DEF Still
<1> QED
  BY <1>1 DEF Streams!Lose, NextOf, PendingOf, DeliveredOf, LostOf

LEMMA DeliverMaps ==
    ASSUME NEW s \in SlotIndex, \A q \in SlotIndex \ {s} : Still(q),
           PendingOf(s) # <<>>,
           DeliveredOf(s)' = Append(DeliveredOf(s), Head(PendingOf(s))),
           PendingOf(s)' = Tail(PendingOf(s)),
           NextOf(s)' = NextOf(s), LostOf(s)' = LostOf(s)
    PROVE  Streams!Deliver(s)
<1> DEFINE n == [q \in SlotIndex |-> NextOf(q)]
           p == [q \in SlotIndex |-> PendingOf(q)]
           d == [q \in SlotIndex |-> DeliveredOf(q)]
           l == [q \in SlotIndex |-> LostOf(q)]
<1>1. /\ p[s] # <<>>
      /\ d' = [d EXCEPT ![s] = Append(@, Head(p[s]))]
      /\ p' = [p EXCEPT ![s] = Tail(@)]
      /\ UNCHANGED <<n, l>>
  BY DEF Still
<1> QED
  BY <1>1 DEF Streams!Deliver, NextOf, PendingOf, DeliveredOf, LostOf

(***************************************************************************)
(* Every step of the runtime is a step of one channel, or of none.         *)
(***************************************************************************)

LEMMA StillSame ==
    ASSUME NEW s \in SlotIndex, UNCHANGED delivered,
           thread_contexts'[s] = thread_contexts[s],
           Producing(s, "push")' = Producing(s, "push"),
           Producing(s, "drop")' = Producing(s, "drop")
    PROVE  Still(s)
  BY DEF Still, NextOf, PendingOf, DeliveredOf, LostOf

LEMMA StillElsewhere ==
    ASSUME NEW t \in Thread, OnlyThread(t), UNCHANGED delivered,
           OnlyContext(thread[t].tls_context),
           thread'[t].tls_context \in {NoSlot, thread[t].tls_context},
           NEW s \in SlotIndex, s # thread[t].tls_context
    PROVE  Still(s)
<1>1. /\ Producing(s, "push")' = Producing(s, "push")
      /\ Producing(s, "drop")' = Producing(s, "drop")
  BY ProducingElsewhere
<1>2. thread_contexts'[s] = thread_contexts[s]
  BY DEF OnlyContext
<1> QED
  BY <1>1, <1>2, StillSame

LEMMA RegistrationStill ==
    ASSUME TypeOK, NEW t \in Thread, Registration(t), UNCHANGED delivered,
           NEW s \in SlotIndex
    PROVE  Still(s)
<1>1. UNCHANGED thread_contexts
  BY RegistrationFrames
<1>2. /\ OnlyThread(t)
      /\ thread[t].pc # "push" /\ thread[t].pc # "drop"
      /\ thread'[t].pc # "push" /\ thread'[t].pc # "drop"
  BY RegistrationEffect
<1> QED
  BY <1>1, <1>2, ProducingQuiet, StillSame

LEMMA ActivateStill ==
    ASSUME TypeOK, ThreadsInPlace, SlotsInPlace, NEW t \in Thread, Activate(t),
           NEW s \in SlotIndex
    PROVE  Still(s)
<1>1. UNCHANGED delivered
  BY DEF Activate
<1>2. /\ OnlyThread(t) /\ OnlyContext(thread[t].tls_context)
      /\ thread[t].pc = "activate" /\ thread'[t].pc = "setspecific"
      /\ thread[t].tls_context \in SlotIndex
      /\ thread_contexts'[thread[t].tls_context] = [FreshContext EXCEPT !.active = TRUE]
  BY ActivateEffect
<1>3. /\ Producing(s, "push")' = Producing(s, "push")
      /\ Producing(s, "drop")' = Producing(s, "drop")
  BY <1>2, ProducingQuiet
<1>4. CASE s # thread[t].tls_context
  BY <1>1, <1>2, <1>3, <1>4, StillSame DEF OnlyContext
<1>5. CASE s = thread[t].tls_context
  <2>1. thread_contexts[s] = FreshContext
    BY <1>2, <1>5 DEF SlotsInPlace, Untouched
  <2>2. LET c == thread_contexts[s]
            d == thread_contexts'[s] IN
        /\ d.next_thread_sequence = c.next_thread_sequence
        /\ d.queue = c.queue /\ d.dropped = c.dropped
    BY <1>2, <1>5, <2>1, RegisteredContext
  <2> QED
    BY <1>1, <1>3, <2>2 DEF Still, NextOf, PendingOf, DeliveredOf, LostOf
<1> QED
  BY <1>4, <1>5

\* A stamp is taken, but the event has not met the queue yet.
LEMMA StampStill ==
    ASSUME TypeOK, ThreadsInPlace, SingleProducer, NEW t \in Thread, Stamp(t),
           NEW s \in SlotIndex
    PROVE  Still(s)
<1>1. UNCHANGED delivered
  BY DEF Stamp
<1>2. /\ OnlyThread(t) /\ OnlyContext(thread[t].tls_context)
      /\ thread'[t].tls_context = thread[t].tls_context
      /\ thread[t].tls_context \in SlotIndex
  BY StampEffect DEF SameRegistration
<1>3. CASE s # thread[t].tls_context
  BY <1>1, <1>2, <1>3, StillElsewhere
<1>4. CASE s = thread[t].tls_context
  <2>1. Producing(s, "push") = 0 /\ Producing(s, "drop") = 0
    BY <1>4, <1>2, StampEffect, ProducingHere
  <2>2. Producing(s, "push")' = 1 /\ Producing(s, "drop")' = 0
    BY <1>4, <1>2, StampEffect, ProducingAfter
  <2> DEFINE n == thread_contexts[s].next_thread_sequence
  <2>3. LET c == thread_contexts[s]
            d == thread_contexts'[s] IN
        d.next_thread_sequence = n + 1 /\ d.queue = c.queue /\ d.dropped = c.dropped
    BY <1>4, StampEffect
  <2>4. n \in Nat
    BY ContextNumbers
  <2>5. NextOf(s) = n - 0
    BY <2>1 DEF NextOf
  <2>8. NextOf(s)' = (n + 1) - 1
    BY <2>2, <2>3 DEF NextOf
  <2> HIDE DEF n
  <2>6. NextOf(s)' = NextOf(s)
    BY <2>4, <2>5, <2>8
  <2>7. LostOf(s)' = LostOf(s) /\ PendingOf(s)' = PendingOf(s)
        /\ DeliveredOf(s)' = DeliveredOf(s)
    BY <1>1, <2>1, <2>2, <2>3 DEF LostOf, PendingOf, DeliveredOf
  <2> QED
    BY <2>6, <2>7 DEF Still
<1> QED
  BY <1>3, <1>4

\* A full queue refuses the event: it is lost, whenever the loss will be counted.
LEMMA PushFullLoses ==
    ASSUME TypeOK, ThreadsInPlace, SingleProducer, NEW t \in Thread, PushFull(t),
           NEW s, s = thread[t].tls_context
    PROVE  s \in SlotIndex /\ Streams!Lose(s)
<1> DEFINE n == thread_contexts[s].next_thread_sequence
           k == thread_contexts[s].dropped
<1>1. UNCHANGED <<delivered, thread_contexts>>
  BY DEF PushFull, contextVars
<1>2. /\ OnlyThread(t) /\ thread'[t].tls_context = s /\ s \in SlotIndex /\ s # NoSlot
      /\ Len(thread_contexts[s].queue) >= Capacity
      /\ thread[t].pc = "push" /\ thread'[t].pc = "drop"
  BY PushFullEffect DEF SameRegistration
<1>3. Producing(s, "push") = 1 /\ Producing(s, "drop") = 0
  BY <1>2, ProducingHere
<1>4. Producing(s, "push")' = 0 /\ Producing(s, "drop")' = 1
  <2>1. Producing(s, "push")' = IF thread'[t].pc = "push" THEN 1 ELSE 0
    BY <1>2, ProducingAfter
  <2>2. Producing(s, "drop")' = IF thread'[t].pc = "drop" THEN 1 ELSE 0
    BY <1>2, ProducingAfter
  <2> QED
    BY <1>2, <2>1, <2>2
<1>5. Len(PendingOf(s)) = Capacity
  <2>1. /\ Len(thread_contexts[s].queue) <= Capacity
        /\ thread_contexts[s].queue \in Seq(EventType)
        /\ Len(thread_contexts[s].queue) \in Nat
    BY <1>2, ContextNumbers DEF TypeOK
  <2>2. Len(PendingOf(s)) = Len(thread_contexts[s].queue)
    BY <2>1, NumbersType DEF PendingOf
  <2> QED
    BY <1>2, <2>1, <2>2
<1>6. n \in Nat /\ k \in Nat
  BY <1>2, ContextNumbers
<1>7. NextOf(s) = n - 1 /\ NextOf(s)' = n - 0 /\ LostOf(s) = k + 0 /\ LostOf(s)' = k + 1
  BY <1>1, <1>3, <1>4 DEF NextOf, LostOf
<1>8. PendingOf(s)' = PendingOf(s) /\ DeliveredOf(s)' = DeliveredOf(s)
  BY <1>1 DEF PendingOf, DeliveredOf
<1>9. \A q \in SlotIndex \ {s} : Still(q)
  BY <1>1, <1>2, ProducingElsewhere, StillSame
<1> HIDE DEF n, k
<1>10. NextOf(s)' = NextOf(s) + 1 /\ LostOf(s)' = LostOf(s) + 1
  BY <1>6, <1>7
<1> QED
  BY <1>2, <1>5, <1>8, <1>9, <1>10, LoseMaps

\* The queue takes the event with the number stamped on it, the next one.
LEMMA PushAccepts ==
    ASSUME TypeOK, ThreadsInPlace, SingleProducer, StampCurrent, NEW t \in Thread, Push(t),
           NEW s, s = thread[t].tls_context
    PROVE  s \in SlotIndex /\ Streams!Accept(s)
<1> DEFINE n == thread_contexts[s].next_thread_sequence
           q == thread_contexts[s].queue
           e == [what |-> thread[t].what, sequence |-> thread[t].sequence]
<1>1. UNCHANGED delivered
  BY DEF Push
<1>2. /\ OnlyThread(t) /\ OnlyContext(s) /\ s \in SlotIndex /\ s # NoSlot
      /\ thread'[t].tls_context \in {NoSlot, s} /\ thread'[t].pc \in {"stamp", "idle"}
      /\ thread[t].pc = "push" /\ Len(q) < Capacity /\ e \in EventType
  BY PushEffect DEF EmissionOver
<1>3. Producing(s, "push") = 1 /\ Producing(s, "drop") = 0
  BY <1>2, ProducingHere
<1>4. Producing(s, "push")' = 0 /\ Producing(s, "drop")' = 0
  <2>1. thread'[t].pc # "push" /\ thread'[t].pc # "drop"
    BY <1>2
  <2>2. Producing(s, "push")' = IF thread'[t].pc = "push" THEN 1 ELSE 0
    BY <1>2, <2>1, ProducingAfter
  <2>3. Producing(s, "drop")' = IF thread'[t].pc = "drop" THEN 1 ELSE 0
    BY <1>2, <2>1, ProducingAfter
  <2> QED
    BY <2>1, <2>2, <2>3
<1>5. LET d == thread_contexts'[s] IN
      /\ d.next_thread_sequence = n /\ d.queue = Append(q, e)
      /\ d.dropped = thread_contexts[s].dropped
  BY PushEffect
<1>6. n \in Nat /\ q \in Seq(EventType)
  BY <1>2, ContextNumbers
<1>7. e.sequence = n - 1
  <2>1. thread[t].sequence = n - 1
    BY <1>2 DEF StampCurrent
  <2> QED
    BY <2>1
<1>8. NextOf(s) = n - 1 /\ NextOf(s)' = n - 0
  BY <1>3, <1>4, <1>5 DEF NextOf
<1>9. LostOf(s)' = LostOf(s) /\ DeliveredOf(s)' = DeliveredOf(s)
  BY <1>1, <1>3, <1>4, <1>5 DEF LostOf, DeliveredOf
<1>10. PendingOf(s) = Numbers(q) /\ PendingOf(s)' = Numbers(Append(q, e))
  BY <1>5 DEF PendingOf
<1>11. \A p \in SlotIndex \ {s} : Still(p)
  BY <1>1, <1>2, StillElsewhere
<1> HIDE DEF n, q, e
<1>12. NextOf(s)' = NextOf(s) + 1
  BY <1>6, <1>8
<1>13. PendingOf(s)' = Append(PendingOf(s), NextOf(s)) /\ Len(PendingOf(s)) < Capacity
  BY <1>2, <1>6, <1>7, <1>8, <1>10, NumbersType, NumbersAppend
<1> QED
  BY <1>2, <1>9, <1>11, <1>12, <1>13, AcceptMaps

\* A loss is counted that the channel has already seen.
LEMMA DropStill ==
    ASSUME TypeOK, ThreadsInPlace, SingleProducer, NEW t \in Thread, Drop(t),
           NEW s \in SlotIndex
    PROVE  Still(s)
<1>1. UNCHANGED delivered
  BY DEF Drop
<1>2. /\ OnlyThread(t) /\ OnlyContext(thread[t].tls_context)
      /\ thread'[t].tls_context \in {NoSlot, thread[t].tls_context}
      /\ thread'[t].pc \in {"stamp", "idle"}
      /\ thread[t].tls_context \in SlotIndex
  BY DropEffect DEF EmissionOver
<1>3. CASE s # thread[t].tls_context
  BY <1>1, <1>2, <1>3, StillElsewhere
<1>4. CASE s = thread[t].tls_context
  <2>1. Producing(s, "push") = 0 /\ Producing(s, "drop") = 1
    BY <1>4, <1>2, DropEffect, ProducingHere
  <2>2. Producing(s, "push")' = 0 /\ Producing(s, "drop")' = 0
    BY <1>4, <1>2, ProducingAfter
  <2> DEFINE k == thread_contexts[s].dropped
  <2>3. LET c == thread_contexts[s]
            d == thread_contexts'[s] IN
        /\ d.next_thread_sequence = c.next_thread_sequence
        /\ d.queue = c.queue /\ d.dropped = k + 1
    BY <1>4, DropEffect
  <2>4. k \in Nat
    BY ContextNumbers
  <2>5. LostOf(s) = k + 1 /\ LostOf(s)' = k + 1 + 0
    BY <2>1, <2>2, <2>3 DEF LostOf
  <2> HIDE DEF k
  <2>6. LostOf(s)' = LostOf(s)
    BY <2>4, <2>5
  <2>7. NextOf(s)' = NextOf(s) /\ PendingOf(s)' = PendingOf(s)
        /\ DeliveredOf(s)' = DeliveredOf(s)
    BY <1>1, <2>1, <2>2, <2>3 DEF NextOf, PendingOf, DeliveredOf
  <2> QED
    BY <2>6, <2>7 DEF Still
<1> QED
  BY <1>3, <1>4

LEMMA DrainPopDelivers ==
    ASSUME TypeOK, DrainPop, NEW s, s = consumer.i
    PROVE  s \in SlotIndex /\ Streams!Deliver(s)
<1> DEFINE q == thread_contexts[s].queue
<1>1. UNCHANGED thread
  BY DEF DrainPop
<1>2. \A p : Producing(p, "push")' = Producing(p, "push")
             /\ Producing(p, "drop")' = Producing(p, "drop")
  BY <1>1 DEF Producing
<1>3. /\ s \in SlotIndex /\ OnlyContext(s)
      /\ q \in Seq(EventType) /\ q # <<>>
      /\ thread_contexts'[s].queue = Tail(q)
      /\ thread_contexts'[s].next_thread_sequence = thread_contexts[s].next_thread_sequence
      /\ thread_contexts'[s].dropped = thread_contexts[s].dropped
      /\ delivered'[s] = Append(delivered[s], Head(q))
      /\ \A p \in SlotIndex \ {s} : delivered'[p] = delivered[p]
  BY DrainPopEffect
<1>4. \A p \in SlotIndex \ {s} : Still(p)
  BY <1>2, <1>3 DEF Still, NextOf, PendingOf, DeliveredOf, LostOf, OnlyContext
<1>5. NextOf(s)' = NextOf(s) /\ LostOf(s)' = LostOf(s)
  BY <1>2, <1>3 DEF NextOf, LostOf
<1>6. Head(q) \in EventType /\ delivered[s] \in Seq(EventType)
  BY <1>3, ContextNumbers
<1>7. PendingOf(s) = Numbers(q) /\ PendingOf(s)' = Numbers(Tail(q))
  BY <1>3 DEF PendingOf
<1>8. /\ DeliveredOf(s) = Numbers(delivered[s])
      /\ DeliveredOf(s)' = Numbers(Append(delivered[s], Head(q)))
  BY <1>3 DEF DeliveredOf
<1> HIDE DEF q
<1>9. /\ PendingOf(s) # <<>> /\ PendingOf(s)' = Tail(PendingOf(s))
      /\ Head(PendingOf(s)) = Head(q).sequence
  BY <1>3, <1>7, NumbersTail
<1>10. DeliveredOf(s)' = Append(DeliveredOf(s), Head(PendingOf(s)))
  BY <1>6, <1>8, <1>9, NumbersAppend
<1> QED
  BY <1>3, <1>4, <1>5, <1>9, <1>10, DeliverMaps

LEMMA InitMaps == Init => Streams!Init
<1> SUFFICES ASSUME Init PROVE Streams!Init
  OBVIOUS
<1>1. \A s \in SlotIndex : thread_contexts[s] = FreshContext /\ delivered[s] = <<>>
  BY DEF Init
<1>2. \A s \in SlotIndex : Producing(s, "push") = 0 /\ Producing(s, "drop") = 0
  BY DEF Init, Producing
<1>3. \A s \in SlotIndex : /\ NextOf(s) = 0 /\ PendingOf(s) = <<>>
                           /\ DeliveredOf(s) = <<>> /\ LostOf(s) = 0
  BY <1>1, <1>2, RegisteredContext, NumbersEmpty
     DEF NextOf, PendingOf, DeliveredOf, LostOf
<1>4. /\ [s \in SlotIndex |-> NextOf(s)] = [s \in SlotIndex |-> 0]
      /\ [s \in SlotIndex |-> PendingOf(s)] = [s \in SlotIndex |-> <<>>]
      /\ [s \in SlotIndex |-> DeliveredOf(s)] = [s \in SlotIndex |-> <<>>]
      /\ [s \in SlotIndex |-> LostOf(s)] = [s \in SlotIndex |-> 0]
  BY <1>3
<1> QED
  BY <1>4 DEF Streams!Init, NextOf, PendingOf, DeliveredOf, LostOf

LEMMA ThreadMaps ==
    ASSUME IndInv, NEW t \in Thread, Emit(t) \/ ThreadExit(t) \/ InEmit(t)
    PROVE  Streams!Next \/ UNCHANGED Streams!vars
<1>1. TypeOK /\ ThreadsInPlace /\ SingleProducer /\ SlotsInPlace /\ StampCurrent
  BY IndInvParts
<1>2. UNCHANGED delivered
  BY ThreadFrames DEF ThreadFrame
<1>3. CASE Registration(t) \/ Activate(t) \/ Stamp(t) \/ Drop(t)
  <2>1. ASSUME NEW s \in SlotIndex PROVE Still(s)
    BY <1>1, <1>2, <1>3, RegistrationStill, ActivateStill, StampStill, DropStill
  <2> QED
    BY <2>1, StutterMaps
<1>4. CASE PushFull(t)
  BY <1>1, <1>4, PushFullLoses DEF Streams!Next
<1>5. CASE Push(t)
  BY <1>1, <1>5, PushAccepts DEF Streams!Next
<1> QED
  BY <1>3, <1>4, <1>5, ThreadCases

LEMMA OthersMap ==
    ASSUME UNCHANGED <<thread_contexts, delivered, thread>>
    PROVE  UNCHANGED Streams!vars
<1>1. ASSUME NEW s \in SlotIndex PROVE Still(s)
  BY DEF Still, NextOf, PendingOf, DeliveredOf, LostOf, Producing
<1> QED
  BY <1>1, StutterMaps

LEMMA NextMaps == IndInv /\ [Next]_vars => [Streams!Next]_(Streams!vars)
<1> SUFFICES ASSUME IndInv, [Next]_vars
             PROVE  Streams!Next \/ UNCHANGED Streams!vars
  OBVIOUS
<1>1. TypeOK
  BY IndInvParts
<1>2. CASE LibraryInit \/ LibraryDestroy
  BY <1>2, LibraryFrames, OthersMap
<1>3. CASE ConsumerStep
  <2>1. CASE DrainPop
    BY <1>1, <2>1, DrainPopDelivers DEF Streams!Next
  <2>2. CASE ~DrainPop
    BY <1>3, <2>2, ConsumerFrames, OthersMap DEF ConsumerFrame
  <2> QED
    BY <2>1, <2>2
<1>4. CASE \E t \in Thread : Emit(t) \/ ThreadExit(t) \/ InEmit(t)
  BY <1>4, ThreadMaps
<1>5. CASE UNCHANGED vars
  BY <1>5, OthersMap DEF vars
<1> QED
  BY <1>2, <1>3, <1>4, <1>5 DEF Next

\* emit_event_to_context, drain_context and register_current_thread implement the
\* bounded lossy channel for any number of threads and slots: every stamp is used
\* once, events are delivered once and in order, only a full queue loses one, and
\* registering in a slot disturbs no channel.
THEOREM StreamsRefinement == Spec => StreamsSpec
  BY InitMaps, NextMaps, Invariance, PTL DEF Spec, StreamsSpec, Streams!Spec
=============================================================================
