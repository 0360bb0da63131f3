-------------------------- MODULE RingBufferProofs --------------------------
(***************************************************************************)
(* The ring buffer is race free and implements a bounded FIFO queue for    *)
(* every capacity, every counter width that the capacity divides and every *)
(* set of events.                                                          *)
(***************************************************************************)
EXTENDS RingBuffer, TLAPS

(***************************************************************************)
(* Arithmetic: division with remainder.                                    *)
(***************************************************************************)

\* A nonzero multiple of m is at least m away from zero.
LEMMA MultipleBound ==
    ASSUME NEW m \in Nat \ {0}, NEW k \in Int
    PROVE  /\ k >= 1 => m * k >= m
           /\ k <= -1 => m * k <= -m
  OBVIOUS

\* Quotient and remainder recombine.
LEMMA DivMod ==
    ASSUME NEW m \in Nat \ {0}, NEW x \in Int
    PROVE  /\ x \div m \in Int
           /\ x % m \in 0 .. m - 1
           /\ x = m * (x \div m) + (x % m)
  OBVIOUS

\* The remainder is unique.
LEMMA ModUnique ==
    ASSUME NEW m \in Nat \ {0}, NEW q \in Int, NEW r \in 0 .. m - 1
    PROVE  (m * q + r) % m = r
<1> DEFINE x == m * q + r
           p == x \div m
           s == x % m
<1>1. x \in Int
  OBVIOUS
<1>2. p \in Int /\ s \in 0 .. m - 1 /\ x = m * p + s
  BY <1>1, DivMod
<1>3. m * (q - p) = s - r
  BY <1>2
<1> HIDE DEF x, p, s
<1>4. q - p < 1 /\ q - p > -1
  BY <1>2, <1>3, MultipleBound
<1>5. q = p
  BY <1>2, <1>4
<1>6. s = r
  BY <1>2, <1>3, <1>5
<1> QED
  BY <1>6 DEF s, x

\* A multiple of m does not change the remainder.
LEMMA ModMultiple ==
    ASSUME NEW m \in Nat \ {0}, NEW x \in Int, NEW k \in Int
    PROVE  (x + m * k) % m = x % m
<1> DEFINE q == x \div m
           r == x % m
<1>1. q \in Int /\ r \in 0 .. m - 1 /\ x = m * q + r
  BY DivMod
<1>2. x + m * k = m * (q + k) + r /\ q + k \in Int
  BY <1>1
<1> HIDE DEF q, r
<1>3. (m * (q + k) + r) % m = r
  BY <1>1, <1>2, ModUnique
<1> QED
  BY <1>2, <1>3 DEF r

\* Two numbers less than m apart have different remainders.
LEMMA ModDistinct ==
    ASSUME NEW m \in Nat \ {0}, NEW a \in Int, NEW d \in 1 .. m - 1
    PROVE  (a + d) % m # a % m
<1> DEFINE q == a \div m
           r == a % m
<1>1. q \in Int /\ r \in 0 .. m - 1 /\ a = m * q + r
  BY DivMod
<1>2. CASE r + d < m
  <2>1. a + d = m * q + (r + d) /\ r + d \in 0 .. m - 1
    BY <1>1, <1>2
  <2>2. (a + d) % m = r + d
    BY <2>1, <1>1, ModUnique
  <2> QED
    BY <2>2, <1>1
<1>3. CASE r + d >= m
  <2>1. a + d = m * (q + 1) + (r + d - m)
    BY <1>1
  <2>2. r + d - m \in 0 .. m - 1 /\ q + 1 \in Int
    BY <1>1, <1>3
  <2> HIDE DEF q, r
  <2>3. (a + d) % m = r + d - m
    BY <2>1, <2>2, <1>1, ModUnique
  <2> QED
    BY <2>3, <1>1 DEF r
<1> QED
  BY <1>1, <1>2, <1>3

(***************************************************************************)
(* The operators of RingBuffer as linear arithmetic on the counters.       *)
(***************************************************************************)

\* The counter range holds the ring at least twice.
LEMMA Sizes ==
    /\ Capacity \in Nat \ {0}
    /\ CounterMod \in Nat \ {0}
    /\ Capacity < CounterMod
<1>1. PICK k \in 2 .. CounterMod : CounterMod = Capacity * k
  BY CapacityAssumption
<1>2. k >= 2 /\ k \in Int /\ Capacity \in Nat \ {0}
  BY <1>1, CapacityAssumption
<1>3. Capacity * k = Capacity + Capacity * (k - 1)
  BY <1>2
<1>4. Capacity * (k - 1) >= Capacity
  BY <1>2, MultipleBound
<1> QED
  BY <1>1, <1>2, <1>3, <1>4, CapacityAssumption

\* Unsigned subtraction, without the modulus.
LEMMA DistanceLinear ==
    ASSUME NEW a \in Counter, NEW b \in Counter
    PROVE  /\ Distance(a, b) = IF b <= a THEN a - b ELSE a - b + CounterMod
           /\ Distance(a, b) \in 0 .. CounterMod - 1
<1>1. CASE b <= a
  <2>1. a - b \in 0 .. CounterMod - 1
    BY <1>1, Sizes DEF Counter
  <2> QED
    BY <1>1, <2>1, Sizes DEF Distance, Counter
<1>2. CASE ~(b <= a)
  <2> DEFINE d == a - b + CounterMod
  <2>1. d \in 0 .. CounterMod - 1 /\ a - b = CounterMod * (-1) + d
    BY <1>2, Sizes DEF Counter
  <2> HIDE DEF d
  <2>2. (a - b) % CounterMod = d
    BY <2>1, Sizes, ModUnique
  <2> QED
    BY <1>2, <2>1, <2>2 DEF Distance, d
<1> QED
  BY <1>1, <1>2

\* Unsigned increment, without the modulus.
LEMMA IncrementLinear ==
    ASSUME NEW c \in Counter
    PROVE  /\ Increment(c) = IF c = CounterMod - 1 THEN 0 ELSE c + 1
           /\ Increment(c) \in Counter
<1>1. CASE c = CounterMod - 1
  <2>1. c + 1 = CounterMod * 1 + 0 /\ 0 \in 0 .. CounterMod - 1
    BY <1>1, Sizes DEF Counter
  <2>2. (c + 1) % CounterMod = 0
    BY <2>1, Sizes, ModUnique
  <2> QED
    BY <1>1, <2>2, Sizes DEF Increment, Counter
<1>2. CASE c # CounterMod - 1
  <2>1. c + 1 \in 0 .. CounterMod - 1
    BY <1>2, Sizes DEF Counter
  <2> QED
    BY <1>2, <2>1, Sizes DEF Increment, Counter
<1> QED
  BY <1>1, <1>2

\* Walking k steps from a counter towards a later one.
LEMMA Walk ==
    ASSUME NEW c \in Counter, NEW newest \in Counter,
           NEW k \in 0 .. Distance(newest, c)
    PROVE  /\ (c + k) % CounterMod \in Counter
           /\ Distance((c + k) % CounterMod, c) = k
           /\ Distance(newest, (c + k) % CounterMod) = Distance(newest, c) - k
<1> DEFINE t == (c + k) % CounterMod
<1>1. Distance(newest, c) \in 0 .. CounterMod - 1
  BY DistanceLinear
<1>2. k \in 0 .. CounterMod - 1
  BY <1>1, Sizes
<1>3. t = IF c + k < CounterMod THEN c + k ELSE c + k - CounterMod
  <2>1. CASE c + k < CounterMod
    <3>1. c + k \in 0 .. CounterMod - 1
      BY <2>1, <1>2, Sizes DEF Counter
    <3> QED
      BY <2>1, <3>1, Sizes
  <2>2. CASE ~(c + k < CounterMod)
    <3> DEFINE r == c + k - CounterMod
    <3>1. r \in 0 .. CounterMod - 1 /\ c + k = CounterMod * 1 + r
      BY <2>2, <1>2, Sizes DEF Counter
    <3> HIDE DEF r
    <3>2. (c + k) % CounterMod = r
      BY <3>1, Sizes, ModUnique
    <3> QED
      BY <2>2, <3>2 DEF r
  <2> QED
    BY <2>1, <2>2
<1> HIDE DEF t
<1>4. t \in Counter
  BY <1>2, <1>3, Sizes DEF Counter
<1>5. Distance(newest, c) = IF c <= newest THEN newest - c
                             ELSE newest - c + CounterMod
  BY DistanceLinear
<1>6. Distance(newest, t) = IF t <= newest THEN newest - t
                             ELSE newest - t + CounterMod
  BY <1>4, DistanceLinear
<1>7. Distance(t, c) = IF c <= t THEN t - c ELSE t - c + CounterMod
  BY <1>4, DistanceLinear
<1>8. /\ c \in 0 .. CounterMod - 1
      /\ newest \in 0 .. CounterMod - 1
      /\ t \in 0 .. CounterMod - 1
      /\ k \in Int /\ 0 <= k /\ k <= Distance(newest, c)
  BY <1>1, <1>2, <1>4, Sizes DEF Counter
<1>9. Distance(t, c) = k /\ Distance(newest, t) = Distance(newest, c) - k
  BY <1>3, <1>5, <1>6, <1>7, <1>8, Sizes
<1> QED
  BY <1>4, <1>9 DEF t

\* A load never goes back behind what was seen, nor past the newest value.
LEMMA VisibleBetween ==
    ASSUME NEW seen \in Counter, NEW newest \in Counter,
           NEW t \in Visible(seen, newest)
    PROVE  /\ t \in Counter
           /\ Distance(newest, seen) = Distance(newest, t) + Distance(t, seen)
<1>1. PICK k \in 0 .. Distance(newest, seen) : t = (seen + k) % CounterMod
  BY DEF Visible
<1>2. /\ t \in Counter
      /\ Distance(t, seen) = k
      /\ Distance(newest, t) = Distance(newest, seen) - k
  BY <1>1, Walk
<1>3. Distance(newest, seen) \in Int /\ k \in Int
  BY <1>1, DistanceLinear
<1> QED
  BY <1>2, <1>3

\* Distances that fit in the counter range add up.
LEMMA DistanceAdd ==
    ASSUME NEW a \in Counter, NEW b \in Counter, NEW c \in Counter,
           Distance(a, b) + Distance(b, c) < CounterMod
    PROVE  Distance(a, c) = Distance(a, b) + Distance(b, c)
<1>1. Distance(a, b) = IF b <= a THEN a - b ELSE a - b + CounterMod
  BY DistanceLinear
<1>2. Distance(b, c) = IF c <= b THEN b - c ELSE b - c + CounterMod
  BY DistanceLinear
<1>3. Distance(a, c) = IF c <= a THEN a - c ELSE a - c + CounterMod
  BY DistanceLinear
<1>4. /\ a \in 0 .. CounterMod - 1
      /\ b \in 0 .. CounterMod - 1
      /\ c \in 0 .. CounterMod - 1
  BY DEF Counter
<1> QED
  BY <1>1, <1>2, <1>3, <1>4, Sizes

\* Only equal counters are at distance zero.
LEMMA DistanceZero ==
    ASSUME NEW a \in Counter, NEW b \in Counter
    PROVE  Distance(a, b) = 0 <=> a = b
<1>1. Distance(a, b) = IF b <= a THEN a - b ELSE a - b + CounterMod
  BY DistanceLinear
<1>2. a \in 0 .. CounterMod - 1 /\ b \in 0 .. CounterMod - 1
  BY DEF Counter
<1> QED
  BY <1>1, <1>2, Sizes

\* What an increment of either end does to a distance.
LEMMA DistanceIncrement ==
    ASSUME NEW a \in Counter, NEW b \in Counter
    PROVE  /\ Distance(a, b) < CounterMod - 1
                 => Distance(Increment(a), b) = Distance(a, b) + 1
           /\ Distance(a, b) > 0
                 => Distance(a, Increment(b)) = Distance(a, b) - 1
<1> DEFINE p == Increment(a)
           q == Increment(b)
<1>1. p \in Counter /\ p = IF a = CounterMod - 1 THEN 0 ELSE a + 1
  BY IncrementLinear
<1>2. q \in Counter /\ q = IF b = CounterMod - 1 THEN 0 ELSE b + 1
  BY IncrementLinear
<1> HIDE DEF p, q
<1>3. Distance(a, b) = IF b <= a THEN a - b ELSE a - b + CounterMod
  BY DistanceLinear
<1>4. Distance(p, b) = IF b <= p THEN p - b ELSE p - b + CounterMod
  BY <1>1, DistanceLinear
<1>5. Distance(a, q) = IF q <= a THEN a - q ELSE a - q + CounterMod
  BY <1>2, DistanceLinear
<1>6. a \in 0 .. CounterMod - 1 /\ b \in 0 .. CounterMod - 1
  BY DEF Counter
<1>7. Distance(a, b) < CounterMod - 1 => Distance(p, b) = Distance(a, b) + 1
  BY <1>1, <1>3, <1>4, <1>6, Sizes
<1>8. Distance(a, b) > 0 => Distance(a, q) = Distance(a, b) - 1
  BY <1>2, <1>3, <1>5, <1>6, Sizes
<1> QED
  BY <1>7, <1>8 DEF p, q

\* Masking a counter gives an index of the slot array.
LEMMA SlotIndex ==
    ASSUME NEW c \in Counter
    PROVE  Slot(c) \in Index
  BY Sizes, DivMod DEF Slot, Index, Counter

\* Counters less than one round apart name different slots, also when one of
\* them has wrapped.
LEMMA SlotDistinct ==
    ASSUME NEW a \in Counter, NEW b \in Counter,
           Distance(a, b) \in 1 .. Capacity - 1
    PROVE  Slot(a) # Slot(b)
<1> DEFINE d == Distance(a, b)
<1>0. a \in Int /\ b \in Int /\ d \in 1 .. Capacity - 1
  BY Sizes DEF Counter
<1>1. (b + d) % Capacity # b % Capacity
  BY <1>0, Sizes, ModDistinct
<1>2. CASE b <= a
  <2>1. a = b + d
    BY <1>0, <1>2, DistanceLinear
  <2> QED
    BY <1>1, <2>1 DEF Slot
<1>3. CASE ~(b <= a)
  <2>1. PICK k \in 2 .. CounterMod : CounterMod = Capacity * k
    BY CapacityAssumption
  <2>2. k \in Int /\ -k \in Int
    BY <2>1
  <2>3. a = b + d - CounterMod
    BY <1>0, <1>3, DistanceLinear, Sizes DEF Counter
  <2> HIDE DEF d
  <2>4. b + d \in Int
    BY <1>0
  <2>5. a = (b + d) + Capacity * (-k)
    BY <2>1, <2>2, <2>3, <2>4, <1>0, Sizes
  <2>6. a % Capacity = (b + d) % Capacity
    BY <2>2, <2>4, <2>5, Sizes, ModMultiple
  <2> QED
    BY <1>1, <2>6 DEF Slot
<1> QED
  BY <1>0, <1>2, <1>3

(***************************************************************************)
(* The inductive invariant.                                                *)
(***************************************************************************)

\* Every distance between two of the four counters is a natural number.
LEMMA DistanceType ==
    ASSUME NEW a \in Counter, NEW b \in Counter
    PROVE  Distance(a, b) \in 0 .. CounterMod - 1 /\ Distance(a, b) \in Int
<1>1. Distance(a, b) \in 0 .. CounterMod - 1
  BY DistanceLinear
<1> QED
  BY <1>1, Sizes

\* The two sides of NoSlotRace: room for the producer, an event for the consumer.
LEMMA OwnedSlotsDiffer ==
    ASSUME TypeOK, CountersInOrder, ppc # "idle", cpc # "idle"
    PROVE  Slot(head) # Slot(tail)
<1>1. /\ Distance(head, ptail) \in Int /\ Distance(head, tail) \in Int
      /\ Distance(tail, ptail) \in 0 .. CounterMod - 1
      /\ Distance(head, chead) \in 0 .. CounterMod - 1
      /\ Distance(chead, tail) \in Int
  BY DistanceType DEF TypeOK
<1>2. Distance(head, tail) \in 1 .. Capacity - 1
  BY <1>1, Sizes DEF CountersInOrder
<1> QED
  BY <1>2, SlotDistinct DEF TypeOK

\* spsc_ring_buffer_init establishes the invariant.
LEMMA InitInv == Init => IndInv
<1> SUFFICES ASSUME Init PROVE IndInv
  OBVIOUS
<1>1. 0 \in Counter
  BY Sizes DEF Counter
<1>2. TypeOK
  BY <1>1 DEF Init, TypeOK
<1>3. Distance(0, 0) = 0
  BY <1>1, DistanceZero
<1>4. CountersInOrder
  BY <1>3, Sizes DEF Init, CountersInOrder
<1>5. CopiesInPlace
  BY DEF Init, CopiesInPlace
<1> QED
  BY <1>2, <1>4, <1>5 DEF IndInv

\* What an outdated load does to the order of the counters: the producer's
\* copy of tail moves towards tail, the consumer's copy of head towards head.
LEMMA LoadKeepsOrder ==
    ASSUME TypeOK, CountersInOrder
    PROVE  /\ \A t \in Visible(ptail, tail) :
                 /\ t \in Counter
                 /\ Distance(head, t) = Distance(head, tail) + Distance(tail, t)
                 /\ Distance(head, t) <= Distance(head, ptail)
           /\ \A h \in Visible(chead, head) :
                 /\ h \in Counter
                 /\ Distance(head, tail) = Distance(head, h) + Distance(h, tail)
                 /\ Distance(chead, tail) <= Distance(h, tail)
<1> USE DEF TypeOK, CountersInOrder
<1>1. ASSUME NEW t \in Visible(ptail, tail)
      PROVE  /\ t \in Counter
             /\ Distance(head, t) = Distance(head, tail) + Distance(tail, t)
             /\ Distance(head, t) <= Distance(head, ptail)
  <2>1. t \in Counter /\ Distance(tail, ptail) = Distance(tail, t) + Distance(t, ptail)
    BY VisibleBetween
  <2>2. /\ Distance(head, tail) \in Int /\ Distance(tail, t) \in Int
        /\ Distance(t, ptail) \in 0 .. CounterMod - 1
        /\ Distance(head, ptail) \in Int
    BY <2>1, DistanceType
  <2>3. Distance(head, tail) + Distance(tail, t) <= Distance(head, ptail)
    BY <2>1, <2>2, Sizes
  <2>4. Distance(head, t) = Distance(head, tail) + Distance(tail, t)
    BY <2>1, <2>2, <2>3, Sizes, DistanceAdd
  <2> QED
    BY <2>1, <2>3, <2>4
<1>2. ASSUME NEW h \in Visible(chead, head)
      PROVE  /\ h \in Counter
             /\ Distance(head, tail) = Distance(head, h) + Distance(h, tail)
             /\ Distance(chead, tail) <= Distance(h, tail)
  <2>1. h \in Counter /\ Distance(head, chead) = Distance(head, h) + Distance(h, chead)
    BY VisibleBetween
  <2>2. /\ Distance(head, h) \in 0 .. CounterMod - 1
        /\ Distance(h, chead) \in 0 .. CounterMod - 1
        /\ Distance(chead, tail) \in Int
        /\ Distance(head, tail) \in 0 .. CounterMod - 1
    BY <2>1, DistanceType
  <2>3. Distance(h, chead) + Distance(chead, tail) < CounterMod
    BY <2>1, <2>2, Sizes
  <2>4. Distance(h, tail) = Distance(h, chead) + Distance(chead, tail)
    BY <2>1, <2>3, DistanceAdd
  <2> QED
    BY <2>1, <2>2, <2>4, Sizes
<1> QED
  BY <1>1, <1>2

\* Each step of either side preserves the invariant.
LEMMA StepInv == IndInv /\ [Next]_vars => IndInv'
<1> SUFFICES ASSUME IndInv, [Next]_vars PROVE IndInv'
  OBVIOUS
<1> USE DEF producerVars, consumerVars
<1>0. TypeOK /\ CountersInOrder /\ CopiesInPlace
  BY DEF IndInv
<1>a. /\ Distance(head, ptail) \in 0 .. CounterMod - 1
      /\ Distance(head, tail) \in 0 .. CounterMod - 1
      /\ Distance(tail, ptail) \in 0 .. CounterMod - 1
      /\ Distance(head, chead) \in 0 .. CounterMod - 1
      /\ Distance(chead, tail) \in 0 .. CounterMod - 1
  BY <1>0, DistanceType DEF TypeOK
<1>b. Slot(head) \in Index /\ Slot(tail) \in Index
  BY <1>0, SlotIndex DEF TypeOK
<1>1. CASE TryPushFull
  <2>1. PICK t \in Visible(ptail, tail) : ptail' = t
    BY <1>1 DEF TryPushFull
  <2>2. /\ t \in Counter
        /\ Distance(head, t) = Distance(head, tail) + Distance(tail, t)
        /\ Distance(head, t) <= Distance(head, ptail)
    BY <1>0, LoadKeepsOrder
  <2>3. Distance(head, t) \in Int
    BY <2>2, <1>0, DistanceType DEF TypeOK
  <2>4. TypeOK'
    BY <1>0, <1>1, <2>1, <2>2 DEF TryPushFull, TypeOK
  <2>5. CountersInOrder'
    BY <1>0, <1>1, <1>a, <2>1, <2>2, <2>3, Sizes DEF TryPushFull, CountersInOrder
  <2>6. CopiesInPlace'
    BY <1>0, <1>1 DEF TryPushFull, CopiesInPlace
  <2> QED
    BY <2>4, <2>5, <2>6 DEF IndInv
<1>2. ASSUME NEW e \in Event, TryPushBegin(e) PROVE IndInv'
  <2>1. PICK t \in Visible(ptail, tail) : ptail' = t /\ ~IsFull(head, t)
    BY <1>2 DEF TryPushBegin
  <2>2. /\ t \in Counter
        /\ Distance(head, t) = Distance(head, tail) + Distance(tail, t)
        /\ Distance(head, t) <= Distance(head, ptail)
    BY <1>0, LoadKeepsOrder
  <2>3. Distance(head, t) \in Int /\ Distance(head, t) < Capacity
    BY <2>1, <2>2, <1>0, DistanceType, Sizes DEF TypeOK, IsFull
  <2>4. TypeOK'
    BY <1>0, <1>2, <2>1, <2>2 DEF TryPushBegin, TypeOK
  <2>5. CountersInOrder'
    BY <1>0, <1>2, <1>a, <2>1, <2>2, <2>3, Sizes DEF TryPushBegin, CountersInOrder
  <2>6. cpc = "copied" => Slot(head) # Slot(tail)
    <3> SUFFICES ASSUME cpc = "copied" PROVE Distance(head, tail) \in 1 .. Capacity - 1
      BY <1>0, SlotDistinct DEF TypeOK
    <3>1. Distance(tail, t) \in 0 .. CounterMod - 1
      BY <1>0, <2>2, DistanceType DEF TypeOK
    <3> QED
      BY <1>0, <1>a, <2>2, <2>3, <3>1, Sizes DEF CountersInOrder
  <2>7. CopiesInPlace'
    BY <1>0, <1>2, <1>b, <2>6 DEF TryPushBegin, CopiesInPlace, TypeOK
  <2> QED
    BY <2>4, <2>5, <2>7 DEF IndInv
<1>3. CASE TryPushCopy
  <2>1. TypeOK'
    BY <1>0, <1>3 DEF TryPushCopy, TypeOK, CopiesInPlace
  <2>2. CountersInOrder'
    BY <1>0, <1>3 DEF TryPushCopy, CountersInOrder
  <2>3. cpc = "copied" => Slot(head) # Slot(tail)
    BY <1>0, <1>3, OwnedSlotsDiffer DEF TryPushCopy
  <2>4. CopiesInPlace'
    BY <1>0, <1>3, <1>b, <2>3 DEF TryPushCopy, CopiesInPlace, TypeOK
  <2> QED
    BY <2>1, <2>2, <2>4 DEF IndInv
<1>4. CASE TryPushPublish
  <2>1. head' = Increment(head) /\ Increment(head) \in Counter
    BY <1>0, <1>4, IncrementLinear DEF TryPushPublish, TypeOK
  <2>2. /\ Distance(head, ptail) < Capacity
        /\ Distance(head, tail) <= Distance(head, ptail)
        /\ Distance(head, chead) <= Distance(head, tail)
    BY <1>0, <1>4, <1>a, Sizes DEF TryPushPublish, CountersInOrder
  <2>3. /\ Distance(head, ptail) < CounterMod - 1
        /\ Distance(head, tail) < CounterMod - 1
        /\ Distance(head, chead) < CounterMod - 1
    BY <2>2, <1>a, Sizes
  <2>4. /\ Distance(head', ptail) = Distance(head, ptail) + 1
        /\ Distance(head', tail) = Distance(head, tail) + 1
        /\ Distance(head', chead) = Distance(head, chead) + 1
    BY <1>0, <2>1, <2>3, DistanceIncrement DEF TypeOK
  <2>5. TypeOK'
    BY <1>0, <1>4, <2>1 DEF TryPushPublish, TypeOK
  <2>6. CountersInOrder'
    BY <1>0, <1>4, <1>a, <2>2, <2>4, Sizes DEF TryPushPublish, CountersInOrder
  <2>7. CopiesInPlace'
    BY <1>0, <1>4 DEF TryPushPublish, CopiesInPlace
  <2> QED
    BY <2>5, <2>6, <2>7 DEF IndInv
<1>5. CASE TryPopEmpty
  <2>1. PICK h \in Visible(chead, head) : chead' = h
    BY <1>5 DEF TryPopEmpty
  <2>2. /\ h \in Counter
        /\ Distance(head, tail) = Distance(head, h) + Distance(h, tail)
    BY <1>0, LoadKeepsOrder
  <2>3. TypeOK'
    BY <1>0, <1>5, <2>1, <2>2 DEF TryPopEmpty, TypeOK
  <2>4. CountersInOrder'
    BY <1>0, <1>5, <2>1, <2>2 DEF TryPopEmpty, CountersInOrder
  <2>5. CopiesInPlace'
    BY <1>0, <1>5 DEF TryPopEmpty, CopiesInPlace
  <2> QED
    BY <2>3, <2>4, <2>5 DEF IndInv
<1>6. CASE TryPopBegin
  <2>1. PICK h \in Visible(chead, head) : chead' = h /\ ~IsEmpty(h, tail)
    BY <1>6 DEF TryPopBegin
  <2>2. /\ h \in Counter
        /\ Distance(head, tail) = Distance(head, h) + Distance(h, tail)
    BY <1>0, LoadKeepsOrder
  <2>3. Distance(h, tail) \in 0 .. CounterMod - 1 /\ Distance(h, tail) # 0
    BY <1>0, <2>1, <2>2, DistanceZero, DistanceType DEF TypeOK, IsEmpty
  <2>4. TypeOK'
    BY <1>0, <1>6, <2>1, <2>2 DEF TryPopBegin, TypeOK
  <2>5. CountersInOrder'
    BY <1>0, <1>6, <2>1, <2>2, <2>3, Sizes DEF TryPopBegin, CountersInOrder
  <2>6. CopiesInPlace'
    BY <1>0, <1>6 DEF TryPopBegin, CopiesInPlace
  <2> QED
    BY <2>4, <2>5, <2>6 DEF IndInv
<1>7. CASE TryPopCopy
  <2>1. TypeOK'
    BY <1>0, <1>7, <1>b DEF TryPopCopy, TypeOK
  <2>2. CountersInOrder'
    BY <1>0, <1>7 DEF TryPopCopy, CountersInOrder
  <2>3. CopiesInPlace'
    BY <1>0, <1>7 DEF TryPopCopy, CopiesInPlace
  <2> QED
    BY <2>1, <2>2, <2>3 DEF IndInv
<1>8. CASE TryPopPublish
  <2>1. tail' = Increment(tail) /\ Increment(tail) \in Counter
    BY <1>0, <1>8, IncrementLinear DEF TryPopPublish, TypeOK
  <2>2. /\ Distance(chead, tail) > 0
        /\ Distance(head, tail) > 0
        /\ Distance(tail, ptail) < CounterMod - 1
    BY <1>0, <1>8, <1>a, Sizes DEF TryPopPublish, CountersInOrder
  <2>3. /\ Distance(head, tail') = Distance(head, tail) - 1
        /\ Distance(chead, tail') = Distance(chead, tail) - 1
        /\ Distance(tail', ptail) = Distance(tail, ptail) + 1
    BY <1>0, <2>1, <2>2, DistanceIncrement DEF TypeOK
  <2>4. TypeOK'
    BY <1>0, <1>8, <2>1 DEF TryPopPublish, TypeOK
  <2>5. CountersInOrder'
    BY <1>0, <1>8, <1>a, <2>3, Sizes DEF TryPopPublish, CountersInOrder
  <2>6. CopiesInPlace'
    BY <1>0, <1>8 DEF TryPopPublish, CopiesInPlace
  <2> QED
    BY <2>4, <2>5, <2>6 DEF IndInv
<1>9. CASE UNCHANGED vars
  BY <1>0, <1>9
     DEF vars, IndInv, TypeOK, CountersInOrder, CopiesInPlace
<1> QED
  BY <1>1, <1>2, <1>3, <1>4, <1>5, <1>6, <1>7, <1>8, <1>9
     DEF Next, Producer, Consumer

\* The counters stay in order along the wrapping counter line in every
\* reachable state of the ring.
THEOREM Invariance == Spec => []IndInv
<1> QED
  BY InitInv, StepInv, PTL DEF Spec

\* Every counter of spsc_ring_buffer_t stays inside its width and every slot
\* index inside the slot array.
THEOREM TypeCorrect == Spec => []TypeOK
<1>1. IndInv => TypeOK
  BY DEF IndInv
<1> QED
  BY <1>1, Invariance, PTL

\* The copies of try_push and try_pop never touch the same slot at the same
\* time, whatever the capacity and the counter width.
THEOREM RaceFree == Spec => []NoSlotRace
<1>1. IndInv => NoSlotRace
  BY OwnedSlotsDiffer DEF IndInv, NoSlotRace
<1> QED
  BY <1>1, Invariance, PTL

(***************************************************************************)
(* Refinement: the ring implements BoundedFifo.                            *)
(***************************************************************************)

\* The i-th published event lies i - 1 steps after tail, before head.
LEMMA PublishedCell ==
    ASSUME TypeOK, CountersInOrder, NEW i \in 1 .. Distance(head, tail)
    PROVE  /\ (tail + i - 1) % CounterMod \in Counter
           /\ Distance(head, (tail + i - 1) % CounterMod)
                 = Distance(head, tail) - i + 1
<1>1. Distance(head, tail) \in Int
  BY DistanceType DEF TypeOK
<1>2. i \in Int /\ i - 1 \in 0 .. Distance(head, tail)
  BY <1>1
<1>3. tail \in Int /\ tail + (i - 1) = tail + i - 1
  BY <1>2, Sizes DEF TypeOK, Counter
<1>4. /\ (tail + (i - 1)) % CounterMod \in Counter
      /\ Distance(head, (tail + (i - 1)) % CounterMod)
            = Distance(head, tail) - (i - 1)
  BY <1>2, Walk DEF TypeOK
<1> QED
  BY <1>1, <1>2, <1>3, <1>4

\* While the producer has room, the slot at head holds no published event.
LEMMA WritesOutsidePublished ==
    ASSUME TypeOK, CountersInOrder, Distance(head, tail) < Capacity,
           NEW i \in 1 .. Distance(head, tail)
    PROVE  Slot((tail + i - 1) % CounterMod) # Slot(head)
<1> DEFINE c == (tail + i - 1) % CounterMod
<1>1. c \in Counter /\ Distance(head, c) = Distance(head, tail) - i + 1
  BY PublishedCell
<1>2. Distance(head, tail) \in Int
  BY DistanceType DEF TypeOK
<1> HIDE DEF c
<1>3. Distance(head, c) \in 1 .. Capacity - 1
  BY <1>1, <1>2, Sizes
<1>4. Slot(head) # Slot(c)
  BY <1>1, <1>3, SlotDistinct DEF TypeOK
<1> QED
  BY <1>4 DEF c

\* Published is a sequence with one entry per counter step.
LEMMA PublishedSeq ==
    ASSUME TypeOK, CountersInOrder
    PROVE  /\ Published \in Seq(Event \cup {NoEvent, Torn})
           /\ Len(Published) = Distance(head, tail)
<1>1. Distance(head, tail) \in Nat
  BY DistanceType DEF TypeOK
<1>2. ASSUME NEW i \in 1 .. Distance(head, tail)
      PROVE  slots[Slot((tail + i - 1) % CounterMod)] \in Event \cup {NoEvent, Torn}
  BY PublishedCell, SlotIndex DEF TypeOK
<1> QED
  BY <1>1, <1>2 DEF Published

\* A write to the slot at head, with room left, leaves Published alone.
LEMMA WriteKeepsPublished ==
    ASSUME TypeOK, CountersInOrder, Distance(head, tail) < Capacity, NEW x,
           slots' = [slots EXCEPT ![Slot(head)] = x], UNCHANGED <<head, tail>>
    PROVE  Published' = Published
<1>1. ASSUME NEW i \in 1 .. Distance(head, tail)
      PROVE  slots'[Slot((tail + i - 1) % CounterMod)]
                = slots[Slot((tail + i - 1) % CounterMod)]
  <2>1. Slot((tail + i - 1) % CounterMod) # Slot(head)
    BY WritesOutsidePublished
  <2>2. Slot((tail + i - 1) % CounterMod) \in Index
    BY PublishedCell, SlotIndex
  <2> QED
    BY <2>1, <2>2 DEF TypeOK
<1> QED
  BY <1>1 DEF Published

\* Each step of the ring is a step of the FIFO or leaves the FIFO alone.
LEMMA StepRefines ==
    IndInv /\ [Next]_vars => [Fifo!Next]_<<Published, popped>>
<1> SUFFICES ASSUME IndInv, [Next]_vars
             PROVE  [Fifo!Next]_<<Published, popped>>
  OBVIOUS
<1> USE DEF producerVars, consumerVars
<1>0. TypeOK /\ CountersInOrder /\ CopiesInPlace
  BY DEF IndInv
<1>a. /\ Distance(head, ptail) \in 0 .. CounterMod - 1
      /\ Distance(head, tail) \in 0 .. CounterMod - 1
      /\ Distance(tail, ptail) \in 0 .. CounterMod - 1
      /\ Distance(head, chead) \in 0 .. CounterMod - 1
      /\ Distance(chead, tail) \in 0 .. CounterMod - 1
  BY <1>0, DistanceType DEF TypeOK
<1>b. Published \in Seq(Event \cup {NoEvent, Torn}) /\ Len(Published) = Distance(head, tail)
  BY <1>0, PublishedSeq
<1>1. CASE UNCHANGED <<head, tail, slots, popped>>
  BY <1>1 DEF Published
<1>2. ASSUME NEW e \in Event, TryPushBegin(e)
      PROVE  UNCHANGED <<Published, popped>>
  <2>1. PICK t \in Visible(ptail, tail) : ptail' = t /\ ~IsFull(head, t)
    BY <1>2 DEF TryPushBegin
  <2>2. t \in Counter /\ Distance(head, t) = Distance(head, tail) + Distance(tail, t)
    BY <1>0, LoadKeepsOrder
  <2>3. Distance(head, tail) < Capacity
    <3>1. Distance(tail, t) \in 0 .. CounterMod - 1
      BY <1>0, <2>2, DistanceType DEF TypeOK
    <3> QED
      BY <1>a, <2>1, <2>2, <3>1, Sizes DEF IsFull
  <2> QED
    BY <1>0, <1>2, <2>3, WriteKeepsPublished DEF TryPushBegin
<1>3. CASE TryPushCopy
  <2>1. Distance(head, tail) < Capacity
    BY <1>0, <1>3, <1>a, Sizes DEF TryPushCopy, CountersInOrder
  <2> QED
    BY <1>0, <1>3, <2>1, WriteKeepsPublished DEF TryPushCopy
<1>4. CASE TryPushPublish
  <2> DEFINE n == Distance(head, tail)
  <2>1. n \in 0 .. Capacity - 1 /\ pevent \in Event /\ slots[Slot(head)] = pevent
    BY <1>0, <1>4, <1>a, Sizes DEF TryPushPublish, CountersInOrder, CopiesInPlace
  <2>2. Distance(head', tail') = n + 1
    <3>1. n < CounterMod - 1
      BY <2>1, Sizes
    <3> QED
      BY <1>0, <1>4, <3>1, DistanceIncrement DEF TryPushPublish, TypeOK
  <2>3. (tail + (n + 1) - 1) % CounterMod = head
    <3>1. /\ (tail + n) % CounterMod \in Counter
          /\ Distance(head, (tail + n) % CounterMod) = n - n
      BY <1>0, <1>a, Walk DEF TypeOK
    <3>2. (tail + n) % CounterMod = head
      BY <1>0, <1>a, <3>1, DistanceZero DEF TypeOK
    <3>3. tail + (n + 1) - 1 = tail + n
      BY <1>0, <1>a DEF TypeOK, Counter
    <3> QED
      BY <3>2, <3>3
  <2> HIDE DEF n
  <2>4. Published' = [i \in 1 .. n + 1 |-> slots[Slot((tail + i - 1) % CounterMod)]]
    BY <1>4, <2>2 DEF TryPushPublish, Published
  <2>5. Published = [i \in 1 .. n |-> slots[Slot((tail + i - 1) % CounterMod)]]
    BY DEF Published, n
  <2>6. Published' = Append(Published, pevent)
    BY <1>b, <2>1, <2>3, <2>4, <2>5, Sizes
  <2>7. Fifo!Push(pevent)
    BY <1>4, <1>b, <2>1, <2>6, Sizes DEF Fifo!Push, n, TryPushPublish
  <2> QED
    BY <2>1, <2>7 DEF Fifo!Next
<1>5. CASE TryPopPublish
  <2> DEFINE n == Distance(head, tail)
  <2>1. n \in 1 .. CounterMod - 1 /\ cevent = slots[Slot(tail)]
    BY <1>0, <1>5, <1>a, Sizes DEF TryPopPublish, CountersInOrder, CopiesInPlace
  <2>2. Distance(head', tail') = n - 1
    BY <1>0, <1>5, <2>1, DistanceIncrement DEF TryPopPublish, TypeOK
  <2>3. ASSUME NEW i \in 1 .. n - 1
        PROVE  (tail' + i - 1) % CounterMod = (tail + (i + 1) - 1) % CounterMod
    <3>1. tail \in 0 .. CounterMod - 1 /\ i \in Int
      BY <1>0, <1>a DEF TypeOK, Counter
    <3>2. tail' = IF tail = CounterMod - 1 THEN 0 ELSE tail + 1
      BY <1>0, <1>5, IncrementLinear DEF TryPopPublish, TypeOK
    <3>3. CASE tail # CounterMod - 1
      <4>1. tail' + i - 1 = tail + (i + 1) - 1
        BY <3>1, <3>2, <3>3
      <4> QED
        BY <4>1
    <3>4. CASE tail = CounterMod - 1
      <4> DEFINE j == i - 1
      <4>1. /\ j \in Int
            /\ tail' + i - 1 = j
            /\ tail + (i + 1) - 1 = j + CounterMod * 1
        BY <3>1, <3>2, <3>4, Sizes
      <4> HIDE DEF j, n
      <4>2. \A k \in Int : (j + CounterMod * k) % CounterMod = j % CounterMod
        BY <4>1, ModMultiple, Sizes
      <4> QED
        BY <4>1, <4>2
    <3> QED
      BY <3>3, <3>4
  <2>4. (tail + 1 - 1) % CounterMod = tail
    BY <1>0, Sizes DEF TypeOK, Counter
  <2> HIDE DEF n
  <2>5. Published = [i \in 1 .. n |-> slots[Slot((tail + i - 1) % CounterMod)]]
    BY DEF Published, n
  <2>6. Published' = [i \in 1 .. n - 1 |-> slots[Slot((tail + (i + 1) - 1) % CounterMod)]]
    BY <1>5, <2>2, <2>3 DEF TryPopPublish, Published
  <2>7. Published # <<>> /\ Head(Published) = cevent
    BY <1>b, <2>1, <2>4, <2>5
  <2>8. Published' = Tail(Published)
    BY <1>b, <2>1, <2>5, <2>6
  <2>9. Fifo!Pop
    BY <1>5, <2>7, <2>8 DEF Fifo!Pop, TryPopPublish
  <2> QED
    BY <2>9 DEF Fifo!Next
<1> QED
  BY <1>1, <1>2, <1>3, <1>4, <1>5
     DEF Next, Producer, Consumer, TryPushFull, TryPopEmpty, TryPopBegin,
         TryPopCopy, vars

\* spsc_ring_buffer_t implements a bounded FIFO queue: nothing is lost,
\* duplicated, reordered or torn between a push that returned true and the pop
\* that hands the event over.
THEOREM Refinement == Spec => FifoSpec
<1>1. Init => Fifo!Init
  <2> SUFFICES ASSUME Init PROVE Fifo!Init
    OBVIOUS
  <2>1. Distance(head, tail) = 0
    BY InitInv, DistanceZero DEF Init, IndInv, TypeOK
  <2>2. Published = <<>>
    BY <2>1 DEF Published
  <2> QED
    BY <2>2 DEF Init, Fifo!Init
<1> QED
  BY <1>1, Invariance, StepRefines, PTL DEF Spec, FifoSpec, Fifo!Spec
=============================================================================
