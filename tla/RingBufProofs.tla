---------------------------- MODULE RingBufProofs ----------------------------
(***************************************************************************)
(* Proofs about RingBuf and RingBufMetrics for every capacity that divides *)
(* the counters' range, every request size and every set of byte values;   *)
(* and that RingBuf implements ByteQueue: bytes leave the ring in the      *)
(* order they entered it, each once.                                       *)
(***************************************************************************)
EXTENDS RingBufMetrics, TLAPS

-----------------------------------------------------------------------------
(* Arithmetic of wrapping counters and of slots. *)

\* A remainder is determined by any decomposition of the number.
LEMMA ModUnique ==
  ASSUME NEW m \in Nat \ {0}, NEW x \in Int, NEW q \in Int, NEW r \in 0 .. m - 1,
         x = q * m + r
  PROVE  x % m = r
BY Z3T(60)

\* Wrap is a multiple of Capacity, so reducing a counter loses no slot.
LEMMA WrapIsMultiple ==
  \E q \in Nat : Wrap = q * Capacity
<1>1. Wrap = Capacity * (Wrap \div Capacity) + (Wrap % Capacity)
  BY RingAssumption
<1>2. Wrap \div Capacity \in Nat
  BY RingAssumption
<1> QED BY <1>1, <1>2, RingAssumption

\* uint32_t sums and differences are counters.
LEMMA CounterClosed ==
  ASSUME NEW a \in Int, NEW b \in Int
  PROVE  Add32(a, b) \in Counter /\ Sub32(a, b) \in Counter
BY RingAssumption DEF Add32, Sub32, Counter

\* Advancing the leading counter by n widens the distance by n.
LEMMA AdvanceLeader ==
  ASSUME NEW a \in Counter, NEW b \in Counter, NEW n \in Nat, Sub32(a, b) + n < Wrap
  PROVE  Sub32(Add32(a, n), b) = Sub32(a, b) + n
<1>1. CASE a >= b
  <2>1. Sub32(a, b) = a - b  BY <1>1, RingAssumption DEF Sub32, Counter
  <2>2. CASE a + n < Wrap
    BY <1>1, <2>1, <2>2, RingAssumption DEF Sub32, Add32, Counter
  <2>3. CASE a + n >= Wrap
    <3>1. Add32(a, n) = a + n - Wrap
      BY <1>1, <2>1, <2>3, RingAssumption DEF Add32, Counter
    <3>2. (a + n - Wrap - b) % Wrap = a + n - b
      BY <1>1, <2>1, <2>3, RingAssumption DEF Counter
    <3> QED BY <2>1, <3>1, <3>2, RingAssumption DEF Sub32, Counter
  <2> QED BY <2>2, <2>3, RingAssumption DEF Counter
<1>2. CASE a < b
  <2>1. Sub32(a, b) = a - b + Wrap  BY <1>2, RingAssumption DEF Sub32, Counter
  <2>2. Add32(a, n) = a + n  BY <1>2, <2>1, RingAssumption DEF Add32, Counter
  <2> QED BY <1>2, <2>1, <2>2, RingAssumption DEF Sub32, Counter
<1> QED BY <1>1, <1>2 DEF Counter

\* Advancing the trailing counter by n, not past the leader, closes it by n.
LEMMA AdvanceFollower ==
  ASSUME NEW a \in Counter, NEW b \in Counter, NEW n \in Nat, n <= Sub32(a, b)
  PROVE  Sub32(a, Add32(b, n)) = Sub32(a, b) - n
<1>1. CASE a >= b
  <2>1. Sub32(a, b) = a - b  BY <1>1, RingAssumption DEF Sub32, Counter
  <2>2. Add32(b, n) = b + n  BY <1>1, <2>1, RingAssumption DEF Add32, Counter
  <2> QED BY <1>1, <2>1, <2>2, RingAssumption DEF Sub32, Counter
<1>2. CASE a < b
  <2>1. Sub32(a, b) = a - b + Wrap  BY <1>2, RingAssumption DEF Sub32, Counter
  <2>2. CASE b + n < Wrap
    BY <1>2, <2>1, <2>2, RingAssumption DEF Sub32, Add32, Counter
  <2>3. CASE b + n >= Wrap
    <3>1. Add32(b, n) = b + n - Wrap
      BY <1>2, <2>1, <2>3, RingAssumption DEF Add32, Counter
    <3> QED BY <1>2, <2>1, <2>3, <3>1, RingAssumption DEF Sub32, Counter
  <2> QED BY <2>2, <2>3, RingAssumption DEF Counter
<1> QED BY <1>1, <1>2 DEF Counter

\* The leader is the follower advanced by their distance.
LEMMA LeaderFromFollower ==
  ASSUME NEW a \in Counter, NEW b \in Counter
  PROVE  a = Add32(b, Sub32(a, b))
<1>1. CASE a >= b
  BY <1>1, RingAssumption DEF Sub32, Add32, Counter
<1>2. CASE a < b
  <2>1. Sub32(a, b) = a - b + Wrap  BY <1>2, RingAssumption DEF Sub32, Counter
  <2> QED BY <1>2, <2>1, RingAssumption DEF Add32, Counter
<1> QED BY <1>1, <1>2 DEF Counter

\* Within one capacity the two memcpys of a copy address pos + i modulo the
\* capacity, inside the storage.
LEMMA SlotIsMod ==
  ASSUME NEW pos \in Nat, NEW i \in 0 .. Capacity - 1
  PROVE  /\ Slot(pos, i) = (pos + i) % Capacity
         /\ Slot(pos, i) \in 0 .. Capacity - 1
<1> DEFINE idx == pos % Capacity
           q   == pos \div Capacity
<1>1. /\ idx \in 0 .. Capacity - 1
      /\ q \in Nat
      /\ pos = (q * Capacity) + idx
  BY RingAssumption
<1> HIDE DEF idx, q
<1>2. CASE i < Capacity - idx
  <2>1. Slot(pos, i) = idx + i  BY <1>2 DEF Slot, idx
  <2>2. (pos + i) % Capacity = idx + i
    BY <1>1, <1>2, ModUnique, RingAssumption
  <2> QED BY <1>1, <1>2, <2>1, <2>2, RingAssumption
<1>3. CASE i >= Capacity - idx
  <2>1. Slot(pos, i) = idx + i - Capacity
    BY <1>1, <1>3, RingAssumption DEF Slot, idx
  <2>2. pos + i = ((q + 1) * Capacity) + (idx + i - Capacity)
    BY <1>1, RingAssumption
  <2>3. (pos + i) % Capacity = idx + i - Capacity
    <3>1. q + 1 \in Int /\ pos + i \in Int /\ idx + i - Capacity \in 0 .. Capacity - 1
      BY <1>1, <1>3, RingAssumption
    <3> QED BY <3>1, <2>2, ModUnique, RingAssumption
  <2> QED BY <1>1, <1>3, <2>1, <2>3, RingAssumption
<1> QED BY <1>1, <1>2, <1>3, RingAssumption

\* Bytes of a copy no longer than the storage live in slots of their own.
LEMMA SlotInjective ==
  ASSUME NEW pos \in Nat, NEW i \in 0 .. Capacity - 1, NEW j \in 0 .. Capacity - 1,
         i # j
  PROVE  Slot(pos, i) # Slot(pos, j)
<1>1. pos % Capacity \in 0 .. Capacity - 1  BY RingAssumption
<1> QED BY <1>1, RingAssumption DEF Slot

\* Starting k bytes further and skipping k bytes is the same, also when the
\* counter wraps in between.
LEMMA SlotShift ==
  ASSUME NEW pos \in Counter, NEW k \in Nat, NEW i \in Nat, k + i < Capacity
  PROVE  Slot(Add32(pos, k), i) = Slot(pos, k + i)
<1>1. /\ pos \in Nat /\ Add32(pos, k) \in Nat
      /\ i \in 0 .. Capacity - 1 /\ k + i \in 0 .. Capacity - 1
  BY CounterClosed, RingAssumption DEF Counter
<1>2. Slot(pos, k + i) = (pos + k + i) % Capacity
  BY <1>1, SlotIsMod, RingAssumption
<1>3. Slot(Add32(pos, k), i) = (Add32(pos, k) + i) % Capacity
  BY <1>1, SlotIsMod
<1>4. CASE pos + k < Wrap
  <2>1. Add32(pos, k) = pos + k  BY <1>4, RingAssumption DEF Add32, Counter
  <2> QED BY <1>2, <1>3, <2>1
<1>5. CASE pos + k >= Wrap
  <2>1. Add32(pos, k) = pos + k - Wrap
    BY <1>5, RingAssumption DEF Add32, Counter
  <2>2. PICK q \in Nat : Wrap = q * Capacity  BY WrapIsMultiple
  <2> DEFINE z == pos + k - Wrap + i
             d == z \div Capacity
             r == z % Capacity
  <2>3. /\ z \in Nat /\ d \in Int /\ r \in 0 .. Capacity - 1
        /\ z = (d * Capacity) + r
    BY <1>5, RingAssumption DEF Counter
  <2>4. pos + k + i = z + Wrap
    BY RingAssumption DEF Counter
  <2> HIDE DEF z, d, r
  <2>5. pos + k + i = ((d + q) * Capacity) + r
    BY <2>2, <2>3, <2>4, RingAssumption
  <2>6. (pos + k + i) % Capacity = r
    <3>1. pos + k + i \in Int /\ d + q \in Int
      BY <2>2, <2>3 DEF Counter
    <3> QED BY <3>1, <2>3, <2>5, ModUnique, RingAssumption
  <2> QED BY <1>2, <1>3, <2>1, <2>6 DEF z, r
<1> QED BY <1>4, <1>5, RingAssumption DEF Counter

-----------------------------------------------------------------------------
(* The invariant.  A thread's own counter always equals the atomic it      *)
(* publishes between its steps; with that, what a call decided from the    *)
(* other thread's counter is bounded by the distance of the counters,      *)
(* which the other thread can only change to the call's advantage.         *)

CachesPublished == head_cache = head /\ tail_cache = tail

IInv == TypeOK /\ CachesPublished /\ DecisionsStayValid

\* The distance of the counters is a number of bytes within the counters' range.
LEMMA UsedIsCounter ==
  ASSUME TypeOK PROVE Used \in Counter
<1>1. head \in Int /\ tail \in Int  BY RingAssumption DEF TypeOK, Counter
<1> QED BY <1>1, CounterClosed DEF Used

\* A producer's view of the free space (ringbuf.c 90-92) is exact when it is taken.
LEMMA FreeSpaceIsExact ==
  ASSUME IInv PROVE free_space = Capacity - Used /\ free_space \in Nat
<1>1. Used \in Counter  BY UsedIsCounter DEF IInv
<1>2. Sub32(head_cache, tail) = Used
  BY DEF IInv, CachesPublished, Used
<1>3. (Capacity - Used) % Wrap = Capacity - Used
  BY <1>1, RingAssumption DEF IInv, DecisionsStayValid, Counter
<1> QED BY <1>1, <1>2, <1>3, RingAssumption DEF free_space, Sub32, IInv, DecisionsStayValid, Counter

\* So is a consumer's view of the bytes available (ringbuf.c 136-138).
LEMMA AvailableIsExact ==
  ASSUME IInv PROVE available = Used
BY DEF IInv, CachesPublished, available, Used

LEMMA InitInvariant ==
  Init => IInv
<1> SUFFICES ASSUME Init PROVE IInv  OBVIOUS
<1>1. TypeOK  BY RingAssumption DEF Init, TypeOK, Counter
<1>2. Used = 0  BY RingAssumption DEF Init, Used, Sub32
<1> QED BY <1>1, <1>2, RingAssumption DEF Init, IInv, CachesPublished, DecisionsStayValid

\* Steps that start or refuse a call leave the ring alone.
LEMMA ProducerCallStarts ==
  ASSUME IInv, NEW data \in Payload, write(data) \/ write_all(data)
  PROVE  IInv'
<1>1. Len(data) \in Nat /\ data \in Seq(Byte)
  BY RingAssumption DEF Payload, Requests
<1>2. free_space = Capacity - Used /\ free_space \in Nat /\ Used \in Counter
  BY FreeSpaceIsExact, UsedIsCounter DEF IInv
<1>3. CASE ReturnNothingWritten
  BY <1>3 DEF ReturnNothingWritten, ring, consumer, IInv, TypeOK, CachesPublished,
              DecisionsStayValid, Used
<1>4. ASSUME NEW n \in 0 .. Len(data), n <= free_space, StartCopyIn(data, n)
      PROVE  IInv'
  <2>1. TypeOK'
    BY <1>1, <1>4 DEF StartCopyIn, ring, consumer, IInv, TypeOK
  <2>2. CachesPublished' /\ DecisionsStayValid'
    BY <1>2, <1>4 DEF StartCopyIn, ring, consumer, IInv, CachesPublished,
                      DecisionsStayValid, Used
  <2> QED BY <2>1, <2>2 DEF IInv
<1>5. CASE write(data)
  BY <1>1, <1>2, <1>3, <1>4, <1>5 DEF write, Least
<1>6. CASE write_all(data)
  BY <1>1, <1>2, <1>3, <1>4, <1>6 DEF write_all
<1> QED BY <1>5, <1>6

LEMMA ConsumerCallStarts ==
  ASSUME IInv, NEW size \in Requests, read(size) \/ read_all(size)
  PROVE  IInv'
<1>1. available = Used /\ Used \in Counter
  BY AvailableIsExact, UsedIsCounter DEF IInv
<1>2. CASE ReturnNothingRead
  BY <1>2 DEF ReturnNothingRead, ring, producer, IInv, TypeOK, CachesPublished,
              DecisionsStayValid, Used
<1>3. ASSUME NEW n \in Nat, n <= available, StartCopyOut(n)
      PROVE  IInv'
  BY <1>1, <1>3 DEF StartCopyOut, ring, producer, IInv, TypeOK, CachesPublished,
                    DecisionsStayValid, Used
<1>4. CASE read(size)
  BY <1>1, <1>2, <1>3, <1>4, RingAssumption DEF read, Least, Requests, Counter
<1>5. CASE read_all(size)
  BY <1>1, <1>2, <1>3, <1>5, RingAssumption DEF read_all, Requests
<1> QED BY <1>4, <1>5

\* Copying changes storage and progress only.
LEMMA CopyingKeepsInvariant ==
  ASSUME IInv, copy_in \/ copy_out
  PROVE  IInv'
<1>1. Used \in Counter /\ head_cache \in Nat /\ tail_cache \in Nat
  BY UsedIsCounter DEF IInv, TypeOK, Counter
<1>2. CASE copy_in
  <2>1. pi \in 0 .. Capacity - 1
    BY <1>1, <1>2, RingAssumption DEF copy_in, IInv, TypeOK, DecisionsStayValid, Counter
  <2>2. Slot(head_cache, pi) \in 0 .. Capacity - 1
    BY <1>1, <2>1, SlotIsMod
  <2>3. pi + 1 \in 1 .. Len(src)
    BY <1>2 DEF copy_in, IInv, TypeOK
  <2>4. src[pi + 1] \in Byte
    BY <2>3 DEF IInv, TypeOK
  <2>5. TypeOK'
    BY <1>2, <2>2, <2>4 DEF copy_in, consumer, IInv, TypeOK
  <2> QED BY <1>2, <2>5 DEF copy_in, consumer, IInv, CachesPublished, DecisionsStayValid, Used
<1>3. CASE copy_out
  <2>1. Len(dst) \in 0 .. Capacity - 1
    BY <1>1, <1>3, RingAssumption DEF copy_out, IInv, TypeOK, DecisionsStayValid, Counter
  <2>2. buf[Slot(tail_cache, Len(dst))] \in Byte
    BY <1>1, <2>1, SlotIsMod DEF IInv, TypeOK
  <2>3. TypeOK'
    BY <1>3, <2>2 DEF copy_out, ring, producer, IInv, TypeOK
  <2> QED BY <1>3, <2>3 DEF copy_out, ring, producer, IInv, CachesPublished,
                            DecisionsStayValid, Used
<1> QED BY <1>2, <1>3

\* Publishing n bytes turns n bytes of free space into n unread bytes.
LEMMA PublishHeadKeepsInvariant ==
  ASSUME IInv, publish_head
  PROVE  IInv' /\ Used' = Used + pn
<1>1. Used \in Counter /\ pn \in Nat
  BY UsedIsCounter DEF IInv, TypeOK
<1>2. Used + pn <= Capacity /\ Used + pn < Wrap
  BY <1>1, RingAssumption DEF IInv, DecisionsStayValid, Counter
<1>3. Sub32(Add32(head, pn), tail) = Used + pn
  BY <1>1, <1>2, AdvanceLeader DEF IInv, TypeOK, Used
<1>4. head' = Add32(head, pn) /\ tail' = tail /\ head' \in Counter
  BY <1>1, CounterClosed DEF publish_head, IInv, CachesPublished, TypeOK, Counter
<1>5. Used' = Used + pn
  BY <1>3, <1>4 DEF Used
<1>6. TypeOK'
  BY <1>1, <1>4 DEF publish_head, consumer, IInv, TypeOK, CachesPublished
<1>7. DecisionsStayValid'
  BY <1>1, <1>2, <1>5, RingAssumption DEF publish_head, consumer, IInv, TypeOK, DecisionsStayValid, Counter
<1> QED BY <1>4, <1>5, <1>6, <1>7 DEF publish_head, IInv, CachesPublished

\* Publishing a read turns n unread bytes into n bytes of free space.
LEMMA PublishTailKeepsInvariant ==
  ASSUME IInv, publish_tail
  PROVE  IInv' /\ Used' = Used - cn
<1>1. Used \in Counter /\ cn \in Nat /\ cn <= Used
  BY UsedIsCounter DEF IInv, TypeOK, DecisionsStayValid
<1>2. Sub32(head, Add32(tail, cn)) = Used - cn
  BY <1>1, AdvanceFollower DEF IInv, TypeOK, Used
<1>3. tail' = Add32(tail, cn) /\ head' = head /\ tail' \in Counter
  BY <1>1, CounterClosed DEF publish_tail, IInv, CachesPublished, TypeOK, Counter
<1>4. Used' = Used - cn
  BY <1>2, <1>3 DEF Used
<1>5. TypeOK'
  BY <1>1, <1>3 DEF publish_tail, producer, IInv, TypeOK, CachesPublished
<1>6. DecisionsStayValid'
  BY <1>1, <1>4, RingAssumption DEF publish_tail, producer, IInv, TypeOK, DecisionsStayValid, Counter
<1> QED BY <1>3, <1>4, <1>5, <1>6 DEF publish_tail, IInv, CachesPublished

LEMMA NextInvariant ==
  IInv /\ [Next]_vars => IInv'
<1> SUFFICES ASSUME IInv, [Next]_vars PROVE IInv'  OBVIOUS
<1>1. CASE Producer
  BY <1>1, ProducerCallStarts, CopyingKeepsInvariant, PublishHeadKeepsInvariant DEF Producer
<1>2. CASE Consumer
  BY <1>2, ConsumerCallStarts, CopyingKeepsInvariant, PublishTailKeepsInvariant DEF Consumer
<1>3. CASE UNCHANGED vars
  BY <1>3 DEF vars, ring, producer, consumer, IInv, TypeOK, CachesPublished,
              DecisionsStayValid, Used
<1> QED BY <1>1, <1>2, <1>3 DEF Next

THEOREM Invariance == Spec => []IInv
BY InitInvariant, NextInvariant, PTL DEF Spec

\* Every value the code computes in uint32_t arithmetic stays in range, and no
\* call copies more bytes than it was given.
THEOREM TypeCorrect == Spec => []TypeOK
BY Invariance, PTL DEF IInv

\* What a call decided from the other thread's counter stays true until it
\* publishes, for every capacity and wrap of the counters.
THEOREM DecisionsValid == Spec => []DecisionsStayValid
BY Invariance, PTL DEF IInv

\* The invariant separates the bytes being written from those unread.
LEMMA InvariantSeparates ==
  IInv => NoDataRace
<1> SUFFICES ASSUME IInv PROVE NoDataRace  OBVIOUS
<1>1. /\ Used \in Counter /\ Used <= Capacity /\ cn \in Nat /\ pn \in Nat
      /\ pn <= Capacity - Used /\ cn <= Used
      /\ head \in Counter /\ tail \in Counter /\ head_cache = head /\ tail_cache = tail
  BY UsedIsCounter DEF IInv, TypeOK, DecisionsStayValid, CachesPublished
<1>2. ASSUME NEW i \in 0 .. pn - 1, NEW j \in 0 .. Used - 1
      PROVE  Slot(head, i) # Slot(tail, j)
  <2>1. head = Add32(tail, Used)
    BY <1>1, LeaderFromFollower DEF Used
  <2>2. Slot(head, i) = Slot(tail, Used + i)
    BY <1>1, <2>1, SlotShift, RingAssumption DEF Counter
  <2>3. Slot(tail, Used + i) # Slot(tail, j)
    BY <1>1, SlotInjective, RingAssumption DEF Counter
  <2> QED BY <2>2, <2>3
<1> QED BY <1>1, <1>2 DEF NoDataRace, WriteSlots, Unread, ReadSlots, Counter

\* The producer's memcpys never touch a byte the consumer may be reading.
THEOREM RaceFreedom == Spec => []NoDataRace
BY Invariance, InvariantSeparates, PTL

-----------------------------------------------------------------------------
(* What size tells the ring's own threads (RingBufMetrics).                *)

Sizes == Counter \cup {NoValue}

\* The producer's loaded head is the head still; the consumer's may be behind
\* it, but not behind the tail, which only the consumer moves.
SizeInv ==
  /\ seen_head \in [Threads -> Sizes] /\ last_size \in [Threads -> Sizes]
  /\ seen_head["producer"] # NoValue => seen_head["producer"] = head
  /\ seen_head["consumer"] # NoValue => Sub32(seen_head["consumer"], tail) <= Used
  /\ last_size["producer"] # NoValue => last_size["producer"] \in Used .. Capacity
  /\ last_size["consumer"] # NoValue => last_size["consumer"] \in 0 .. Used

MInv == IInv /\ SizeInv

\* A step of the producer moves the head only, and only away from the tail.
LEMMA ProducerGrows ==
  ASSUME IInv, Producer
  PROVE  IInv' /\ Used' >= Used /\ tail' = tail /\ Used \in Counter
<1>1. Used \in Counter /\ pn \in Nat
  BY UsedIsCounter DEF IInv, TypeOK
<1>2. IInv'
  BY NextInvariant DEF Next
<1>3. CASE publish_head
  BY <1>1, <1>2, <1>3, PublishHeadKeepsInvariant, RingAssumption DEF publish_head, Counter
<1>4. CASE ~publish_head
  <2>1. UNCHANGED <<head, tail>>
    BY <1>4 DEF Producer, write, write_all, copy_in, StartCopyIn, ReturnNothingWritten, ring
  <2> QED BY <1>1, <1>2, <2>1, RingAssumption DEF Used, Counter
<1> QED BY <1>3, <1>4

\* A step of the consumer moves the tail only, and only towards the head.
LEMMA ConsumerShrinks ==
  ASSUME IInv, Consumer
  PROVE  IInv' /\ Used' <= Used /\ head' = head /\ Used \in Counter /\ Used' \in Counter
<1>1. Used \in Counter /\ cn \in Nat
  BY UsedIsCounter DEF IInv, TypeOK
<1>2. IInv'
  BY NextInvariant DEF Next
<1>3. CASE publish_tail
  <2>1. Used' = Used - cn /\ head' = head
    BY <1>3, PublishTailKeepsInvariant DEF publish_tail
  <2>2. Used' \in Counter
    <3>1. head' \in Int /\ tail' \in Int
      BY <1>2, RingAssumption DEF IInv, TypeOK, Counter
    <3> QED BY <3>1, CounterClosed DEF Used
  <2> QED BY <1>1, <1>2, <2>1, <2>2, RingAssumption DEF Counter
<1>4. CASE ~publish_tail
  <2>1. UNCHANGED <<head, tail>>
    BY <1>4 DEF Consumer, read, read_all, copy_out, StartCopyOut, ReturnNothingRead, ring
  <2> QED BY <1>1, <1>2, <2>1, RingAssumption DEF Used, Counter
<1> QED BY <1>3, <1>4

LEMMA SizeStep ==
  ASSUME MInv, [MNext]_mvars
  PROVE  MInv'
<1>0. /\ IInv /\ SizeInv /\ Used \in Counter /\ Used <= Capacity
      /\ seen_head \in [Threads -> Sizes] /\ last_size \in [Threads -> Sizes]
      /\ "producer" \in Threads /\ "consumer" \in Threads
      /\ head \in Counter /\ tail \in Counter
  BY UsedIsCounter DEF MInv, IInv, SizeInv, DecisionsStayValid, Threads, TypeOK
<1>1. CASE Moves("producer", Producer)
  <2>1. IInv' /\ Used' >= Used /\ tail' = tail /\ Used' \in Int
    <3>1. head' \in Int /\ tail' \in Int /\ IInv' /\ Used' >= Used /\ tail' = tail
      BY <1>0, <1>1, ProducerGrows, RingAssumption DEF Moves, IInv, TypeOK, Counter
    <3>2. Used' \in Counter
      BY <3>1, CounterClosed DEF Used
    <3> QED BY <3>1, <3>2, RingAssumption DEF Counter
  <2>2. /\ seen_head' = seen_head /\ seen_head["producer"] = NoValue
        /\ last_size' = [last_size EXCEPT !["producer"] = NoValue]
    BY <1>1 DEF Moves
  <2>3. seen_head["consumer"] # NoValue => Sub32(seen_head["consumer"], tail) <= Used'
    <3>1. seen_head["consumer"] # NoValue => Sub32(seen_head["consumer"], tail) \in Counter
      <4>1. seen_head["consumer"] # NoValue => seen_head["consumer"] \in Int /\ tail \in Int
        BY <1>0, RingAssumption DEF Sizes, Counter
      <4> QED BY <4>1, CounterClosed
    <3> QED BY <1>0, <2>1, <3>1, RingAssumption DEF SizeInv, Counter
  <2>4. last_size' \in [Threads -> Sizes] /\ last_size'["producer"] = NoValue
        /\ last_size'["consumer"] = last_size["consumer"]
    BY <1>0, <2>2 DEF Sizes, Threads
  <2>5. last_size["consumer"] # NoValue => last_size["consumer"] \in 0 .. Used'
    BY <1>0, <2>1, RingAssumption DEF SizeInv, Counter
  <2>6. SizeInv'
    BY <1>0, <2>1, <2>2, <2>3, <2>4, <2>5 DEF SizeInv
  <2> QED BY <2>1, <2>6 DEF MInv
<1>2. CASE Moves("consumer", Consumer)
  <2>1. IInv' /\ Used' <= Used /\ head' = head /\ Used' \in Counter
    BY <1>0, <1>2, ConsumerShrinks DEF Moves
  <2>2. /\ seen_head' = seen_head /\ seen_head["consumer"] = NoValue
        /\ last_size' = [last_size EXCEPT !["consumer"] = NoValue]
    BY <1>2 DEF Moves
  <2>3. last_size' \in [Threads -> Sizes] /\ last_size'["consumer"] = NoValue
        /\ last_size'["producer"] = last_size["producer"]
    BY <1>0, <2>2 DEF Sizes, Threads
  <2>4. last_size["producer"] # NoValue => last_size["producer"] \in Used' .. Capacity
    BY <1>0, <2>1, RingAssumption DEF SizeInv, Counter
  <2>5. SizeInv'
    BY <1>0, <2>1, <2>2, <2>3, <2>4 DEF SizeInv
  <2> QED BY <2>1, <2>5 DEF MInv
<1>3. ASSUME NEW t \in Threads, size_load_head(t) PROVE MInv'
  <2>1. /\ seen_head' = [seen_head EXCEPT ![t] = head] /\ UNCHANGED <<vars, last_size>>
    BY <1>3 DEF size_load_head
  <2>2. IInv' /\ UNCHANGED <<head, tail>> /\ Used' = Used
    BY <1>0, <2>1, NextInvariant DEF vars, ring, Used
  <2>3. Used = Sub32(head, tail) /\ Used <= Used
    BY <1>0, RingAssumption DEF Used, Counter
  <2>4. seen_head' \in [Threads -> Sizes] /\ seen_head'[t] = head
        /\ \A u \in Threads : u # t => seen_head'[u] = seen_head[u]
    BY <1>0, <2>1 DEF Sizes
  <2>5. SizeInv'
    BY <1>0, <2>1, <2>2, <2>3, <2>4 DEF SizeInv, Threads
  <2> QED BY <2>2, <2>5 DEF MInv
<1>4. ASSUME NEW t \in Threads, size_load_tail(t) PROVE MInv'
  <2> DEFINE s == Sub32(seen_head[t], tail)
  <2>1. /\ seen_head[t] # NoValue
        /\ last_size' = [last_size EXCEPT ![t] = s]
        /\ seen_head' = [seen_head EXCEPT ![t] = NoValue] /\ UNCHANGED vars
    BY <1>4 DEF size_load_tail
  <2>2. IInv' /\ UNCHANGED <<head, tail>> /\ Used' = Used
    BY <1>0, <2>1, NextInvariant DEF vars, ring, Used
  <2>3. s \in Counter
    BY <1>0, <2>1, CounterClosed, RingAssumption DEF Sizes, Counter
  <2>4. /\ t = "producer" => s = Used
        /\ t = "consumer" => s <= Used
    BY <1>0, <2>1 DEF SizeInv, Used
  <2> HIDE DEF s
  <2>5. /\ seen_head' \in [Threads -> Sizes] /\ last_size' \in [Threads -> Sizes]
        /\ seen_head'[t] = NoValue /\ last_size'[t] = s
        /\ \A u \in Threads : u # t => seen_head'[u] = seen_head[u] /\ last_size'[u] = last_size[u]
    BY <1>0, <2>1, <2>3 DEF Sizes
  <2>6. /\ t = "producer" => s \in Used .. Capacity
        /\ t = "consumer" => s \in 0 .. Used
    BY <1>0, <2>3, <2>4, RingAssumption DEF Counter
  <2>7. SizeInv'
    BY <1>0, <2>2, <2>5, <2>6 DEF SizeInv, Threads
  <2> QED BY <2>2, <2>7 DEF MInv
<1>5. CASE UNCHANGED mvars
  <2>1. UNCHANGED vars /\ UNCHANGED <<seen_head, last_size>> /\ UNCHANGED <<head, tail>>
    BY <1>5 DEF mvars, metrics, vars, ring
  <2>2. IInv'
    BY <1>0, <2>1, NextInvariant
  <2>3. Used' = Used
    BY <2>1 DEF Used
  <2>4. SizeInv'
    BY <1>0, <2>1, <2>3 DEF SizeInv
  <2> QED BY <2>2, <2>4 DEF MInv
<1> QED BY <1>1, <1>2, <1>3, <1>4, <1>5 DEF MNext

THEOREM SizeInvariance == MSpec => []MInv
<1>1. MInit => MInv
  <2> SUFFICES ASSUME MInit PROVE MInv  OBVIOUS
  <2>1. IInv
    BY InitInvariant DEF MInit
  <2>2. SizeInv
    BY DEF MInit, SizeInv, Sizes, Threads
  <2> QED BY <2>1, <2>2 DEF MInv
<1>2. MInv /\ [MNext]_mvars => MInv'
  BY SizeStep
<1> QED BY <1>1, <1>2, PTL DEF MSpec

\* cpr_ringbuf_size and cpr_ringbuf_free err on the safe side for the two threads
\* that own the ring, although they load its counters one after the other, for
\* every capacity and wherever the counters wrap.
THEOREM SizeIsSafe == MSpec => []OwnersCanRelyOnSize
<1>1. ASSUME MInv PROVE OwnersCanRelyOnSize
  <2>1. Used \in Counter /\ SizeInv
    BY <1>1, UsedIsCounter DEF MInv, IInv
  <2>2. ASSUME NEW p \in Used .. Capacity PROVE free(p) <= Capacity - Used
    <3>1. Capacity - p \in 0 .. Wrap - 1 /\ Capacity - p <= Capacity - Used
      BY <2>1, RingAssumption DEF Counter
    <3>2. (Capacity - p) % Wrap = Capacity - p
      BY <3>1, RingAssumption
    <3> QED BY <3>1, <3>2 DEF free
  <2> QED BY <2>1, <2>2 DEF SizeInv, OwnersCanRelyOnSize
<1> QED BY <1>1, SizeInvariance, PTL

-----------------------------------------------------------------------------
(* What the copies in progress have moved so far. *)

CopiedIn  == \A i \in 0 .. pi - 1 : buf[Slot(head_cache, i)] = src[i + 1]
CopiedOut == \A i \in 0 .. Len(dst) - 1 : dst[i + 1] = buf[Slot(tail_cache, i)]

\* A call of zero bytes is possible (write_all, read_all), so the place of a
\* thread, not its byte count, tells whether it is in a call.
IdleIsClean ==
  /\ ppc = "idle" => pn = 0 /\ pi = 0 /\ src = <<>>
  /\ cpc = "idle" => cn = 0 /\ dst = <<>>

DInv == IInv /\ CopiedIn /\ CopiedOut /\ IdleIsClean

\* The ranges every step below needs.
LEMMA Ranges ==
  ASSUME IInv
  PROVE  /\ Used \in Nat /\ Used <= Capacity
         /\ pn \in Nat /\ pn <= Capacity - Used /\ pi \in 0 .. pn
         /\ cn \in Nat /\ cn <= Used /\ Len(dst) \in 0 .. cn
         /\ head \in Counter /\ tail \in Counter
         /\ head \in Nat /\ tail \in Nat
         /\ head_cache = head /\ tail_cache = tail
         /\ Capacity \in Nat \ {0}
BY UsedIsCounter, RingAssumption
   DEF IInv, TypeOK, DecisionsStayValid, CachesPublished, Counter

\* Byte i from the head is byte Used + i from the tail.
LEMMA SlotFromHead ==
  ASSUME IInv, NEW i \in Nat, Used + i < Capacity
  PROVE  Slot(head, i) = Slot(tail, Used + i)
<1>1. head = Add32(tail, Used)
  BY Ranges, LeaderFromFollower DEF Used
<1> QED BY <1>1, Ranges, SlotShift

\* The slot a producer is about to fill holds no unread byte.
LEMMA WriteMissesUnread ==
  ASSUME IInv, NEW i \in 0 .. pn - 1, NEW j \in 0 .. Used - 1
  PROVE  Slot(head, i) # Slot(tail, j)
<1>1. Slot(head, i) = Slot(tail, Used + i)
  BY Ranges, SlotFromHead
<1>2. Slot(tail, Used + i) # Slot(tail, j)
  <2>1. Used + i \in 0 .. Capacity - 1 /\ j \in 0 .. Capacity - 1 /\ Used + i # j
    BY Ranges, SMTT(20)
  <2> QED BY <2>1, Ranges, SlotInjective
<1> QED BY <1>1, <1>2

-----------------------------------------------------------------------------
LEMMA DataInit ==
  Init => DInv
<1> SUFFICES ASSUME Init PROVE DInv  OBVIOUS
<1>1. Len(dst) = 0  BY DEF Init
<1> QED BY <1>1, InitInvariant DEF Init, DInv, CopiedIn, CopiedOut, IdleIsClean

\* Filling one slot changes no byte already copied and no byte being read.
LEMMA CopyInKeepsData ==
  ASSUME DInv, copy_in
  PROVE  /\ CopiedIn' /\ CopiedOut' /\ IdleIsClean'
         /\ \A j \in 0 .. Used - 1 : buf'[Slot(tail, j)] = buf[Slot(tail, j)]
<1> USE DEF DInv
<1>1. buf \in [0 .. Capacity - 1 -> Byte] /\ pi \in 0 .. pn - 1
  BY DEF IInv, TypeOK, copy_in
<1>2. \A s \in 0 .. Capacity - 1 :
        buf'[s] = IF s = Slot(head, pi) THEN src[pi + 1] ELSE buf[s]
  <2>1. Slot(head, pi) \in 0 .. Capacity - 1
    <3>1. pi \in 0 .. Capacity - 1  BY <1>1, Ranges
    <3> QED BY <3>1, Ranges, SlotIsMod
  <2> QED BY <1>1, <2>1, Ranges DEF copy_in
<1>3. \A j \in 0 .. Used - 1 : buf'[Slot(tail, j)] = buf[Slot(tail, j)]
  <2> TAKE j \in 0 .. Used - 1
  <2>1. Slot(tail, j) # Slot(head, pi)
    BY <1>1, WriteMissesUnread
  <2>2. Slot(tail, j) \in 0 .. Capacity - 1
    <3>1. j \in 0 .. Capacity - 1  BY Ranges
    <3> QED BY <3>1, Ranges, SlotIsMod
  <2> QED BY <1>2, <2>1, <2>2
<1>4. CopiedIn'
  <2> SUFFICES ASSUME NEW i \in 0 .. pi
               PROVE  buf'[Slot(head, i)] = src[i + 1]
    BY <1>1, Ranges DEF CopiedIn, copy_in
  <2>1. i \in 0 .. Capacity - 1 /\ pi \in 0 .. Capacity - 1
    BY <1>1, Ranges
  <2>2. Slot(head, i) \in 0 .. Capacity - 1
    BY <2>1, Ranges, SlotIsMod
  <2>3. CASE i = pi
    BY <1>2, <2>2, <2>3
  <2>4. CASE i # pi
    <3>1. Slot(head, i) # Slot(head, pi)
      BY <2>1, <2>4, Ranges, SlotInjective
    <3>2. buf[Slot(head, i)] = src[i + 1]
      BY <2>4, Ranges DEF CopiedIn
    <3> QED BY <1>2, <2>2, <3>1, <3>2
  <2> QED BY <2>3, <2>4
<1>5. CopiedOut'
  <2> SUFFICES ASSUME NEW i \in 0 .. Len(dst) - 1
               PROVE  dst[i + 1] = buf'[Slot(tail, i)]
    BY Ranges DEF CopiedOut, copy_in, consumer
  <2> QED BY <1>3, Ranges DEF CopiedOut
<1>6. IdleIsClean'
  BY DEF IdleIsClean, copy_in, consumer
<1> QED BY <1>3, <1>4, <1>5, <1>6

LEMMA CopyOutKeepsData ==
  ASSUME DInv, copy_out
  PROVE  CopiedIn' /\ CopiedOut' /\ IdleIsClean'
<1> USE DEF DInv
<1>1. dst \in Seq(Byte) /\ dst' = Append(dst, buf[Slot(tail_cache, Len(dst))])
  BY DEF IInv, TypeOK, copy_out
<1>2. /\ Len(dst') = Len(dst) + 1
      /\ \A i \in 1 .. Len(dst) : dst'[i] = dst[i]
      /\ dst'[Len(dst) + 1] = buf[Slot(tail_cache, Len(dst))]
  BY <1>1
<1>3. CopiedOut'
  <2> SUFFICES ASSUME NEW i \in 0 .. Len(dst)
               PROVE  dst'[i + 1] = buf[Slot(tail_cache, i)]
    BY <1>2, Ranges, SMTT(20) DEF CopiedOut, copy_out, ring
  <2>1. CASE i = Len(dst)
    BY <1>2, <2>1
  <2>2. CASE i < Len(dst)
    <3>1. i + 1 \in 1 .. Len(dst) /\ i \in 0 .. Len(dst) - 1  BY <2>2, Ranges
    <3> QED BY <1>2, <3>1 DEF CopiedOut
  <2> QED BY <2>1, <2>2, Ranges
<1> QED BY <1>3 DEF CopiedIn, IdleIsClean, copy_out, ring, producer

LEMMA DataNext ==
  DInv /\ [Next]_vars => DInv'
<1> SUFFICES ASSUME DInv, [Next]_vars PROVE DInv'  OBVIOUS
<1>0. IInv'  BY NextInvariant DEF DInv
<1>1. CASE copy_in  BY <1>0, <1>1, CopyInKeepsData DEF DInv
<1>2. CASE copy_out  BY <1>0, <1>2, CopyOutKeepsData DEF DInv
<1>3. CASE \E data \in Payload : write(data) \/ write_all(data)
  <2>1. \/ ReturnNothingWritten
        \/ \E data \in Payload, n \in Nat : StartCopyIn(data, n) \/ StartCopyIn(data, Len(data))
    <3> PICK data \in Payload : write(data) \/ write_all(data)  BY <1>3
    <3>1. Least(Len(data), free_space) \in Nat
      BY FreeSpaceIsExact DEF DInv, Payload, Requests, Least
    <3> QED BY <3>1 DEF write, write_all
  <2> QED BY <1>0, <2>1 DEF ReturnNothingWritten, StartCopyIn, ring, consumer,
                            DInv, CopiedIn, CopiedOut, IdleIsClean
<1>4. CASE \E n \in Requests : read(n) \/ read_all(n)
  <2>1. ReturnNothingRead \/ \E n : StartCopyOut(n)
    BY <1>4 DEF read, read_all
  <2> QED BY <1>0, <2>1 DEF ReturnNothingRead, StartCopyOut, ring, producer,
                            DInv, CopiedIn, CopiedOut, IdleIsClean
<1>5. CASE publish_head
  BY <1>0, <1>5 DEF publish_head, consumer, DInv, CopiedIn, CopiedOut, IdleIsClean
<1>6. CASE publish_tail
  BY <1>0, <1>6 DEF publish_tail, producer, DInv, CopiedIn, CopiedOut, IdleIsClean
<1>7. CASE UNCHANGED vars
  BY <1>0, <1>7 DEF vars, ring, producer, consumer, DInv, CopiedIn, CopiedOut, IdleIsClean
<1> QED BY <1>1, <1>2, <1>3, <1>4, <1>5, <1>6, <1>7 DEF Next, Producer, Consumer

-----------------------------------------------------------------------------
(* Sequences. *)

\* Concatenation, element by element.
LEMMA ConcatFacts ==
  ASSUME NEW S, NEW s \in Seq(S), NEW t \in Seq(S)
  PROVE  /\ s \o t \in Seq(S) /\ Len(s \o t) = Len(s) + Len(t)
         /\ \A i \in 1 .. Len(s) : (s \o t)[i] = s[i]
         /\ \A i \in 1 .. Len(t) : (s \o t)[Len(s) + i] = t[i]
OBVIOUS

\* A sequence given as a function.
LEMMA FcnIsSeq ==
  ASSUME NEW S, NEW n \in Nat, NEW f \in [1 .. n -> S]
  PROVE  f \in Seq(S) /\ Len(f) = n
OBVIOUS

-----------------------------------------------------------------------------
(* The simulation: each step of the ring is a step of ByteQueue under the  *)
(* mapping, or leaves every mapped variable as it was.                     *)

\* The mapped queue, read as a sequence.
LEMMA ContentsIsSeq ==
  ASSUME IInv
  PROVE  /\ Contents \in Seq(Byte) /\ Len(Contents) = Used
         /\ \A i \in 1 .. Used : Contents[i] = buf[Slot(tail, i - 1)]
<1>1. \A i \in 1 .. Used : buf[Slot(tail, i - 1)] \in Byte
  <2> TAKE i \in 1 .. Used
  <2>1. i - 1 \in 0 .. Capacity - 1  BY Ranges
  <2>2. Slot(tail, i - 1) \in 0 .. Capacity - 1  BY <2>1, Ranges, SlotIsMod
  <2> QED BY <2>2 DEF IInv, TypeOK
<1>2. Used \in Nat  BY Ranges
<1>3. Contents \in [1 .. Used -> Byte]  BY <1>1 DEF Contents
<1>4. Contents \in Seq(Byte) /\ Len(Contents) = Used  BY <1>2, <1>3, FcnIsSeq
<1> QED BY <1>4 DEF Contents

LEMMA RoomIsExact ==
  ASSUME IInv PROVE Q!Room = Capacity - Used /\ free_space = Q!Room
BY ContentsIsSeq, FreeSpaceIsExact DEF Q!Room

\* A step that leaves storage and counters alone leaves the queue alone.
LEMMA ContentsUnchanged ==
  ASSUME UNCHANGED ring PROVE Contents' = Contents
BY DEF ring, Contents, Used

LEMMA InitSimulates ==
  Init => Q!Init
<1> SUFFICES ASSUME Init PROVE Q!Init  OBVIOUS
<1>1. Used = 0  BY RingAssumption DEF Init, Used, Sub32
<1>2. Contents = <<>>  BY <1>1 DEF Contents
<1>3. SubSeq(src, 1, pn) = <<>>  BY DEF Init
<1> QED BY <1>2, <1>3 DEF Init, Q!Init

LEMMA WriteSimulates ==
  ASSUME DInv, NEW data \in Payload, write(data) \/ write_all(data)
  PROVE  \/ Q!Accept(data) \/ Q!AcceptSome(data)
         \/ \E n \in Requests : Q!Refuse(n)
<1>1. /\ Len(data) \in Requests /\ data \in Seq(Byte) /\ Len(data) \in Nat
  BY RingAssumption DEF Payload, Requests
<1>2. free_space = Q!Room /\ free_space \in Nat
  BY RoomIsExact, FreeSpaceIsExact DEF DInv
<1>3. UNCHANGED ring /\ Contents' = Contents /\ UNCHANGED consumer /\ ppc = "idle"
  <2>1. UNCHANGED ring /\ UNCHANGED consumer /\ ppc = "idle"
    BY DEF write, write_all, ReturnNothingWritten, StartCopyIn
  <2> QED BY <2>1, ContentsUnchanged
<1>4. pn = 0 /\ src = <<>>
  BY <1>3 DEF DInv, IdleIsClean
<1>5. CASE ReturnNothingWritten /\ (Least(Len(data), free_space) = 0 \/ Len(data) > free_space)
  <2>1. Q!Refuse(Len(data))
    BY <1>2, <1>3, <1>5 DEF ReturnNothingWritten, consumer, Q!Refuse, Q!Least, Least
  <2> QED BY <1>1, <2>1
<1>6. ASSUME NEW n \in 0 .. Len(data), n <= free_space, StartCopyIn(data, n)
      PROVE  Q!Accept(SubSeq(data, 1, n))
  <2>1. Len(SubSeq(data, 1, n)) = n  BY <1>1, <1>6
  <2>2. src' = data /\ pn' = n /\ ppc' = "copy_in" /\ wrote' = wrote
    BY <1>6 DEF StartCopyIn
  <2> QED BY <1>2, <1>3, <1>6, <2>1, <2>2 DEF Q!Accept, consumer
<1>7. CASE write(data)
  <2>1. CASE Least(Len(data), free_space) = 0
    BY <1>5, <1>7, <2>1 DEF write
  <2>2. CASE Least(Len(data), free_space) # 0
    <3> DEFINE n == Least(Len(data), free_space)
    <3>1. n \in 0 .. Len(data) /\ n <= free_space /\ n > 0
      BY <1>1, <1>2, <2>2 DEF Least
    <3>2. StartCopyIn(data, n)  BY <1>7, <2>2 DEF write
    <3>3. Q!Accept(SubSeq(data, 1, n))  BY <1>6, <3>1, <3>2
    <3>4. n = Q!Least(Len(data), Q!Room)  BY <1>2 DEF Least, Q!Least
    <3> HIDE DEF n
    <3> QED BY <3>1, <3>3, <3>4 DEF Q!AcceptSome
  <2> QED BY <2>1, <2>2
<1>8. CASE write_all(data)
  <2>1. CASE Len(data) > free_space
    BY <1>5, <1>8, <1>1, <1>2, <2>1 DEF write_all
  <2>2. CASE Len(data) <= free_space
    <3>1. StartCopyIn(data, Len(data))
      BY <1>1, <1>2, <1>8, <2>2 DEF write_all
    <3>2. Q!Accept(SubSeq(data, 1, Len(data)))
      BY <1>1, <1>6, <2>2, <3>1
    <3>3. SubSeq(data, 1, Len(data)) = data  BY <1>1
    <3> QED BY <3>2, <3>3
  <2> QED BY <1>1, <1>2, <2>1, <2>2
<1> QED BY <1>7, <1>8

LEMMA ReadSimulates ==
  ASSUME DInv, NEW size \in Requests, read(size) \/ read_all(size)
  PROVE  Q!Grant(size) \/ Q!GrantSome(size) \/ Q!ComeBackEmpty(size)
<1>1. size \in Nat /\ available = Used /\ Len(Contents) = Used /\ Used \in Nat
  BY AvailableIsExact, ContentsIsSeq, Ranges, RingAssumption DEF Requests, DInv
<1>2. UNCHANGED ring /\ UNCHANGED producer /\ Contents' = Contents /\ cpc = "idle"
  <2>1. UNCHANGED ring /\ UNCHANGED producer /\ cpc = "idle"
    BY DEF read, read_all, ReturnNothingRead, StartCopyOut
  <2> QED BY <2>1, ContentsUnchanged
<1>3. CASE ReturnNothingRead /\ (Least(size, available) = 0 \/ size > available)
  BY <1>1, <1>2, <1>3 DEF ReturnNothingRead, producer, Q!ComeBackEmpty, Q!Least, Least
<1>4. ASSUME NEW n \in Nat, n <= Used, StartCopyOut(n)
      PROVE  Q!Grant(n)
  BY <1>1, <1>2, <1>4 DEF StartCopyOut, producer, Q!Grant
<1>5. CASE read(size)
  <2>1. CASE Least(size, available) = 0
    BY <1>3, <1>5, <2>1 DEF read
  <2>2. CASE Least(size, available) # 0
    <3> DEFINE n == Least(size, available)
    <3>1. n \in Nat /\ n <= Used /\ n > 0 /\ n = Q!Least(size, Len(Contents))
      BY <1>1, <2>2 DEF Least, Q!Least
    <3>2. StartCopyOut(n)  BY <1>5, <2>2 DEF read
    <3> HIDE DEF n
    <3>3. Q!Grant(n)  BY <1>4, <3>1, <3>2
    <3> QED BY <3>1, <3>3 DEF Q!GrantSome
  <2> QED BY <2>1, <2>2
<1>6. CASE read_all(size)
  <2>1. CASE size > available
    BY <1>3, <1>6, <1>1, <2>1 DEF read_all
  <2>2. CASE size <= available
    BY <1>1, <1>4, <1>6, <2>2 DEF read_all
  <2> QED BY <1>1, <2>1, <2>2
<1> QED BY <1>5, <1>6

\* Copying is invisible in the queue: the slots filled are not yet part of it.
LEMMA CopyingStutters ==
  ASSUME DInv, copy_in \/ copy_out
  PROVE  UNCHANGED Q!qvars
<1>1. CASE copy_in
  <2>1. Used' = Used /\ tail' = tail  BY <1>1 DEF copy_in, Used
  <2>2. \A i \in 1 .. Used : buf'[Slot(tail, i - 1)] = buf[Slot(tail, i - 1)]
    <3> TAKE i \in 1 .. Used
    <3>1. i - 1 \in 0 .. Used - 1  BY Ranges DEF DInv
    <3> QED BY <1>1, <3>1, CopyInKeepsData
  <2>3. Contents' = Contents
    BY <2>1, <2>2 DEF Contents
  <2> QED BY <1>1, <2>3 DEF copy_in, consumer, Q!qvars
<1>2. CASE copy_out
  <2>1. Contents' = Contents  BY <1>2, ContentsUnchanged DEF copy_out
  <2> QED BY <1>2, <2>1 DEF copy_out, producer, Q!qvars
<1> QED BY <1>1, <1>2

\* Publishing the head appends exactly the bytes of the call.
LEMMA PublishHeadCommits ==
  ASSUME DInv, publish_head
  PROVE  Q!Commit
<1> DEFINE pending == SubSeq(src, 1, pn)
<1>1. /\ IInv /\ IInv' /\ Used' = Used + pn
      /\ src \in Seq(Byte) /\ pn \in 0 .. Len(src) /\ pi = pn
      /\ buf' = buf /\ tail' = tail
  BY PublishHeadKeepsInvariant DEF DInv, IInv, TypeOK, publish_head
<1>2. /\ pending \in Seq(Byte) /\ Len(pending) = pn
      /\ \A i \in 1 .. pn : pending[i] = src[i]
  BY <1>1
<1> HIDE DEF pending
<1>3. /\ Contents \in Seq(Byte) /\ Len(Contents) = Used
      /\ Contents' \in Seq(Byte) /\ Len(Contents') = Used + pn
      /\ \A i \in 1 .. Used : Contents[i] = buf[Slot(tail, i - 1)]
      /\ \A i \in 1 .. Used + pn : Contents'[i] = buf[Slot(tail, i - 1)]
  <2>1. /\ Contents' \in Seq(Byte) /\ Len(Contents') = Used'
        /\ \A i \in 1 .. Used' : Contents'[i] = buf'[Slot(tail', i - 1)]
    <3>1. Contents' = [i \in 1 .. Used' |-> buf'[Slot(tail', i - 1)]]
      BY DEF Contents
    <3>2. \A i \in 1 .. Used' : buf'[Slot(tail', i - 1)] \in Byte
      <4> TAKE i \in 1 .. Used'
      <4>1. i - 1 \in 0 .. Capacity - 1 /\ tail \in Nat  BY <1>1, Ranges
      <4>2. Slot(tail, i - 1) \in 0 .. Capacity - 1  BY <4>1, SlotIsMod
      <4> QED BY <1>1, <4>2 DEF IInv, TypeOK
    <3>3. Used' \in Nat  BY <1>1, Ranges
    <3>4. Contents' \in [1 .. Used' -> Byte]  BY <3>1, <3>2
    <3>5. Contents' \in Seq(Byte) /\ Len(Contents') = Used'  BY <3>3, <3>4, FcnIsSeq
    <3> QED BY <3>1, <3>5
  <2> QED BY <1>1, <2>1, ContentsIsSeq
<1>4. /\ Contents \o pending \in Seq(Byte) /\ Len(Contents \o pending) = Used + pn
      /\ \A i \in 1 .. Used : (Contents \o pending)[i] = Contents[i]
      /\ \A i \in 1 .. pn : (Contents \o pending)[Used + i] = pending[i]
  BY <1>2, <1>3, ConcatFacts
<1>5. \A i \in 1 .. Used + pn : Contents'[i] = (Contents \o pending)[i]
  <2> TAKE i \in 1 .. Used + pn
  <2>0. Used \in Nat /\ pn \in Nat /\ i \in Int  BY <1>1, Ranges
  <2>1. CASE i <= Used
    <3>1. i \in 1 .. Used  BY <1>1, <2>1, Ranges
    <3> QED BY <1>3, <1>4, <3>1
  <2>2. CASE i > Used
    <3> DEFINE j == i - Used - 1
    <3>1. j \in 0 .. pn - 1 /\ Used + j = i - 1 /\ Used + j < Capacity
      BY <1>1, <2>2, Ranges, SMTT(20)
    <3>2. buf[Slot(head, j)] = src[j + 1]
      BY <1>1, <3>1, Ranges DEF DInv, CopiedIn
    <3>3. Slot(head, j) = Slot(tail, i - 1)
      BY <1>1, <3>1, SlotFromHead
    <3>4. j + 1 \in 1 .. pn /\ i = Used + (j + 1)
      BY <3>1, <2>0
    <3> HIDE DEF j
    <3>5. (Contents \o pending)[i] = pending[j + 1]
      BY <1>4, <3>4
    <3>6. pending[j + 1] = src[j + 1]
      BY <1>2, <3>4
    <3> QED BY <1>3, <3>2, <3>3, <3>5, <3>6
  <2>3. i <= Used \/ i > Used  BY <2>0
  <2> QED BY <2>1, <2>2, <2>3
<1>6. Contents' = Contents \o pending
  BY <1>3, <1>5, <1>4
<1> QED BY <1>2, <1>6 DEF publish_head, consumer, Q!Commit, pending

\* Publishing the tail removes exactly the bytes delivered, oldest first.
LEMMA PublishTailDelivers ==
  ASSUME DInv, publish_tail
  PROVE  Q!Deliver
<1>1. /\ IInv /\ IInv' /\ Used' = Used - cn /\ Len(dst) = cn
      /\ dst \in Seq(Byte) /\ cn \in Nat /\ cn <= Used /\ Used \in Nat
      /\ buf' = buf /\ tail' = Add32(tail, cn)
  BY PublishTailKeepsInvariant, Ranges DEF DInv, IInv, TypeOK, publish_tail, CachesPublished
<1>2. /\ Contents \in Seq(Byte) /\ Len(Contents) = Used
      /\ \A i \in 1 .. Used : Contents[i] = buf[Slot(tail, i - 1)]
  BY <1>1, ContentsIsSeq
<1>3. SubSeq(Contents, 1, cn) = dst
  <2>1. SubSeq(Contents, 1, cn) \in Seq(Byte) /\ Len(SubSeq(Contents, 1, cn)) = cn
        /\ \A i \in 1 .. cn : SubSeq(Contents, 1, cn)[i] = Contents[i]
    BY <1>1, <1>2
  <2>2. \A i \in 1 .. cn : Contents[i] = dst[i]
    <3> TAKE i \in 1 .. cn
    <3>1. i - 1 \in 0 .. Len(dst) - 1 /\ i \in 1 .. Used  BY <1>1
    <3>2. dst[(i - 1) + 1] = buf[Slot(tail_cache, i - 1)]
      BY <3>1 DEF DInv, CopiedOut
    <3> QED BY <1>1, <1>2, <3>1, <3>2, Ranges
  <2> QED BY <1>1, <2>1, <2>2
<1>4. SubSeq(Contents, cn + 1, Len(Contents)) = Contents'
  <2> DEFINE rest == SubSeq(Contents, cn + 1, Used)
  <2>1. /\ rest \in Seq(Byte) /\ Len(rest) = Used - cn
        /\ \A i \in 1 .. Used - cn : rest[i] = Contents[cn + i]
    BY <1>1, <1>2
  <2>2. Contents' = [i \in 1 .. Used - cn |-> buf[Slot(Add32(tail, cn), i - 1)]]
    BY <1>1 DEF Contents
  <2>3. \A i \in 1 .. Used - cn : rest[i] = buf[Slot(Add32(tail, cn), i - 1)]
    <3> TAKE i \in 1 .. Used - cn
    <3>1. cn + i \in 1 .. Used /\ i - 1 \in Nat /\ cn + (i - 1) < Capacity
      BY <1>1, Ranges
    <3>2. Slot(Add32(tail, cn), i - 1) = Slot(tail, cn + (i - 1))
      BY <1>1, <3>1, Ranges, SlotShift
    <3>3. (cn + i) - 1 = cn + (i - 1)  BY <1>1
    <3> QED BY <1>2, <2>1, <3>1, <3>2, <3>3
  <2> HIDE DEF rest
  <2>4. rest = [i \in 1 .. Used - cn |-> rest[i]]  BY <1>1, <2>1
  <2>5. rest = Contents'  BY <2>2, <2>3, <2>4
  <2> QED BY <1>2, <2>5 DEF rest
<1> QED BY <1>3, <1>4 DEF publish_tail, producer, Q!Deliver

LEMMA NextSimulates ==
  DInv /\ [Next]_vars => [Q!Next]_(Q!qvars)
<1> SUFFICES ASSUME DInv, [Next]_vars PROVE [Q!Next]_(Q!qvars)  OBVIOUS
<1> USE DEF Q!Next
<1>1. CASE \E data \in Payload : write(data) \/ write_all(data)
  <2> PICK data \in Payload : write(data) \/ write_all(data)  BY <1>1
  <2>1. Payload = Q!Payload /\ Requests = Q!Requests
    BY DEF Payload, Requests, Q!Payload, Q!Requests
  <2> QED BY <2>1, WriteSimulates
<1>2. CASE \E n \in Requests : read(n) \/ read_all(n)
  <2>1. Requests = Q!Requests  BY DEF Requests, Q!Requests
  <2> QED BY <1>2, <2>1, ReadSimulates
<1>3. CASE copy_in \/ copy_out  BY <1>3, CopyingStutters
<1>4. CASE publish_head  BY <1>4, PublishHeadCommits
<1>5. CASE publish_tail  BY <1>5, PublishTailDelivers
<1>6. CASE UNCHANGED vars
  BY <1>6, ContentsUnchanged DEF vars, producer, consumer, ring, Q!qvars, Contents, Used
<1> QED BY <1>1, <1>2, <1>3, <1>4, <1>5, <1>6 DEF Next, Producer, Consumer

\* The lock-free ring, counters wrapping and copies in flight, is the bounded
\* FIFO that ringbuf.h describes.
THEOREM Refinement == Spec => FIFO
<1>1. Spec => []DInv  BY DataInit, DataNext, PTL DEF Spec
<1> QED BY <1>1, InitSimulates, NextSimulates, PTL DEF Spec, FIFO, Q!Spec
=============================================================================
