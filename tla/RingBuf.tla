------------------------------- MODULE RingBuf -------------------------------
(***************************************************************************)
(* src/ringbuf.c: a byte ring shared by one producer and one consumer      *)
(* thread without a lock.  Each thread owns one counter (head_cache,       *)
(* tail_cache) and publishes it through an atomic (head, tail) after it    *)
(* has moved its bytes.  The atomics are sequentially consistent           *)
(* (src/atomic.c, __ATOMIC_SEQ_CST); every atomic access and every byte    *)
(* copied is a step, so the other thread runs between any two of them.     *)
(*                                                                         *)
(* Counters are uint32_t: they wrap modulo Wrap (2^32 in the code), and    *)
(* `pos & mask' is `pos % Capacity' because Capacity is a power of two.    *)
(***************************************************************************)
EXTENDS Integers, Sequences

CONSTANTS
  Byte,       \* the values a byte can have
  Capacity,   \* rb->capacity
  Wrap,       \* number of values of a uint32_t counter
  MaxRequest  \* largest data_size / out_size enumerated (a bound)

\* cpr_ringbuf_init takes powers of two only, so Capacity is at most 2^31 and
\* divides 2^32.
ASSUME RingAssumption ==
  /\ Byte # {}
  /\ Capacity \in Nat \ {0}
  /\ Wrap \in Nat /\ Wrap % Capacity = 0 /\ 2 * Capacity <= Wrap
  /\ MaxRequest \in Nat

VARIABLES
  buf,                     \* the storage, indexed from 0
  head, tail,              \* the two atomics
  head_cache, tail_cache,  \* the producer's and the consumer's own counters
  ppc, src, pn, pi, wrote, \* the producer's call: its place, source bytes, n,
                           \* bytes copied so far; what its last call returned
  cpc, dst, cn, got        \* the consumer's call: its place, bytes copied out
                           \* so far, n; what its last call delivered

ring     == <<buf, head, tail, head_cache, tail_cache>>
producer == <<ppc, src, pn, pi, wrote>>
consumer == <<cpc, dst, cn, got>>
vars     == <<ring, producer, consumer>>

Counter  == 0 .. Wrap - 1
Requests == 0 .. MaxRequest
Payload  == UNION {[1 .. n -> Byte] : n \in Requests}

\* uint32_t arithmetic
Bug_Add32(a, b) == a + b  \* mutant: the counter does not wrap
Add32(a, b) == (a + b) % Wrap
Sub32(a, b) == (a - b) % Wrap

Least(a, b) == IF a < b THEN a ELSE b

\* Where byte i of a copy that starts at counter value pos lives: the first
\* memcpy runs to the end of the storage, the second starts at its beginning.
Slot(pos, i) ==
  LET idx        == pos % Capacity
      until_wrap == Capacity - idx
  IN  IF i < until_wrap THEN idx + i ELSE i - until_wrap

Init ==
  /\ buf \in [0 .. Capacity - 1 -> Byte]
  /\ head = 0 /\ tail = 0 /\ head_cache = 0 /\ tail_cache = 0
  /\ ppc = "idle" /\ src = <<>> /\ pn = 0 /\ pi = 0 /\ wrote = 0
  /\ cpc = "idle" /\ dst = <<>> /\ cn = 0 /\ got = <<>>

-----------------------------------------------------------------------------
(* The producer: cpr_ringbuf_write and cpr_ringbuf_write_all.  Each starts *)
(* with its load of the other thread's counter.                            *)

free_space == Sub32(Capacity, Sub32(head_cache, tail))

StartCopyIn(data, n) ==
  /\ ppc' = "copy_in" /\ src' = data /\ pn' = n /\ pi' = 0
  /\ UNCHANGED <<ring, consumer, wrote>>

ReturnNothingWritten ==
  /\ wrote' = 0
  /\ UNCHANGED <<ring, consumer, ppc, src, pn, pi>>

write(data) ==
  LET n == Least(Len(data), free_space)
  IN  /\ ppc = "idle"
      /\ \/ n = 0 /\ ReturnNothingWritten
         \/ n # 0 /\ StartCopyIn(data, n)

\* Mutant: one byte more than the free space is let in.
Bug_write_all(data) ==
  /\ ppc = "idle"
  /\ \/ Len(data) > free_space + 1 /\ ReturnNothingWritten
     \/ Len(data) <= free_space + 1 /\ StartCopyIn(data, Len(data))

write_all(data) ==
  /\ ppc = "idle"
  /\ \/ Len(data) > free_space /\ ReturnNothingWritten
     \/ Len(data) <= free_space /\ StartCopyIn(data, Len(data))

\* Mutant: the second memcpy starts at src again, not at src + until_wrap.
Bug_copy_in ==
  LET until_wrap == Capacity - (head_cache % Capacity) IN
  /\ ppc = "copy_in" /\ pi < pn
  /\ buf' = [buf EXCEPT ![Slot(head_cache, pi)] =
               src[IF pi < until_wrap THEN pi + 1 ELSE pi - until_wrap + 1]]
  /\ pi' = pi + 1
  /\ UNCHANGED <<head, tail, head_cache, tail_cache, ppc, src, pn, wrote, consumer>>

copy_in ==
  /\ ppc = "copy_in" /\ pi < pn
  /\ buf' = [buf EXCEPT ![Slot(head_cache, pi)] = src[pi + 1]]
  /\ pi' = pi + 1
  /\ UNCHANGED <<head, tail, head_cache, tail_cache, ppc, src, pn, wrote, consumer>>

publish_head ==
  /\ ppc = "copy_in" /\ pi = pn
  /\ head_cache' = Add32(head_cache, pn)
  /\ head' = head_cache'
  /\ wrote' = pn
  /\ ppc' = "idle" /\ src' = <<>> /\ pn' = 0 /\ pi' = 0
  /\ UNCHANGED <<buf, tail, tail_cache, consumer>>

-----------------------------------------------------------------------------
(* The consumer: cpr_ringbuf_read and cpr_ringbuf_read_all. *)

available == Sub32(head, tail_cache)

\* Mutant: the space is given back before the bytes are copied out of it.
Bug_StartCopyOut(n) ==
  /\ cpc' = "copy_out" /\ cn' = n /\ dst' = <<>>
  /\ tail' = Add32(tail_cache, n)
  /\ UNCHANGED <<buf, head, head_cache, tail_cache, producer, got>>

StartCopyOut(n) ==
  /\ cpc' = "copy_out" /\ cn' = n /\ dst' = <<>>
  /\ UNCHANGED <<ring, producer, got>>

ReturnNothingRead ==
  /\ got' = <<>>
  /\ UNCHANGED <<ring, producer, cpc, dst, cn>>

read(out_size) ==
  LET n == Least(out_size, available)
  IN  /\ cpc = "idle"
      /\ \/ n = 0 /\ ReturnNothingRead
         \/ n # 0 /\ StartCopyOut(n)

read_all(out_size) ==
  /\ cpc = "idle"
  /\ \/ out_size > available /\ ReturnNothingRead
     \/ out_size <= available /\ StartCopyOut(out_size)

copy_out ==
  /\ cpc = "copy_out" /\ Len(dst) < cn
  /\ dst' = Append(dst, buf[Slot(tail_cache, Len(dst))])
  /\ UNCHANGED <<ring, producer, cpc, cn, got>>

\* Mutant: the new tail stays in the cache and is never stored.
Bug_publish_tail ==
  /\ cpc = "copy_out" /\ Len(dst) = cn
  /\ tail_cache' = Add32(tail_cache, cn)
  /\ got' = dst
  /\ cpc' = "idle" /\ dst' = <<>> /\ cn' = 0
  /\ UNCHANGED <<buf, head, tail, head_cache, producer>>

publish_tail ==
  /\ cpc = "copy_out" /\ Len(dst) = cn
  /\ tail_cache' = Add32(tail_cache, cn)
  /\ tail' = tail_cache'
  /\ got' = dst
  /\ cpc' = "idle" /\ dst' = <<>> /\ cn' = 0
  /\ UNCHANGED <<buf, head, head_cache, producer>>

-----------------------------------------------------------------------------
Producer ==
  \/ \E data \in Payload : write(data) \/ write_all(data)
  \/ copy_in
  \/ publish_head

Consumer ==
  \/ \E n \in Requests : read(n) \/ read_all(n)
  \/ copy_out
  \/ publish_tail

Next == Producer \/ Consumer

Spec == Init /\ [][Next]_vars

-----------------------------------------------------------------------------
(* Properties *)

\* Bytes published and not yet consumed.
Used == Sub32(head, tail)

WriteSlots == {Slot(head_cache, i) : i \in 0 .. pn - 1}
Unread     == {Slot(tail, i) : i \in 0 .. Used - 1}
ReadSlots  == {Slot(tail_cache, i) : i \in 0 .. cn - 1}

TypeOK ==
  /\ buf \in [0 .. Capacity - 1 -> Byte]
  /\ head \in Counter /\ tail \in Counter
  /\ head_cache \in Counter /\ tail_cache \in Counter
  /\ ppc \in {"idle", "copy_in"} /\ src \in Seq(Byte)
  /\ pn \in 0 .. Len(src) /\ pi \in 0 .. pn /\ wrote \in Nat
  /\ cpc \in {"idle", "copy_out"} /\ dst \in Seq(Byte)
  /\ cn \in Nat /\ Len(dst) <= cn /\ got \in Seq(Byte)

\* The decision a call took when it loaded the other thread's counter still
\* holds at every later step of the call (ringbuf.c 90-102, 136-148): the
\* space it counted on is still free, the bytes it counted on still there.
DecisionsStayValid ==
  /\ Used <= Capacity
  /\ pn <= Capacity - Used
  /\ cn <= Used

\* No byte is written while it is unread or being read: the plain memcpys of
\* the two threads (ringbuf.c 52-78) never touch the same byte.
NoDataRace ==
  /\ WriteSlots \cap Unread = {}
  /\ WriteSlots \cap ReadSlots = {}

\* The counters may wrap past 2^32 - 1 with data in flight and the ring goes
\* on as the bounded FIFO of ringbuf.h: every byte arrives once, in order.
Contents == [i \in 1 .. Used |-> buf[Slot(tail, i - 1)]]

Q == INSTANCE ByteQueue WITH
       queue   <- Contents,
       pending <- SubSeq(src, 1, pn),
       writing <- ppc # "idle",
       granted <- cn,
       reading <- cpc # "idle"
FIFO == Q!Spec

\* A consumer that keeps reading moves the tail past every published byte,
\* even if the producer stalls in the middle of a call.
Drain == \A k \in Counter : (Used > 0 /\ tail = k) ~> (tail # k)
=============================================================================
