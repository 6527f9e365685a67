------------------------------ MODULE ByteQueue ------------------------------
(***************************************************************************)
(* What include/copper/ringbuf.h promises of a CprRingBuffer to one writer *)
(* and one reader: a bounded FIFO of bytes.  How much a call will transfer *)
(* is settled in one instant (Accept, Grant) and takes effect in a later   *)
(* one (Commit, Deliver); nothing is said of indices, caches or copying.   *)
(***************************************************************************)
EXTENDS Naturals, Sequences

CONSTANTS
  Byte,       \* the values a byte can have
  Capacity,   \* bytes the buffer holds
  MaxRequest  \* largest request enumerated

VARIABLES
  queue,      \* the bytes committed and not yet delivered, oldest first
  pending,    \* the bytes of the write call in progress that it will commit
  writing,    \* is a write call in progress?
  granted,    \* how many bytes the read call in progress will deliver
  reading,    \* is a read call in progress?
  wrote,      \* what the last write call returned
  got         \* what the last read call delivered

qvars == <<queue, pending, writing, granted, reading, wrote, got>>

Room == Capacity - Len(queue)
Least(a, b) == IF a < b THEN a ELSE b
Requests == 0 .. MaxRequest
Payload == UNION {[1 .. n -> Byte] : n \in Requests}

Init ==
  /\ queue = <<>> /\ pending = <<>> /\ got = <<>>
  /\ writing = FALSE /\ reading = FALSE
  /\ granted = 0 /\ wrote = 0

-----------------------------------------------------------------------------
(* The writer. *)

Accept(bytes) ==
  /\ ~writing
  /\ writing' = TRUE /\ pending' = bytes
  /\ Len(bytes) <= Room
  /\ UNCHANGED <<queue, granted, reading, wrote, got>>

\* write takes as much as fits, so a call that finds no room takes nothing
\* and a call that is cut short leaves no room.
AcceptSome(bytes) ==
  LET n == Least(Len(bytes), Room) IN n > 0 /\ Accept(SubSeq(bytes, 1, n))

\* A call that transfers nothing: write with nothing to do or no room,
\* write_all with too little room.
Refuse(n) ==
  /\ ~writing
  /\ Least(n, Room) = 0 \/ n > Room
  /\ wrote' = 0
  /\ UNCHANGED <<queue, pending, writing, granted, reading, got>>

Commit ==
  /\ writing
  /\ queue' = queue \o pending
  /\ wrote' = Len(pending)
  /\ writing' = FALSE /\ pending' = <<>>
  /\ UNCHANGED <<granted, reading, got>>

-----------------------------------------------------------------------------
(* The reader. *)

Grant(n) ==
  /\ ~reading
  /\ n <= Len(queue)
  /\ reading' = TRUE /\ granted' = n
  /\ UNCHANGED <<queue, pending, writing, wrote, got>>

GrantSome(n) == LET m == Least(n, Len(queue)) IN m > 0 /\ Grant(m)

ComeBackEmpty(n) ==
  /\ ~reading
  /\ Least(n, Len(queue)) = 0 \/ n > Len(queue)
  /\ got' = <<>>
  /\ UNCHANGED <<queue, pending, writing, granted, reading, wrote>>

Deliver ==
  /\ reading
  /\ got' = SubSeq(queue, 1, granted)
  /\ queue' = SubSeq(queue, granted + 1, Len(queue))
  /\ reading' = FALSE /\ granted' = 0
  /\ UNCHANGED <<pending, writing, wrote>>

-----------------------------------------------------------------------------
Next ==
  \/ \E bytes \in Payload : Accept(bytes) \/ AcceptSome(bytes)
  \/ \E n \in Requests : Refuse(n) \/ Grant(n) \/ GrantSome(n) \/ ComeBackEmpty(n)
  \/ Commit
  \/ Deliver

Spec == Init /\ [][Next]_qvars
=============================================================================
