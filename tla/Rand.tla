--------------------------------- MODULE Rand ---------------------------------
(***************************************************************************)
(* src/rand.c on Linux: filling a buffer from the operating system, with   *)
(* its short reads, interruptions and the fall-back to /dev/urandom; and   *)
(* drawing a number from a range, which rejects words until one is fair.   *)
(* There are Modulus words, 2^32 or 2^64 in the code.                      *)
(***************************************************************************)
EXTENDS Integers, Sequences, FiniteSets, FiniteSetsExt

CONSTANTS
  Modulus,   \* number of words, a power of two
  WordSize,  \* sizeof of a word
  Sizes      \* sizes that callers of rand_bytes ask for

\* Of a power of two these are the powers of two up to it.
Divisors(m) == {d \in 1 .. m : m % d = 0}
IsPowerOfTwo(m) == m \in Nat \ {0} /\ \A d \in Divisors(m) : d = 1 \/ d % 2 = 0

ASSUME RandAssumption ==
  /\ IsPowerOfTwo(Modulus) /\ Modulus # 1
  /\ WordSize \in Nat \ {0} /\ Sizes \subseteq Nat

Words   == 0 .. Modulus - 1
IntMin  == -(Modulus \div 2)
Ints    == IntMin .. -IntMin - 1

Unsigned == {"randr_u32", "randr_u64"}
Signed   == {"randr_i32", "randr_i64"}
NoCall   == [f |-> "none", size |-> 0, min |-> 0, max |-> 0]

VARIABLES
  call,     \* the call in progress with its arguments, or the last one
  at,       \* "idle", or the step it does next
  size,     \* bytes still to fill; those before it are done
  fills,    \* how often each byte of the buffer has been written
  fd,       \* is /dev/urandom open?
  result    \* what the last call returned: a truth value or a number
rvars == <<call, at, size, fills, fd, result>>

RandInit ==
  /\ call = NoCall /\ at = "idle" /\ result = TRUE
  /\ size = 0 /\ fills = <<>> /\ fd = FALSE

-----------------------------------------------------------------------------
(* Ranges: what a word becomes.  Two's complement is undone by adding the  *)
(* least number, modulo the word.                                          *)

biased(c) ==
  IF c.f \in Signed
  THEN [c EXCEPT !.min = (@ - IntMin) % Modulus, !.max = (@ - IntMin) % Modulus]
  ELSE c

\* The number of values in the range; a full range wraps to 0.
width(c) == (biased(c).max - biased(c).min + 1) % Modulus

\* The least acceptable low half of x * width.
\* Mutant: any low half will do.
Bug_threshold(w) == 0
threshold(w) == ((Modulus - w) % Modulus) % w

lemire_accepts(w, x) == (x * w) % Modulus >= threshold(w)
lemire_out(w, x)     == (x * w) \div Modulus

\* All ones up to the highest bit of the largest value: one less than a power
\* of two, so that x & mask is a remainder.
\* Mutant: up to the highest bit of the width.
Bug_pow2_mask(w) == Min({d \in Divisors(Modulus) : d > w}) - 1
pow2_mask(w) == Min({d \in Divisors(Modulus) : d >= w}) - 1

masked(x, mask) == x % (mask + 1)

By32(c) == c.f \in {"randr_u32", "randr_i32"}

accepts(c, x) ==
  width(c) # 0 =>
    IF By32(c) THEN lemire_accepts(width(c), x) ELSE masked(x, pow2_mask(width(c))) < width(c)

out(c, x) ==
  IF width(c) = 0 THEN x
  ELSE IF By32(c) THEN lemire_out(width(c), x)
  ELSE masked(x, pow2_mask(width(c)))

\* The sum wraps; a signed result is read as two's complement.
value(c, x) ==
  LET u == (biased(c).min + out(c, x)) % Modulus
      i == (u - IntMin) % Modulus
  IN  IF c.f \notin Signed THEN u
      ELSE IF i \in Ints THEN i ELSE i - Modulus

-----------------------------------------------------------------------------
(* rand_bytes                                                              *)

\* rand_u32 and rand_u64 start over with a fresh word.
Draw(n) ==
  /\ size' = n /\ fills' = [k \in 1 .. n |-> 0] /\ fd' = FALSE
  /\ at' = IF n = 0 THEN "filled" ELSE "getrandom"

rand_bytes(n) ==
  /\ at = "idle"
  /\ call' = [NoCall EXCEPT !.f = "rand_bytes", !.size = n]
  /\ Draw(n) /\ UNCHANGED result

randr(f, min, max) ==
  /\ at = "idle" /\ min <= max
  /\ call' = [f |-> f, size |-> WordSize, min |-> min, max |-> max]
  /\ Draw(WordSize) /\ UNCHANGED result

\* n bytes arrive where out points, and out and size move past them.
Place(n) ==
  fills' = [k \in DOMAIN fills |->
              fills[k] + (IF k - 1 - (Len(fills) - size) \in 0 .. n - 1 THEN 1 ELSE 0)]

getrandom(n) ==
  /\ at = "getrandom" /\ n \in 1 .. size
  /\ Place(n) /\ size' = size - n
  /\ at' = IF n = size THEN "filled" ELSE at
  /\ UNCHANGED <<call, fd, result>>

\* EINTR is retried as it is; ENOSYS sends the rest to urandom.
\* Mutant: the fall-back begins again with the whole buffer's size.
Bug_getrandom_fails(errno) ==
  /\ at = "getrandom"
  /\ at' = CASE errno = "EINTR"  -> at
             [] errno = "ENOSYS" -> "open"
             [] errno = "EIO"    -> "failed"
  /\ size' = IF errno = "ENOSYS" THEN Len(fills) ELSE size
  /\ UNCHANGED <<call, fills, fd, result>>

getrandom_fails(errno) ==
  /\ at = "getrandom"
  /\ at' = CASE errno = "EINTR"  -> at
             [] errno = "ENOSYS" -> "open"
             [] errno = "EIO"    -> "failed"
  /\ UNCHANGED <<call, size, fills, fd, result>>

open_urandom(ok) ==
  /\ at = "open"
  /\ fd' = ok /\ at' = IF ok THEN "read" ELSE "failed"
  /\ UNCHANGED <<call, size, fills, result>>

read_urandom(n) ==
  /\ at = "read" /\ n \in 1 .. size
  /\ Place(n) /\ size' = size - n
  /\ IF n = size THEN fd' = FALSE /\ at' = "filled" ELSE UNCHANGED <<fd, at>>
  /\ UNCHANGED <<call, result>>

read_fails(errno) ==
  /\ at = "read"
  /\ IF errno = "EINTR" THEN UNCHANGED <<fd, at>> ELSE fd' = FALSE /\ at' = "failed"
  /\ UNCHANGED <<call, size, fills, result>>

-----------------------------------------------------------------------------
(* The end of a draw                                                       *)

Return(r) == at' = "idle" /\ result' = r /\ UNCHANGED <<call, size, fills, fd>>

bytes_done ==
  /\ call.f = "rand_bytes" /\ at \in {"filled", "failed"}
  /\ Return(at = "filled")

\* A word that could not be drawn is used all the same: 0, or with the bytes
\* that did arrive.
Drawn(x) ==
  /\ call.f # "rand_bytes"
  /\ \/ at = "filled"
     \/ at = "failed" /\ (size = WordSize => x = 0)

accept(x) == Drawn(x) /\ accepts(call, x) /\ Return(value(call, x))

reject(x) ==
  /\ Drawn(x) /\ ~accepts(call, x)
  /\ Draw(WordSize) /\ UNCHANGED <<call, result>>

RandNext ==
  \/ \E n \in Sizes : rand_bytes(n)
  \/ \E f \in Unsigned, min \in Words, max \in Words : randr(f, min, max)
  \/ \E f \in Signed, min \in Ints, max \in Ints : randr(f, min, max)
  \/ \E n \in 1 .. size : getrandom(n) \/ read_urandom(n)
  \/ \E errno \in {"EINTR", "ENOSYS", "EIO"} : getrandom_fails(errno)
  \/ \E ok \in BOOLEAN : open_urandom(ok)
  \/ \E errno \in {"EINTR", "EIO"} : read_fails(errno)
  \/ bytes_done
  \/ \E x \in Words : accept(x) \/ reject(x)

RandSpec == RandInit /\ [][RandNext]_rvars

-----------------------------------------------------------------------------
(* Properties *)

\* Over short reads, interruptions and a fall-back in the middle (rand.c
\* 111-123, 35-46) no byte is written twice or beyond the buffer, rand_bytes
\* returns true exactly when every byte has been written, and every way out of
\* the fall-back closes what it opened (rand.c 40, 48).
BytesFilledOnce ==
  /\ size \in 0 .. Len(fills) /\ \A k \in DOMAIN fills : fills[k] <= 1
  /\ at = "filled" => \A k \in DOMAIN fills : fills[k] = 1
  /\ call.f = "rand_bytes" /\ at = "idle" =>
       (result = TRUE <=> \A k \in DOMAIN fills : fills[k] = 1)
  /\ fd => at = "read"

InRange == call.f \in Unsigned \cup Signed
Accepted == {x \in Words : accepts(call, x)}

\* A range call answers inside its range (rand.c 151-191), at the ends of the
\* number range, in ranges across zero and when the generator failed.  Each
\* value of the range is the answer to as many words as any other, and to
\* some: rand.h 33 promises "a uniformly distributed value".
EqualShares ==
  InRange =>
    LET Hits(v) == {x \in Accepted : value(call, x) = v}
    IN  /\ at = "idle" => result \in call.min .. call.max
        /\ \A x \in Accepted : value(call, x) \in call.min .. call.max
        /\ Hits(call.min) # {}
        /\ \A v \in call.min .. call.max : Cardinality(Hits(v)) = Cardinality(Hits(call.min))

\* A draw is accepted more often than not, so a rejection loop (rand.c 159,
\* 172) ends soon with a generator that works.
MostWordsAccepted == InRange => 2 * Cardinality(Accepted) > Modulus

\* What cpr_rand_*_range promises, in value and in time.
RangesAreFair == EqualShares /\ MostWordsAccepted
=============================================================================
