------------------------------ MODULE WordProofs ------------------------------
(***************************************************************************)
(* The two components that compute with machine words.  The mutex version  *)
(* of an atomic implements the atomic word, for any number of threads and  *)
(* any width of the words; that proof never looks into the arithmetic:     *)
(* InType and OfOnes only ever choose a word.  Random bytes fill a buffer  *)
(* once, and a range of random words is fair, for any number of words that *)
(* is a power of two; that proof is all arithmetic.                        *)
(***************************************************************************)
EXTENDS Atomic, Rand, FiniteSetTheorems, SequenceTheorems, WellFoundedInduction, TLAPS

-----------------------------------------------------------------------------
(* atomic.c                                                                *)

Places == {"idle", "lock", "read", "modify", "unlock"}

Shapes ==
  /\ atype \in Types
  /\ mutex \in Threads \cup {Free, Raw}
  /\ apc \in [Threads -> Places]
  /\ DOMAIN request = Threads /\ request = [t \in Threads |-> request[t]]
  /\ DOMAIN prev = Threads /\ prev = [t \in Threads |-> prev[t]]
  /\ DOMAIN expected = Threads /\ expected = [t \in Threads |-> expected[t]]
  /\ DOMAIN ret = Threads /\ ret = [t \in Threads |-> ret[t]]

AInv == Shapes /\ OneInside /\ ReadIsCurrent /\ LocalsFresh /\ CallsNeedInit

\* A request names one of the operations, never the placeholder of a thread
\* outside a call.
LEMMA RequestsNamed ==
  ASSUME NEW t \in Types, NEW r \in Requests(t)
  PROVE  r.op # "none"
BY DEF Types, Requests, I32, U32, I64, U64, Ptr, Swaps, Fetches

LEMMA InvInit == AtomicInit => AInv
BY AtomicAssumption
   DEF AtomicInit, AInv, Shapes, Places, OneInside, Inside, ReadIsCurrent,
       LocalsFresh, CallsNeedInit, NoRequest

\* Each step of the code keeps the invariant.
LEMMA InvStep == AInv /\ [AtomicNext]_avars => AInv'
<1> SUFFICES ASSUME AInv, [AtomicNext]_avars PROVE AInv'
  OBVIOUS
<1> USE AtomicAssumption
        DEF AInv, Shapes, Places, OneInside, Inside, ReadIsCurrent, LocalsFresh,
            CallsNeedInit
<1>1. ASSUME NEW v \in atype.values, atomic_init(v) PROVE AInv'
  BY <1>1 DEF atomic_init, calls
<1>2. CASE atomic_destroy
  BY <1>2 DEF atomic_destroy, calls
<1>3. ASSUME NEW t \in Threads, NEW r \in Requests(atype), Call(t, r) PROVE AInv'
  <2>1. r.op # "none"
    BY RequestsNamed
  <2>2. QED
    BY <1>3, <2>1 DEF Call, Goto
<1>4. ASSUME NEW t \in Threads, lock(t) PROVE AInv'
  BY <1>4 DEF lock, Goto
<1>5. ASSUME NEW t \in Threads, read(t) PROVE AInv'
  BY <1>5 DEF read, Goto
<1>6. ASSUME NEW t \in Threads, modify(t) PROVE AInv'
  <2>1. mutex = t /\ \A u \in Threads \ {t} : apc[u] \in {"idle", "lock"}
    BY <1>6 DEF modify, Goto
  <2>2. CASE modify_load(t)
    BY <1>6, <2>1, <2>2 DEF modify, modify_load, Goto
  <2>3. CASE modify_compare_exchange(t)
    BY <1>6, <2>1, <2>3 DEF modify, modify_compare_exchange, Goto
  <2>4. CASE modify_word(t)
    BY <1>6, <2>1, <2>4 DEF modify, modify_word, Goto
  <2>5. QED
    BY <1>6, <2>2, <2>3, <2>4 DEF modify
<1>7. ASSUME NEW t \in Threads, unlock(t) PROVE AInv'
  BY <1>7 DEF unlock, Goto, NoRequest
<1>8. CASE UNCHANGED avars
  BY <1>8 DEF avars, calls
<1>9. QED
  BY <1>1, <1>2, <1>3, <1>4, <1>5, <1>6, <1>7, <1>8 DEF AtomicNext, AtomicStep

-----------------------------------------------------------------------------
\* Only a thread that moves to or from its return changes what is shown.
LEMMA Hidden ==
  ASSUME AInv, NEW t \in Threads, UNCHANGED <<atype, aword, request, ret, expected>>,
         mutex # Raw, mutex' # Raw,
         NEW to \in Places, apc' = [apc EXCEPT ![t] = to],
         apc[t] \in {"lock", "read"}, to \in {"read", "modify"}
  PROVE  UNCHANGED Word!wvars
BY DEF AInv, Shapes, Word!wvars

\* What `modify' does to the word and hands to the caller is what the request
\* does to it in one step.
LEMMA ModifyTakesEffect ==
  ASSUME AInv, NEW t \in Threads, modify(t)
  PROVE  /\ aword' = Stored(atype, request[t], aword)
         /\ [ret |-> ret'[t], expected |-> expected'[t]]
              = Outcome(atype, request[t], aword)
<1> USE DEF AInv, Shapes, ReadIsCurrent, LocalsFresh, modify, Goto, Stored, Outcome
<1>1. request[t].op # "store" => prev[t] = aword
  OBVIOUS
<1>2. expected[t] = request[t].expected /\ ret[t] = 0
  OBVIOUS
<1>3. CASE modify_load(t)
  BY <1>1, <1>2, <1>3 DEF modify_load
<1>4. CASE modify_compare_exchange(t)
  BY <1>1, <1>2, <1>4 DEF modify_compare_exchange
<1>5. CASE modify_word(t)
  BY <1>1, <1>2, <1>5 DEF modify_word
<1>6. QED
  BY <1>3, <1>4, <1>5

LEMMA RefinesInit == AtomicInit => Word!Init
BY AtomicAssumption DEF AtomicInit, Word!Init, Values

\* Each step of the code is a step of the atomic word or invisible.
LEMMA RefinesStep == AInv /\ [AtomicNext]_avars => [Word!Next]_Word!wvars
<1> SUFFICES ASSUME AInv, [AtomicNext]_avars PROVE Word!Next \/ UNCHANGED Word!wvars
  OBVIOUS
<1> USE AtomicAssumption DEF AInv, Shapes, Places
<1>1. ASSUME NEW v \in atype.values, atomic_init(v) PROVE Word!Next
  <2>1. Word!Initialize(v)
    BY <1>1 DEF atomic_init, calls, Word!Initialize
  <2>2. QED
    BY <2>1 DEF Word!Next, Values
<1>2. ASSUME atomic_destroy PROVE Word!Next
  <2>1. Word!Destroy
    BY <1>2 DEF atomic_destroy, calls, Word!Destroy
  <2>2. QED
    BY <2>1 DEF Word!Next
<1>3. ASSUME NEW t \in Threads, NEW r \in Requests(atype), Call(t, r) PROVE Word!Next
  <2>1. Word!Call(t, r)
    BY <1>3 DEF Call, Goto, Word!Call
  <2>2. QED
    BY <2>1 DEF Word!Next
<1>4. ASSUME NEW t \in Threads, lock(t) PROVE UNCHANGED Word!wvars
  BY <1>4, Hidden DEF lock, Goto
<1>5. ASSUME NEW t \in Threads, read(t) PROVE UNCHANGED Word!wvars
  BY <1>5, Hidden DEF read, Goto, OneInside, Inside
<1>6. ASSUME NEW t \in Threads, modify(t) PROVE Word!Next
  <2>1. apc[t] = "modify" /\ apc' = [apc EXCEPT ![t] = "unlock"]
    BY <1>6 DEF modify, Goto
  <2>2. UNCHANGED <<atype, mutex, request>>
    BY <1>6 DEF modify
  <2>3. \A u \in Threads \ {t} : ret'[u] = ret[u] /\ expected'[u] = expected[u]
    BY <1>6 DEF modify, modify_load, modify_compare_exchange, modify_word
  <2>4. /\ aword' = Stored(atype, request[t], aword)
        /\ [ret |-> ret'[t], expected |-> expected'[t]]
             = Outcome(atype, request[t], aword)
    BY <1>6, ModifyTakesEffect
  <2>5. Word!TakeEffect(t)
    BY <2>1, <2>2, <2>3, <2>4 DEF Word!TakeEffect
  <2>6. QED
    BY <2>5 DEF Word!Next
<1>7. ASSUME NEW t \in Threads, unlock(t) PROVE Word!Next
  <2>1. apc[t] = "unlock" /\ apc' = [apc EXCEPT ![t] = "idle"]
    BY <1>7 DEF unlock, Goto
  <2>2. mutex # Raw /\ mutex' # Raw
    BY <1>7, <2>1 DEF unlock, OneInside, Inside
  <2>3. /\ request' = [request EXCEPT ![t] = NoRequest]
        /\ UNCHANGED <<atype, aword>>
    BY <1>7 DEF unlock
  <2>4. \A u \in Threads \ {t} : ret'[u] = ret[u] /\ expected'[u] = expected[u]
    BY <1>7 DEF unlock
  <2>5. Word!Return(t)
    BY <2>1, <2>2, <2>3, <2>4 DEF Word!Return
  <2>6. QED
    BY <2>5 DEF Word!Next
<1>8. CASE UNCHANGED avars
  BY <1>8 DEF avars, calls, Word!wvars
<1>9. QED
  BY <1>1, <1>2, <1>3, <1>4, <1>5, <1>6, <1>7, <1>8 DEF AtomicNext, AtomicStep

-----------------------------------------------------------------------------
\* cpr_mutex_lock ... cpr_mutex_unlock: never two threads between them, and
\* the thread between them holds the mutex.
THEOREM OneThreadInside == AtomicSpec => []OneInside
<1>1. AInv => OneInside
  BY DEF AInv
<1>2. QED
  BY InvInit, InvStep, <1>1, PTL DEF AtomicSpec

\* The mutex version of every operation is an implementation of the native
\* one: it takes effect in one step between call and return.
THEOREM FallbackIsAtomic == AtomicSpec => IsAtomicWord
<1>1. AtomicSpec => []AInv
  BY InvInit, InvStep, PTL DEF AtomicSpec
<1>2. QED
  BY <1>1, RefinesInit, RefinesStep, PTL DEF AtomicSpec, IsAtomicWord, Word!Spec

-----------------------------------------------------------------------------
(* rand.c: the least element of a set of naturals                          *)

Smaller == {ss \in Nat \X Nat : ss[1] < ss[2]}

LEMMA SmallerIsWellFounded == IsWellFoundedOn(Smaller, Nat)
<1>1. OpToRel(<, Nat) = Smaller
  BY Zenon DEF OpToRel, Smaller
<1> QED
  BY ONLY <1>1, NatLessThanWellFounded, Zenon

\* A set of naturals has a least element: what induction there is rests on it.
LEMMA LeastElement == ASSUME NEW T, T \subseteq Nat, T # {} PROVE \E x \in T : \A y \in T : x <= y
<1>1. \E x \in T : \A y \in T : ~(<<y, x>> \in Smaller)
  BY SmallerIsWellFounded, WFMin
<1>2. \A x, y \in Nat : ~(<<y, x>> \in Smaller) => x <= y
  BY DEF Smaller
<1> QED
  BY <1>1, <1>2

-----------------------------------------------------------------------------
(* Division                                                                *)

\* What division by a positive number is.
LEMMA Division ==
  ASSUME NEW a \in Int, NEW b \in Nat \ {0}
  PROVE  a \div b \in Int /\ a % b \in 0 .. b - 1 /\ a = b * (a \div b) + (a % b)
OBVIOUS

\* The multiples of b are b apart.
LEMMA MoreIsMore ==
  ASSUME NEW b \in Nat \ {0}, NEW x \in Int, NEW y \in Int, x < y
  PROVE  b * x + b <= b * y
<1>1. PICK d \in Nat : y = x + 1 + d
  <2>1. y - x - 1 \in Nat /\ y = x + 1 + (y - x - 1)
    OBVIOUS
  <2> QED
    BY <2>1
<1>2. b * y = b * x + b + b * d
  BY <1>1
<1>3. b * d >= 0
  OBVIOUS
<1>4. b * x \in Int /\ b * d \in Int /\ b * y \in Int
  OBVIOUS
<1> QED
  BY <1>2, <1>3, <1>4

\* Quotient and remainder are what multiplies out.
LEMMA OneDivision ==
  ASSUME NEW b \in Nat \ {0}, NEW q \in Int, NEW r \in 0 .. b - 1, NEW a, a = b * q + r
  PROVE  a \div b = q /\ a % b = r
<1> DEFINE p == a \div b
           s == a % b
<1>1. a \in Int /\ p \in Int /\ s \in 0 .. b - 1 /\ a = b * p + s
  BY Division
<1> HIDE DEF p, s
<1>2. b * p \in Int /\ b * q \in Int
  BY <1>1
<1>3. ~(p < q)
  <2>1. p < q => b * p + b <= b * q
    BY <1>1, MoreIsMore
  <2> QED
    BY <1>1, <1>2, <2>1
<1>4. ~(q < p)
  <2>1. q < p => b * q + b <= b * p
    BY <1>1, MoreIsMore
  <2> QED
    BY <1>1, <1>2, <2>1
<1>5. p = q
  BY <1>1, <1>3, <1>4
<1>6. s = r
  BY <1>1, <1>2, <1>5
<1> QED
  BY <1>5, <1>6 DEF p, s

\* A number at most one turn away from the words wraps by that turn.
LEMMA WordsWrap ==
  ASSUME NEW a \in Int
  PROVE  /\ a \in Words => a % Modulus = a
         /\ a - Modulus \in Words => a % Modulus = a - Modulus
         /\ a + Modulus \in Words => a % Modulus = a + Modulus
<1>1. Modulus \in Nat \ {0}
  BY RandAssumption DEF IsPowerOfTwo
<1>2. ASSUME NEW q \in {-1, 0, 1}, a - Modulus * q \in Words PROVE a % Modulus = a - Modulus * q
  <2>1. PICK r : r = a - Modulus * q
    OBVIOUS
  <2>2. a = Modulus * q + r /\ r \in 0 .. Modulus - 1 /\ q \in Int
    BY <1>1, <1>2, <2>1 DEF Words
  <2>3. a % Modulus = r
    BY <1>1, <2>2, OneDivision
  <2> QED
    BY <2>1, <2>3
<1>3. Modulus * 0 = 0 /\ Modulus * 1 = Modulus /\ Modulus * (-1) = -Modulus
  BY <1>1
<1>4. a - Modulus * 0 = a /\ a - Modulus * 1 = a - Modulus /\ a - Modulus * (-1) = a + Modulus
  BY <1>1
<1> QED
  BY <1>2, <1>4

\* The number of words is even, and a divisor of itself.
LEMMA Halves ==
  /\ Modulus \in Nat \ {0, 1} /\ Modulus \in Divisors(Modulus)
  /\ IntMin \in Int /\ Modulus = -(2 * IntMin) /\ IntMin < 0
<1>1. Modulus \in Nat \ {0, 1}
  BY RandAssumption DEF IsPowerOfTwo
<1>2. Modulus \in Divisors(Modulus)
  <2>1. Modulus = Modulus * 1 + 0 /\ 0 \in 0 .. Modulus - 1
    BY <1>1
  <2>2. Modulus % Modulus = 0
    BY <1>1, <2>1, OneDivision
  <2> QED
    BY <1>1, <2>2 DEF Divisors
<1>3. Modulus % 2 = 0
  BY <1>1, <1>2, RandAssumption DEF IsPowerOfTwo
<1> QED
  BY <1>1, <1>2, <1>3 DEF IntMin

\* The mask is one less than the power of two that has w in its upper half.
LEMMA MaskIs ==
  ASSUME NEW w \in 1 .. Modulus - 1
  PROVE  \E m, k \in Nat \ {0} :
           m = pow2_mask(w) + 1 /\ w <= m /\ m < 2 * w /\ Modulus = m * k
<1> DEFINE S == {d \in Divisors(Modulus) : d >= w}
           m == Min(S)
<1>1. Modulus \in Nat \ {0, 1} /\ Modulus \in S
  BY Halves
<1>2. S \subseteq Nat
  BY DEF Divisors
<1>3. m \in S /\ \A d \in S : m <= d
  <2>1. \E x \in S : \A y \in S : x <= y
    BY <1>1, <1>2, LeastElement
  <2> QED
    BY <2>1 DEF Min
<1> HIDE DEF m
<1>4. m \in 1 .. Modulus /\ Modulus % m = 0 /\ w <= m /\ m \in Nat \ {0} /\ w \in Nat \ {0}
      /\ m \in Divisors(Modulus)
  BY <1>1, <1>3 DEF Divisors
<1>5. PICK k \in Int : Modulus = m * k
  <2>1. Modulus \div m \in Int /\ Modulus = m * (Modulus \div m) + (Modulus % m)
    BY <1>1, <1>4, Division
  <2>2. Modulus = m * (Modulus \div m)
    BY <1>1, <1>4, <2>1
  <2> QED
    BY <2>1, <2>2
<1>6. k \in Nat \ {0}
  <2>1. CASE k < 0
    <3>1. m * k + m <= m * 0
      BY <1>4, <2>1, MoreIsMore
    <3>2. m * 0 = 0 /\ m * k \in Int
      BY <1>4
    <3> QED
      BY <1>1, <1>4, <1>5, <3>1, <3>2
  <2>2. CASE k = 0
    BY <1>1, <1>4, <1>5, <2>2
  <2> QED
    BY <2>1, <2>2
<1>7. m < 2 * w
  <2>1. CASE m = 1
    BY <1>4, <2>1
  <2>2. CASE m # 1
    <3>1. m % 2 = 0
      BY <1>4, <2>2, RandAssumption DEF IsPowerOfTwo
    <3>2. PICK h \in Nat : m = 2 * h /\ h < m /\ h \in 1 .. Modulus
      <4>1. m \div 2 \in Nat /\ m = 2 * (m \div 2) /\ m \div 2 < m /\ m \div 2 \in 1 .. Modulus
        BY <1>1, <1>4, <3>1
      <4> QED
        BY <4>1
    <3>3. Modulus = h * (2 * k) + 0
      BY <1>5, <1>6, <3>2
    <3>4. Modulus % h = 0
      <4>1. 2 * k \in Int /\ 0 \in 0 .. h - 1 /\ h \in Nat \ {0}
        BY <1>6, <3>2
      <4> QED
        BY <3>3, <4>1, OneDivision
    <3>5. h \in Divisors(Modulus)
      BY <3>2, <3>4 DEF Divisors
    <3>6. ~(h >= w)
      BY <1>3, <1>4, <3>2, <3>5
    <3> QED
      BY <1>4, <3>2, <3>6
  <2> QED
    BY <2>1, <2>2
<1>8. m = pow2_mask(w) + 1
  BY <1>4 DEF pow2_mask, m
<1> QED
  BY <1>4, <1>5, <1>6, <1>7, <1>8

-----------------------------------------------------------------------------
(* Ranges                                                                  *)

RangeCall(c) ==
  /\ c = [f |-> c.f, size |-> c.size, min |-> c.min, max |-> c.max]
  /\ c.f \in Unsigned \cup Signed /\ c.min <= c.max
  /\ IF c.f \in Signed THEN c.min \in Ints /\ c.max \in Ints ELSE c.min \in Words /\ c.max \in Words

\* How many values the range has, and the words that become its j-th.
Count(c) == (c.max - c.min) + 1
Share(c, j) == {x \in Words : accepts(c, x) /\ out(c, x) = j}

\* The bias moves a signed range among the words and keeps its length.
LEMMA BiasedIs ==
  ASSUME NEW c, RangeCall(c)
  PROVE  /\ c.min \in Int /\ c.max \in Int /\ Count(c) \in 1 .. Modulus
         /\ biased(c).min = IF c.f \in Signed THEN c.min - IntMin ELSE c.min
         /\ biased(c).max = biased(c).min + (c.max - c.min)
         /\ biased(c).min \in Words /\ biased(c).max \in Words
         /\ width(c) = IF Count(c) = Modulus THEN 0 ELSE Count(c)
<1>1. /\ Modulus \in Nat \ {0, 1} /\ IntMin \in Int /\ Modulus = -(2 * IntMin) /\ IntMin < 0
  BY Halves
<1>2. c.min \in Int /\ c.max \in Int /\ c.min <= c.max
  BY <1>1 DEF RangeCall, Ints, Words
<1>3. /\ biased(c).min = IF c.f \in Signed THEN c.min - IntMin ELSE c.min
      /\ biased(c).max = IF c.f \in Signed THEN c.max - IntMin ELSE c.max
      /\ biased(c).min \in Words /\ biased(c).max \in Words
  <2>1. CASE c.f \in Signed
    <3>1. /\ biased(c).min = (c.min - IntMin) % Modulus /\ biased(c).max = (c.max - IntMin) % Modulus
      <4>1. DOMAIN c = {"f", "size", "min", "max"}
        BY DEF RangeCall
      <4> QED
        BY <2>1, <4>1 DEF biased
    <3>2. /\ c.min - IntMin \in Words /\ c.max - IntMin \in Words
          /\ c.min - IntMin \in Int /\ c.max - IntMin \in Int
      BY <1>1, <1>2, <2>1 DEF RangeCall, Ints, Words
    <3>3. (c.min - IntMin) % Modulus = c.min - IntMin /\ (c.max - IntMin) % Modulus = c.max - IntMin
      BY <3>2, WordsWrap
    <3> QED
      BY <2>1, <3>1, <3>2, <3>3
  <2>2. CASE c.f \notin Signed
    BY <2>2 DEF biased, RangeCall
  <2> QED
    BY <2>1, <2>2
<1>4. PICK lo, hi : lo = biased(c).min /\ hi = biased(c).max
  OBVIOUS
<1>5. lo \in Words /\ hi \in Words /\ hi = lo + (c.max - c.min)
  BY <1>1, <1>2, <1>3, <1>4 DEF Words
<1>6. Count(c) \in 1 .. Modulus /\ hi - lo + 1 = Count(c) /\ Count(c) \in Int
  BY <1>1, <1>2, <1>5 DEF Words, Count
<1>7. width(c) = Count(c) % Modulus
  BY <1>4, <1>6 DEF width
<1>8. Count(c) % Modulus = IF Count(c) = Modulus THEN 0 ELSE Count(c)
  <2>1. CASE Count(c) = Modulus
    <3>1. Count(c) - Modulus = 0 /\ 0 \in Words
      BY <1>1, <2>1 DEF Words
    <3> QED
      BY <1>6, <2>1, <3>1, WordsWrap
  <2>2. CASE Count(c) # Modulus
    <3>1. Count(c) \in Words
      BY <1>1, <1>6, <2>2 DEF Words
    <3> QED
      BY <1>6, <2>2, <3>1, WordsWrap
  <2> QED
    BY <2>1, <2>2
<1> QED
  BY <1>2, <1>3, <1>4, <1>5, <1>6, <1>7, <1>8

\* The bias is taken off again.
LEMMA ValueIs ==
  ASSUME NEW c, RangeCall(c), NEW x, out(c, x) \in 0 .. Count(c) - 1
  PROVE  value(c, x) = c.min + out(c, x)
<1>1. /\ Modulus \in Nat \ {0, 1} /\ IntMin \in Int /\ Modulus = -(2 * IntMin) /\ IntMin < 0
  BY Halves
<1>2. /\ c.min \in Int /\ c.max \in Int
      /\ biased(c).min = IF c.f \in Signed THEN c.min - IntMin ELSE c.min
      /\ biased(c).max = biased(c).min + (c.max - c.min)
      /\ biased(c).min \in Words /\ biased(c).max \in Words
  BY BiasedIs
<1>3. PICK o : o = out(c, x)
  OBVIOUS
<1>4. o \in Nat /\ o <= c.max - c.min
  BY <1>2, <1>3 DEF Count
<1>5. PICK u : u = biased(c).min + o
  OBVIOUS
<1>6. u \in Words /\ u \in Int /\ u % Modulus = u
  <2>1. u \in Words /\ u \in Int
    BY <1>1, <1>2, <1>4, <1>5 DEF Words
  <2> QED
    BY <2>1, WordsWrap
<1>7. CASE c.f \notin Signed
  BY <1>2, <1>3, <1>5, <1>6, <1>7 DEF value
<1>8. CASE c.f \in Signed
  <2>1. u = (c.min - IntMin) + o /\ c.min + o \in Int
    BY <1>2, <1>4, <1>5, <1>8
  <2>2. PICK i : i = (u - IntMin) % Modulus
    OBVIOUS
  <2>3. value(c, x) = IF i \in Ints THEN i ELSE i - Modulus
    BY <1>3, <1>5, <1>6, <1>8, <2>2 DEF value
  <2>4. CASE c.min + o >= 0
    <3>1. u - IntMin \in Int /\ (u - IntMin) - Modulus \in Words /\ (u - IntMin) - Modulus = c.min + o
      BY <1>1, <1>2, <1>4, <1>6, <2>1, <2>4 DEF Words
    <3>2. i = c.min + o
      BY <2>2, <3>1, WordsWrap
    <3>3. i \in Ints
      BY <1>1, <1>2, <1>4, <1>6, <2>1, <2>4, <3>2 DEF Ints, Words
    <3> QED
      BY <1>3, <2>3, <3>2, <3>3
  <2>5. CASE c.min + o < 0
    <3>1. u - IntMin \in Int /\ u - IntMin \in Words /\ u - IntMin = (c.min + o) + Modulus
      BY <1>1, <1>2, <1>4, <1>6, <2>1, <2>5 DEF Words
    <3>2. i = (c.min + o) + Modulus
      BY <2>2, <3>1, WordsWrap
    <3>3. i \notin Ints
      BY <1>1, <1>2, <1>4, <1>6, <2>1, <2>5, <3>2 DEF Ints, Words
    <3> QED
      BY <1>1, <1>3, <2>1, <2>3, <3>2, <3>3
  <2> QED
    BY <2>1, <2>4, <2>5
<1> QED
  BY <1>7, <1>8

\* Lemire's step: the multiples of w in an interval of q * w numbers.
LEMMA LemireHits ==
  ASSUME NEW w \in 1 .. Modulus - 1
  PROVE  \E q \in Nat \ {0} :
           /\ 2 * (q * w) > Modulus
           /\ \A j \in 0 .. w - 1 : \E a \in Int :
                {x \in Words : lemire_accepts(w, x) /\ lemire_out(w, x) = j} = a .. (a + q) - 1
<1> DEFINE M == Modulus
           T == M % w
<1>1. M \in Nat \ {0, 1} /\ w \in Nat \ {0} /\ w < M
  BY Halves
<1>2. PICK q \in Int : M = w * q + T /\ T \in 0 .. w - 1
  <2>1. M \div w \in Int /\ T \in 0 .. w - 1 /\ M = w * (M \div w) + T
    BY <1>1, Division
  <2> QED
    BY <2>1
<1>3. threshold(w) = T
  <2>1. M - w \in Words /\ M - w \in Int
    BY <1>1 DEF Words
  <2>2. (M - w) % M = M - w
    BY <2>1, WordsWrap
  <2>3. M - w = w * (q - 1) + T /\ q - 1 \in Int
    BY <1>1, <1>2
  <2>4. (M - w) % w = T
    <3> HIDE DEF T
    <3> QED
      BY <1>1, <1>2, <2>3, OneDivision
  <2> QED
    BY <2>2, <2>4 DEF threshold
<1> HIDE DEF M, T
<1>4. q \in Nat \ {0} /\ w * q \in Nat /\ w * q >= w
  <2>1. ~(q < 0) /\ q # 0
    <3>1. q < 0 => w * q + w <= w * 0
      BY <1>1, MoreIsMore
    <3>2. w * 0 = 0 /\ w * q \in Int
      BY <1>1, <1>2
    <3> QED
      BY <1>1, <1>2, <3>1, <3>2
  <2>2. 0 < q => w * 0 + w <= w * q
    BY <1>1, MoreIsMore
  <2>3. w * 0 = 0 /\ w * q \in Int
    BY <1>1, <1>2
  <2> QED
    BY <1>1, <1>2, <2>1, <2>2, <2>3
<1>5. 2 * (q * w) > M
  <2>1. q * w = w * q
    BY <1>1, <1>4
  <2> QED
    BY <1>1, <1>2, <1>4, <2>1
<1>6. ASSUME NEW j \in 0 .. w - 1
      PROVE  \E a \in Int :
               {x \in Words : lemire_accepts(w, x) /\ lemire_out(w, x) = j} = a .. (a + q) - 1
  <2>1. PICK s \in Nat : s = M * j + T /\ M * j \in Nat /\ M * j + M <= M * w
    <3>1. j \in Nat /\ M * j \in Nat /\ T \in Nat
      BY <1>1, <1>2
    <3>2. M * j + M <= M * w
      BY <1>1, MoreIsMore
    <3> QED
      BY <3>1, <3>2
  <2>2. PICK a \in Int : s <= w * a /\ w * a < s + w
    <3> DEFINE n == (s + w) - 1
    <3>0. n \in Int /\ n = (s + w) - 1
      BY <1>1, <2>1
    <3> HIDE DEF n
    <3>1. n \in Int /\ n \div w \in Int /\ n % w \in 0 .. w - 1 /\ n = w * (n \div w) + (n % w)
      BY <1>1, <3>0, Division
    <3>2. PICK a \in Int, r \in 0 .. w - 1 : n = w * a + r
      BY <3>1
    <3>3. w * a \in Int
      BY <1>1
    <3>4. s <= w * a /\ w * a < s + w
      BY <1>1, <2>1, <3>0, <3>2, <3>3
    <3> QED
      BY <3>4
  <2>3. ASSUME NEW x \in Words
        PROVE  (lemire_accepts(w, x) /\ lemire_out(w, x) = j) <=> (s <= x * w /\ x * w < M * j + M)
    <3> DEFINE y == x * w
               d == y \div M
               r == y % M
    <3>1. x \in Nat /\ y \in Int
      BY <1>1 DEF Words
    <3> HIDE DEF y
    <3>2. d \in Int /\ r \in 0 .. M - 1 /\ y = M * d + r
      BY <1>1, <3>1, Division
    <3> HIDE DEF d, r
    <3>3. (lemire_accepts(w, x) /\ lemire_out(w, x) = j) <=> (r >= T /\ d = j)
      BY <1>3 DEF lemire_accepts, lemire_out, M, d, r, y
    <3>4. ASSUME r >= T, d = j PROVE s <= y /\ y < M * j + M
      BY <1>1, <1>2, <2>1, <3>2, <3>4
    <3>5. ASSUME s <= y, y < M * j + M PROVE r >= T /\ d = j
      <4>1. PICK e \in 0 .. M - 1 : y = M * j + e /\ e >= T
        <5>1. y - M * j \in 0 .. M - 1 /\ y = M * j + (y - M * j) /\ y - M * j >= T
          BY <1>1, <1>2, <2>1, <3>1, <3>5
        <5> QED
          BY <5>1
      <4>2. y \div M = j /\ y % M = e
        <5>1. M \in Nat \ {0} /\ j \in Int /\ e \in 0 .. M - 1 /\ y = M * j + e
          BY <1>1, <4>1
        <5> QED
          BY ONLY <5>1, OneDivision
      <4> QED
        BY <4>1, <4>2 DEF d, r
    <3> QED
      BY <3>3, <3>4, <3>5 DEF y
  <2>4. M * j + M = s + w * q /\ s + w * q \in Int
    BY <1>1, <1>2, <1>4, <2>1
  <2>5. ASSUME NEW x \in Int PROVE (s <= x * w /\ x * w < M * j + M) <=> x \in a .. (a + q) - 1
    <3>1. x * w = w * x /\ w * x \in Int /\ w * a \in Int /\ w * (a + q) = w * a + w * q
      BY <1>1, <1>4
    <3>2. ASSUME a <= x, x < a + q PROVE s <= w * x /\ w * x < s + w * q
      <4>1. w * a <= w * x
        <5>1. a < x => w * a + w <= w * x
          BY <1>1, MoreIsMore
        <5> QED
          BY <1>1, <3>1, <3>2, <5>1
      <4>2. w * x + w <= w * a + w * q
        <5>1. w * x + w <= w * (a + q)
          BY <1>1, <1>4, <3>2, MoreIsMore
        <5> QED
          BY <3>1, <5>1
      <4> QED
        BY <1>1, <1>4, <2>1, <2>2, <3>1, <4>1, <4>2
    <3>3. ASSUME s <= w * x, w * x < s + w * q PROVE a <= x /\ x < a + q
      <4>1. x < a => w * x + w <= w * a
        BY <1>1, MoreIsMore
      <4>2. ~(x < a)
        BY <1>1, <2>1, <2>2, <3>1, <3>3, <4>1
      <4>3. a + q \in Int /\ (a + q < x => w * (a + q) + w <= w * x)
        BY <1>1, <1>4, MoreIsMore
      <4>4. ~(a + q < x) /\ x # a + q
        BY <1>1, <1>4, <2>1, <2>2, <3>1, <3>3, <4>3
      <4> QED
        BY <1>4, <4>2, <4>4
    <3>4. x \in a .. (a + q) - 1 <=> (a <= x /\ x < a + q)
      BY <1>4
    <3> QED
      BY <2>4, <3>1, <3>2, <3>3, <3>4
  <2>6. ASSUME NEW x \in a .. (a + q) - 1 PROVE x \in Words
    <3>1. x \in Int
      BY <1>4
    <3>2. s <= x * w /\ x * w < M * j + M
      BY <2>5, <3>1
    <3>3. x * w = w * x /\ M * w = w * M /\ w * x \in Int /\ w * M \in Int /\ w * 0 = 0
      BY <1>1, <3>1
    <3>4. ~(x < 0)
      <4>1. x < 0 => w * x + w <= w * 0
        BY <1>1, <3>1, MoreIsMore
      <4> QED
        BY <1>1, <2>1, <3>2, <3>3, <4>1
    <3>5. ~(M < x) /\ x # M
      <4>1. M < x => w * M + w <= w * x
        BY <1>1, <3>1, MoreIsMore
      <4> QED
        BY <1>1, <2>1, <3>2, <3>3, <4>1
    <3> QED
      BY <1>1, <3>1, <3>4, <3>5 DEF Words, M
  <2>7. \A x \in Words : x \in Int
    BY DEF Words
  <2> QED
    BY <2>3, <2>5, <2>6, <2>7
<1> QED
  BY <1>4, <1>5, <1>6 DEF M

\* The words that a mask of m - 1 sends to j are every m-th.
LEMMA MaskHits ==
  ASSUME NEW w \in 1 .. Modulus - 1
  PROVE  \E n \in Nat \ {0} :
           /\ 2 * (n * w) > Modulus
           /\ \A j \in 0 .. w - 1 :
                LET S == {x \in Words : masked(x, pow2_mask(w)) < w /\ masked(x, pow2_mask(w)) = j}
                IN  IsFiniteSet(S) /\ Cardinality(S) = n
<1>1. PICK m, n \in Nat \ {0} : m = pow2_mask(w) + 1 /\ w <= m /\ m < 2 * w /\ Modulus = m * n
  BY MaskIs
<1>2. w \in Nat \ {0} /\ Modulus \in Nat \ {0, 1}
  BY Halves
<1>3. 2 * (n * w) > Modulus
  <2>1. n * m + n <= n * (2 * w)
    BY <1>1, <1>2, MoreIsMore
  <2>2. n * m = m * n /\ n * (2 * w) = 2 * (n * w) /\ n * w \in Int
    BY <1>1, <1>2
  <2> QED
    BY <1>1, <1>2, <2>1, <2>2
<1>4. ASSUME NEW j \in 0 .. w - 1, NEW S,
             S = {x \in Words : masked(x, pow2_mask(w)) < w /\ masked(x, pow2_mask(w)) = j}
      PROVE  IsFiniteSet(S) /\ Cardinality(S) = n
  <2>1. \A x : x \in S <=> x \in Words /\ x % m = j
    BY <1>1, <1>2, <1>4 DEF masked
  <2>2. j \in 0 .. m - 1 /\ j \in Nat
    BY <1>1, <1>2
  <2> DEFINE f == [i \in 0 .. n - 1 |-> m * i + j]
  <2>3. ASSUME NEW i \in 0 .. n - 1 PROVE f[i] \in S /\ f[i] \div m = i
    <3>1. PICK x : x = m * i + j
      OBVIOUS
    <3>2. x \div m = i /\ x % m = j
      <4>1. m \in Nat \ {0} /\ i \in Int /\ j \in 0 .. m - 1
        BY <1>1, <2>2
      <4> QED
        BY ONLY <3>1, <4>1, OneDivision
    <3>3. x \in Words
      <4>1. m * i + m <= m * n
        BY <1>1, MoreIsMore
      <4>2. m * i \in Nat
        BY <1>1
      <4> QED
        BY <1>1, <1>2, <2>2, <3>1, <4>1, <4>2 DEF Words
    <3> QED
      BY <2>1, <3>1, <3>2, <3>3
  <2>4. ASSUME NEW x \in S PROVE \E i \in 0 .. n - 1 : f[i] = x
    <3>1. PICK i \in Int : x = m * i + j
      <4>1. x \in Int /\ x % m = j
        BY <2>1 DEF Words
      <4>2. x \div m \in Int /\ x = m * (x \div m) + (x % m)
        BY <1>1, <4>1, Division
      <4> QED
        BY <4>1, <4>2
    <3>2. 0 <= x /\ x < m * n /\ x \in Int
      BY <1>1, <1>2, <2>1 DEF Words
    <3>3. m * i \in Int /\ m * n \in Int /\ m * 0 = 0
      BY <1>1
    <3>4. ~(i < 0)
      <4>1. i < 0 => m * i + m <= m * 0
        BY <1>1, MoreIsMore
      <4> QED
        BY <1>1, <2>2, <3>1, <3>2, <3>3, <4>1
    <3>5. ~(n < i) /\ i # n
      <4>1. n < i => m * n + m <= m * i
        BY <1>1, MoreIsMore
      <4> QED
        BY <1>1, <2>2, <3>1, <3>2, <3>3, <4>1
    <3>6. i \in 0 .. n - 1
      BY <1>1, <3>1, <3>4, <3>5
    <3> QED
      BY <3>1, <3>6
  <2>5. f \in [0 .. n - 1 -> S]
    BY <2>3
  <2>6. \A i, k \in 0 .. n - 1 : f[i] = f[k] => i = k
    BY <2>3
  <2> HIDE DEF f
  <2>7. f \in Bijection(0 .. n - 1, S)
    BY <2>4, <2>5, <2>6 DEF Bijection, Injection, Surjection, IsInjective
  <2>8. IsFiniteSet(0 .. n - 1) /\ Cardinality(0 .. n - 1) = n
    <3>1. 0 \in Int /\ n - 1 \in Int /\ ~(0 > n - 1) /\ (n - 1) - 0 + 1 = n
      BY <1>1
    <3> QED
      BY <3>1, FS_Interval
  <2> QED
    BY <2>7, <2>8, FS_Bijection DEF ExistsBijection
<1> QED
  BY <1>1, <1>3, <1>4

\* h sends n elements of A to each number below w: part j.
EquallyParted(A, w, n, h, part) ==
  /\ \A x \in A : h[x] \in 0 .. w - 1
  /\ \A j \in 0 .. w - 1 : \A x : x \in part[j] <=> x \in A /\ h[x] = j
  /\ \A j \in 0 .. w - 1 : IsFiniteSet(part[j]) /\ Cardinality(part[j]) = n

LEMMA EqualParts ==
  ASSUME NEW A, NEW w \in Nat, NEW n \in Nat, NEW h, NEW part, EquallyParted(A, w, n, h, part)
  PROVE  IsFiniteSet(A) /\ Cardinality(A) = w * n
<1> USE DEF EquallyParted
<1> DEFINE b == [j \in 0 .. w - 1 |-> CHOOSE g : g \in Bijection(1 .. n, part[j])]
           I == (0 .. w - 1) \X (1 .. n)
           F == [k \in I |-> b[k[1]][k[2]]]
<1>1. ASSUME NEW j \in 0 .. w - 1 PROVE b[j] \in Bijection(1 .. n, part[j])
  <2>1. ExistsBijection(1 .. n, part[j])
    BY FS_CardinalityType
  <2> QED
    BY <2>1 DEF ExistsBijection
<1> HIDE DEF b
<1>2. ASSUME NEW j \in 0 .. w - 1, NEW i \in 1 .. n
      PROVE  b[j][i] \in A /\ h[b[j][i]] = j /\ \A k \in 1 .. n : b[j][i] = b[j][k] => i = k
  <2>1. b[j] \in Bijection(1 .. n, part[j])
    BY <1>1
  <2>2. b[j][i] \in part[j] /\ \A k \in 1 .. n : b[j][i] = b[j][k] => i = k
    BY <2>1 DEF Bijection, Injection, IsInjective
  <2> QED
    BY <2>2
<1>3. ASSUME NEW x \in A PROVE \E k \in I : F[k] = x
  <2>1. PICK j \in 0 .. w - 1 : h[x] = j
    OBVIOUS
  <2>2. x \in part[j] /\ b[j] \in Bijection(1 .. n, part[j])
    BY <1>1, <2>1
  <2>3. PICK i \in 1 .. n : b[j][i] = x
    BY <2>2 DEF Bijection, Surjection
  <2>4. <<j, i>> \in I /\ F[<<j, i>>] = x
    BY <2>3
  <2> QED
    BY <2>4
<1>4. F \in [I -> A] /\ \A k, l \in I : F[k] = F[l] => k = l
  <2>1. ASSUME NEW k \in I PROVE F[k] \in A /\ h[F[k]] = k[1]
    BY <1>2
  <2>2. ASSUME NEW k \in I, NEW l \in I, F[k] = F[l] PROVE k = l
    <3>1. k[1] = l[1]
      BY <2>1, <2>2
    <3>2. k[2] = l[2]
      BY <1>2, <2>2, <3>1
    <3> QED
      BY <3>1, <3>2
  <2> QED
    BY <2>1, <2>2
<1> HIDE DEF F, I
<1>5. F \in Bijection(I, A)
  BY <1>3, <1>4 DEF Bijection, Injection, Surjection, IsInjective
<1>6. IsFiniteSet(I) /\ Cardinality(I) = w * n
  <2>1. IsFiniteSet(0 .. w - 1) /\ Cardinality(0 .. w - 1) = w
    <3>1. 0 \in Int /\ w - 1 \in Int /\ (IF 0 > w - 1 THEN 0 ELSE (w - 1) - 0 + 1) = w
      OBVIOUS
    <3> QED
      BY <3>1, FS_Interval
  <2>2. IsFiniteSet(1 .. n) /\ Cardinality(1 .. n) = n
    <3>1. 1 \in Int /\ n \in Int /\ (IF 1 > n THEN 0 ELSE n - 1 + 1) = n
      OBVIOUS
    <3> QED
      BY <3>1, FS_Interval
  <2>3. PICK S, U : S = 0 .. w - 1 /\ U = 1 .. n
    OBVIOUS
  <2>4. IsFiniteSet(S \X U) /\ Cardinality(S \X U) = Cardinality(S) * Cardinality(U)
    BY <2>1, <2>2, <2>3, FS_Product
  <2> QED
    BY <2>1, <2>2, <2>3, <2>4 DEF I
<1> QED
  BY <1>5, <1>6, FS_Bijection DEF ExistsBijection

\* A word that is accepted becomes a place in the range.
LEMMA OutIs ==
  ASSUME NEW c, RangeCall(c), NEW x \in Words, accepts(c, x)
  PROVE  out(c, x) \in 0 .. Count(c) - 1
<1>1. /\ Modulus \in Nat \ {0, 1} /\ Count(c) \in 1 .. Modulus
      /\ width(c) = IF Count(c) = Modulus THEN 0 ELSE Count(c)
  BY Halves, BiasedIs
<1>2. PICK w : w = Count(c)
  OBVIOUS
<1>3. CASE w = Modulus
  BY <1>1, <1>2, <1>3 DEF out, Words
<1>4. CASE w # Modulus
  <2>1. width(c) = w /\ w \in 1 .. Modulus - 1 /\ w # 0
    BY <1>1, <1>2, <1>4
  <2>2. CASE By32(c)
    <3> DEFINE y == x * w
               d == y \div Modulus
    <3>1. y \in Int /\ x \in Int /\ 0 <= x /\ x < Modulus /\ y = w * x
      BY <1>1, <2>1 DEF Words
    <3>2. w * 0 = 0 /\ (0 < x => w * 0 + w <= w * x) /\ w * x + w <= w * Modulus
      BY <1>1, <2>1, <3>1, MoreIsMore
    <3>3. 0 <= y /\ y < Modulus * w /\ Modulus * w \in Int
      <4>1. w * Modulus = Modulus * w /\ w * Modulus \in Int
        BY <1>1, <2>1
      <4> QED
        BY <2>1, <3>1, <3>2, <4>1
    <3> HIDE DEF y
    <3>4. PICK r \in 0 .. Modulus - 1 : d \in Int /\ y = Modulus * d + r
      <4>1. Modulus \in Nat \ {0} /\ y \in Int
        BY <1>1, <3>1
      <4>2. d \in Int /\ y % Modulus \in 0 .. Modulus - 1 /\ y = Modulus * d + (y % Modulus)
        BY ONLY <4>1, Division
      <4> QED
        BY <4>2
    <3>5. out(c, x) = d
      BY <2>1, <2>2 DEF out, lemire_out, y
    <3> HIDE DEF d
    <3>6. Modulus * d \in Int /\ Modulus * 0 = 0
      BY <1>1, <3>4
    <3>7. ~(d < 0)
      <4>1. d < 0 => Modulus * d + Modulus <= Modulus * 0
        BY <1>1, <3>4, MoreIsMore
      <4> QED
        BY <1>1, <3>3, <3>4, <3>6, <4>1
    <3>8. ~(w < d) /\ d # w
      <4>1. w < d => Modulus * w + Modulus <= Modulus * d
        BY <1>1, <2>1, <3>4, MoreIsMore
      <4> QED
        BY <1>1, <3>3, <3>4, <3>6, <4>1
    <3> QED
      BY <1>2, <2>1, <3>4, <3>5, <3>7, <3>8
  <2>3. CASE ~By32(c)
    <3>1. PICK m \in Nat \ {0} : m = pow2_mask(w) + 1
      BY <2>1, MaskIs
    <3>2. out(c, x) = x % m /\ x % m < w
      BY <2>1, <2>3, <3>1 DEF out, accepts, masked
    <3>3. x % m \in 0 .. m - 1
      BY <3>1, Division DEF Words
    <3> QED
      BY <1>2, <2>1, <3>1, <3>2, <3>3
  <2> QED
    BY <2>2, <2>3
<1> QED
  BY <1>3, <1>4

\* Every place of a range is what equally many words become.
LEMMA Shares ==
  ASSUME NEW c, RangeCall(c)
  PROVE  \E n \in Nat \ {0} :
           /\ 2 * (n * Count(c)) > Modulus
           /\ \A j \in 0 .. Count(c) - 1 : IsFiniteSet(Share(c, j)) /\ Cardinality(Share(c, j)) = n
<1>1. /\ Modulus \in Nat \ {0, 1} /\ Count(c) \in 1 .. Modulus
      /\ width(c) = IF Count(c) = Modulus THEN 0 ELSE Count(c)
  BY Halves, BiasedIs
<1>2. PICK w : w = Count(c)
  OBVIOUS
<1>3. CASE w = Modulus
  <2>1. width(c) = 0
    BY <1>1, <1>2, <1>3
  <2>2. ASSUME NEW j \in 0 .. w - 1 PROVE Share(c, j) = {j}
    BY <1>1, <1>3, <2>1 DEF Share, accepts, out, Words
  <2>3. \A j \in 0 .. w - 1 : IsFiniteSet(Share(c, j)) /\ Cardinality(Share(c, j)) = 1
    BY <2>2, FS_Singleton
  <2>4. 1 \in Nat \ {0} /\ 2 * (1 * w) > Modulus
    BY <1>1, <1>3
  <2> QED
    BY <1>2, <2>3, <2>4
<1>4. CASE w # Modulus
  <2>1. width(c) = w /\ w \in 1 .. Modulus - 1 /\ w # 0
    BY <1>1, <1>2, <1>4
  <2>2. CASE By32(c)
    <3>1. PICK q \in Nat \ {0} :
            /\ 2 * (q * w) > Modulus
            /\ \A j \in 0 .. w - 1 : \E a \in Int :
                 {x \in Words : lemire_accepts(w, x) /\ lemire_out(w, x) = j} = a .. (a + q) - 1
      BY <2>1, LemireHits
    <3>2. ASSUME NEW j \in 0 .. w - 1
          PROVE  IsFiniteSet(Share(c, j)) /\ Cardinality(Share(c, j)) = q
      <4>1. Share(c, j) = {x \in Words : lemire_accepts(w, x) /\ lemire_out(w, x) = j}
        BY <2>1, <2>2 DEF Share, accepts, out
      <4>2. PICK a \in Int : Share(c, j) = a .. (a + q) - 1
        BY <3>1, <4>1
      <4>3. PICK b \in Int : b = (a + q) - 1 /\ ~(a > b) /\ b - a + 1 = q
        BY <3>1
      <4> QED
        BY <4>2, <4>3, FS_Interval
    <3> QED
      BY <1>2, <3>1, <3>2
  <2>3. CASE ~By32(c)
    <3>1. PICK n \in Nat \ {0} :
            /\ 2 * (n * w) > Modulus
            /\ \A j \in 0 .. w - 1 :
                 LET S == {x \in Words : masked(x, pow2_mask(w)) < w /\ masked(x, pow2_mask(w)) = j}
                 IN  IsFiniteSet(S) /\ Cardinality(S) = n
      BY <2>1, MaskHits
    <3>2. ASSUME NEW j \in 0 .. w - 1
          PROVE  Share(c, j) = {x \in Words : masked(x, pow2_mask(w)) < w /\ masked(x, pow2_mask(w)) = j}
      BY <2>1, <2>3 DEF Share, accepts, out
    <3> QED
      BY <1>2, <3>1, <3>2
  <2> QED
    BY <2>2, <2>3
<1> QED
  BY <1>3, <1>4

\* What a call returns lies in its range.
LEMMA InItsRange ==
  ASSUME NEW c, RangeCall(c), NEW x \in Words, accepts(c, x)
  PROVE  value(c, x) \in c.min .. c.max
<1>1. out(c, x) \in 0 .. Count(c) - 1 /\ c.min \in Int /\ c.max \in Int
  BY OutIs, BiasedIs
<1>2. value(c, x) = c.min + out(c, x)
  BY <1>1, ValueIs
<1> QED
  BY <1>1, <1>2 DEF Count

-----------------------------------------------------------------------------
(* Filling a buffer                                                        *)

\* The length of a function on 1 .. m.
LEMMA LengthOf ==
  ASSUME NEW m \in Nat, NEW s, s = [k \in 1 .. m |-> s[k]]
  PROVE  Len(s) = m
<1> DEFINE S == {s[k] : k \in 1 .. m}
<1>1. s \in [1 .. m -> S]
  OBVIOUS
<1>2. s \in Seq(S)
  BY <1>1, SeqDef
<1> HIDE DEF S
<1>3. Len(s) \in Nat /\ 1 .. Len(s) = 1 .. m
  BY <1>1, <1>2, LenProperties
<1> QED
  BY <1>3

\* The bytes before the last left, and no others, have been written, once.
Filled(s, m, left) == s = [k \in 1 .. m |-> IF k <= m - left THEN 1 ELSE 0]

FillInv ==
  /\ at \in {"idle", "getrandom", "open", "read", "filled", "failed"}
  /\ \E m \in Nat : Filled(fills, m, size) /\ size \in 0 .. m
  /\ at \in {"getrandom", "open", "read", "failed"} => size > 0
  /\ at = "filled" => size = 0
  /\ fd => at = "read"
  /\ call.f = "rand_bytes" /\ at = "idle" => (result = TRUE <=> size = 0)

CallInv ==
  /\ call.f \in {"none", "rand_bytes"} \cup Unsigned \cup Signed
  /\ InRange => RangeCall(call) /\ (at = "idle" => result \in call.min .. call.max)

RandInv == FillInv /\ CallInv

LEMMA FillLength ==
  ASSUME NEW m \in Nat, NEW s, NEW left, Filled(s, m, left)
  PROVE  Len(s) = m /\ DOMAIN s = 1 .. m
<1>1. s = [k \in 1 .. m |-> s[k]] /\ DOMAIN s = 1 .. m
  BY DEF Filled
<1> QED
  BY <1>1, LengthOf

LEMMA Placed ==
  ASSUME NEW m \in Nat, Filled(fills, m, size), size \in 0 .. m, NEW n \in 1 .. size, Place(n)
  PROVE  Filled(fills', m, size - n)
<1>1. Len(fills) = m /\ DOMAIN fills = 1 .. m
  BY FillLength
<1>2. \A k \in 1 .. m : fills[k] = IF k <= m - size THEN 1 ELSE 0
  BY DEF Filled
<1>3. fills' = [k \in 1 .. m |-> fills[k] + (IF k - 1 - (m - size) \in 0 .. n - 1 THEN 1 ELSE 0)]
  BY <1>1 DEF Place
<1>4. ASSUME NEW k \in 1 .. m
      PROVE  fills[k] + (IF k - 1 - (m - size) \in 0 .. n - 1 THEN 1 ELSE 0)
               = IF k <= m - (size - n) THEN 1 ELSE 0
  BY <1>2
<1> QED
  BY <1>3, <1>4 DEF Filled

LEMMA DrawFills ==
  ASSUME NEW n \in Nat, Draw(n), call'.f # "rand_bytes" \/ at' # "idle"
  PROVE  FillInv'
<1>1. Filled(fills', n, size') /\ size' \in 0 .. n
  BY DEF Draw, Filled
<1> QED
  BY <1>1 DEF Draw, FillInv

LEMMA RandInitial == RandInit => RandInv
<1> SUFFICES ASSUME RandInit PROVE RandInv
  OBVIOUS
<1>1. Filled(fills, 0, size) /\ size \in 0 .. 0
  BY DEF RandInit, Filled
<1> QED
  BY <1>1 DEF RandInit, NoCall, RandInv, FillInv, CallInv, InRange, Unsigned, Signed

LEMMA FillStep == RandInv /\ [RandNext]_rvars => FillInv'
<1> SUFFICES ASSUME RandInv, [RandNext]_rvars PROVE FillInv'
  OBVIOUS
<1>0. PICK m \in Nat : Filled(fills, m, size) /\ size \in 0 .. m
  BY DEF RandInv, FillInv
<1>1. ASSUME NEW n \in Sizes, rand_bytes(n) PROVE FillInv'
  <2>1. n \in Nat /\ Draw(n) /\ at' # "idle"
    BY <1>1, RandAssumption DEF rand_bytes, Draw
  <2> QED
    BY <2>1, DrawFills
<1>2. ASSUME NEW f, NEW min, NEW max, randr(f, min, max) PROVE FillInv'
  <2>1. WordSize \in Nat /\ Draw(WordSize) /\ at' # "idle"
    BY <1>2, RandAssumption DEF randr, Draw
  <2> QED
    BY <2>1, DrawFills
<1>3. ASSUME NEW n \in 1 .. size, getrandom(n) \/ read_urandom(n) PROVE FillInv'
  <2>1. Filled(fills', m, size') /\ size' \in 0 .. m /\ size' = size - n
    BY <1>0, <1>3, Placed DEF getrandom, read_urandom
  <2>2. at \in {"getrandom", "read"} /\ at' = (IF n = size THEN "filled" ELSE at)
        /\ (fd' => fd) /\ (n = size /\ at = "read" => ~fd')
    BY <1>3 DEF getrandom, read_urandom
  <2>3. n = size <=> size' = 0
    BY <1>0, <2>1
  <2>4. fd' => at' = "read"
    BY <2>2 DEF RandInv, FillInv
  <2> QED
    BY <1>0, <2>1, <2>2, <2>3, <2>4 DEF FillInv
<1>4. ASSUME NEW errno \in {"EINTR", "ENOSYS", "EIO"}, getrandom_fails(errno) PROVE FillInv'
  BY <1>0, <1>4 DEF getrandom_fails, RandInv, FillInv
<1>5. ASSUME NEW ok \in BOOLEAN, open_urandom(ok) PROVE FillInv'
  BY <1>0, <1>5 DEF open_urandom, RandInv, FillInv
<1>6. ASSUME NEW errno \in {"EINTR", "EIO"}, read_fails(errno) PROVE FillInv'
  BY <1>0, <1>6 DEF read_fails, RandInv, FillInv
<1>7. CASE bytes_done
  <2>1. size' = size /\ fills' = fills /\ fd' = fd /\ at' = "idle" /\ result' = (at = "filled")
        /\ at \in {"filled", "failed"}
    BY <1>7 DEF bytes_done, Return
  <2>2. ~fd'
    BY <2>1 DEF RandInv, FillInv
  <2>3. result' = TRUE <=> size' = 0
    <3>1. CASE at = "filled"
      <4>1. size = 0
        BY <3>1 DEF RandInv, FillInv
      <4>2. result' = TRUE
        BY <2>1, <3>1, Zenon
      <4> QED
        BY <2>1, <4>1, <4>2
    <3>2. CASE at = "failed"
      <4>1. size > 0 /\ at # "filled"
        BY <3>2 DEF RandInv, FillInv
      <4>2. result' = FALSE
        BY <2>1, <4>1, Zenon
      <4>3. size # 0
        BY <1>0, <4>1
      <4> QED
        BY <2>1, <4>2, <4>3
    <3> QED
      BY <2>1, <3>1, <3>2
  <2> QED
    BY <1>0, <2>1, <2>2, <2>3 DEF FillInv
<1>8. ASSUME NEW x \in Words, accept(x) PROVE FillInv'
  BY <1>0, <1>8 DEF accept, Drawn, Return, RandInv, FillInv
<1>9. ASSUME NEW x \in Words, reject(x) PROVE FillInv'
  <2>1. WordSize \in Nat /\ Draw(WordSize) /\ at' # "idle"
    BY <1>9, RandAssumption DEF reject, Draw
  <2> QED
    BY <2>1, DrawFills
<1>10. CASE UNCHANGED rvars
  BY <1>0, <1>10 DEF rvars, RandInv, FillInv
<1> QED
  BY <1>1, <1>2, <1>3, <1>4, <1>5, <1>6, <1>7, <1>8, <1>9, <1>10 DEF RandNext

LEMMA CallStep == RandInv /\ [RandNext]_rvars => CallInv'
<1> SUFFICES ASSUME RandInv, [RandNext]_rvars PROVE CallInv'
  OBVIOUS
<1>1. ASSUME NEW n \in Sizes, rand_bytes(n) PROVE CallInv'
  BY <1>1 DEF rand_bytes, NoCall, CallInv, InRange, Unsigned, Signed
<1>2. ASSUME NEW f \in Unsigned \cup Signed, NEW min, NEW max, randr(f, min, max),
             IF f \in Signed THEN min \in Ints /\ max \in Ints ELSE min \in Words /\ max \in Words
      PROVE  CallInv'
  <2>1. PICK c : c = [f |-> f, size |-> WordSize, min |-> min, max |-> max]
    OBVIOUS
  <2>2. call' = c /\ at' # "idle" /\ min <= max
    BY <1>2, <2>1 DEF randr, Draw
  <2>3. RangeCall(c) /\ c.f \in Unsigned \cup Signed
    BY <1>2, <2>1, <2>2 DEF RangeCall
  <2> QED
    BY <2>2, <2>3 DEF CallInv
<1>3. ASSUME call' = call, at' # "idle" \/ call.f = "rand_bytes" PROVE CallInv'
  BY <1>3 DEF RandInv, CallInv, InRange, Unsigned, Signed
<1>4. ASSUME NEW n \in 1 .. size, getrandom(n) \/ read_urandom(n) PROVE CallInv'
  BY <1>3, <1>4 DEF getrandom, read_urandom
<1>5. ASSUME NEW errno \in {"EINTR", "ENOSYS", "EIO"}, getrandom_fails(errno) PROVE CallInv'
  BY <1>3, <1>5 DEF getrandom_fails
<1>6. ASSUME NEW ok \in BOOLEAN, open_urandom(ok) PROVE CallInv'
  BY <1>3, <1>6 DEF open_urandom
<1>7. ASSUME NEW errno \in {"EINTR", "EIO"}, read_fails(errno) PROVE CallInv'
  BY <1>3, <1>7 DEF read_fails
<1>8. CASE bytes_done
  BY <1>3, <1>8 DEF bytes_done, Return
<1>9. ASSUME NEW x \in Words, accept(x) PROVE CallInv'
  <2>1. call' = call /\ result' = value(call, x) /\ accepts(call, x) /\ at' = "idle" /\ call.f # "rand_bytes"
    BY <1>9 DEF accept, Return, Drawn
  <2>2. ASSUME InRange PROVE value(call, x) \in call.min .. call.max
    BY <2>1, <2>2, InItsRange DEF RandInv, CallInv
  <2> QED
    BY <2>1, <2>2 DEF RandInv, CallInv, InRange
<1>10. ASSUME NEW x \in Words, reject(x) PROVE CallInv'
  <2>1. call' = call /\ at' # "idle"
    BY <1>10 DEF reject, Draw
  <2> QED
    BY <1>3, <2>1
<1>11. CASE UNCHANGED rvars
  BY <1>11 DEF rvars, RandInv, CallInv, InRange
<1>12. ASSUME NEW f \in Unsigned, NEW min \in Words, NEW max \in Words, randr(f, min, max) PROVE CallInv'
  <2>1. f \notin Signed
    BY DEF Unsigned, Signed
  <2> QED
    BY <1>2, <1>12, <2>1
<1>13. ASSUME NEW f \in Signed, NEW min \in Ints, NEW max \in Ints, randr(f, min, max) PROVE CallInv'
  BY <1>2, <1>13
<1> QED
  BY <1>1, <1>4, <1>5, <1>6, <1>7, <1>8, <1>9, <1>10, <1>11, <1>12, <1>13 DEF RandNext

LEMMA RandInvariant == RandSpec => []RandInv
<1>1. RandInv /\ [RandNext]_rvars => RandInv'
  BY FillStep, CallStep DEF RandInv
<1> QED
  BY <1>1, RandInitial, PTL DEF RandSpec

(***************************************************************************)
(* Over any sizes, short reads, interruptions and a fall-back at any byte, *)
(* cpr_rand_bytes writes no byte twice or beyond the buffer, returns true  *)
(* exactly when it has written them all, and closes /dev/urandom whichever *)
(* way it leaves (rand.c 25-50, 89-129).                                   *)
(***************************************************************************)
THEOREM EachByteFilledOnce == RandSpec => []BytesFilledOnce
<1>1. RandInv => BytesFilledOnce
  <2> SUFFICES ASSUME RandInv PROVE BytesFilledOnce
    OBVIOUS
  <2>1. PICK m \in Nat : Filled(fills, m, size) /\ size \in 0 .. m
    BY DEF RandInv, FillInv
  <2>2. /\ Len(fills) = m /\ DOMAIN fills = 1 .. m
        /\ \A k \in 1 .. m : fills[k] = IF k <= m - size THEN 1 ELSE 0
    BY <2>1, FillLength DEF Filled
  <2>3. \A k \in DOMAIN fills : fills[k] <= 1
    BY <2>2
  <2>4. size = 0 <=> \A k \in DOMAIN fills : fills[k] = 1
    <3>1. ASSUME size = 0, NEW k \in DOMAIN fills PROVE fills[k] = 1
      BY <2>2, <3>1
    <3>2. ASSUME size # 0 PROVE \E k \in DOMAIN fills : fills[k] # 1
      <4>1. m \in 1 .. m /\ ~(m <= m - size)
        BY <2>1, <3>2
      <4> QED
        BY <2>2, <4>1
    <3> QED
      BY <3>1, <3>2
  <2> QED
    BY <2>1, <2>2, <2>3, <2>4 DEF RandInv, FillInv, BytesFilledOnce
<1> QED
  BY <1>1, RandInvariant, PTL

(***************************************************************************)
(* Whatever the power of two that numbers the words, and whatever the      *)
(* range, of signed or unsigned words and up to all of them: each of the   *)
(* four range calls answers inside its range, every value of the range is  *)
(* the answer to equally many words, and more than half of all words are   *)
(* accepted (rand.c 54-85, 151-191).                                       *)
(***************************************************************************)
THEOREM EveryRangeIsFair == RandSpec => []RangesAreFair
<1>1. RandInv => RangesAreFair
  <2> SUFFICES ASSUME RandInv, InRange PROVE EqualShares /\ MostWordsAccepted
    BY DEF RangesAreFair, EqualShares, MostWordsAccepted
  <2> DEFINE w == Count(call)
             Becoming(v) == {x \in Accepted : value(call, x) = v}
  <2>1. RangeCall(call) /\ (at = "idle" => result \in call.min .. call.max)
    BY DEF RandInv, CallInv
  <2>2. call.min \in Int /\ call.max \in Int /\ w \in 1 .. Modulus /\ call.min <= call.max
        /\ w = (call.max - call.min) + 1 /\ w \in Nat
    <3>1. call.min \in Int /\ call.max \in Int /\ w \in 1 .. Modulus /\ Modulus \in Nat
      BY <2>1, BiasedIs, Halves
    <3> QED
      BY <2>1, <3>1 DEF RangeCall, Count
  <2>3. PICK n \in Nat \ {0} :
          /\ 2 * (n * w) > Modulus
          /\ \A j \in 0 .. w - 1 : IsFiniteSet(Share(call, j)) /\ Cardinality(Share(call, j)) = n
    BY <2>1, Shares
  <2>4. \A x \in Accepted : out(call, x) \in 0 .. w - 1 /\ value(call, x) = call.min + out(call, x)
    BY <2>1, OutIs, ValueIs DEF Accepted
  <2> HIDE DEF w
  <2>5. ASSUME NEW v \in call.min .. call.max
        PROVE  Becoming(v) = Share(call, v - call.min) /\ v - call.min \in 0 .. w - 1
    <3>1. \A x \in Accepted : value(call, x) = v <=> out(call, x) = v - call.min
      BY <2>2, <2>4
    <3>2. v - call.min \in 0 .. w - 1
      BY <2>2
    <3> QED
      BY <3>1, <3>2 DEF Accepted, Share
  <2>6. EqualShares
    <3>1. \A x \in Accepted : value(call, x) \in call.min .. call.max
      BY <2>2, <2>4
    <3>2. \A v \in call.min .. call.max : IsFiniteSet(Becoming(v)) /\ Cardinality(Becoming(v)) = n
      BY <2>3, <2>5
    <3>3. call.min \in call.min .. call.max
      BY <2>2
    <3>4. Becoming(call.min) # {}
      BY <2>3, <3>2, <3>3, FS_EmptySet
    <3> QED
      BY <2>1, <3>1, <3>2, <3>3, <3>4 DEF EqualShares
  <2>7. MostWordsAccepted
    <3> DEFINE h == [x \in Accepted |-> out(call, x)]
               part == [j \in 0 .. w - 1 |-> Share(call, j)]
    <3>1. \A x \in Accepted : h[x] \in 0 .. w - 1
      BY <2>4
    <3>2. \A j \in 0 .. w - 1 : part[j] = {x \in Accepted : h[x] = j}
      BY DEF Share, Accepted
    <3>3. \A j \in 0 .. w - 1 : IsFiniteSet(part[j]) /\ Cardinality(part[j]) = n
      BY <2>3
    <3> HIDE DEF h, part
    <3>4. Cardinality(Accepted) = w * n
      <4>1. EquallyParted(Accepted, w, n, h, part)
        BY <3>1, <3>2, <3>3 DEF EquallyParted
      <4>2. w \in Nat /\ n \in Nat
        BY <2>2
      <4> QED
        BY ONLY <4>1, <4>2, EqualParts
    <3>5. w * n = n * w
      BY <2>2
    <3> QED
      BY <2>3, <3>4, <3>5 DEF MostWordsAccepted
  <2> QED
    BY <2>6, <2>7
<1> QED
  BY <1>1, RandInvariant, PTL
=============================================================================
